---------------------------- MODULE ProfileRecord ----------------------------
\* A session's profile record: the editProfile tool reads it, sets some fields and
\* puts it back; the firehose carries each version to the AppView's profiles table
\* (editProfile.ts, indexProfile of indexer.ts). Calls of one session may overlap.
EXTENDS Naturals, Sequences

CONSTANTS
    Field,     \* description, displayName, avatar
    Avatar,    \* the field whose value is uploaded first
    ProfileEdit,      \* editProfile calls
    MaxReplay  \* bound: times the AppView reads its log again

ASSUME ProfileAssumption == Avatar \in Field /\ MaxReplay \in Nat

VARIABLES
    repo,      \* the PDS: the record at rkey self, or NoProfile
    log,       \* the PDS: its versions, in commit order
    handled,   \* the versions the AppView has indexed
    profiles,  \* table: the actor's row, or NoProfile
    replays,
    edits,     \* the calls, by the await they are at
    saved,     \* history: of each field, the value of the last call that set it
    overlapped \* history: the fields of calls that overlapped another one

profileVars == <<repo, log, handled, profiles, replays, edits, saved, overlapped>>

\* A value is the call that gave it, or Empty, a text of no characters; Unset is a
\* field the record does not have.
Unset == "unset"
Empty == "empty"

NoProfile == [f \in Field |-> Unset]

Record == [Field -> ProfileEdit \cup {Empty, Unset}]

\* A call gives some of the fields, an empty text or a picture to upload among them.
EditCall == [at : {"idle", "read", "upload", "put", "over"}, sets : SUBSET Field,
         empty : SUBSET Field, base : Record, again : BOOLEAN]

ProfileTypes ==
    /\ {repo, profiles, saved} \subseteq Record
    /\ log \in Seq(Record)
    /\ handled \in 0..Len(log)
    /\ replays \in 0..MaxReplay
    /\ edits \in [ProfileEdit -> EditCall]
    /\ overlapped \subseteq Field

ProfileInit ==
    /\ repo = NoProfile
    /\ log = <<>>
    /\ handled = 0
    /\ profiles = NoProfile
    /\ replays = 0
    /\ edits = [e \in ProfileEdit |-> [at |-> "idle", sets |-> {}, empty |-> {}, base |-> NoProfile,
                               again |-> FALSE]]
    /\ saved = NoProfile
    /\ overlapped = {}

-----------------------------------------------------------------------------
\* editProfile.

UnderWay(e) == edits[e].at \in {"read", "upload", "put"}

\* A call with nothing to set is refused; the record is asked for. Some fields may be
\* set to an empty text; an avatar is a file.
CallEdit(e, fields, empty) ==
    /\ edits[e].at = "idle"
    /\ fields # {}
    /\ empty \subseteq fields \ {Avatar}
    /\ edits' = [edits EXCEPT ![e].at = "read", ![e].sets = fields, ![e].empty = empty]
    /\ LET others == {d \in ProfileEdit \ {e} : UnderWay(d)}
       IN  overlapped' = IF others = {} THEN overlapped
                      ELSE overlapped \cup fields \cup UNION {edits[d].sets : d \in others}
    /\ UNCHANGED <<repo, log, handled, profiles, replays, saved>>

\* getRecord answers with the record as it is, or that there is none. An avatar is
\* uploaded before the record is put.
Fetch(e) ==
    /\ edits[e].at = "read"
    /\ edits' = [edits EXCEPT ![e].base = repo,
                              ![e].at = IF Avatar \in edits[e].sets THEN "upload" ELSE "put"]
    /\ UNCHANGED <<repo, log, handled, profiles, replays, saved, overlapped>>

Upload(e) ==
    /\ edits[e].at = "upload"
    /\ edits' = [edits EXCEPT ![e].at = "put"]
    /\ UNCHANGED <<repo, log, handled, profiles, replays, saved, overlapped>>

\* The value of a field the call sets.
Given(e, f) == IF f \in edits[e].empty THEN Empty ELSE e

MergedRecordBug(e) == [f \in Field |-> IF f \in edits[e].sets THEN Given(e, f) ELSE Unset]

\* The record that is put: the one that was read with the call's own fields set.
MergedRecord(e) == [f \in Field |-> IF f \in edits[e].sets THEN Given(e, f) ELSE edits[e].base[f]]

\* putRecord is applied. Whether its answer arrives changes nothing but what the tool
\* reports.
Put(e) ==
    /\ edits[e].at = "put"
    /\ repo' = MergedRecord(e)
    /\ log' = Append(log, repo')
    /\ edits' = [edits EXCEPT ![e].at = "over"]
    /\ saved' = [f \in Field |-> IF f \in edits[e].sets THEN Given(e, f) ELSE saved[f]]
    /\ UNCHANGED <<handled, profiles, replays, overlapped>>

\* An await ends with an authentication failure: withAuthedAgent logs in and runs the
\* whole call once more, from its read.
Again(e) ==
    /\ UnderWay(e)
    /\ ~edits[e].again
    /\ edits' = [edits EXCEPT ![e].at = "read", ![e].again = TRUE]
    /\ UNCHANGED <<repo, log, handled, profiles, replays, saved, overlapped>>

\* Any other error, or a record the lexicon refuses, ends the call.
Fails(e) ==
    /\ UnderWay(e)
    /\ edits' = [edits EXCEPT ![e].at = "over"]
    /\ UNCHANGED <<repo, log, handled, profiles, replays, saved, overlapped>>

\* External: another client deletes the record.
Withdraw ==
    /\ repo # NoProfile
    /\ repo' = NoProfile
    /\ log' = Append(log, NoProfile)
    /\ saved' = NoProfile
    /\ overlapped' = IF \E e \in ProfileEdit : UnderWay(e) THEN Field ELSE overlapped
    /\ UNCHANGED <<handled, profiles, replays, edits>>

-----------------------------------------------------------------------------
\* The AppView.

\* The row an event leaves: every column is the record's, and none if the record was
\* deleted.
IndexProfile ==
    /\ handled < Len(log)
    /\ handled' = handled + 1
    /\ profiles' = log[handled']
    /\ UNCHANGED <<repo, log, replays, edits, saved, overlapped>>

\* A restart reads the log again from an earlier place.
Reread(n) ==
    /\ replays < MaxReplay
    /\ n < handled
    /\ handled' = n
    /\ replays' = replays + 1
    /\ UNCHANGED <<repo, log, profiles, edits, saved, overlapped>>

ProfileNext ==
    \/ \E e \in ProfileEdit, fields, empty \in SUBSET Field : CallEdit(e, fields, empty)
    \/ \E e \in ProfileEdit : Fetch(e) \/ Upload(e) \/ Put(e) \/ Again(e) \/ Fails(e)
    \/ Withdraw
    \/ IndexProfile
    \/ \E n \in 0..Len(log) : Reread(n)

ProfileSpec == ProfileInit /\ [][ProfileNext]_profileVars

\* What getProfile shows: an empty text like no text at all.
Shown(row) == [f \in Field |-> IF row[f] = Empty THEN Unset ELSE row[f]]

-----------------------------------------------------------------------------
\* When the AppView has caught up, a profile shows of each field the value last saved
\* for it: a call wipes no field it does not set (editProfile.ts:43-46), also when it
\* is run again after a login, and a log that is read again leaves no older value.
\* Excused are the fields of calls that overlapped: each puts back what it read.
SavedIsShown ==
    handled = Len(log) =>
        \A f \in Field \ overlapped : Shown(profiles)[f] = Shown(saved)[f]

=============================================================================
