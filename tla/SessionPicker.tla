---------------------------- MODULE SessionPicker ----------------------------
\* `ait resume` (sessionPicker.ts): find the conversations on this machine, ask the
\* directory which of their handles are live, and let the operator choose. The
\* directory goes on changing between the two searches for one handle.
EXTENDS Directory

CONSTANTS
    Session,     \* the conversations of this machine
    Recent,      \* the sessions, last used first
    HandleOf,    \* of each session: its actor, or NeverJoined
    NeverJoined

ASSUME PickerAssumption ==
    /\ Recent \in Seq(Session)
    /\ IsInjective(Recent)
    /\ HandleOf \in [Session -> Actor \cup {NeverJoined}]
    /\ NeverJoined \notin Actor
    /\ \A a \in Actor : {a} \in Query   \* a whole handle can be searched for

VARIABLES
    step,      \* where chooseSession waits
    asked,     \* what the operator gave: the sessions it matches exactly, and in part
    found,     \* the sessions discovered
    unchecked, \* the handles still to be checked
    checking,  \* the handle being checked, or NeverJoined
    liveFound, \* the handles found live
    screen,    \* the rows last rendered: what a number selects from
    started,   \* the sessions handed to a harness
    confirmed, \* the operator answered yes
    excused    \* history: handles that were not live, not found by the directory,
               \* or listed again, at some time while they were checked

pickerVars == <<step, asked, found, unchecked, checking, liveFound, screen, started, confirmed, excused>>

\* An identity file with a handle can be read for it.
HasJoined == {s \in Session : HandleOf[s] # NeverJoined}

\* What can be typed: an identifier or a handle matches exactly, any text may be
\* part of a handle, a harness or a project; only joined sessions are searched.
Text == [exact : {{s} : s \in Session} \cup {{s \in Session : HandleOf[s] = a} : a \in Actor} \cup {{}},
         like : SUBSET HasJoined]

PickerTypes ==
    /\ step \in {"discover", "check", "listed", "retired", "choose", "confirm", "over"}
    /\ asked \in Text
    /\ found \subseteq Session
    /\ unchecked \subseteq Actor
    /\ checking \in Actor \cup {NeverJoined}
    /\ liveFound \subseteq Actor
    /\ screen \in Seq(Session)
    /\ started \subseteq Session
    /\ confirmed \in BOOLEAN
    /\ excused \subseteq Actor

PickerInit ==
    /\ step = "discover"
    /\ asked \in Text
    /\ found = {}
    /\ unchecked = {}
    /\ checking = NeverJoined
    /\ liveFound = {}
    /\ screen = <<>>
    /\ started = {}
    /\ confirmed = FALSE
    /\ excused = {}

-----------------------------------------------------------------------------
\* The transcripts of Claude and the threads the shared app-server answers for; one
\* that cannot be read is left out, and so is Codex if its server is not answering.
Discover(sessions) ==
    /\ step = "discover"
    /\ found' = sessions
    /\ unchecked' = {HandleOf[s] : s \in sessions \cap HasJoined}
    /\ step' = "check"
    /\ UNCHANGED <<asked, checking, liveFound, screen, started, confirmed, searches>>

\* The next handle: its own prefix is searched among the listed actors.
Check(a) ==
    /\ step = "check"
    /\ a \in unchecked
    /\ unchecked' = unchecked \ {a}
    /\ checking' = a
    /\ searches' = [searches EXCEPT ![1] = Sent({a}, FALSE)]
    /\ step' = "listed"
    /\ UNCHANGED <<asked, found, liveFound, screen, started, confirmed>>

\* The answer is searched for the handle itself.
Has(answer, a) == \E i \in DOMAIN answer : answer[i] = a

\* isLive is asked when the answer is put together.
NoteLive == liveFound' = IF checking \in live THEN liveFound \cup {checking} ELSE liveFound

\* The handle is listed: that answer decides.
Listed ==
    /\ step = "listed"
    /\ searches[1].stage = "read"
    /\ Has(Answer(1), checking)
    /\ NoteLive
    /\ step' = "check"
    /\ checking' = NeverJoined
    /\ searches' = [searches EXCEPT ![1] = NoSearch]
    /\ UNCHANGED <<asked, found, unchecked, screen, started, confirmed>>

SecondSearchBug(a) == Sent({a}, FALSE)

\* The search for a handle that is missing among the listed ones.
SecondSearch(a) == Sent({a}, TRUE)

\* It is not: the retired ones are searched, in a second call.
NotListed ==
    /\ step = "listed"
    /\ searches[1].stage = "read"
    /\ ~Has(Answer(1), checking)
    /\ searches' = [searches EXCEPT ![1] = SecondSearch(checking)]
    /\ step' = "retired"
    /\ UNCHANGED <<asked, found, unchecked, checking, liveFound, screen, started, confirmed>>

\* Found there or nowhere.
Retired ==
    /\ step = "retired"
    /\ searches[1].stage = "read"
    /\ IF Has(Answer(1), checking) THEN NoteLive ELSE UNCHANGED liveFound
    /\ step' = "check"
    /\ checking' = NeverJoined
    /\ searches' = [searches EXCEPT ![1] = NoSearch]
    /\ UNCHANGED <<asked, found, unchecked, screen, started, confirmed>>

\* The AppView does not answer: nothing is started without knowing who is live.
SearchFails ==
    /\ step \in {"listed", "retired"}
    /\ step' = "over"
    /\ checking' = NeverJoined
    /\ searches' = [searches EXCEPT ![1] = NoSearch]
    /\ UNCHANGED <<asked, found, unchecked, liveFound, screen, started, confirmed>>

-----------------------------------------------------------------------------
\* chooseSession, once every handle was checked.

Live(s) == HandleOf[s] \in liveFound

Ordered(sessions) == Chosen(Recent, sessions)

\* What a list shows: sessions that joined and are not live.
Listable(sessions) == {s \in sessions : s \in HasJoined /\ ~Live(s)}

\* Two or more sessions match exactly: they are shown and nothing is started.
Ambiguous ==
    /\ step = "check" /\ unchecked = {}
    /\ \E s, t \in asked.exact \cap found : s # t
    /\ screen' = Ordered({s \in asked.exact \cap found : Live(s)})
                 \o Ordered({s \in asked.exact \cap found : ~Live(s)})
    /\ step' = "over"
    /\ UNCHANGED <<asked, found, unchecked, checking, liveFound, started, confirmed, searches>>

\* One matches exactly: it is started, or if it is live the operator is asked.
Exact(s) ==
    /\ step = "check" /\ unchecked = {}
    /\ asked.exact \cap found = {s}
    /\ IF Live(s)
       THEN step' = "confirm" /\ UNCHANGED started
       ELSE step' = "over" /\ started' = started \cup {s}
    /\ UNCHANGED <<asked, found, unchecked, checking, liveFound, screen, confirmed, searches>>

\* None does: those that match are listed, or there is none.
List ==
    /\ step = "check" /\ unchecked = {}
    /\ asked.exact \cap found = {}
    /\ screen' = Ordered(Listable(found) \cap asked.like)
    /\ step' = IF screen' = <<>> THEN "over" ELSE "choose"
    /\ UNCHANGED <<asked, found, unchecked, checking, liveFound, started, confirmed, searches>>

\* yes or anything else, for the one live session that matched.
Confirm(yes) ==
    /\ step = "confirm"
    /\ confirmed' = yes
    /\ started' = IF yes THEN asked.exact \cap found ELSE started
    /\ step' = "over"
    /\ UNCHANGED <<asked, found, unchecked, checking, liveFound, screen, searches>>

OfferedBug == Ordered(found)

\* The rows a number or a text is looked up in: those of the last list.
Offered == screen

\* A number: the row that was shown with it, or none.
Number(n) ==
    /\ step = "choose"
    /\ started' = IF n \in DOMAIN Offered THEN started \cup {Offered[n]} ELSE started
    /\ step' = "over"
    /\ UNCHANGED <<asked, found, unchecked, checking, liveFound, screen, confirmed, searches>>

\* A text narrows the list: one match is started, several are listed again.
Narrow(like) ==
    /\ step = "choose"
    /\ LET narrowed == Chosen(Offered, like)
       IN  \/ /\ Len(narrowed) = 1
              /\ started' = started \cup {narrowed[1]}
              /\ step' = "over"
              /\ UNCHANGED screen
           \/ /\ Len(narrowed) > 1
              /\ screen' = narrowed
              /\ UNCHANGED <<started, step>>
           \/ /\ narrowed = <<>>
              /\ step' = "over"
              /\ UNCHANGED <<started, screen>>
    /\ UNCHANGED <<asked, found, unchecked, checking, liveFound, confirmed, searches>>

\* Ctrl-C or the end of the input, at a question.
Cancel ==
    /\ step \in {"choose", "confirm"}
    /\ step' = "over"
    /\ UNCHANGED <<asked, found, unchecked, checking, liveFound, screen, started, confirmed, searches>>

PickerStep ==
    \/ \E sessions \in SUBSET Session : Discover(sessions)
    \/ \E a \in Actor : Check(a)
    \/ Listed
    \/ NotListed
    \/ Retired
    \/ SearchFails
    \/ Ambiguous
    \/ \E s \in Session : Exact(s)
    \/ List
    \/ \E yes \in BOOLEAN : Confirm(yes)
    \/ \E n \in 1..Len(Recent) + 1 : Number(n)
    \/ \E like \in SUBSET HasJoined : Narrow(like)
    \/ Cancel

-----------------------------------------------------------------------------
\* The directory moves on while the picker waits for an answer. What would keep a
\* live session from being found is noted: no registration, no row that a search
\* sweeps, or a handle that is listed again between its two searches.
Missable(a) ==
    \/ a \notin live' \cap resolves'
    \/ ~actors'[a].known
    \/ ~actors'[a].active
    \/ actors[a].retiredAt # 0 /\ actors'[a].retiredAt = 0

NoteExcuses == excused' = excused \cup {a \in Actor : checking' = a /\ Missable(a)}

\* What happens in the directory to the handles of the conversations; a search is
\* for one handle, so that no other actor is in its answer.
Elsewhere ==
    \/ \E i \in Slot : ReadRows(i)
    \/ \E a \in {HandleOf[s] : s \in HasJoined} :
        \/ IndexRecord(a) \/ IdentityChanges(a) \/ LiveChanges(a)
        \/ \E active \in BOOLEAN : IndexAccount(a, active)
        \/ \E viewer \in Actor, retired \in BOOLEAN : SetRetired(viewer, a, retired)

\* Once the handles are checked the picker does not look at the directory any more.
PickerNext ==
    /\ \/ PickerStep /\ UNCHANGED <<actors, resolves, live, calls, retiredSince>>
       \/ /\ step \in {"discover", "check", "listed", "retired"}
          /\ Elsewhere
          /\ UNCHANGED <<step, asked, found, unchecked, checking, liveFound, screen, started, confirmed>>
    /\ NoteExcuses

PickerSpec == DirectoryInit /\ PickerInit /\ [][PickerNext]_<<directoryVars, pickerVars>>

\* A session whose handle was live while it was checked is never handed to a harness
\* without the operator's yes, retired or not; excused are an actor the directory
\* could not resolve or did not hold as active, and a handle that was listed again
\* between the two searches (sessionPicker.ts:222-225).
AsksFirst ==
    \A s \in started \cap HasJoined : confirmed \/ HandleOf[s] \in excused

\* At most one session is started; it is the only one that was named exactly, or no
\* session was and it is on the list shown last; a conversation that never joined is
\* started only by its identifier (sessionPicker.ts:403-404).
StartsWhatWasNamed ==
    \A s \in started :
        /\ started = {s}
        /\ \/ asked.exact \cap found = {s}
           \/ /\ asked.exact \cap found = {}
              /\ s \in HasJoined
              /\ \E i \in DOMAIN screen : screen[i] = s

=============================================================================
