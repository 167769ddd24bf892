----------------------------- MODULE AittyIdentity -----------------------------
\* aitty's account and follows (identity.ts, main.ts, and the follow commands of
\* commands.ts): one file on this machine, read once by each run of aitty and written
\* whole by every command that follows or unfollows.
EXTENDS Naturals, Sequences

CONSTANTS
    MaxRun,     \* bound: the runs of aitty, one after another or at once
    MaxCommand, \* bound: follow and unfollow commands
    MaxShared,  \* bound: commands up to one of a run that is not alone
    Key,        \* what a follow is kept under: a handle, or a DID that was typed
    SubjectOf,  \* the account a key resolves to
    Account,    \* the accounts aitty can mint, named by their handles
    Nobody, Settled   \* no identity, and a command that has had its answer

VARIABLES
    aittyFile, \* identity.json
    accounts,  \* the PDS: accounts
    records,   \* the PDS: the follow records, each with its account and subject
    runs,      \* the runs: where each is, and its identity in memory
    commands,  \* the commands, by the await they are at
    loggedOut, \* history: accounts the operator logged out of
    mislaid,   \* history: accounts minted by a run that did not live to save, or was not alone
    muddled    \* history: keys whose commands were cut, unanswered, unsaved or overlapped

identityVars == <<aittyFile, accounts, records, runs, commands, loggedOut, mislaid, muddled>>

Run == 1..MaxRun

Subjects == {SubjectOf[k] : k \in Key}

\* The record of a follow is named by the number of its command, none by 0.
Identity == [account : Account, follows : [Key -> 0..MaxCommand]]

IdentityRun == [at : {"off", "minting", "running", "draining", "over"},
                kind : {"prompt", "shot", "watch"},
                mem : Identity \cup {Nobody},
                desired : SUBSET Subjects,
                alone : BOOLEAN]

FollowCommand == [at : {"resolve", "create", "created", "delete", "deleted"},
                  run : Run, key : Key, record : 0..MaxCommand]

ASSUME AittyAssumption ==
    /\ {MaxRun, MaxCommand} \subseteq Nat
    /\ MaxShared \in 0..MaxCommand
    /\ Nobody \notin Identity
    /\ Settled \notin FollowCommand

IdentityTypes ==
    /\ aittyFile \in Identity \cup {Nobody}
    /\ accounts \subseteq Account
    /\ records \subseteq [id : 1..MaxCommand, account : Account, key : Key]
    /\ runs \in [Run -> IdentityRun]
    /\ commands \in Seq(FollowCommand \cup {Settled})
    /\ Len(commands) <= MaxCommand
    /\ loggedOut \subseteq accounts
    /\ mislaid \subseteq accounts
    /\ muddled \subseteq Key

\* A run that has not begun, or is over.
NoRun(at) == [at |-> at, kind |-> "prompt", mem |-> Nobody, desired |-> {}, alone |-> TRUE]

IdentityInit ==
    /\ aittyFile = Nobody
    /\ accounts = {}
    /\ records = {}
    /\ runs = [r \in Run |-> NoRun("off")]
    /\ commands = <<>>
    /\ loggedOut = {}
    /\ mislaid = {}
    /\ muddled = {}

-----------------------------------------------------------------------------
\* A run of aitty.

Alive(r) == runs[r].at \in {"minting", "running", "draining"}

\* The commands of a run that wait for an answer.
Waits(c) == commands[c] # Settled

Pending(r) == {c \in DOMAIN commands : Waits(c) /\ commands[c].run = r}

ExistingBug == Nobody

\* loadIdentity, whatever flags are given.
Existing == aittyFile

\* bootstrap, up to its first await: the file is read, or there is an account to mint.
\* Runs are numbered as they start.
Launch(r, kind) ==
    /\ \A s \in Run : runs[s].at = "off" <=> s >= r
    /\ LET others == {s \in Run : Alive(s)}
           at == IF Existing = Nobody THEN "minting" ELSE "running"
       IN  runs' = [s \in Run |->
              CASE s = r -> [NoRun(at) EXCEPT !.kind = kind, !.mem = Existing, !.alone = (others = {})]
                [] s \in others -> [runs[s] EXCEPT !.alone = FALSE]
                [] OTHER -> runs[s]]
    /\ UNCHANGED <<aittyFile, accounts, records, commands, loggedOut, mislaid, muddled>>

\* createAccount with a free handle, and saveIdentity when the answer comes; a run that
\* is killed meanwhile, or whose save throws and ends it, never saves it.
MintAccount(r, account, killed) ==
    /\ runs[r].at = "minting"
    /\ account \notin accounts
    /\ accounts' = accounts \cup {account}
    /\ LET identity == [account |-> account, follows |-> [k \in Key |-> 0]]
       IN  IF killed
           THEN /\ runs' = [runs EXCEPT ![r] = NoRun("over")]
                /\ mislaid' = mislaid \cup {account}
                /\ UNCHANGED aittyFile
           ELSE /\ runs' = [runs EXCEPT ![r].at = "running", ![r].mem = identity]
                /\ mislaid' = IF runs[r].alone THEN mislaid
                              ELSE mislaid \cup {account} \cup (IF aittyFile = Nobody THEN {} ELSE {aittyFile.account})
                /\ aittyFile' = identity
    /\ UNCHANGED <<records, commands, loggedOut, muddled>>

\* The handle is taken or the PDS does not answer: the process exits. (So it does if the
\* login is refused, which is a run that quits at once.)
GiveUp(r) ==
    /\ runs[r].at = "minting"
    /\ runs' = [runs EXCEPT ![r] = NoRun("over")]
    /\ UNCHANGED <<aittyFile, accounts, records, commands, loggedOut, mislaid, muddled>>

\* aitty logout, in a process of its own.
Logout ==
    /\ aittyFile # Nobody
    /\ loggedOut' = loggedOut \cup {aittyFile.account}
    /\ aittyFile' = Nobody
    /\ UNCHANGED <<accounts, records, runs, commands, mislaid, muddled>>

-----------------------------------------------------------------------------
\* Commands.

\* Whether a run takes another command: the prompt any number at once, a watch one
\* handle after the other, a one-shot a single one.
Takes(r) ==
    /\ runs[r].at = "running"
    /\ runs[r].kind = "watch" => Pending(r) = {}
    /\ Len(commands) < IF runs[r].alone THEN MaxCommand ELSE MaxShared

\* A one-shot is done when its command is.
Running(r) == IF runs[r].kind = "shot" THEN "draining" ELSE "running"

\* Two commands for one key at once muddle it.
NoteOverlap(r, k) ==
    muddled' = IF \E c \in Pending(r) : commands[c].key = k THEN muddled \cup {k} ELSE muddled

\* actionFollow, and each handle of ensureFollows: it has to be resolved first. The
\* prompt looks for the key before that, the watch after it.
CallFollow(r, k) ==
    /\ Takes(r)
    /\ runs[r].kind # "watch" => runs[r].mem.follows[k] = 0
    /\ commands' = Append(commands, [at |-> "resolve", run |-> r, key |-> k, record |-> 0])
    /\ runs' = [runs EXCEPT ![r].at = Running(r)]
    /\ NoteOverlap(r, k)
    /\ UNCHANGED <<aittyFile, accounts, records, loggedOut, mislaid>>

\* The subject is known. A failed lookup ends the command, but the watch goes on with
\* the DID it stored; nobody follows itself; a watch wants an account once, and writes
\* no second record under one key.
Resolve(c, found) ==
    /\ Waits(c) /\ commands[c].at = "resolve"
    /\ LET r == commands[c].run
           k == commands[c].key
           watch == runs[r].kind = "watch"
           stored == watch /\ runs[r].mem.follows[k] # 0
           did == SubjectOf[k]
           goesOn == (found \/ stored) /\ did # runs[r].mem.account /\ ~(watch /\ did \in runs[r].desired)
       IN  /\ commands' = [commands EXCEPT ![c] = IF goesOn /\ ~stored
                                                  THEN [@ EXCEPT !.at = "create"] ELSE Settled]
           /\ runs' = IF goesOn /\ watch THEN [runs EXCEPT ![r].desired = @ \cup {did}] ELSE runs
    /\ UNCHANGED <<aittyFile, accounts, records, loggedOut, mislaid, muddled>>

\* The PDS writes the record.
CreateRecord(c) ==
    /\ Waits(c) /\ commands[c].at = "create"
    /\ records' = records \cup {[id |-> c, account |-> runs[commands[c].run].mem.account,
                                 key |-> commands[c].key]}
    /\ commands' = [commands EXCEPT ![c].at = "created", ![c].record = c]
    /\ UNCHANGED <<aittyFile, accounts, runs, loggedOut, mislaid, muddled>>

\* actionUnfollow: the record to delete is the one the key had when it was called.
CallUnfollow(r, k) ==
    /\ Takes(r)
    /\ runs[r].kind # "watch"
    /\ runs[r].mem.follows[k] # 0
    /\ commands' = Append(commands, [at |-> "delete", run |-> r, key |-> k,
                                     record |-> runs[r].mem.follows[k]])
    /\ runs' = [runs EXCEPT ![r].at = Running(r)]
    /\ NoteOverlap(r, k)
    /\ UNCHANGED <<aittyFile, accounts, records, loggedOut, mislaid>>

\* The PDS deletes it, or there is none.
DeleteRecord(c) ==
    /\ Waits(c) /\ commands[c].at = "delete"
    /\ records' = {f \in records : f.id # commands[c].record}
    /\ commands' = [commands EXCEPT ![c].at = "deleted"]
    /\ UNCHANGED <<aittyFile, accounts, runs, loggedOut, mislaid, muddled>>

\* The answer: the follows in memory are changed and all of them saved. A run that is
\* not alone saves what it read before another one wrote.
CommandDone(c) ==
    /\ Waits(c) /\ commands[c].at \in {"created", "deleted"}
    /\ LET r == commands[c].run
           entry == IF commands[c].at = "created" THEN commands[c].record ELSE 0
           mem == [runs[r].mem EXCEPT !.follows[commands[c].key] = entry]
       IN  /\ runs' = [runs EXCEPT ![r].mem = mem]
           /\ mislaid' = IF runs[r].alone \/ aittyFile = Nobody \/ aittyFile.account = mem.account THEN mislaid
                         ELSE mislaid \cup {aittyFile.account}
           /\ aittyFile' = mem
           /\ muddled' = IF runs[r].alone THEN muddled ELSE Key
    /\ commands' = [commands EXCEPT ![c] = Settled]
    /\ UNCHANGED <<accounts, records, loggedOut>>

\* The same, but saveIdentity throws: an error line, and only memory has the change.
CommandUnsaved(c) ==
    /\ Waits(c) /\ commands[c].at \in {"created", "deleted"}
    /\ LET entry == IF commands[c].at = "created" THEN commands[c].record ELSE 0
       IN  runs' = [runs EXCEPT ![commands[c].run].mem.follows[commands[c].key] = entry]
    /\ muddled' = muddled \cup {commands[c].key}
    /\ commands' = [commands EXCEPT ![c] = Settled]
    /\ UNCHANGED <<aittyFile, accounts, records, loggedOut, mislaid>>

\* A refused call, or an answer that is lost: an error line, and nothing is saved.
CommandFails(c) ==
    /\ Waits(c) /\ commands[c].at \in {"create", "created", "delete", "deleted"}
    /\ muddled' = IF commands[c].at \in {"created", "deleted"}
                  THEN muddled \cup {commands[c].key} ELSE muddled
    /\ commands' = [commands EXCEPT ![c] = Settled]
    /\ UNCHANGED <<aittyFile, accounts, records, runs, loggedOut, mislaid>>

-----------------------------------------------------------------------------
\* The end of a run.

\* requestQuit closes the prompt, a one-shot has its answer, Ctrl-C ends a watch.
Leave(r) ==
    /\ runs[r].at = "running"
    /\ runs[r].kind = "watch" => Pending(r) = {}
    /\ runs' = [runs EXCEPT ![r].at = "draining"]
    /\ UNCHANGED <<aittyFile, accounts, records, commands, loggedOut, mislaid, muddled>>

\* The process ends, and whatever it waited for with it.
End(r) ==
    /\ runs' = [runs EXCEPT ![r] = NoRun("over")]
    /\ commands' = [c \in DOMAIN commands |-> IF c \in Pending(r) THEN Settled ELSE commands[c]]
    /\ UNCHANGED <<aittyFile, accounts, records, loggedOut, mislaid>>

DrainedBug(r) == TRUE

\* The commands under way have settled.
Drained(r) == Pending(r) = {}

Exit(r) ==
    /\ runs[r].at = "draining"
    /\ Drained(r)
    /\ End(r)
    /\ UNCHANGED muddled

\* The process is killed: what its commands asked for may be done already.
Kill(r) ==
    /\ Alive(r)
    /\ End(r)
    /\ muddled' = muddled \cup {commands[c].key : c \in Pending(r)}

IdentityNext ==
    \/ \E r \in Run : GiveUp(r) \/ Leave(r) \/ Exit(r) \/ Kill(r)
    \/ \E r \in Run, kind \in {"prompt", "shot", "watch"} : Launch(r, kind)
    \/ \E r \in Run, account \in Account, killed \in BOOLEAN : MintAccount(r, account, killed)
    \/ Logout
    \/ \E r \in Run, k \in Key : CallFollow(r, k) \/ CallUnfollow(r, k)
    \/ \E c \in DOMAIN commands, found \in BOOLEAN : Resolve(c, found)
    \/ \E c \in DOMAIN commands : CreateRecord(c) \/ DeleteRecord(c)
    \/ \E c \in DOMAIN commands : CommandDone(c) \/ CommandUnsaved(c) \/ CommandFails(c)

IdentitySpec == IdentityInit /\ [][IdentityNext]_identityVars

-----------------------------------------------------------------------------
\* A handle can never be minted again, so an account stays in the file until the
\* operator logs out (main.ts:203-204, identity.ts:58-59): whatever flags later runs are
\* given, wherever one is killed, short of a first run killed before it saves and of
\* runs at the same time, whose saves replace each other's accounts.
AccountKept ==
    \A a \in accounts \ (loggedOut \cup mislaid) : aittyFile # Nobody /\ aittyFile.account = a

\* The file knows the follow records of its account, each under its key, and no other:
\* every record that stands can be undone (commands.ts:61-63). So commands may overlap,
\* be refused and be quit in the middle; excused are keys with a command that was killed,
\* unanswered or could not be saved, two commands at once, or runs of aitty at the same
\* time.
FollowsKnown ==
    aittyFile # Nobody =>
        \A k \in Key \ muddled :
            LET under(c) == Waits(c) /\ commands[c].key = k /\ commands[c].at \in {"created", "deleted"}
            IN  (~\E c \in DOMAIN commands : under(c)) =>
                    {f.id : f \in {g \in records : g.account = aittyFile.account /\ g.key = k}}
                        = {aittyFile.follows[k]} \ {0}

=============================================================================
