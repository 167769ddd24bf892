--------------------------- MODULE SessionIdentity ---------------------------
(***************************************************************************)
(* The identity of one session: the file that keeps it                     *)
(* (mcp/src/storage.ts), the copy each process has in memory               *)
(* (mcp/src/session.ts), join (mcp/src/tools/join.ts) and                  *)
(* re-authentication (mcp/src/atproto/pdsClient.ts).                       *)
(*                                                                         *)
(* A Claude session has one process at a time, which serves the tools and  *)
(* receives notifications; it may be reaped and started again.  A Codex    *)
(* session has a second one, the launcher, which receives instead and      *)
(* learns of a join from the file.  Each writes the file by reading it,    *)
(* merging and renaming; the two processes run side by side, but within a  *)
(* process nothing happens between its read and its rename.                *)
(*                                                                         *)
(* The PDS and the agent of @atproto/api are external.  A token is the     *)
(* number under which the PDS issued it: live, stale (its access part has  *)
(* expired, it can be refreshed), spent (it has been refreshed, its access *)
(* part has not expired) or dead.                                          *)
(***************************************************************************)
EXTENDS Integers, Sequences

CONSTANTS
    MaxCall,    \* calls of the tools at a time
    MaxJoin,    \* bound: join calls
    MaxTrouble, \* bound: reaped processes, lost answers and failed saves
    MaxExpire,  \* bound: expired tokens
    MaxRow      \* bound: notifications delivered

ASSUME IdentityAssumption ==
    MaxCall \in Nat \ {0} /\ MaxJoin \in Nat /\ MaxRow \in Nat \ {0}
    /\ MaxTrouble \in Nat /\ MaxExpire \in Nat

VARIABLES
    codex,     \* the session has a launcher beside its tool process
    up,        \* processes that run
    mem,       \* session.ts: identity
    session,   \* the agent's session: an account and a token
    shared,    \* reauthInFlight
    call,      \* the tool calls of each process, and the launcher's registration
    todo,      \* what the synchronous code of a process still has to write
    renaming,  \* what it read and merged, and renames next
    polled,    \* registerPushWhenReady has loaded the identity
    file,      \* identity-<hash>.json
    minted,    \* PDS: accounts created
    token,     \* PDS: tokens issued, with their account and state
    joins,     \* join calls made
    rows,      \* notifications delivered
    crossed,   \* history: the other process renamed since this one read
    unsaved,   \* history: a save of the process's identity threw, and none succeeded since
    orphaned,  \* history: a join overlapped another, or nobody kept its account
    expired,   \* tokens that expired
    trouble    \* what went wrong, expiries included

process == <<up, mem, session, shared, call, polled>>
disk    == <<todo, renaming, file, crossed, unsaved>>
pds     == <<minted, token>>
bounds  == <<joins, rows, expired, trouble>>
vars    == <<codex, process, disk, pds, bounds, orphaned>>

Tool    == "tool"
Host    == "host"
Process == {Tool, Host}
ToolCall == 1..MaxCall

None    == [account |-> 0, token |-> 0]
Id(a, t) == [account |-> a, token |-> t]
NoFile  == [account |-> 0, token |-> 0, cursor |-> 0]

Listener == IF codex THEN Host ELSE Tool

\* The registration of the listener, which is coalesced, and the tools' calls.
Register == 0
Calls(p) == (IF p = Tool THEN ToolCall ELSE {}) \cup (IF p = Listener THEN {Register} ELSE {})

Quiet   == {"idle", "threw"}
Joining == {"join", "minted", "joined"}
Waiting == {"wait", "rewait"}
Phase   == Quiet \cup Joining \cup Waiting \cup {"again", "call", "recall"}

Idle == [phase |-> "idle", account |-> 0, used |-> 0, sent |-> 0, since |-> 0]
NoReauth == [stage |-> "none", account |-> 0]

\* What a process may believe: an account and a token the PDS has issued.
Known(i) == i = None \/ (i.account \in 1..minted /\ i.token \in 1..Len(token))

\* Identities name what the PDS issued, and a process that is down holds nothing.
TypeOK ==
    /\ codex \in BOOLEAN /\ up \subseteq Process /\ polled \in BOOLEAN
    /\ \A p \in Process :
         /\ Known(mem[p]) /\ Known(session[p])
         /\ shared[p].stage \in {"none", "resume", "login"} /\ shared[p].account \in 0..minted
         /\ \A c \in Calls(p) : call[p][c].phase \in Phase
         /\ renaming[p] # NoFile => todo[p] # <<>>
         /\ p \notin up => mem[p] = None /\ todo[p] = <<>>
    /\ token \in Seq({"live", "stale", "spent", "dead"})
    /\ file = NoFile \/ (Known(Id(file.account, file.token)) /\ file.cursor \in 0..rows)
    /\ rows \in 1..MaxRow /\ joins \in 0..MaxJoin 
    /\ expired \in 0..MaxExpire /\ trouble - expired \in 0..MaxTrouble

Init ==
    /\ codex \in BOOLEAN
    /\ up = {}
    /\ mem = [p \in Process |-> None] /\ session = [p \in Process |-> None]
    /\ shared = [p \in Process |-> NoReauth]
    /\ call = [p \in Process |-> [c \in Calls(p) |-> Idle]]
    /\ todo = [p \in Process |-> <<>>] /\ renaming = [p \in Process |-> NoFile]
    /\ polled = FALSE
    /\ file = NoFile
    /\ minted = 0 /\ token = <<>>
    /\ joins = 0 /\ rows = 1
    /\ crossed = [p \in Process |-> FALSE] /\ unsaved = [p \in Process |-> FALSE]
    /\ orphaned = FALSE
    /\ expired = 0 /\ trouble = 0

Trouble == trouble - expired < MaxTrouble /\ trouble' = trouble + 1 /\ UNCHANGED expired

\* No synchronous code of the process is running.
Free(p) == p \in up /\ todo[p] = <<>>

-----------------------------------------------------------------------------
(* The identity file.  The definitions named ...Bug are the faulty variants *)
(* that show what each property is sensitive to.                            *)

Save(i)       == [kind |-> "save", id |-> i, cursor |-> 0, sent |-> 0]
Swap(sent, n) == [kind |-> "swap", id |-> None, cursor |-> n, sent |-> sent]

Commit(n) == [kind |-> "commit", id |-> None, cursor |-> n, sent |-> 0]

\* saveIdentity keeps the cursor of the file, the cursor writers keep the identity.
MergedBug(w) ==
    IF w.kind = "save"
    THEN [account |-> w.id.account, token |-> w.id.token, cursor |-> 0]
    ELSE [file EXCEPT !.cursor = w.cursor]

Merged(w) ==
    IF w.kind = "save"
    THEN [account |-> w.id.account, token |-> w.id.token, cursor |-> file.cursor]
    ELSE [file EXCEPT !.cursor = w.cursor]

\* Without an identity there is no file to put a cursor in; a swap expects what was sent.
Writes(w) ==
    \/ w.kind = "save"
    \/ w.kind = "commit" /\ file # NoFile
    \/ w.kind = "swap" /\ file # NoFile /\ file.cursor = w.sent

\* writeFileSync to a file of its own: what is on disk stays until the rename.
WrittenBug == NoFile

Written == file

Read(p) ==
    /\ todo[p] # <<>> /\ renaming[p] = NoFile
    /\ IF Writes(Head(todo[p]))
       THEN /\ renaming' = [renaming EXCEPT ![p] = Merged(Head(todo[p]))]
            /\ file' = Written
            /\ UNCHANGED todo
       ELSE todo' = [todo EXCEPT ![p] = Tail(@)] /\ UNCHANGED <<renaming, file>>
    /\ crossed' = [crossed EXCEPT ![p] = FALSE]
    /\ UNCHANGED <<codex, process, pds, bounds, unsaved, orphaned>>

Rename(p) ==
    /\ renaming[p] # NoFile
    /\ file' = renaming[p]
    /\ renaming' = [renaming EXCEPT ![p] = NoFile]
    /\ todo' = [todo EXCEPT ![p] = Tail(@)]
    /\ crossed' = [q \in Process |-> q # p /\ renaming[q] # NoFile]
    /\ unsaved' = [unsaved EXCEPT ![p] = @ /\ Head(todo[p]).kind # "save"]
    /\ UNCHANGED <<codex, process, pds, bounds, orphaned>>

\* The process runs on to these writes, and does nothing else before they are done.
Write(p, writes) ==
    /\ todo' = [todo EXCEPT ![p] = writes]
    /\ UNCHANGED <<renaming, file, crossed, unsaved>>

\* saveIdentity throws before its rename: memory has what the file has not.
Unsaved(p) ==
    /\ Trouble
    /\ unsaved' = [unsaved EXCEPT ![p] = TRUE]
    /\ UNCHANGED <<todo, renaming, file, crossed, joins, rows>>

\* loadIdentity
Loaded == IF file = NoFile THEN None ELSE Id(file.account, file.token)

-----------------------------------------------------------------------------
(* Processes *)

Start(p) ==
    /\ p \notin up /\ (p = Host => codex)
    /\ up' = up \cup {p}
    /\ mem' = [mem EXCEPT ![p] = Loaded]
    /\ polled' = (polled /\ p # Host)
    /\ UNCHANGED <<codex, session, shared, call, disk, pds, bounds, orphaned>>

\* A process is reaped or stopped, at any instruction.
Reap(p) ==
    /\ p \in up /\ Trouble
    /\ up' = up \ {p}
    /\ mem' = [mem EXCEPT ![p] = None] /\ session' = [session EXCEPT ![p] = None]
    /\ shared' = [shared EXCEPT ![p] = NoReauth]
    /\ call' = [call EXCEPT ![p] = [c \in Calls(p) |-> Idle]]
    /\ todo' = [todo EXCEPT ![p] = <<>>] /\ renaming' = [renaming EXCEPT ![p] = NoFile]
    /\ unsaved' = [unsaved EXCEPT ![p] = FALSE]
    /\ orphaned' = \/ orphaned
                   \/ \E c \in Calls(p) : call[p][c].phase \in Joining
                   \/ unsaved[p] /\ file = NoFile
    /\ UNCHANGED <<codex, polled, file, crossed, pds, joins, rows>>

\* registerPushWhenReady finds the identity, and setIdentity writes it back.
Poll ==
    /\ Free(Host) /\ ~polled /\ Loaded # None
    /\ polled' = TRUE
    /\ mem' = [mem EXCEPT ![Host] = Loaded]
    /\ Write(Host, <<Save(Loaded)>>)
    /\ UNCHANGED <<codex, up, session, shared, call, pds, bounds, orphaned>>

\* A notification was handed over; the listener commits its cursor.
Deliver ==
    /\ Free(Listener) /\ mem[Listener] # None /\ rows < MaxRow
    /\ rows' = rows + 1
    /\ Write(Listener, <<Commit(rows')>>)
    /\ UNCHANGED <<codex, process, pds, joins, expired, trouble, orphaned>>

-----------------------------------------------------------------------------
(* Calls and re-authentication *)

Becomes(p, c, r) == call' = [call EXCEPT ![p][c] = r]

\* A call that fails although nothing went wrong since it began is marked.
Thrown(r) == IF r.since < trouble THEN Idle ELSE [Idle EXCEPT !.phase = "threw"]

Usable(t)      == token[t] \in {"live", "spent"}
Refreshable(t) == token[t] \in {"live", "stale"}

\* ensureAuthedAgent: the agent's session serves if it is the account's; otherwise the
\* tokens of the identity are resumed, by one call for all.
Call(p, c) ==
    /\ Free(p) /\ c \in Calls(p) /\ call[p][c].phase \in Quiet /\ mem[p] # None
    /\ LET r == [Idle EXCEPT !.account = mem[p].account, !.since = trouble,
                             !.sent = IF c = Register THEN file.cursor ELSE 0] IN
         \/ /\ session[p].account = mem[p].account
            /\ Becomes(p, c, [r EXCEPT !.phase = "call", !.used = session[p].token])
            /\ UNCHANGED <<session, shared>>
         \/ /\ session[p].account # mem[p].account
            /\ Becomes(p, c, [r EXCEPT !.phase = "wait"])
            /\ IF shared[p].stage # "none"
               THEN UNCHANGED <<session, shared>>
               ELSE /\ shared' = [shared EXCEPT ![p] = [stage |-> "resume", account |-> mem[p].account]]
                    /\ session' = [session EXCEPT ![p] = mem[p]]
    /\ UNCHANGED <<codex, up, mem, polled, disk, pds, bounds, orphaned>>

\* The shared re-authentication is over for every call that waits for it.
WokenBug(p, used) ==
    call' = [call EXCEPT ![p] = [c \in Calls(p) |->
               LET r == call[p][c] IN
               IF r.phase = "wait" THEN [r EXCEPT !.phase = "call", !.used = used] ELSE r]]

Woken(p, used) ==
    call' = [call EXCEPT ![p] = [c \in Calls(p) |->
               LET r == call[p][c] IN
               CASE r.phase = "wait"   -> [r EXCEPT !.phase = "call", !.used = used]
                 [] r.phase = "rewait" -> [r EXCEPT !.phase = "recall", !.used = used]
                 [] OTHER -> r]]

Rejected(p) ==
    call' = [call EXCEPT ![p] = [c \in Calls(p) |->
               IF call[p][c].phase \in Waiting THEN Idle ELSE call[p][c]]]

\* reauthInFlight is cleared, so that the next call may start another.
Cleared(p) == [shared EXCEPT ![p] = NoReauth]

\* login() with the stored password: persistSession patches the tokens of the identity
\* in memory, then setIdentity installs the one that logged in; the last write counts.
LoggedIn(p, account) ==
    /\ token' = Append(token, "live")
    /\ LET n == Len(token') IN
         /\ session' = [session EXCEPT ![p] = Id(account, n)]
         /\ mem' = [mem EXCEPT ![p] = Id(account, n)]
         /\ Write(p, <<Save(Id(account, n))>>)

\* persistSession throws, and with it login(); @atproto/api may keep the session or not.
LoggedInUnsaved(p, account) ==
    /\ token' = Append(token, "live")
    /\ LET n == Len(token') IN
         /\ session' \in {[session EXCEPT ![p] = i] : i \in {None, Id(account, n)}}
         /\ mem' = [mem EXCEPT ![p].token = n]
    /\ Unsaved(p)

\* The agent refreshes its session; persistSession saves the tokens, or throws.
PatchedBug(p, n) == <<>>

Patched(p, n) == <<Save(Id(mem[p].account, n))>>

Refreshes(p) ==
    /\ token' = Append([token EXCEPT ![session[p].token] = IF @ = "live" THEN "spent" ELSE "dead"],
                       "live")
    /\ LET n == Len(token') IN
         /\ session' = [session EXCEPT ![p] = Id(@.account, n)]
         /\ mem' = [mem EXCEPT ![p] = Id(@.account, n)]

Refreshed(p) == Refreshes(p) /\ Write(p, Patched(p, Len(token')))

ResumeDone(p) ==
    /\ Free(p) /\ shared[p].stage = "resume" /\ session[p] # None
    /\ \/ token[session[p].token] = "stale" /\ Refreshed(p)
       \/ Usable(session[p].token) /\ Write(p, Patched(p, session[p].token))
          /\ mem' = [mem EXCEPT ![p].token = session[p].token]
          /\ UNCHANGED <<token, session>>
    /\ shared' = Cleared(p)
    /\ Woken(p, session'[p].token)
    /\ UNCHANGED <<codex, up, polled, minted, bounds, orphaned>>

\* The tokens are dead, or the PDS does not answer: log in instead.
ResumeFails(p) ==
    /\ Free(p) /\ shared[p].stage = "resume"
    /\ \/ UNCHANGED <<expired, trouble>> /\ (session[p] # None => token[session[p].token] = "dead")
       \/ Trouble
    /\ session' = [session EXCEPT ![p] = None]
    /\ shared' = [shared EXCEPT ![p].stage = "login"]
    /\ UNCHANGED <<codex, up, mem, call, polled, disk, pds, joins, rows, orphaned>>

\* persistSession throws while the session is resumed: log in instead.
ResumeUnsaved(p) ==
    /\ Free(p) /\ shared[p].stage = "resume" /\ session[p] # None
    /\ \/ /\ token[session[p].token] = "stale"
          /\ token' = Append([token EXCEPT ![session[p].token] = "dead"], "live")
          /\ mem' = [mem EXCEPT ![p].token = Len(token')]
       \/ /\ Usable(session[p].token)
          /\ mem' = [mem EXCEPT ![p].token = session[p].token]
          /\ UNCHANGED token
    /\ Unsaved(p)
    /\ session' = [session EXCEPT ![p] = None]
    /\ shared' = [shared EXCEPT ![p].stage = "login"]
    /\ UNCHANGED <<codex, up, call, polled, minted, orphaned>>

LoginDone(p) ==
    /\ Free(p) /\ shared[p].stage = "login"
    /\ LoggedIn(p, shared[p].account)
    /\ shared' = Cleared(p)
    /\ Woken(p, Len(token'))
    /\ UNCHANGED <<codex, up, polled, minted, bounds, orphaned>>

LoginUnsaved(p) ==
    /\ Free(p) /\ shared[p].stage = "login"
    /\ LoggedInUnsaved(p, shared[p].account)
    /\ shared' = Cleared(p)
    /\ Rejected(p)
    /\ UNCHANGED <<codex, up, polled, minted, orphaned>>

LoginFails(p) ==
    /\ Free(p) /\ shared[p].stage = "login" /\ Trouble
    /\ session' = [session EXCEPT ![p] = None]
    /\ shared' = Cleared(p)
    /\ Rejected(p)
    /\ UNCHANGED <<codex, up, mem, polled, disk, pds, joins, rows, orphaned>>

\* The call is answered.  A registration normalises the cursor it was sent with.
Answered(p, c) ==
    /\ Usable(call[p][c].used)
    /\ Becomes(p, c, Idle)
    /\ IF c = Register
       THEN LET sent == call[p][c].sent IN Write(p, <<Swap(sent, IF sent = 0 THEN rows ELSE sent)>>)
       ELSE UNCHANGED disk
    /\ UNCHANGED <<mem, session, shared, token>>

\* The token has expired: the agent refreshes its session and repeats the call.
Repeated(p, c) ==
    /\ ~Usable(call[p][c].used)
    /\ session[p] # None /\ Refreshable(session[p].token)
    /\ Refreshed(p)
    /\ Becomes(p, c, [call[p][c] EXCEPT !.used = Len(token')])
    /\ UNCHANGED shared

\* The same, but the refreshed tokens are not written; the agent goes on with them.
RepeatedUnsaved(p, c) ==
    /\ Free(p) /\ c \in Calls(p) /\ call[p][c].phase \in {"call", "recall"}
    /\ ~Usable(call[p][c].used)
    /\ session[p] # None /\ Refreshable(session[p].token)
    /\ Refreshes(p) /\ Unsaved(p)
    /\ Becomes(p, c, [call[p][c] EXCEPT !.used = Len(token')])
    /\ UNCHANGED <<codex, up, shared, polled, minted, orphaned>>

\* An auth failure ends the agent's session.  The first one logs in, or joins whoever
\* does, and tries again; the second one is the caller's.
RetriedBug(p, c) == Becomes(p, c, Thrown(call[p][c])) /\ UNCHANGED shared

Retried(p, c) ==
    /\ Becomes(p, c, [call[p][c] EXCEPT !.phase = "rewait", !.used = 0])
    /\ shared' = IF shared[p].stage # "none" THEN shared
                 ELSE [shared EXCEPT ![p] = [stage |-> "login", account |-> call[p][c].account]]

Denied(p, c) ==
    /\ ~Usable(call[p][c].used)
    /\ session[p] # None => ~Refreshable(session[p].token)
    /\ session' = [session EXCEPT ![p] = None]
    /\ IF call[p][c].phase = "call"
       THEN Retried(p, c)
       ELSE Becomes(p, c, Thrown(call[p][c])) /\ UNCHANGED shared
    /\ UNCHANGED <<mem, token, disk>>

CallDone(p, c) ==
    /\ Free(p) /\ c \in Calls(p) /\ call[p][c].phase \in {"call", "recall"}
    /\ Answered(p, c) \/ Repeated(p, c) \/ Denied(p, c)
    /\ UNCHANGED <<codex, up, polled, minted, bounds, orphaned>>

CallLost(p, c) ==
    /\ Free(p) /\ c \in Calls(p) /\ call[p][c].phase \in {"call", "recall"} /\ Trouble
    /\ Becomes(p, c, Idle)
    /\ UNCHANGED <<codex, up, mem, session, shared, polled, disk, pds, joins, rows, orphaned>>

-----------------------------------------------------------------------------
(* Join *)

\* Only a session without an identity creates an account.
MayMint(p) == mem[p] = None

Join(c) ==
    /\ Free(Tool) /\ c \in Calls(Tool) /\ call[Tool][c].phase \in Quiet /\ joins < MaxJoin
    /\ c # Register
    /\ joins' = joins + 1
    /\ IF MayMint(Tool)
       THEN /\ Becomes(Tool, c, [Idle EXCEPT !.phase = "join"])
            /\ orphaned' = (orphaned \/ \E d \in Calls(Tool) : call[Tool][d].phase \in Joining)
       ELSE /\ Becomes(Tool, c, [Idle EXCEPT !.phase = "again", !.account = mem[Tool].account])
            /\ UNCHANGED orphaned
    /\ UNCHANGED <<codex, up, mem, session, shared, polled, disk, pds, rows, expired, trouble>>

\* createAccount
Mint(c) ==
    /\ c \in Calls(Tool) /\ call[Tool][c].phase = "join"
    /\ minted' = minted + 1 /\ token' = Append(token, "live")
    /\ Becomes(Tool, c, [call[Tool][c] EXCEPT !.phase = "minted", !.account = minted', !.used = Len(token')])
    /\ UNCHANGED <<codex, up, mem, session, shared, polled, disk, bounds, orphaned>>

JoinDone(c) ==
    /\ Free(Tool) /\ c \in Calls(Tool) /\ call[Tool][c].phase = "minted"
    /\ mem' = [mem EXCEPT ![Tool] = Id(call[Tool][c].account, call[Tool][c].used)]
    /\ Write(Tool, <<Save(mem'[Tool])>>)
    /\ Becomes(Tool, c, [Idle EXCEPT !.phase = "joined"])
    /\ UNCHANGED <<codex, up, session, shared, polled, pds, bounds, orphaned>>

\* The account exists, but local persist failed: the identity lives in memory.
JoinUnsaved(c) ==
    /\ Free(Tool) /\ c \in Calls(Tool) /\ call[Tool][c].phase = "minted"
    /\ mem' = [mem EXCEPT ![Tool] = Id(call[Tool][c].account, call[Tool][c].used)]
    /\ Unsaved(Tool)
    /\ Becomes(Tool, c, Idle)
    /\ UNCHANGED <<codex, up, session, shared, polled, pds, orphaned>>

Joined(c) ==
    /\ Free(Tool) /\ c \in Calls(Tool) /\ call[Tool][c].phase = "joined"
    /\ Becomes(Tool, c, Idle)
    /\ UNCHANGED <<codex, up, mem, session, shared, polled, disk, pds, bounds, orphaned>>

\* The account is refused, or the answer is lost, perhaps after it was created.
JoinFails(c) ==
    /\ Free(Tool) /\ c \in Calls(Tool) /\ call[Tool][c].phase \in {"join", "minted"} /\ Trouble
    /\ Becomes(Tool, c, Idle)
    /\ orphaned' = (orphaned \/ call[Tool][c].phase = "minted")
    /\ UNCHANGED <<codex, up, mem, session, shared, polled, disk, pds, joins, rows>>

\* reauthCurrentSession: a login of its own, beside a shared one.
AgainDone(c) ==
    /\ Free(Tool) /\ c \in Calls(Tool) /\ call[Tool][c].phase = "again"
    /\ LoggedIn(Tool, call[Tool][c].account)
    /\ Becomes(Tool, c, Idle)
    /\ UNCHANGED <<codex, up, shared, polled, minted, bounds, orphaned>>

AgainUnsaved(c) ==
    /\ Free(Tool) /\ c \in Calls(Tool) /\ call[Tool][c].phase = "again"
    /\ LoggedInUnsaved(Tool, call[Tool][c].account)
    /\ Becomes(Tool, c, Idle)
    /\ UNCHANGED <<codex, up, shared, polled, minted, orphaned>>

AgainFails(c) ==
    /\ Free(Tool) /\ c \in Calls(Tool) /\ call[Tool][c].phase = "again" /\ Trouble
    /\ session' = [session EXCEPT ![Tool] = None]
    /\ Becomes(Tool, c, Idle)
    /\ UNCHANGED <<codex, up, mem, shared, polled, disk, pds, joins, rows, orphaned>>

\* The tokens somebody still holds.
Held ==
    {file.token} \cup UNION {{mem[p].token, session[p].token} : p \in Process}
        \cup UNION {{call[p][c].used : c \in Calls(p)} : p \in Process}

\* Tokens expire: the access token, then the refresh token, or both at once.
Expire(t, state) ==
    /\ expired < MaxExpire /\ t \in Held
    /\ expired' = expired + 1 /\ trouble' = trouble + 1
    /\ token[t] = "live" \/ (token[t] \in {"stale", "spent"} /\ state = "dead")
    /\ token' = [token EXCEPT ![t] = state]
    /\ UNCHANGED <<codex, process, disk, minted, joins, rows, orphaned>>

JoinStep(c) == Mint(c) \/ JoinDone(c) \/ Joined(c) \/ AgainDone(c)

Next ==
    \/ \E p \in Process :
         \/ Start(p) \/ Reap(p) \/ Read(p) \/ Rename(p)
         \/ ResumeDone(p) \/ ResumeUnsaved(p) \/ ResumeFails(p)
         \/ LoginDone(p) \/ LoginUnsaved(p) \/ LoginFails(p)
         \/ \E c \in Calls(p) :
              Call(p, c) \/ CallDone(p, c) \/ RepeatedUnsaved(p, c) \/ CallLost(p, c)
    \/ Poll \/ Deliver
    \/ \E c \in ToolCall :
         Join(c) \/ JoinStep(c) \/ JoinUnsaved(c) \/ JoinFails(c) \/ AgainUnsaved(c) \/ AgainFails(c)
    \/ \E t \in 1..Len(token), state \in {"stale", "dead"} : Expire(t, state)

Spec == Init /\ [][Next]_vars

-----------------------------------------------------------------------------
(* Properties *)

\* mcp/src/tools/join.ts, "Each session gets one handle for its lifetime": whenever
\* processes are reaped and whatever they write, no second account is created, short
\* of joins that overlap and an account that nobody lived to save: its answer was
\* lost, or every save of it threw before the process was reaped.
OneHandle == ~orphaned => minted <= 1

\* mcp/src/session.ts: a reaped process loses no token.  In a Claude session the file
\* has what is in memory whenever something else can run, unless the last save threw.
MemoryOnDisk == ~codex /\ Free(Tool) /\ ~unsaved[Tool] => mem[Tool] = Loaded

\* mcp/src/storage.ts, "cursor must not regress": it does so only when a process
\* renames over what the other one renamed since it read.
CursorKept ==
    [][file'.cursor < file.cursor
        => \E p \in Process : Rename(p) /\ crossed[p]]_vars

\* mcp/src/atproto/pdsClient.ts, the "single retry budget" is enough: a call fails only
\* if something went wrong after it began, whatever had expired, been torn down or
\* overwritten before.
Unprovoked == \A p \in Process : \A c \in Calls(p) : call[p][c].phase # "threw"

\* No call is stranded: a shared re-authentication runs as long as somebody waits for it.
NotStranded ==
    \A p \in Process :
      shared[p].stage # "none" <=> \E c \in Calls(p) : call[p][c].phase \in Waiting

=============================================================================
