------------------------- MODULE SessionIdentityProofs -------------------------
(***************************************************************************)
(* Why a session keeps one handle and its tokens, its cursor and its calls *)
(* stay in order, for any number of calls, joins, reaped processes, lost   *)
(* answers, failed saves, expired tokens and notifications.                *)
(*                                                                         *)
(* A process that runs and knows no identity finds none on disk either:    *)
(* it reads the file as it starts, and only a join of its own can write a  *)
(* first one.  So a second account is created only by a join beside        *)
(* another.  A call that is tried a second time has a token from a login   *)
(* or a resumption after it began, which only trouble can take from it.    *)
(***************************************************************************)
EXTENDS SessionIdentity, TLAPS

IdRecord    == [account : Nat, token : Nat]
FileRecord  == [account : Nat, token : Nat, cursor : Nat]
CallRecord  == [phase : Phase, account : Nat, used : Nat, sent : Nat, since : Nat]
WriteRecord == [kind : {"save", "swap", "commit"}, id : IdRecord, cursor : Nat, sent : Nat]
TokenState  == {"live", "stale", "spent", "dead"}

\* What names accounts up to m and tokens up to t.
IdOK(i, m, t) == i \in IdRecord /\ (i = None \/ (i.account \in 1..m /\ i.token \in 1..t))

SharedOK(s, m) ==
    /\ s \in [stage : {"none", "resume", "login"}, account : Nat]
    /\ s.account \in 0..m /\ (s.stage # "none" => s.account \in 1..m)

CallOK(r, m, t) ==
    /\ r \in CallRecord /\ r.account \in 0..m /\ r.used \in 0..t
    /\ r.phase \in Waiting \cup {"again", "call", "recall", "minted"} => r.account \in 1..m
    /\ r.phase \in {"call", "recall", "minted"} => r.used \in 1..t

WriteOK(w, m, t) ==
    /\ w \in WriteRecord
    /\ w.kind = "save" => w.id.account \in 1..m /\ w.id.token \in 1..t

FileOK(f, m, t) == f \in FileRecord /\ (f = NoFile \/ (f.account \in 1..m /\ f.token \in 1..t))

\* A process has one write to do at most.
TodoOK(s, m, t) == s = <<>> \/ \E w \in WriteRecord : WriteOK(w, m, t) /\ s = <<w>>

PdsOK == minted \in Nat /\ token \in Seq(TokenState)

MemOK == mem \in [Process -> IdRecord] /\ \A p \in Process : IdOK(mem[p], minted, Len(token))

SessionOK ==
    session \in [Process -> IdRecord] /\ \A p \in Process : IdOK(session[p], minted, Len(token))

ReauthOK ==
    /\ shared \in [Process -> [stage : {"none", "resume", "login"}, account : Nat]]
    /\ \A p \in Process : SharedOK(shared[p], minted)

CallsOK ==
    /\ call = [p \in Process |-> call[p]]
    /\ \A p \in Process :
         /\ call[p] \in [Calls(p) -> CallRecord]
         /\ \A c \in Calls(p) : CallOK(call[p][c], minted, Len(token))

\* What is being written, and by whom.
DiskOK ==
    /\ todo = [p \in Process |-> todo[p]]
    /\ \A p \in Process : TodoOK(todo[p], minted, Len(token))
    /\ renaming \in [Process -> FileRecord]
    /\ \A p \in Process : FileOK(renaming[p], minted, Len(token))
    /\ \A p \in Process : renaming[p] # NoFile => todo[p] # <<>>
    /\ FileOK(file, minted, Len(token))
    /\ crossed \in [Process -> BOOLEAN] /\ unsaved \in [Process -> BOOLEAN]

BoundsOK ==
    /\ codex \in BOOLEAN /\ up \subseteq Process /\ polled \in BOOLEAN /\ orphaned \in BOOLEAN
    /\ joins \in 0..MaxJoin /\ rows \in 1..MaxRow
    /\ expired \in 0..MaxExpire /\ trouble \in Nat /\ trouble - expired \in 0..MaxTrouble

\* A process that is down holds nothing.
Down == \A p \in Process \ up : mem[p] = None /\ todo[p] = <<>>

\* The cursors that are written, or will be.
Cursors ==
    /\ file.cursor <= rows
    /\ \A p \in Process :
         /\ renaming[p].cursor <= rows
         /\ renaming[p] # NoFile /\ ~crossed[p] => file.cursor <= renaming[p].cursor
         /\ \A c \in Calls(p) : call[p][c].sent <= rows
         /\ \A w \in WriteRecord : todo[p] = <<w>> =>
              /\ w.kind = "commit" => p = Listener /\ w.cursor = rows
              /\ w.kind = "swap" => w.sent <= w.cursor /\ w.cursor <= rows

\* A token is refused at the second try only if there was trouble since the call began.
Budget ==
    \A p \in Process : \A c \in Calls(p) :
      /\ call[p][c].phase # "threw"
      /\ call[p][c].since <= trouble
      /\ call[p][c].phase = "recall" /\ call[p][c].since = trouble => Usable(call[p][c].used)

\* Who works with the identity has one, and the file has it once it was written, unless
\* its save threw.
Homes ==
    /\ Tool \in up /\ mem[Tool] = None => file = NoFile
    /\ \A p \in Process : todo[p] # <<>> => mem[p] # None
    /\ mem[Host] # None => file # NoFile
    /\ \A p \in Process : \A c \in Calls(p) :
         call[p][c].phase \notin Quiet \cup {"join", "minted"} => mem[p] # None
    /\ mem[Tool] # None /\ file = NoFile /\ ~unsaved[Tool] =>
         /\ \E c \in Calls(Tool) : call[Tool][c].phase = "joined"
         /\ \E w \in WriteRecord : todo[Tool] = <<w>> /\ w.kind = "save"
    /\ \A c \in Calls(Host) : call[Host][c].phase \notin Joining
    /\ \A c \in Calls(Tool) : call[Tool][c].phase \in Joining => c \in ToolCall /\ Tool \in up

\* Short of joins that overlap and accounts nobody lived to save there is one, and where.
Minted ==
    ~orphaned =>
      /\ minted <= 1
      /\ \A c, d \in Calls(Tool) :
           call[Tool][c].phase \in Joining /\ call[Tool][d].phase \in Joining => c = d
      /\ \A c \in Calls(Tool) : call[Tool][c].phase = "join" => minted = 0
      /\ minted = 1 => \/ \E c \in Calls(Tool) : call[Tool][c].phase = "minted"
                       \/ mem[Tool] # None \/ file # NoFile

\* Of a Claude session: what a process will have written is what it has in memory, unless
\* its last save threw.
OwnFile ==
    ~codex =>
      /\ Host \notin up /\ renaming[Host] = NoFile
      /\ Tool \in up /\ todo[Tool] = <<>> /\ ~unsaved[Tool] => mem[Tool] = Loaded
      /\ \A w \in WriteRecord : todo[Tool] = <<w>> =>
           /\ w.kind = "save" => w.id = mem[Tool]
           /\ w.kind # "save" /\ ~unsaved[Tool] => mem[Tool] = Loaded
           /\ renaming[Tool] # NoFile /\ (w.kind = "save" \/ ~unsaved[Tool]) =>
                Id(renaming[Tool].account, renaming[Tool].token) = mem[Tool]

Typed == PdsOK /\ MemOK /\ SessionOK /\ ReauthOK /\ CallsOK /\ DiskOK /\ BoundsOK

IdentityInv == Typed /\ Down /\ NotStranded /\ Cursors /\ Budget /\ Homes /\ Minted /\ OwnFile

-----------------------------------------------------------------------------
(* What the steps do to the types *)

\* Process ids are one of two.
LEMMA TwoProcesses ==
    /\ Process = {Tool, Host} /\ Tool # Host /\ Listener \in Process
    /\ \A p \in Process : p = Tool \/ p = Host
  BY DEF Process, Tool, Host, Listener

\* What was issued stays issued.
Grows ==
    /\ PdsOK' /\ codex' = codex
    /\ Len(token) \in Nat /\ Len(token') \in Nat /\ minted <= minted' /\ Len(token) <= Len(token')

\* Where nothing is issued.
LEMMA NothingIssued ==
    ASSUME PdsOK, UNCHANGED pds, codex' = codex
    PROVE  Grows
  BY DEF Grows, PdsOK, pds

\* One token is issued, perhaps with an account.
LEMMA Issued ==
    ASSUME PdsOK, codex' = codex, minted' = minted \/ minted' = minted + 1,
           token' = Append(token, "live")
    PROVE  /\ Grows /\ Len(token') = Len(token) + 1 /\ token'[Len(token')] = "live"
           /\ \A t \in 1..Len(token) : token'[t] = token[t]
  BY DEF Grows, PdsOK, TokenState

\* A token that is refreshed is replaced by a new one.
LEMMA IssuedAnew ==
    ASSUME PdsOK, codex' = codex, minted' = minted, NEW n \in 1..Len(token),
           token[n] \in {"live", "stale"},
           token' = Append([token EXCEPT ![n] = IF @ = "live" THEN "spent" ELSE "dead"], "live")
    PROVE  /\ Grows /\ Len(token') = Len(token) + 1 /\ token'[Len(token')] = "live"
           /\ \A t \in 1..Len(token) :
                token[t] \in {"live", "spent"} => token'[t] \in {"live", "spent"}
  <1> DEFINE old == [token EXCEPT ![n] = IF @ = "live" THEN "spent" ELSE "dead"]
  <1>1. old \in Seq(TokenState) /\ Len(old) = Len(token)
    BY DEF PdsOK, TokenState
  <1>2. \A t \in 1..Len(token) : token[t] \in {"live", "spent"} => old[t] \in {"live", "spent"}
    BY DEF PdsOK
  <1>3. /\ token' \in Seq(TokenState) /\ Len(token') = Len(old) + 1
        /\ token'[Len(old) + 1] = "live" /\ \A t \in 1..Len(old) : token'[t] = old[t]
    BY <1>1 DEF TokenState
  <1> QED
    BY <1>1, <1>2, <1>3 DEF Grows, PdsOK

\* An identity that was issued stays one.
LEMMA IdStill ==
    ASSUME PdsOK, Grows, NEW i, IdOK(i, minted, Len(token))
    PROVE  IdOK(i, minted', Len(token'))
  <1>1. /\ minted \in Nat /\ minted' \in Nat /\ Len(token) \in Nat /\ Len(token') \in Nat
        /\ minted <= minted' /\ Len(token) <= Len(token')
    BY DEF Grows, PdsOK
  <1>2. \A m, n, k \in Nat : m <= n /\ k \in 1..m => k \in 1..n
    OBVIOUS
  <1>3. i \in IdRecord /\ (i = None \/ (i.account \in 1..minted /\ i.token \in 1..Len(token)))
    BY DEF IdOK
  <1>4. i.account \in Nat /\ i.token \in Nat
    BY <1>3 DEF IdRecord
  <1> QED
    BY <1>1, <1>2, <1>3, <1>4 DEF IdOK

\* The identities in memory, as they were.
LEMMA MemKept ==
    ASSUME MemOK, Grows, PdsOK, mem' = mem
    PROVE  MemOK'
  BY IdStill DEF MemOK

\* One identity in memory anew.
LEMMA MemSet ==
    ASSUME MemOK, Grows, PdsOK, NEW p \in Process, NEW i,
           IdOK(i, minted', Len(token')), mem' = [mem EXCEPT ![p] = i]
    PROVE  MemOK' /\ mem'[p] = i /\ \A q \in Process \ {p} : mem'[q] = mem[q]
  <1>1. /\ mem'[p] = i /\ \A q \in Process \ {p} : mem'[q] = mem[q]
        /\ mem' = [q \in Process |-> mem'[q]]
    BY DEF MemOK
  <1>2. \A q \in Process : IdOK(mem'[q], minted', Len(token'))
    BY <1>1, IdStill DEF MemOK
  <1> QED
    BY <1>1, <1>2 DEF MemOK, IdOK

\* The sessions of the agents, as they were.
LEMMA SessionKept ==
    ASSUME SessionOK, Grows, PdsOK, session' = session
    PROVE  SessionOK'
  BY IdStill DEF SessionOK

\* One session anew.
LEMMA SessionSet ==
    ASSUME SessionOK, Grows, PdsOK, NEW p \in Process, NEW i,
           IdOK(i, minted', Len(token')), session' = [session EXCEPT ![p] = i]
    PROVE  SessionOK' /\ session'[p] = i
  <1>1. /\ session'[p] = i /\ \A q \in Process \ {p} : session'[q] = session[q]
        /\ session' = [q \in Process |-> session'[q]]
    BY DEF SessionOK
  <1>2. \A q \in Process : IdOK(session'[q], minted', Len(token'))
    BY <1>1, IdStill DEF SessionOK
  <1> QED
    BY <1>1, <1>2 DEF SessionOK, IdOK

\* The re-authentications, as they were.
LEMMA ReauthKept ==
    ASSUME ReauthOK, Grows, PdsOK, shared' = shared
    PROVE  ReauthOK'
  BY DEF ReauthOK, Grows, SharedOK, PdsOK

\* One re-authentication anew.
LEMMA ReauthSet ==
    ASSUME ReauthOK, Grows, PdsOK, NEW p \in Process, NEW s, SharedOK(s, minted'),
           shared' = [shared EXCEPT ![p] = s]
    PROVE  ReauthOK' /\ shared'[p] = s /\ \A q \in Process \ {p} : shared'[q] = shared[q]
  BY DEF ReauthOK, Grows, SharedOK, PdsOK

\* No account at all.
LEMMA Nobody ==
    /\ \A m, t \in Nat : IdOK(None, m, t) /\ SharedOK(NoReauth, m) /\ CallOK(Idle, m, t)
    /\ \A m, t \in Nat : FileOK(NoFile, m, t)
  BY DEF IdOK, None, IdRecord, SharedOK, NoReauth, CallOK, CallRecord, Idle, Phase, Quiet,
         Waiting, Joining, FileOK, FileRecord, NoFile

\* A call that may be, still may be when more is issued.
LEMMA CallStill ==
    ASSUME PdsOK, Grows, NEW r, CallOK(r, minted, Len(token))
    PROVE  CallOK(r, minted', Len(token'))
  <1>1. /\ minted \in Nat /\ minted' \in Nat /\ Len(token) \in Nat /\ Len(token') \in Nat
        /\ minted <= minted' /\ Len(token) <= Len(token')
    BY DEF Grows, PdsOK
  <1>2. \A m, n, k \in Nat : m <= n => /\ (k \in 1..m => k \in 1..n)
                                      /\ (k \in 0..m => k \in 0..n)
    OBVIOUS
  <1>3. r.account \in Nat /\ r.used \in Nat
    BY DEF CallOK, CallRecord
  <1> QED
    BY <1>1, <1>2, <1>3 DEF CallOK

\* The calls, as they were.
LEMMA CallsKept ==
    ASSUME CallsOK, Grows, PdsOK, call' = call
    PROVE  CallsOK'
  <1>1. \A p \in Process : Calls(p)' = Calls(p)
    BY DEF Grows, Calls, Listener
  <1>2. \A p \in Process : \A c \in Calls(p) : CallOK(call'[p][c], minted', Len(token'))
    BY CallStill DEF CallsOK
  <1> QED
    BY <1>1, <1>2 DEF CallsOK

\* One call becomes another.
LEMMA CallAt ==
    ASSUME CallsOK, NEW p \in Process, NEW c \in Calls(p), NEW r, Becomes(p, c, r)
    PROVE  /\ call' = [q \in Process |-> call'[q]]
           /\ \A q \in Process \ {p} : call'[q] = call[q]
           /\ call'[p] = [call[p] EXCEPT ![c] = r]
           /\ call'[p][c] = r /\ \A d \in Calls(p) \ {c} : call'[p][d] = call[p][d]
  BY DEF CallsOK, Becomes

\* That call is one that may be, and so are the others.
LEMMA CallSet ==
    ASSUME CallsOK, Grows, PdsOK, NEW p \in Process, NEW c \in Calls(p), NEW r, Becomes(p, c, r),
           CallOK(r, minted', Len(token'))
    PROVE  CallsOK'
  <1>1. \A q \in Process : Calls(q)' = Calls(q)
    BY DEF Grows, Calls, Listener
  <1>2. \A q \in Process : \A d \in Calls(q) : CallOK(call[q][d], minted', Len(token'))
    BY CallStill DEF CallsOK
  <1>3. /\ call' = [q \in Process |-> call'[q]]
        /\ \A q \in Process \ {p} : call'[q] = call[q]
        /\ call'[p] = [call[p] EXCEPT ![c] = r]
    BY CallAt
  <1>4. call'[p] \in [Calls(p) -> CallRecord]
    BY <1>3 DEF CallsOK, CallOK
  <1>5. \A q \in Process : call'[q] \in [Calls(q) -> CallRecord]
    BY <1>3, <1>4 DEF CallsOK
  <1>6. \A d \in Calls(p) : CallOK(call'[p][d], minted', Len(token'))
    BY <1>2, <1>3 DEF CallsOK
  <1>7. \A q \in Process : \A d \in Calls(q) : CallOK(call'[q][d], minted', Len(token'))
    BY <1>2, <1>3, <1>6
  <1> QED
    BY <1>1, <1>3, <1>5, <1>7 DEF CallsOK

\* All the calls of a process.
LEMMA CallsSet ==
    ASSUME CallsOK, Grows, PdsOK, NEW p \in Process, NEW f,
           call' = [call EXCEPT ![p] = f], f = [c \in Calls(p) |-> f[c]],
           \A c \in Calls(p) : CallOK(f[c], minted', Len(token'))
    PROVE  /\ CallsOK' /\ call'[p] = f
           /\ \A q \in Process \ {p} : call'[q] = call[q]
  <1>1. \A q \in Process : Calls(q)' = Calls(q)
    BY DEF Grows, Calls, Listener
  <1>2. \A q \in Process : \A d \in Calls(q) : CallOK(call[q][d], minted', Len(token'))
    BY CallStill DEF CallsOK
  <1>3. /\ call' = [q \in Process |-> call'[q]]
        /\ \A q \in Process \ {p} : call'[q] = call[q]
        /\ call'[p] = f
    BY DEF CallsOK
  <1>4. call'[p] \in [Calls(p) -> CallRecord]
    BY <1>3 DEF CallOK
  <1>5. \A q \in Process : call'[q] \in [Calls(q) -> CallRecord]
    BY <1>3, <1>4 DEF CallsOK
  <1>6. \A q \in Process : \A d \in Calls(q) : CallOK(call'[q][d], minted', Len(token'))
    BY <1>2, <1>3
  <1> QED
    BY <1>1, <1>3, <1>5, <1>6 DEF CallsOK

\* The file and its writers, as they were.
LEMMA DiskKept ==
    ASSUME DiskOK, Grows, PdsOK, UNCHANGED disk
    PROVE  DiskOK'
  <1>1. \A p \in Process : TodoOK(todo[p], minted', Len(token'))
    BY DEF DiskOK, TodoOK, WriteOK, Grows, PdsOK
  <1>2. /\ \A p \in Process : FileOK(renaming[p], minted', Len(token'))
        /\ FileOK(file, minted', Len(token'))
    BY DEF DiskOK, FileOK, Grows, PdsOK
  <1> QED
    BY <1>1, <1>2 DEF DiskOK, disk

\* One process goes on to a write.
LEMMA DiskWrite ==
    ASSUME DiskOK, Grows, PdsOK, NEW p \in Process, NEW w, WriteOK(w, minted', Len(token')),
           Write(p, <<w>>)
    PROVE  /\ DiskOK' /\ todo'[p] = <<w>> /\ w \in WriteRecord
           /\ \A q \in Process \ {p} : todo'[q] = todo[q]
  <1>1. \A q \in Process : TodoOK(todo[q], minted', Len(token'))
    BY DEF DiskOK, TodoOK, WriteOK, Grows, PdsOK
  <1>2. /\ \A q \in Process : FileOK(renaming[q], minted', Len(token'))
        /\ FileOK(file, minted', Len(token'))
    BY DEF DiskOK, FileOK, Grows, PdsOK
  <1>3. /\ todo' = [q \in Process |-> todo'[q]] /\ todo'[p] = <<w>>
        /\ \A q \in Process \ {p} : todo'[q] = todo[q]
    BY DEF DiskOK, Write
  <1>4. \A q \in Process : TodoOK(todo'[q], minted', Len(token'))
    BY <1>1, <1>3 DEF TodoOK, WriteOK
  <1>5. <<w>> # <<>>
    OBVIOUS
  <1>6. \A q \in Process : renaming[q] # NoFile => todo'[q] # <<>>
    BY <1>3, <1>5 DEF DiskOK
  <1> QED
    BY <1>2, <1>3, <1>6, <1>4, <1>5 DEF DiskOK, Write, WriteOK

(* What the steps of a process that works do *)

\* A process works: it may issue something, leaves the other process alone, and does
\* not rename.
Works(p) ==
    /\ p \in up /\ up' = up /\ Grows
    /\ \A q \in Process \ {p} :
         /\ mem'[q] = mem[q] /\ shared'[q] = shared[q] /\ call'[q] = call[q]
         /\ todo'[q] = todo[q] /\ unsaved'[q] = unsaved[q]
    /\ UNCHANGED <<renaming, file, crossed>> /\ (unsaved[p] => unsaved'[p])
    /\ mem[p] # None => mem'[p] # None
    /\ trouble' \in Nat /\ rows' \in Nat /\ trouble <= trouble' /\ rows <= rows'
    /\ trouble = trouble' => \A t \in 1..Len(token) : Usable(t) => token'[t] \in {"live", "spent"}

\* What a call may be after it.
CallFits(p, c, r) ==
    /\ r.phase # "threw" /\ r.since <= trouble' /\ r.sent <= rows'
    /\ r.phase = "recall" /\ r.since = trouble' => token'[r.used] \in {"live", "spent"}
    /\ r.phase \notin Quiet \cup {"join", "minted"} => mem'[p] # None
    /\ r.phase \in Joining => p = Tool /\ c \in ToolCall

AllFit(p) == \A c \in Calls(p) : CallFits(p, c, call'[p][c])

\* What it may have written next.
WritesFit(p) ==
    \/ todo'[p] = todo[p] /\ mem'[p] = mem[p] /\ rows' = rows
    \/ todo[p] = <<>> /\ todo'[p] = <<>> /\ rows' = rows /\ unsaved'[p]
    \/ /\ todo[p] = <<>> /\ mem'[p] # None /\ (rows' = rows \/ p = Listener)
       /\ \E w \in WriteRecord :
            /\ todo'[p] = <<w>>
            /\ w.kind = "commit" => p = Listener /\ w.cursor = rows'
            /\ w.kind = "swap" => w.sent <= w.cursor /\ w.cursor <= rows'
            /\ w.kind = "save" => w.id = mem'[p]
            /\ w.kind # "save" => mem'[p] = mem[p]

\* Who learns of an identity finds it on disk, is about to save it, or failed to; a join
\* that has something to write goes on.
Housed(p) ==
    /\ mem'[p] # None /\ mem[p] = None =>
         \/ file # NoFile
         \/ p = Tool /\ unsaved'[Tool]
         \/ /\ p = Tool /\ \E c \in Calls(Tool) : call'[Tool][c].phase = "joined"
            /\ \E w \in WriteRecord : todo'[Tool] = <<w>> /\ w.kind = "save"
    /\ todo[p] = <<>>
       \/ \A c \in Calls(p) : call[p][c].phase = "joined" => call'[p][c].phase = "joined"

\* A re-authentication runs, and somebody waits for it.
Waits(p) ==
    shared'[p].stage # "none" <=> \E c \in Calls(p) : call'[p][c].phase \in Waiting

\* The calls of a process that works fit if they were left as they were.
LEMMA FitStill ==
    ASSUME IdentityInv, NEW p \in Process, Works(p)
    PROVE  \A c \in Calls(p) : CallFits(p, c, call[p][c])
  <1> SUFFICES ASSUME NEW c \in Calls(p) PROVE CallFits(p, c, call[p][c])
    OBVIOUS
  <1> DEFINE r == call[p][c]
  <1>1. CallOK(r, minted, Len(token)) /\ r \in CallRecord
    BY DEF IdentityInv, Typed, CallsOK, CallOK
  <1>2. r.since \in Nat /\ r.sent \in Nat /\ r.used \in Nat /\ r.phase \in Phase
    BY <1>1 DEF CallRecord
  <1>3. /\ trouble \in Nat /\ trouble' \in Nat /\ rows \in Nat /\ rows' \in Nat
        /\ trouble <= trouble' /\ rows <= rows'
    BY DEF IdentityInv, Typed, BoundsOK, Works
  <1>4. /\ r.phase # "threw" /\ r.since <= trouble /\ r.sent <= rows
        /\ r.phase = "recall" /\ r.since = trouble => Usable(r.used)
    BY DEF IdentityInv, Budget, Cursors
  <1>5. r.since <= trouble' /\ r.sent <= rows' /\ (r.since = trouble' => trouble = trouble')
    BY <1>2, <1>3, <1>4
  <1>6. r.phase = "recall" /\ r.since = trouble' => token'[r.used] \in {"live", "spent"}
    <2>1. r.phase = "recall" => r.used \in 1..Len(token)
      BY <1>1 DEF CallOK
    <2> QED
      BY <1>4, <1>5, <2>1 DEF Works
  <1>7. r.phase \notin Quiet \cup {"join", "minted"} => mem'[p] # None
    BY DEF IdentityInv, Homes, Works
  <1>8. r.phase \in Joining => p = Tool /\ c \in ToolCall
    BY TwoProcesses DEF IdentityInv, Homes
  <1> QED
    BY <1>4, <1>5, <1>6, <1>7, <1>8 DEF CallFits

\* One call that becomes another.
LEMMA OneFits ==
    ASSUME IdentityInv, NEW p \in Process, Works(p), NEW c \in Calls(p), NEW r,
           Becomes(p, c, r), CallFits(p, c, r)
    PROVE  AllFit(p)
  <1>1. CallsOK
    BY DEF IdentityInv, Typed
  <1>2. call'[p][c] = r /\ \A d \in Calls(p) \ {c} : call'[p][d] = call[p][d]
    BY <1>1 DEF CallsOK, Becomes
  <1>3. \A d \in Calls(p) : CallFits(p, d, call'[p][d])
    <2>1. CallFits(p, c, call'[p][c])
      BY <1>2
    <2>2. \A d \in Calls(p) \ {c} : CallFits(p, d, call'[p][d])
      BY <1>2, FitStill
    <2> QED
      BY <2>1, <2>2
  <1> QED
    BY <1>3 DEF AllFit

\* Short of overlapping joins and lost answers the account stays where it is.
LEMMA MintedStill ==
    ASSUME IdentityInv, NEW p \in Process, Works(p), minted' = minted, orphaned => orphaned',
           p = Tool => \A c \in Calls(Tool) :
             /\ call'[Tool][c].phase \in Joining => call[Tool][c].phase = call'[Tool][c].phase
             /\ call[Tool][c].phase = "minted" => call'[Tool][c].phase = "minted"
    PROVE  Minted'
  <1>1. Calls(Tool)' = Calls(Tool)
    BY DEF Works, Grows, Calls, Listener
  <1>2. \A c \in Calls(Tool) :
          /\ call'[Tool][c].phase \in Joining => call[Tool][c].phase = call'[Tool][c].phase
          /\ call[Tool][c].phase = "minted" => call'[Tool][c].phase = "minted"
    BY TwoProcesses DEF Works
  <1>3. (mem[Tool] # None => mem'[Tool] # None) /\ file' = file
    BY TwoProcesses DEF Works
  <1>4. Minted
    BY DEF IdentityInv
  <1> SUFFICES ASSUME ~orphaned' PROVE Minted'
    BY DEF Minted
  <1>5. minted' <= 1 /\ (minted' = 1 => \/ \E c \in Calls(Tool)' : call'[Tool][c].phase = "minted"
                                       \/ mem'[Tool] # None \/ file' # NoFile)
    BY <1>1, <1>2, <1>3, <1>4 DEF Minted
  <1>6. \A c, d \in Calls(Tool)' :
          call'[Tool][c].phase \in Joining /\ call'[Tool][d].phase \in Joining => c = d
    BY <1>1, <1>2, <1>4 DEF Minted
  <1>7. \A c \in Calls(Tool)' : call'[Tool][c].phase = "join" => minted' = 0
    BY <1>1, <1>2, <1>4 DEF Minted, Joining
  <1> QED
    BY <1>5, <1>6, <1>7 DEF Minted

\* Whatever fits leaves the session in order.
LEMMA WorksStep ==
    ASSUME IdentityInv, NEW p \in Process, Works(p), Typed', Minted',
           AllFit(p), WritesFit(p), Housed(p), Waits(p)
    PROVE  IdentityInv'
  <1>1. /\ \A q \in Process : Calls(q)' = Calls(q)
        /\ Listener' = Listener /\ codex' = codex /\ up' = up
    BY DEF Works, Grows, Calls, Listener
  <1>2. /\ renaming' = renaming /\ file' = file /\ crossed' = crossed /\ p \in up
        /\ \A q \in Process \ {p} :
             /\ mem'[q] = mem[q] /\ shared'[q] = shared[q] /\ call'[q] = call[q]
             /\ todo'[q] = todo[q] /\ unsaved'[q] = unsaved[q]
        /\ unsaved[p] => unsaved'[p]
    BY DEF Works
  <1>3. /\ mem[p] # None => mem'[p] # None
        /\ trouble \in Nat /\ trouble' \in Nat /\ rows \in Nat /\ rows' \in Nat
        /\ trouble <= trouble' /\ rows <= rows'
    BY DEF Works, IdentityInv, Typed, BoundsOK
  <1>4. \A q \in Process \ {p} : \A c \in Calls(q) :
          /\ call'[q][c] = call[q][c] /\ call'[q][c] \in CallRecord
          /\ call[q][c].phase = "recall" => call[q][c].used \in 1..Len(token)
    BY <1>2 DEF IdentityInv, Typed, CallsOK, CallOK
  <1>5. Down'
    BY <1>1, <1>2 DEF IdentityInv, Down
  <1>6. NotStranded'
    <2>1. \A q \in Process \ {p} :
            shared'[q].stage # "none" <=> \E c \in Calls(q)' : call'[q][c].phase \in Waiting
      BY <1>1, <1>2 DEF IdentityInv, NotStranded
    <2> QED
      BY <1>1, <2>1 DEF NotStranded, Waits
  <1>7. Budget'
    <2>1. \A c \in Calls(p)' :
            /\ call'[p][c].phase # "threw" /\ call'[p][c].since <= trouble'
            /\ call'[p][c].phase = "recall" /\ call'[p][c].since = trouble'
                 => token'[call'[p][c].used] \in {"live", "spent"}
      BY <1>1 DEF AllFit, CallFits
    <2>2. \A q \in Process \ {p} : \A c \in Calls(q)' :
            /\ call'[q][c].phase # "threw" /\ call'[q][c].since <= trouble'
            /\ call'[q][c].phase = "recall" /\ call'[q][c].since = trouble'
                 => token'[call'[q][c].used] \in {"live", "spent"}
      <3> SUFFICES ASSUME NEW q \in Process \ {p}, NEW c \in Calls(q)
                   PROVE  /\ call[q][c].phase # "threw" /\ call[q][c].since <= trouble'
                          /\ call[q][c].phase = "recall" /\ call[q][c].since = trouble'
                               => token'[call[q][c].used] \in {"live", "spent"}
        BY <1>1, <1>4
      <3>1. call[q][c].since \in Nat
        BY <1>4 DEF CallRecord
      <3>2. /\ call[q][c].phase # "threw" /\ call[q][c].since <= trouble
            /\ call[q][c].phase = "recall" /\ call[q][c].since = trouble => Usable(call[q][c].used)
        BY DEF IdentityInv, Budget
      <3>3. call[q][c].since <= trouble' /\ (call[q][c].since = trouble' => trouble = trouble')
        BY <1>3, <3>1, <3>2
      <3> QED
        BY <1>4, <3>2, <3>3 DEF Works
    <2> QED
      BY <2>1, <2>2 DEF Budget, Usable
  <1>8. Cursors'
    <2>1. \A q \in Process : renaming[q] \in FileRecord /\ file \in FileRecord
      BY DEF IdentityInv, Typed, DiskOK, FileOK
    <2>2. /\ file.cursor <= rows'
          /\ \A q \in Process :
               /\ renaming[q].cursor <= rows'
               /\ renaming[q] # NoFile /\ ~crossed[q] => file.cursor <= renaming[q].cursor
      <3>1. /\ file.cursor <= rows /\ file.cursor \in Nat
            /\ \A q \in Process :
                 /\ renaming[q].cursor <= rows /\ renaming[q].cursor \in Nat
                 /\ renaming[q] # NoFile /\ ~crossed[q] => file.cursor <= renaming[q].cursor
        BY <2>1 DEF IdentityInv, Cursors, FileRecord
      <3> QED
        BY <1>3, <3>1
    <2>3. \A q \in Process : \A c \in Calls(q) : call'[q][c].sent <= rows'
      <3>1. \A c \in Calls(p) : call'[p][c].sent <= rows'
        BY DEF AllFit, CallFits
      <3>2. \A q \in Process \ {p} : \A c \in Calls(q) :
              call[q][c].sent <= rows /\ call[q][c].sent \in Nat
        BY <1>4 DEF IdentityInv, Cursors, CallRecord
      <3>3. \A q \in Process \ {p} : \A c \in Calls(q) : call'[q][c].sent <= rows'
        BY <1>3, <1>4, <3>2
      <3> QED
        BY <3>1, <3>3
    <2>4. \A q \in Process : \A w \in WriteRecord : todo[q] = <<w>> =>
            /\ w.kind = "commit" => q = Listener /\ w.cursor = rows
            /\ w.kind = "swap" => w.sent <= w.cursor /\ w.cursor <= rows
      BY DEF IdentityInv, Cursors
    <2>5. \A w \in WriteRecord : w.cursor \in Nat /\ w.sent \in Nat
      BY DEF WriteRecord
    <2>6. \A q \in Process \ {p} : \A w \in WriteRecord : todo'[q] = <<w>> =>
            /\ w.kind = "commit" => q = Listener /\ w.cursor = rows'
            /\ w.kind = "swap" => w.sent <= w.cursor /\ w.cursor <= rows'
      <3>1. rows' = rows \/ p = Listener
        BY DEF WritesFit
      <3> QED
        BY <1>2, <1>3, <2>4, <2>5, <3>1
    <2>7. \A w \in WriteRecord : todo'[p] = <<w>> =>
            /\ w.kind = "commit" => p = Listener /\ w.cursor = rows'
            /\ w.kind = "swap" => w.sent <= w.cursor /\ w.cursor <= rows'
      <3>0. \A w \in WriteRecord : <<w>> # <<>>
        OBVIOUS
      <3>1. CASE (todo'[p] = todo[p] \/ todo'[p] = <<>>) /\ rows' = rows
        BY <2>4, <3>0, <3>1
      <3>2. CASE \E w \in WriteRecord :
                   /\ todo'[p] = <<w>>
                   /\ w.kind = "commit" => p = Listener /\ w.cursor = rows'
                   /\ w.kind = "swap" => w.sent <= w.cursor /\ w.cursor <= rows'
        <4>1. \A v, w \in WriteRecord : <<v>> = <<w>> => v = w
          OBVIOUS
        <4> QED
          BY <3>2, <4>1
      <3> QED
        BY <3>1, <3>2 DEF WritesFit
    <2>8. \A q \in Process : \A w \in WriteRecord : todo'[q] = <<w>> =>
            /\ w.kind = "commit" => q = Listener' /\ w.cursor = rows'
            /\ w.kind = "swap" => w.sent <= w.cursor /\ w.cursor <= rows'
      BY <1>1, <2>6, <2>7
    <2> QED
      BY <1>1, <1>2, <2>2, <2>3, <2>8 DEF Cursors
  <1>9. Homes'
    <2>1. Tool \in Process /\ Host \in Process /\ Tool # Host /\ (p = Tool \/ p = Host)
      BY TwoProcesses
    <2>2. Tool \in up /\ mem'[Tool] = None => file = NoFile
      BY <1>2, <1>3, <2>1 DEF IdentityInv, Homes
    <2>3. mem'[Host] # None => file # NoFile
      BY <1>2, <1>3, <2>1 DEF IdentityInv, Homes, Housed
    <2>4. \A q \in Process : todo'[q] # <<>> => mem'[q] # None
      <3>1. todo'[p] # <<>> => mem'[p] # None
        BY <1>3 DEF IdentityInv, Homes, WritesFit
      <3> QED
        BY <1>2, <3>1 DEF IdentityInv, Homes
    <2>5. \A q \in Process : \A c \in Calls(q) :
            call'[q][c].phase \notin Quiet \cup {"join", "minted"} => mem'[q] # None
      <3>1. \A c \in Calls(p) :
              call'[p][c].phase \notin Quiet \cup {"join", "minted"} => mem'[p] # None
        BY DEF AllFit, CallFits
      <3>2. \A q \in Process \ {p} : \A c \in Calls(q) :
              call'[q][c].phase \notin Quiet \cup {"join", "minted"} => mem'[q] # None
        BY <1>2 DEF IdentityInv, Homes
      <3> QED
        BY <3>1, <3>2
    <2>6. mem'[Tool] # None /\ file = NoFile /\ ~unsaved'[Tool] =>
            /\ \E c \in Calls(Tool) : call'[Tool][c].phase = "joined"
            /\ \E w \in WriteRecord : todo'[Tool] = <<w>> /\ w.kind = "save"
      <3> SUFFICES ASSUME mem'[Tool] # None, file = NoFile, ~unsaved'[Tool]
                   PROVE  /\ \E c \in Calls(Tool) : call'[Tool][c].phase = "joined"
                          /\ \E w \in WriteRecord : todo'[Tool] = <<w>> /\ w.kind = "save"
        OBVIOUS
      <3>1. mem[Tool] # None =>
              /\ \E c \in Calls(Tool) : call[Tool][c].phase = "joined"
              /\ \E w \in WriteRecord : todo[Tool] = <<w>> /\ w.kind = "save"
        <4>1. ~unsaved[Tool]
          BY <1>2, <2>1
        <4> QED
          BY <4>1 DEF IdentityInv, Homes
      <3>2. CASE p # Tool
        BY <1>2, <2>1, <3>1, <3>2
      <3>3. CASE p = Tool /\ mem[Tool] = None
        BY <3>3 DEF Housed
      <3>4. CASE p = Tool /\ mem[Tool] # None
        <4>1. todo[Tool] # <<>>
          <5>1. \A w \in WriteRecord : <<w>> # <<>>
            OBVIOUS
          <5> QED
            BY <3>1, <3>4, <5>1
        <4>2. todo'[Tool] = todo[Tool]
          BY <3>4, <4>1 DEF WritesFit
        <4>3. \A c \in Calls(Tool) : call[Tool][c].phase = "joined" => call'[Tool][c].phase = "joined"
          BY <3>4, <4>1 DEF Housed
        <4> QED
          BY <3>1, <3>4, <4>2, <4>3
      <3> QED
        BY <3>2, <3>3, <3>4
    <2>7. \A c \in Calls(Host) : call'[Host][c].phase \notin Joining
      <3>1. CASE p = Host
        BY <2>1, <3>1 DEF AllFit, CallFits
      <3>2. CASE p # Host
        BY <1>2, <2>1, <3>2 DEF IdentityInv, Homes
      <3> QED
        BY <3>1, <3>2
    <2>8. \A c \in Calls(Tool) : call'[Tool][c].phase \in Joining => c \in ToolCall /\ Tool \in up
      <3>1. CASE p = Tool
        BY <1>2, <3>1 DEF AllFit, CallFits
      <3>2. CASE p # Tool
        BY <1>2, <2>1, <3>2 DEF IdentityInv, Homes
      <3> QED
        BY <3>1, <3>2
    <2> QED
      BY <1>1, <1>2, <2>1, <2>2, <2>3, <2>4, <2>5, <2>6, <2>7, <2>8 DEF Homes
  <1>10. OwnFile'
    <2> SUFFICES ASSUME ~codex PROVE OwnFile'
      BY <1>1 DEF OwnFile
    <2>1. p = Tool /\ Host \notin up /\ renaming[Host] = NoFile
      BY <1>2, TwoProcesses DEF IdentityInv, OwnFile
    <2>2. /\ todo[Tool] = <<>> /\ ~unsaved[Tool] => mem[Tool] = Loaded
          /\ \A w \in WriteRecord : todo[Tool] = <<w>> =>
               /\ w.kind = "save" => w.id = mem[Tool]
               /\ w.kind # "save" /\ ~unsaved[Tool] => mem[Tool] = Loaded
               /\ renaming[Tool] # NoFile /\ (w.kind = "save" \/ ~unsaved[Tool]) =>
                    Id(renaming[Tool].account, renaming[Tool].token) = mem[Tool]
          /\ unsaved[Tool] => unsaved'[Tool]
      BY <1>2, <2>1 DEF IdentityInv, OwnFile
    <2>3. /\ todo'[Tool] = <<>> /\ ~unsaved'[Tool] => mem'[Tool] = Loaded
          /\ \A w \in WriteRecord : todo'[Tool] = <<w>> =>
               /\ w.kind = "save" => w.id = mem'[Tool]
               /\ w.kind # "save" /\ ~unsaved'[Tool] => mem'[Tool] = Loaded
               /\ renaming[Tool] # NoFile /\ (w.kind = "save" \/ ~unsaved'[Tool]) =>
                    Id(renaming[Tool].account, renaming[Tool].token) = mem'[Tool]
      <3>0. \A w \in WriteRecord : <<w>> # <<>>
        OBVIOUS
      <3>1. CASE todo'[p] = todo[p] /\ mem'[p] = mem[p]
        BY <2>1, <2>2, <3>1
      <3>3. CASE todo'[p] = <<>> /\ unsaved'[p]
        BY <2>1, <3>0, <3>3
      <3>2. CASE /\ todo[p] = <<>>
                 /\ \E w \in WriteRecord :
                      /\ todo'[p] = <<w>>
                      /\ w.kind = "save" => w.id = mem'[p]
                      /\ w.kind # "save" => mem'[p] = mem[p]
        <4>1. \A v, w \in WriteRecord : (<<v>> = <<w>> => v = w) /\ <<v>> # <<>>
          OBVIOUS
        <4>2. renaming[Tool] = NoFile
          BY <2>1, <3>2, TwoProcesses DEF IdentityInv, Typed, DiskOK
        <4> QED
          BY <2>1, <2>2, <3>2, <4>1, <4>2
      <3> QED
        BY <3>1, <3>2, <3>3 DEF WritesFit
    <2>4. Loaded' = Loaded
      BY <1>2 DEF Loaded
    <2> QED
      BY <1>1, <1>2, <2>1, <2>3, <2>4 DEF OwnFile
  <1> QED
    BY <1>5, <1>6, <1>7, <1>8, <1>9, <1>10 DEF IdentityInv

\* A call that is idle fits.
LEMMA IdleFits ==
    ASSUME IdentityInv, NEW p \in Process, Works(p), NEW c
    PROVE  CallFits(p, c, Idle)
  <1>1. trouble' \in Nat /\ rows' \in Nat
    BY DEF Works
  <1> QED
    BY <1>1 DEF CallFits, Idle, Quiet, Joining

\* It writes nothing.
LEMMA NoWrite ==
    ASSUME NEW p \in Process, UNCHANGED <<todo, mem, rows>>
    PROVE  WritesFit(p)
  BY DEF WritesFit

\* It had an identity before, or has none now.
LEMMA AtHome ==
    ASSUME NEW p \in Process, todo[p] = <<>>, mem[p] # None \/ mem'[p] = mem[p]
    PROVE  Housed(p)
  BY DEF Housed

\* A call that neither waited nor waits.
LEMMA WaitsStill ==
    ASSUME IdentityInv, NEW p \in Process, NEW c \in Calls(p), NEW r, Becomes(p, c, r),
           r.phase \notin Waiting, call[p][c].phase \notin Waiting, shared' = shared
    PROVE  Waits(p)
  <1>1. call'[p][c] = r /\ \A d \in Calls(p) \ {c} : call'[p][d] = call[p][d]
    BY DEF IdentityInv, Typed, CallsOK, Becomes
  <1>2. shared[p].stage # "none" <=> \E d \in Calls(p) : call[p][d].phase \in Waiting
    BY DEF IdentityInv, NotStranded
  <1> QED
    BY <1>1, <1>2 DEF Waits

\* A call that waits from now on.
LEMMA WaitsNow ==
    ASSUME IdentityInv, NEW p \in Process, NEW c \in Calls(p), NEW r, Becomes(p, c, r),
           r.phase \in Waiting, shared'[p].stage # "none"
    PROVE  Waits(p)
  <1>1. call'[p][c] = r
    BY DEF IdentityInv, Typed, CallsOK, Becomes
  <1> QED
    BY <1>1 DEF Waits

\* A call that is no join any more, and left no account behind.
LEMMA MintedOne ==
    ASSUME IdentityInv, NEW p \in Process, Works(p), minted' = minted, orphaned => orphaned',
           NEW c \in Calls(p), NEW r, Becomes(p, c, r), r.phase \notin Joining,
           call[p][c].phase # "minted"
    PROVE  Minted'
  <1>1. call'[p][c] = r /\ \A d \in Calls(p) \ {c} : call'[p][d] = call[p][d]
    BY DEF IdentityInv, Typed, CallsOK, Becomes
  <1> QED
    BY <1>1, MintedStill

\* An identity that was issued may be saved.
LEMMA Saves ==
    ASSUME NEW m \in Nat, NEW t \in Nat, NEW a \in 1..m, NEW n \in 1..t
    PROVE  /\ WriteOK(Save(Id(a, n)), m, t) /\ Save(Id(a, n)) \in WriteRecord
           /\ IdOK(Id(a, n), m, t) /\ Id(a, n) # None
           /\ Save(Id(a, n)).kind = "save" /\ Save(Id(a, n)).id = Id(a, n)
           /\ Id(a, n).account = a /\ Id(a, n).token = n
  BY DEF WriteOK, Save, Id, WriteRecord, IdRecord, None, IdOK

\* The bounds, as they were.
LEMMA BoundsKept ==
    ASSUME BoundsOK, UNCHANGED <<codex, up, rows, joins, expired, trouble>>, polled' \in BOOLEAN,
           orphaned' \in BOOLEAN
    PROVE  BoundsOK' /\ trouble' \in Nat /\ rows' \in Nat /\ trouble <= trouble' /\ rows <= rows'
  BY DEF BoundsOK

\* One trouble more.
LEMMA BoundsTroubled ==
    ASSUME BoundsOK, UNCHANGED <<codex, rows, joins>>, Trouble, polled' \in BOOLEAN,
           orphaned' \in BOOLEAN, up' \subseteq Process
    PROVE  /\ BoundsOK' /\ trouble' \in Nat /\ rows' \in Nat /\ rows <= rows'
           /\ trouble <= trouble' /\ trouble # trouble'
  <1>1. /\ trouble' = trouble + 1 /\ expired' = expired /\ trouble \in Nat
        /\ expired \in 0..MaxExpire /\ rows \in 1..MaxRow /\ trouble - expired < MaxTrouble
        /\ trouble - expired \in 0..MaxTrouble
    BY DEF BoundsOK, Trouble
  <1>2. (trouble + 1) - expired \in 0..MaxTrouble /\ trouble + 1 \in Nat
        /\ trouble <= trouble + 1 /\ trouble # trouble + 1
    BY <1>1, IdentityAssumption
  <1>3. trouble' \in Nat /\ trouble' - expired' \in 0..MaxTrouble /\ trouble <= trouble'
        /\ trouble # trouble'
    BY <1>1, <1>2
  <1>4. rows' \in Nat /\ rows <= rows'
    BY <1>1
  <1> QED
    BY <1>1, <1>3, <1>4 DEF BoundsOK

\* A step that issues nothing takes no token away.
LEMMA WorksQuietly ==
    ASSUME IdentityInv, NEW p \in Process, p \in up, UNCHANGED <<codex, up, pds>>, BoundsOK',
           trouble' \in Nat /\ rows' \in Nat /\ trouble <= trouble' /\ rows <= rows',
           UNCHANGED <<renaming, file, crossed, unsaved>>, mem[p] # None => mem'[p] # None,
           \A q \in Process \ {p} :
             mem'[q] = mem[q] /\ shared'[q] = shared[q] /\ call'[q] = call[q] /\ todo'[q] = todo[q]
    PROVE  Grows /\ Works(p)
  <1>1. Grows
    BY NothingIssued DEF IdentityInv, Typed
  <1>2. \A t \in 1..Len(token) : Usable(t) => token'[t] \in {"live", "spent"}
    BY DEF Usable, pds
  <1> QED
    BY <1>1, <1>2 DEF Works

\* A call becomes another, and nothing is written or issued.
LEMMA CallOnly ==
    ASSUME IdentityInv, NEW p \in Process, NEW c \in Calls(p), NEW r, Free(p),
           Becomes(p, c, r), CallOK(r, minted, Len(token)), CallFits(p, c, r),
           UNCHANGED <<codex, up, mem, polled, disk, pds>>, SessionOK', ReauthOK', BoundsOK',
           trouble' \in Nat /\ rows' = rows /\ trouble <= trouble',
           \A q \in Process \ {p} : shared'[q] = shared[q], Minted', Waits(p)
    PROVE  IdentityInv'
  <1>1. \A q \in Process \ {p} : call'[q] = call[q]
    BY DEF IdentityInv, Typed, CallsOK, Becomes
  <1>2. rows \in Nat
    BY DEF IdentityInv, Typed, BoundsOK
  <1>3. Grows /\ Works(p)
    BY <1>1, <1>2, WorksQuietly DEF disk, Free
  <1>4. CallOK(r, minted', Len(token'))
    BY DEF pds
  <1>5. Typed'
    BY <1>3, <1>4, CallSet, MemKept, DiskKept DEF IdentityInv, Typed, Grows
  <1>6. AllFit(p)
    BY <1>3, OneFits
  <1>7. WritesFit(p) /\ Housed(p)
    BY NoWrite, AtHome DEF disk, Free
  <1> QED
    BY <1>3, <1>5, <1>6, <1>7, WorksStep

(* Calls *)

\* What a call asks with.
Ask(a, k, s) == [Idle EXCEPT !.account = a, !.since = k, !.sent = s]

Asks(a, k, s, t) == [Ask(a, k, s) EXCEPT !.phase = "call", !.used = t]
Stays(a, k, s)   == [Ask(a, k, s) EXCEPT !.phase = "wait"]

\* It is a call like another.
LEMMA Asking ==
    ASSUME NEW a, NEW k, NEW s, NEW t, a \in Nat /\ k \in Nat /\ s \in Nat /\ t \in Nat
    PROVE  /\ Asks(a, k, s, t)
                = [phase |-> "call", account |-> a, used |-> t, sent |-> s, since |-> k]
           /\ Stays(a, k, s)
                = [phase |-> "wait", account |-> a, used |-> 0, sent |-> s, since |-> k]
  <1> DEFINE q == Ask(a, k, s)
             c == [q EXCEPT !.phase = "call", !.used = t]
             d == [phase |-> "call", account |-> a, used |-> t, sent |-> s, since |-> k]
             w == [q EXCEPT !.phase = "wait"]
             v == [phase |-> "wait", account |-> a, used |-> 0, sent |-> s, since |-> k]
  <1>1. Idle \in CallRecord /\ Idle.used = 0 /\ Idle.phase = "idle"
    BY DEF Idle, CallRecord, Phase, Quiet
  <1>2. /\ q \in CallRecord /\ q.account = a /\ q.since = k /\ q.sent = s /\ q.used = 0
    BY <1>1 DEF CallRecord, Ask
  <1>3. "call" \in Phase /\ "wait" \in Phase
    BY DEF Phase, Waiting
  <1> HIDE DEF q
  <1>4. /\ c \in CallRecord /\ c.phase = "call" /\ c.used = t /\ c.account = a
        /\ c.since = k /\ c.sent = s
    BY <1>2, <1>3 DEF CallRecord
  <1>5. /\ w \in CallRecord /\ w.phase = "wait" /\ w.used = 0 /\ w.account = a
        /\ w.since = k /\ w.sent = s
    BY <1>2, <1>3 DEF CallRecord
  <1>6. d \in CallRecord /\ v \in CallRecord
    BY <1>3 DEF CallRecord
  <1>7. \A x, y \in CallRecord :
          /\ x.phase = y.phase /\ x.account = y.account /\ x.used = y.used
          /\ x.sent = y.sent /\ x.since = y.since
          => x = y
    BY DEF CallRecord
  <1>8. c = d
    <2> HIDE DEF c
    <2>1. d.phase = "call" /\ d.used = t /\ d.account = a /\ d.since = k /\ d.sent = s
      OBVIOUS
    <2> HIDE DEF d
    <2> QED
      BY <1>4, <1>6, <1>7, <2>1
  <1>9. w = v
    <2> HIDE DEF w
    <2>1. v.phase = "wait" /\ v.used = 0 /\ v.account = a /\ v.since = k /\ v.sent = s
      OBVIOUS
    <2> HIDE DEF v
    <2> QED
      BY <1>5, <1>6, <1>7, <2>1
  <1> QED
    BY <1>8, <1>9 DEF q, Asks, Stays

\* A call that begins, with the agent's session or behind a re-authentication.
LEMMA CallStep ==
    ASSUME IdentityInv, NEW p \in Process, NEW c \in Calls(p), Call(p, c)
    PROVE  IdentityInv'
  <1> DEFINE a == mem[p].account
             s == IF c = Register THEN file.cursor ELSE 0
             r(phase, used) == [phase |-> phase, account |-> a, used |-> used, sent |-> s,
                                since |-> trouble]
  <1>1. /\ Free(p) /\ call[p][c].phase \in Quiet /\ mem[p] # None
        /\ UNCHANGED <<codex, up, mem, polled, disk, pds, bounds, orphaned>>
    BY DEF Call
  <1>2. \/ /\ session[p].account = a /\ Becomes(p, c, r("call", session[p].token))
           /\ UNCHANGED <<session, shared>>
        \/ /\ Becomes(p, c, r("wait", 0))
           /\ IF shared[p].stage # "none"
              THEN UNCHANGED <<session, shared>>
              ELSE /\ shared' = [shared EXCEPT ![p] = [stage |-> "resume", account |-> a]]
                   /\ session' = [session EXCEPT ![p] = mem[p]]
    <2>0. /\ a \in Nat /\ trouble \in Nat /\ s \in Nat /\ session[p].token \in Nat
      BY DEF IdentityInv, Typed, MemOK, SessionOK, IdRecord, DiskOK, FileOK, FileRecord, BoundsOK
    <2>3. \/ /\ session[p].account = a
             /\ Becomes(p, c, Asks(a, trouble, s, session[p].token))
             /\ UNCHANGED <<session, shared>>
          \/ /\ Becomes(p, c, Stays(a, trouble, s))
             /\ IF shared[p].stage # "none"
                THEN UNCHANGED <<session, shared>>
                ELSE /\ shared' = [shared EXCEPT ![p] = [stage |-> "resume", account |-> a]]
                     /\ session' = [session EXCEPT ![p] = mem[p]]
      BY DEF Call, Ask, Asks, Stays
    <2> HIDE DEF a, s
    <2>1. Asks(a, trouble, s, session[p].token) = r("call", session[p].token)
      <3>1. \A t \in Nat : Asks(a, trouble, s, t) = [phase |-> "call", account |-> a, used |-> t,
                                                    sent |-> s, since |-> trouble]
        BY <2>0, Asking
      <3> QED
        BY <2>0, <3>1
    <2>2. Stays(a, trouble, s) = r("wait", 0)
      <3>1. Stays(a, trouble, s) = [phase |-> "wait", account |-> a, used |-> 0, sent |-> s,
                                    since |-> trouble]
        BY <2>0, Asking
      <3> QED
        BY <3>1
    <2> HIDE DEF r
    <2> QED
      BY <2>1, <2>2, <2>3
  <1>3. /\ a \in 1..minted /\ minted \in Nat /\ Len(token) \in Nat
        /\ IdOK(mem[p], minted, Len(token)) /\ IdOK(session[p], minted, Len(token))
    BY <1>1 DEF IdentityInv, Typed, MemOK, SessionOK, PdsOK, IdOK
  <1>4. s \in Nat /\ s <= rows /\ rows \in Nat /\ trouble \in Nat
    BY DEF IdentityInv, Typed, DiskOK, FileOK, FileRecord, BoundsOK, Cursors
  <1>5. /\ BoundsOK' /\ trouble' \in Nat /\ rows' = rows /\ trouble' = trouble /\ minted' = minted
        /\ orphaned' = orphaned /\ mem' = mem
    BY <1>1 DEF IdentityInv, Typed, BoundsOK, bounds, pds
  <1>6. \A phase \in {"call", "wait"}, used \in Nat :
          /\ r(phase, used).phase = phase /\ CallFits(p, c, r(phase, used))
          /\ used \in 0..Len(token) /\ (phase = "call" => used \in 1..Len(token))
               => CallOK(r(phase, used), minted, Len(token))
    <2> SUFFICES ASSUME NEW phase \in {"call", "wait"}, NEW used \in Nat
                 PROVE  /\ r(phase, used).phase = phase /\ CallFits(p, c, r(phase, used))
                        /\ used \in 0..Len(token) /\ (phase = "call" => used \in 1..Len(token))
                             => CallOK(r(phase, used), minted, Len(token))
      OBVIOUS
    <2>1. CallFits(p, c, r(phase, used))
      BY <1>1, <1>4, <1>5 DEF CallFits, Joining
    <2>2. r(phase, used) \in CallRecord
      BY <1>3, <1>4 DEF CallRecord, Phase, Waiting
    <2>3. used \in 0..Len(token) /\ (phase = "call" => used \in 1..Len(token))
            => CallOK(r(phase, used), minted, Len(token))
      BY <1>3, <2>2 DEF CallOK, Waiting
    <2> QED
      BY <2>1, <2>3
  <1>7. \A phase \in {"call", "wait"}, used \in Nat : Becomes(p, c, r(phase, used)) => Minted'
    <2> SUFFICES ASSUME NEW phase \in {"call", "wait"}, NEW used \in Nat,
                        Becomes(p, c, r(phase, used))
                 PROVE  Minted'
      OBVIOUS
    <2>1. \A q \in Process \ {p} : call'[q] = call[q]
      BY DEF IdentityInv, Typed, CallsOK, Becomes
    <2> SUFFICES ASSUME ~orphaned' PROVE Minted'
      BY DEF Minted
    <2>2. call'[p][c] = r(phase, used) /\ \A d \in Calls(p) \ {c} : call'[p][d] = call[p][d]
      BY DEF IdentityInv, Typed, CallsOK, Becomes
    <2>3. Calls(Tool)' = Calls(Tool) /\ file' = file
      BY <1>1 DEF Calls, Listener, disk
    <2>4. \A d \in Calls(Tool) :
            /\ call'[Tool][d].phase \in Joining => call[Tool][d].phase = call'[Tool][d].phase
            /\ call[Tool][d].phase = "minted" => call'[Tool][d].phase = "minted"
      BY <1>1, <2>1, <2>2, TwoProcesses DEF Joining, Quiet
    <2> QED
      BY <1>5, <2>3, <2>4 DEF IdentityInv, Minted, Joining
  <1>8. CASE session[p].account = a /\ Becomes(p, c, r("call", session[p].token))
             /\ UNCHANGED <<session, shared>>
    <2>1. session[p].token \in 1..Len(token)
      BY <1>3, <1>8 DEF IdOK, None
    <2>2. SessionOK' /\ ReauthOK' /\ Waits(p)
      BY <1>1, <1>8, WaitsStill DEF IdentityInv, Typed, SessionOK, ReauthOK, pds, Waiting, Quiet
    <2>3. session[p].token \in Nat
      BY <1>3, <2>1
    <2> QED
      BY <1>1, <1>3, <1>5, <1>6, <1>7, <1>8, <2>1, <2>2, <2>3, CallOnly
  <1>9. CASE Becomes(p, c, r("wait", 0)) /\ shared[p].stage # "none" /\ UNCHANGED <<session, shared>>
    <2>1. SessionOK' /\ ReauthOK' /\ Waits(p)
      BY <1>1, <1>9, WaitsNow DEF IdentityInv, Typed, SessionOK, ReauthOK, pds, Waiting
    <2> QED
      BY <1>1, <1>3, <1>5, <1>6, <1>7, <1>9, <2>1, CallOnly
  <1>10. CASE /\ Becomes(p, c, r("wait", 0))
              /\ shared' = [shared EXCEPT ![p] = [stage |-> "resume", account |-> a]]
              /\ session' = [session EXCEPT ![p] = mem[p]]
    <2>1. Grows /\ PdsOK
      BY <1>1, NothingIssued DEF IdentityInv, Typed
    <2>2. SharedOK([stage |-> "resume", account |-> a], minted') /\ IdOK(mem[p], minted', Len(token'))
      BY <1>1, <1>3 DEF SharedOK, pds
    <2>3. SessionOK'
      BY <1>10, <2>1, <2>2, SessionSet DEF IdentityInv, Typed
    <2>4. /\ ReauthOK' /\ shared'[p] = [stage |-> "resume", account |-> a]
          /\ \A q \in Process \ {p} : shared'[q] = shared[q]
      BY <1>10, <2>1, <2>2, ReauthSet DEF IdentityInv, Typed
    <2>5. Waits(p)
      BY <1>10, <2>4, WaitsNow DEF Waiting
    <2> QED
      BY <1>1, <1>3, <1>5, <1>6, <1>7, <1>10, <2>3, <2>4, <2>5, CallOnly
  <1> QED
    BY <1>2, <1>8, <1>9, <1>10

\* A call that ends without an answer.
LEMMA CallLostStep ==
    ASSUME IdentityInv, NEW p \in Process, NEW c \in Calls(p), CallLost(p, c)
    PROVE  IdentityInv'
  <1>1. /\ Free(p) /\ p \in up /\ call[p][c].phase \in {"call", "recall"} /\ Becomes(p, c, Idle)
        /\ UNCHANGED <<codex, up, mem, session, shared, polled, disk, pds, joins, rows, orphaned>>
    BY DEF CallLost, Free
  <1>2. /\ BoundsOK' /\ trouble' \in Nat /\ rows' \in Nat /\ rows' = rows /\ rows <= rows'
        /\ trouble <= trouble'
    BY <1>1, BoundsTroubled DEF CallLost, IdentityInv, Typed, BoundsOK
  <1>3. Grows /\ Works(p)
    <2>1. \A q \in Process \ {p} : call'[q] = call[q]
      BY <1>1 DEF IdentityInv, Typed, CallsOK, Becomes
    <2> QED
      BY <1>1, <1>2, <2>1, WorksQuietly DEF disk
  <1>4. SessionOK' /\ ReauthOK'
    BY <1>1, <1>3, SessionKept, ReauthKept DEF IdentityInv, Typed
  <1>5. Waits(p) /\ Minted'
    BY <1>1, <1>3, WaitsStill, MintedOne DEF Idle, Waiting, Joining, pds
  <1>6. CallOK(Idle, minted, Len(token)) /\ CallFits(p, c, Idle)
    BY <1>3, Nobody, IdleFits DEF IdentityInv, Typed, PdsOK
  <1> QED
    BY <1>1, <1>2, <1>4, <1>5, <1>6, CallOnly

\* A call whose token is refused: it tries again, or fails.
LEMMA DeniedStep ==
    ASSUME IdentityInv, NEW p \in Process, NEW c \in Calls(p), Free(p), Denied(p, c),
           call[p][c].phase \in {"call", "recall"},
           UNCHANGED <<codex, up, polled, minted, bounds, orphaned>>
    PROVE  IdentityInv'
  <1> DEFINE r == call[p][c]
             again == [r EXCEPT !.phase = "rewait", !.used = 0]
  <1>1. /\ session' = [session EXCEPT ![p] = None] /\ ~Usable(r.used)
        /\ UNCHANGED <<mem, token, disk>>
    BY DEF Denied
  <1>2. /\ BoundsOK' /\ trouble' \in Nat /\ rows' \in Nat /\ rows' = rows /\ rows <= rows'
        /\ trouble' = trouble /\ trouble <= trouble'
    BY DEF IdentityInv, Typed, BoundsOK, bounds
  <1>3. Grows /\ PdsOK /\ UNCHANGED pds
    BY <1>1, NothingIssued DEF IdentityInv, Typed, pds
  <1>4. minted \in Nat /\ Len(token) \in Nat /\ minted' = minted /\ token' = token
    BY <1>3 DEF PdsOK, pds
  <1>5. SessionOK'
    BY <1>1, <1>3, <1>4, Nobody, SessionSet DEF IdentityInv, Typed
  <1>6. r \in CallRecord /\ CallOK(r, minted, Len(token)) /\ r.account \in 1..minted
    BY DEF IdentityInv, Typed, CallsOK, CallOK
  <1>7. ASSUME NEW s, \A q \in Process \ {p} : shared'[q] = shared[q], Becomes(p, c, s)
        PROVE  Works(p)
    <2>1. \A q \in Process \ {p} : call'[q] = call[q]
      BY <1>7 DEF IdentityInv, Typed, CallsOK, Becomes
    <2> QED
      BY <1>1, <1>2, <1>3, <1>7, <2>1, WorksQuietly DEF disk, Free
  <1>8. CASE r.phase = "call"
    <2>1. /\ Becomes(p, c, again)
          /\ shared' = IF shared[p].stage # "none" THEN shared
                       ELSE [shared EXCEPT ![p] = [stage |-> "login", account |-> r.account]]
      BY <1>8 DEF Denied, Retried
    <2>2. /\ ReauthOK' /\ shared'[p].stage # "none"
          /\ \A q \in Process \ {p} : shared'[q] = shared[q]
      <3>1. SharedOK([stage |-> "login", account |-> r.account], minted')
        BY <1>4, <1>6 DEF SharedOK
      <3>2. CASE shared[p].stage # "none"
        BY <1>3, <2>1, <3>2, ReauthKept DEF IdentityInv, Typed
      <3>3. CASE shared[p].stage = "none"
        <4> DEFINE s == [stage |-> "login", account |-> r.account]
        <4>1. shared' = [shared EXCEPT ![p] = s] /\ s.stage = "login"
          BY <2>1, <3>3
        <4> HIDE DEF s
        <4>2. SharedOK(s, minted')
          BY <3>1 DEF s
        <4> QED
          BY <1>3, <4>1, <4>2, ReauthSet DEF IdentityInv, Typed
      <3> QED
        BY <3>2, <3>3
    <2>3. /\ again \in CallRecord /\ again.phase = "rewait" /\ again.used = 0
          /\ again.account = r.account /\ again.since = r.since /\ again.sent = r.sent
      BY <1>6 DEF CallRecord, Phase, Waiting
    <2>4. CallOK(again, minted, Len(token))
      BY <1>4, <1>6, <2>3 DEF CallOK
    <2>5. Works(p)
      BY <1>7, <2>1, <2>2
    <2>6. CallFits(p, c, again)
      <3>1. CallFits(p, c, r)
        BY <2>5, FitStill
      <3> QED
        BY <1>8, <2>3, <3>1 DEF CallFits, Quiet, Joining
    <2>7. Waits(p) /\ Minted'
      BY <1>8, <2>1, <2>2, <2>3, <2>5, WaitsNow, MintedOne DEF Waiting, Joining
    <2> QED
      BY <1>1, <1>2, <1>3, <1>5, <2>1, <2>2, <2>4, <2>6, <2>7, CallOnly
  <1>9. CASE r.phase = "recall"
    <2>1. Becomes(p, c, Thrown(r)) /\ shared' = shared
      BY <1>9 DEF Denied
    <2>2. Works(p) /\ ReauthOK'
      BY <1>3, <1>7, <2>1, ReauthKept DEF IdentityInv, Typed
    <2>3. Thrown(r) = Idle
      <3>1. r.since <= trouble /\ r.since # trouble /\ r.since \in Nat /\ trouble \in Nat
        BY <1>1, <1>2, <1>6, <1>9 DEF IdentityInv, Budget, CallRecord
      <3> QED
        BY <3>1 DEF Thrown
    <2>4. Waits(p) /\ Minted'
      BY <1>9, <2>1, <2>2, <2>3, WaitsStill, MintedOne DEF Idle, Waiting, Joining
    <2>5. CallOK(Idle, minted, Len(token)) /\ CallFits(p, c, Idle)
      BY <1>4, <2>2, Nobody, IdleFits
    <2> QED
      BY <1>1, <1>2, <1>3, <1>5, <2>1, <2>2, <2>3, <2>4, <2>5, CallOnly
  <1> QED
    BY <1>8, <1>9

(* Writing, logging in and refreshing *)

\* The process goes on to a write.
LEMMA GoesOn ==
    ASSUME IdentityInv, NEW p \in Process, Free(p), Grows, NEW w, Write(p, <<w>>),
           WriteOK(w, minted', Len(token')), mem'[p] # None, rows' = rows \/ p = Listener,
           w.kind = "commit" => p = Listener /\ w.cursor = rows',
           w.kind = "swap" => w.sent <= w.cursor /\ w.cursor <= rows',
           w.kind = "save" => w.id = mem'[p], w.kind # "save" => mem'[p] = mem[p]
    PROVE  /\ DiskOK' /\ WritesFit(p) /\ UNCHANGED <<renaming, file, crossed, unsaved>>
           /\ \A q \in Process \ {p} : todo'[q] = todo[q]
  <1>1. /\ DiskOK' /\ todo'[p] = <<w>> /\ w \in WriteRecord
        /\ \A q \in Process \ {p} : todo'[q] = todo[q]
    BY DiskWrite DEF IdentityInv, Typed
  <1>2. todo[p] = <<>> /\ UNCHANGED <<renaming, file, crossed, unsaved>>
    BY DEF Free, Write
  <1> QED
    BY <1>1, <1>2 DEF WritesFit

\* It has saved a token that was just issued to it, and its agent uses that token.
Renewed(p) ==
    /\ Grows /\ SessionOK' /\ MemOK' /\ DiskOK' /\ WritesFit(p) /\ mem'[p] # None
    /\ \A q \in Process \ {p} : mem'[q] = mem[q] /\ todo'[q] = todo[q]
    /\ UNCHANGED <<renaming, file, crossed, unsaved>>
    /\ session'[p].token = Len(token') /\ Len(token') \in 1..Len(token')
    /\ token'[Len(token')] = "live"
    /\ \A t \in 1..Len(token) : Usable(t) => token'[t] \in {"live", "spent"}

\* That is so of whatever it is saved as.
LEMMA Renewing ==
    ASSUME IdentityInv, NEW p \in Process, Free(p), Grows, rows' = rows, NEW a, NEW b, NEW n,
           a \in 1..minted' /\ b \in 1..minted' /\ n \in 1..Len(token'), n = Len(token'),
           session' = [session EXCEPT ![p] = Id(b, n)], mem' = [mem EXCEPT ![p] = Id(a, n)],
           Write(p, <<Save(Id(a, n))>>), token'[n] = "live",
           \A t \in 1..Len(token) : Usable(t) => token'[t] \in {"live", "spent"}
    PROVE  Renewed(p)
  <1>1. minted' \in Nat /\ Len(token') \in Nat
    BY DEF Grows, PdsOK
  <1>2. /\ WriteOK(Save(Id(a, n)), minted', Len(token')) /\ Save(Id(a, n)).kind = "save"
        /\ IdOK(Id(a, n), minted', Len(token')) /\ Save(Id(a, n)).id = Id(a, n)
        /\ Id(a, n) # None
    BY <1>1, Saves
  <1>3. IdOK(Id(b, n), minted', Len(token')) /\ Id(b, n).token = n
    BY <1>1, Saves
  <1>4. MemOK' /\ mem'[p] = Id(a, n) /\ \A q \in Process \ {p} : mem'[q] = mem[q]
    BY <1>2, MemSet DEF IdentityInv, Typed
  <1>5. SessionOK' /\ session'[p] = Id(b, n)
    BY <1>3, SessionSet DEF IdentityInv, Typed
  <1>6. /\ DiskOK' /\ WritesFit(p) /\ UNCHANGED <<renaming, file, crossed, unsaved>>
        /\ \A q \in Process \ {p} : todo'[q] = todo[q]
    BY <1>2, <1>4, GoesOn
  <1> QED
    BY <1>1, <1>2, <1>3, <1>4, <1>5, <1>6 DEF Renewed

\* A login with the stored password.
LEMMA LoginRenews ==
    ASSUME IdentityInv, NEW p \in Process, NEW a \in 1..minted, Free(p), LoggedIn(p, a),
           UNCHANGED <<codex, minted, rows>>
    PROVE  Renewed(p)
  <1> DEFINE n == Len(token')
  <1>1. PdsOK
    BY DEF IdentityInv, Typed
  <1>2. /\ token' = Append(token, "live") /\ Write(p, <<Save(Id(a, n))>>)
        /\ session' = [session EXCEPT ![p] = Id(a, n)] /\ mem' = [mem EXCEPT ![p] = Id(a, n)]
    BY DEF LoggedIn
  <1>3. /\ Grows /\ n = Len(token) + 1 /\ token'[n] = "live"
        /\ \A t \in 1..Len(token) : token'[t] = token[t]
    BY <1>1, <1>2, Issued
  <1>4. \A t \in 1..Len(token) : Usable(t) => token'[t] \in {"live", "spent"}
    BY <1>3 DEF Usable
  <1>5. n \in 1..n
    BY <1>1, <1>3 DEF PdsOK
  <1> HIDE DEF n
  <1> QED
    BY <1>2, <1>3, <1>4, <1>5, Renewing DEF n

\* The agent refreshes its session.
LEMMA RefreshRenews ==
    ASSUME IdentityInv, NEW p \in Process, Free(p), Refreshed(p), mem[p] # None, session[p] # None,
           token[session[p].token] \in {"live", "stale"}, UNCHANGED <<codex, minted, rows>>
    PROVE  Renewed(p)
  <1> DEFINE n == Len(token')
             s == session[p].token
             old == [token EXCEPT ![s] = IF @ = "live" THEN "spent" ELSE "dead"]
             a == mem[p].account
             b == session[p].account
  <1>1. PdsOK /\ a \in 1..minted /\ b \in 1..minted /\ s \in 1..Len(token)
    BY DEF IdentityInv, Typed, MemOK, SessionOK, IdOK
  <1>2. /\ token' = Append(old, "live") /\ Write(p, <<Save(Id(a, n))>>)
        /\ session' = [session EXCEPT ![p] = Id(b, n)] /\ mem' = [mem EXCEPT ![p] = Id(a, n)]
    BY DEF Refreshed, Refreshes, Patched, IdentityInv, Typed, MemOK, SessionOK
  <1>3. /\ Grows /\ n = Len(token) + 1 /\ token'[n] = "live"
        /\ \A t \in 1..Len(token) :
             token[t] \in {"live", "spent"} => token'[t] \in {"live", "spent"}
    BY <1>1, <1>2, IssuedAnew
  <1>4. \A t \in 1..Len(token) : Usable(t) => token'[t] \in {"live", "spent"}
    BY <1>3 DEF Usable
  <1>5. n \in 1..n
    BY <1>1, <1>3 DEF PdsOK
  <1>6. a \in 1..minted' /\ b \in 1..minted'
    BY <1>1
  <1> HIDE DEF n, a, b, s, old
  <1> QED
    BY <1>2, <1>3, <1>4, <1>5, <1>6, Renewing DEF n

\* A process that renewed its token works.
LEMMA RenewedWorks ==
    ASSUME IdentityInv, NEW p \in Process, Free(p), Renewed(p), UNCHANGED <<up, rows>>,
           trouble' = trouble,
           \A q \in Process \ {p} : shared'[q] = shared[q] /\ call'[q] = call[q]
    PROVE  Works(p) /\ (mem[p] # None => Housed(p))
  <1>1. trouble' \in Nat /\ rows' \in Nat /\ trouble <= trouble' /\ rows <= rows'
    BY DEF IdentityInv, Typed, BoundsOK
  <1>2. Works(p)
    BY <1>1 DEF Works, Renewed, Free
  <1> QED
    BY <1>2, AtHome DEF Free

\* A call is answered, and a registration writes the cursor.
LEMMA AnsweredStep ==
    ASSUME IdentityInv, NEW p \in Process, NEW c \in Calls(p), Free(p), Answered(p, c),
           call[p][c].phase \in {"call", "recall"},
           UNCHANGED <<codex, up, polled, minted, bounds, orphaned>>
    PROVE  IdentityInv'
  <1> DEFINE r == call[p][c]
             w == Swap(r.sent, IF r.sent = 0 THEN rows ELSE r.sent)
  <1>1. Becomes(p, c, Idle) /\ UNCHANGED <<mem, session, shared, pds>>
    BY DEF Answered, pds
  <1>2. /\ BoundsOK' /\ trouble' \in Nat /\ rows' \in Nat /\ rows' = rows /\ rows <= rows'
        /\ trouble' = trouble /\ trouble <= trouble'
    BY DEF IdentityInv, Typed, BoundsOK, bounds
  <1>3. Grows /\ PdsOK /\ minted \in Nat /\ Len(token) \in Nat
    BY <1>1, NothingIssued DEF IdentityInv, Typed, PdsOK
  <1>4. \A q \in Process \ {p} : call'[q] = call[q]
    BY <1>1 DEF IdentityInv, Typed, CallsOK, Becomes
  <1>5. SessionOK' /\ ReauthOK' /\ MemOK'
    BY <1>1, <1>3, SessionKept, ReauthKept, MemKept DEF IdentityInv, Typed
  <1>6. mem[p] # None
    BY DEF IdentityInv, Homes, Quiet
  <1>7. Waits(p)
    BY <1>1, WaitsStill DEF Idle, Waiting
  <1>8. /\ CallOK(Idle, minted, Len(token)) /\ CallOK(Idle, minted', Len(token'))
        /\ Idle.phase \notin Joining
    BY <1>1, <1>3, Nobody DEF pds, Idle, Joining
  <1>9. ASSUME Works(p)
        PROVE  Minted' /\ CallFits(p, c, Idle) /\ AllFit(p)
    BY <1>1, <1>8, <1>9, MintedOne, IdleFits, OneFits
  <1>10. CASE UNCHANGED disk
    <2>1. Works(p)
      BY <1>1, <1>2, <1>4, <1>10, WorksQuietly DEF disk, Free
    <2> QED
      BY <1>1, <1>2, <1>3, <1>5, <1>7, <1>8, <1>9, <1>10, <2>1, CallOnly
  <1>11. CASE c = Register /\ Write(p, <<w>>)
    <2>1. r.sent \in Nat /\ r.sent <= rows /\ rows \in Nat
      BY DEF IdentityInv, Typed, CallsOK, CallOK, CallRecord, Cursors, BoundsOK
    <2>2. /\ w.kind = "swap" /\ w.sent <= w.cursor /\ w.cursor <= rows
          /\ WriteOK(w, minted', Len(token'))
      BY <2>1 DEF Swap, WriteOK, WriteRecord, IdRecord, None
    <2>3. DiskOK' /\ WritesFit(p) /\ UNCHANGED <<renaming, file, crossed, unsaved>>
          /\ \A q \in Process \ {p} : todo'[q] = todo[q]
      <3> HIDE DEF w
      <3> QED
        BY <1>1, <1>2, <1>3, <1>6, <1>11, <2>2, GoesOn
    <2>4. Works(p)
      BY <1>1, <1>2, <1>4, <2>3, WorksQuietly DEF Free
    <2>5. CallsOK' /\ PdsOK'
      BY <1>1, <1>3, <1>8, CallSet DEF IdentityInv, Typed, Grows
    <2>6. Housed(p)
      BY <1>6, AtHome DEF Free
    <2> QED
      BY <1>2, <1>5, <1>7, <1>9, <2>3, <2>4, <2>5, <2>6, WorksStep DEF Typed
  <1> QED
    BY <1>10, <1>11 DEF Answered

\* A call is repeated with the token its agent has refreshed.
LEMMA RepeatedStep ==
    ASSUME IdentityInv, NEW p \in Process, NEW c \in Calls(p), Free(p), Repeated(p, c),
           call[p][c].phase \in {"call", "recall"},
           UNCHANGED <<codex, up, polled, minted, bounds, orphaned>>
    PROVE  IdentityInv'
  <1> DEFINE r == call[p][c]
             n == Len(token')
             again == [r EXCEPT !.used = n]
  <1>1. /\ Becomes(p, c, again) /\ shared' = shared /\ session[p] # None /\ Refreshed(p)
        /\ token[session[p].token] \in {"live", "stale"}
    BY DEF Repeated, Refreshable
  <1>2. /\ BoundsOK' /\ trouble' = trouble /\ rows' = rows /\ trouble' \in Nat
    BY DEF IdentityInv, Typed, BoundsOK, bounds
  <1>3. mem[p] # None
    BY DEF IdentityInv, Homes, Quiet
  <1>4. Renewed(p)
    BY <1>1, <1>2, <1>3, RefreshRenews
  <1>5. \A q \in Process \ {p} : call'[q] = call[q]
    BY <1>1 DEF IdentityInv, Typed, CallsOK, Becomes
  <1>6. Works(p) /\ Housed(p)
    BY <1>1, <1>2, <1>3, <1>4, <1>5, RenewedWorks
  <1>7. /\ Grows /\ PdsOK /\ minted' = minted /\ n \in Nat /\ n \in 1..n
        /\ token'[n] = "live" /\ mem'[p] # None
    BY <1>4 DEF Renewed, Grows, IdentityInv, Typed
  <1>8. /\ r \in CallRecord /\ CallOK(r, minted, Len(token)) /\ r.account \in 1..minted
        /\ CallFits(p, c, r)
    BY <1>6, FitStill DEF IdentityInv, Typed, CallsOK, CallOK
  <1>9. /\ again \in CallRecord /\ again.used = n /\ again.phase = r.phase
        /\ again.account = r.account /\ again.since = r.since /\ again.sent = r.sent
    BY <1>7, <1>8 DEF CallRecord
  <1>10. CallOK(again, minted', n) /\ CallFits(p, c, again)
    BY <1>7, <1>8, <1>9 DEF CallOK, CallFits
  <1>11. CallsOK'
    BY <1>1, <1>7, <1>10, CallSet DEF IdentityInv, Typed
  <1>12. ReauthOK'
    BY <1>1, <1>7, ReauthKept DEF IdentityInv, Typed
  <1>13. AllFit(p)
    BY <1>1, <1>6, <1>10, OneFits
  <1>14. Waits(p) /\ Minted'
    BY <1>1, <1>6, <1>7, <1>9, WaitsStill, MintedOne DEF Waiting, Joining
  <1>15. Typed'
    BY <1>2, <1>4, <1>11, <1>12 DEF Typed, Renewed, Grows
  <1> QED
    BY <1>4, <1>6, <1>13, <1>14, <1>15, WorksStep DEF Renewed

\* A call comes back.
LEMMA CallDoneStep ==
    ASSUME IdentityInv, NEW p \in Process, NEW c \in Calls(p), CallDone(p, c)
    PROVE  IdentityInv'
  BY AnsweredStep, RepeatedStep, DeniedStep DEF CallDone

(* Re-authentication *)

\* Whoever waited for a re-authentication goes on with its token.
LEMMA WokenStep ==
    ASSUME IdentityInv, NEW p \in Process, Works(p), NEW u, u \in 1..Len(token'), Woken(p, u),
           token'[u] \in {"live", "spent"}, shared' = Cleared(p),
           minted' = minted, orphaned' = orphaned
    PROVE  CallsOK' /\ ReauthOK' /\ AllFit(p) /\ Waits(p) /\ Minted'
  <1> DEFINE g(r) == CASE r.phase = "wait"   -> [r EXCEPT !.phase = "call", !.used = u]
                       [] r.phase = "rewait" -> [r EXCEPT !.phase = "recall", !.used = u]
                       [] OTHER -> r
             f == [c \in Calls(p) |-> g(call[p][c])]
  <1>1. Grows /\ PdsOK /\ minted \in Nat /\ Len(token') \in Nat /\ u \in Nat
    BY DEF Works, Grows, IdentityInv, Typed, PdsOK
  <1>2. \A c \in Calls(p) : /\ CallOK(call[p][c], minted, Len(token)) /\ CallFits(p, c, call[p][c])
                            /\ call[p][c] \in CallRecord
    BY FitStill DEF IdentityInv, Typed, CallsOK, CallOK
  <1>3. \A c \in Calls(p) :
          /\ f[c] \in CallRecord /\ f[c].account = call[p][c].account
          /\ f[c].since = call[p][c].since /\ f[c].sent = call[p][c].sent
          /\ call[p][c].phase = "wait" => f[c].phase = "call" /\ f[c].used = u
          /\ call[p][c].phase = "rewait" => f[c].phase = "recall" /\ f[c].used = u
          /\ call[p][c].phase \notin Waiting => f[c] = call[p][c]
    BY <1>1, <1>2 DEF CallRecord, Phase, Waiting
  <1>4. call' = [call EXCEPT ![p] = f]
    BY DEF Woken
  <1> HIDE DEF f, g
  <1>5. f = [c \in Calls(p) |-> f[c]]
    BY DEF f
  <1>6. \A c \in Calls(p) : CallOK(f[c], minted', Len(token'))
    <2> SUFFICES ASSUME NEW c \in Calls(p) PROVE CallOK(f[c], minted', Len(token'))
      OBVIOUS
    <2>1. call[p][c].account \in 0..minted /\ (call[p][c].phase \in Waiting =>
            call[p][c].account \in 1..minted)
      BY <1>2 DEF CallOK
    <2>2. CASE call[p][c].phase \in Waiting
      BY <1>1, <1>3, <2>1, <2>2 DEF CallOK, Waiting
    <2>3. CASE call[p][c].phase \notin Waiting
      <3>1. CallOK(call[p][c], minted', Len(token'))
        <4>1. CallOK(call[p][c], minted, Len(token)) /\ Len(token) \in Nat /\ minted' = minted
              /\ Len(token) <= Len(token')
          BY <1>2 DEF Works, Grows
        <4> QED
          BY <1>1, <4>1 DEF CallOK
      <3> QED
        BY <1>3, <2>3, <3>1
    <2> QED
      BY <2>2, <2>3
  <1>7. CallsOK' /\ call'[p] = f /\ \A q \in Process \ {p} : call'[q] = call[q]
    BY <1>1, <1>4, <1>5, <1>6, CallsSet DEF IdentityInv, Typed
  <1>8. AllFit(p)
    <2> SUFFICES ASSUME NEW c \in Calls(p) PROVE CallFits(p, c, f[c])
      BY <1>7 DEF AllFit
    <2>1. CASE call[p][c].phase \in Waiting
      BY <1>2, <1>3, <2>1 DEF CallFits, Waiting, Joining, Quiet
    <2>2. CASE call[p][c].phase \notin Waiting
      BY <1>2, <1>3, <2>2
    <2> QED
      BY <2>1, <2>2
  <1>9. ReauthOK' /\ shared'[p] = NoReauth
    <2>1. SharedOK(NoReauth, minted')
      BY <1>1, Nobody
    <2> QED
      BY <1>1, <2>1, ReauthSet DEF IdentityInv, Typed, Cleared
  <1>10. Waits(p)
    <2>1. \A c \in Calls(p) : call'[p][c].phase \notin Waiting
      BY <1>3, <1>7 DEF Waiting
    <2> QED
      BY <1>9, <2>1 DEF Waits, NoReauth
  <1>11. Minted'
    <2>1. \A c \in Calls(p) :
            /\ call'[p][c].phase \in Joining => call[p][c].phase = call'[p][c].phase
            /\ call[p][c].phase = "minted" => call'[p][c].phase = "minted"
      BY <1>3, <1>7 DEF Joining, Waiting
    <2> QED
      BY <2>1, MintedStill
  <1> QED
    BY <1>7, <1>8, <1>9, <1>10, <1>11

\* A re-authentication is for an account, of an identity that is known.
LEMMA Reauthenticating ==
    ASSUME IdentityInv, NEW p \in Process, shared[p].stage # "none"
    PROVE  /\ mem[p] # None /\ shared[p].account \in 1..minted
           /\ minted \in Nat /\ Len(token) \in Nat /\ PdsOK
  <1>1. PICK c \in Calls(p) : call[p][c].phase \in Waiting
    BY DEF IdentityInv, NotStranded
  <1>2. mem[p] # None
    BY <1>1 DEF IdentityInv, Homes, Waiting, Quiet
  <1> QED
    BY <1>2 DEF IdentityInv, Typed, ReauthOK, SharedOK, PdsOK

\* The login everybody waited for.
LEMMA LoginDoneStep ==
    ASSUME IdentityInv, NEW p \in Process, LoginDone(p)
    PROVE  IdentityInv'
  <1>1. /\ Free(p) /\ shared[p].stage = "login" /\ LoggedIn(p, shared[p].account)
        /\ shared' = Cleared(p) /\ Woken(p, Len(token'))
        /\ UNCHANGED <<codex, up, polled, minted, bounds, orphaned>>
    BY DEF LoginDone
  <1>2. mem[p] # None /\ shared[p].account \in 1..minted
    BY <1>1, Reauthenticating
  <1>3. /\ BoundsOK' /\ trouble' = trouble /\ rows' = rows
    BY <1>1 DEF IdentityInv, Typed, BoundsOK, bounds
  <1>4. Renewed(p)
    BY <1>1, <1>2, <1>3, LoginRenews
  <1>5. \A q \in Process \ {p} : call'[q] = call[q] /\ shared'[q] = shared[q]
    BY <1>1 DEF IdentityInv, Typed, CallsOK, ReauthOK, Woken, Cleared
  <1>6. Works(p) /\ Housed(p)
    BY <1>1, <1>2, <1>3, <1>4, <1>5, RenewedWorks
  <1>7. CallsOK' /\ ReauthOK' /\ AllFit(p) /\ Waits(p) /\ Minted'
    BY <1>1, <1>4, <1>6, WokenStep DEF Renewed
  <1>8. Typed'
    BY <1>3, <1>4, <1>7 DEF Typed, Renewed, Grows
  <1> QED
    BY <1>4, <1>6, <1>7, <1>8, WorksStep DEF Renewed

\* The session everybody waited for is resumed, perhaps with a refreshed token.
LEMMA ResumeDoneStep ==
    ASSUME IdentityInv, NEW p \in Process, ResumeDone(p)
    PROVE  IdentityInv'
  <1> DEFINE n == session[p].token
             a == mem[p].account
  <1>1. /\ Free(p) /\ shared[p].stage = "resume" /\ session[p] # None
        /\ shared' = Cleared(p) /\ Woken(p, session'[p].token)
        /\ UNCHANGED <<codex, up, polled, minted, bounds, orphaned>>
    BY DEF ResumeDone
  <1>2. mem[p] # None /\ minted \in Nat /\ Len(token) \in Nat /\ PdsOK
    BY <1>1, Reauthenticating
  <1>3. /\ BoundsOK' /\ trouble' = trouble /\ rows' = rows /\ trouble' \in Nat /\ rows' \in Nat
        /\ trouble <= trouble' /\ rows <= rows'
    BY <1>1 DEF IdentityInv, Typed, BoundsOK, bounds
  <1>4. \A q \in Process \ {p} : call'[q] = call[q] /\ shared'[q] = shared[q]
    BY <1>1 DEF IdentityInv, Typed, CallsOK, ReauthOK, Woken, Cleared
  <1>5. CASE token[n] = "stale" /\ Refreshed(p)
    <2>1. Renewed(p)
      BY <1>1, <1>2, <1>3, <1>5, RefreshRenews
    <2>2. Works(p) /\ Housed(p)
      BY <1>1, <1>2, <1>3, <1>4, <2>1, RenewedWorks
    <2>3. CallsOK' /\ ReauthOK' /\ AllFit(p) /\ Waits(p) /\ Minted'
      BY <1>1, <2>1, <2>2, WokenStep DEF Renewed
    <2>4. Typed'
      BY <1>3, <2>1, <2>3 DEF Typed, Renewed, Grows
    <2> QED
      BY <2>1, <2>2, <2>3, <2>4, WorksStep DEF Renewed
  <1>6. CASE /\ Usable(n) /\ Write(p, Patched(p, n)) /\ mem' = [mem EXCEPT ![p].token = n]
             /\ UNCHANGED <<token, session>>
    <2>1. a \in 1..minted /\ n \in 1..Len(token) /\ mem[p] \in IdRecord
      BY <1>1, <1>2 DEF IdentityInv, Typed, MemOK, SessionOK, IdOK
    <2>2. Grows /\ token' = token /\ minted' = minted
      BY <1>1, <1>2, <1>6, NothingIssued DEF pds
    <2>3. /\ WriteOK(Save(Id(a, n)), minted', Len(token')) /\ Save(Id(a, n)).kind = "save"
          /\ IdOK(Id(a, n), minted', Len(token')) /\ Save(Id(a, n)).id = Id(a, n)
          /\ Id(a, n) # None
      <3>1. minted' \in Nat /\ Len(token') \in Nat /\ a \in 1..minted' /\ n \in 1..Len(token')
        BY <1>2, <2>1, <2>2
      <3> DEFINE m == minted'
                 t == Len(token')
      <3>2. m \in Nat /\ t \in Nat /\ a \in 1..m /\ n \in 1..t
        BY <3>1
      <3> HIDE DEF a, n, m, t
      <3>3. /\ WriteOK(Save(Id(a, n)), m, t) /\ Save(Id(a, n)).kind = "save"
            /\ IdOK(Id(a, n), m, t) /\ Save(Id(a, n)).id = Id(a, n) /\ Id(a, n) # None
        BY <3>2, Saves
      <3> QED
        BY <3>3 DEF m, t
    <2>4. mem' = [mem EXCEPT ![p] = Id(a, n)]
      <3>1. [mem[p] EXCEPT !.token = n] = Id(a, n)
        <4>1. /\ [mem[p] EXCEPT !.token = n] \in IdRecord
              /\ [mem[p] EXCEPT !.token = n].account = a /\ [mem[p] EXCEPT !.token = n].token = n
          BY <1>2, <2>1 DEF IdRecord
        <4>2. Id(a, n) \in IdRecord /\ Id(a, n).account = a /\ Id(a, n).token = n
          BY <1>2, <2>1 DEF Id, IdRecord
        <4>3. \A i, j \in IdRecord : i.account = j.account /\ i.token = j.token => i = j
          BY DEF IdRecord
        <4> QED
          BY <4>1, <4>2, <4>3
      <3>2. mem' = [mem EXCEPT ![p] = [mem[p] EXCEPT !.token = n]]
        BY <1>6
      <3> QED
        BY <3>1, <3>2
    <2>5. MemOK' /\ mem'[p] = Id(a, n) /\ \A q \in Process \ {p} : mem'[q] = mem[q]
      BY <1>2, <2>2, <2>3, <2>4, MemSet DEF IdentityInv, Typed
    <2>6. /\ DiskOK' /\ WritesFit(p) /\ UNCHANGED <<renaming, file, crossed, unsaved>>
          /\ \A q \in Process \ {p} : todo'[q] = todo[q]
      <3>1. Write(p, <<Save(Id(a, n))>>)
        BY <1>6 DEF Patched
      <3> QED
        BY <1>1, <1>3, <2>2, <2>3, <2>5, <3>1, GoesOn
    <2>7. Works(p) /\ Housed(p)
      <3>1. UNCHANGED <<codex, up, pds>> /\ p \in up
        BY <1>1, <1>6 DEF pds, Free
      <3>2. Works(p)
        BY <1>2, <1>3, <1>4, <2>3, <2>5, <2>6, <3>1, WorksQuietly
      <3> QED
        BY <1>1, <1>2, <3>2, AtHome DEF Free
    <2>8. CallsOK' /\ ReauthOK' /\ AllFit(p) /\ Waits(p) /\ Minted'
      BY <1>1, <1>6, <2>1, <2>2, <2>7, WokenStep DEF Usable
    <2>9. SessionOK'
      BY <1>2, <1>6, <2>2, SessionKept DEF IdentityInv, Typed
    <2>10. Typed'
      BY <1>3, <2>2, <2>5, <2>6, <2>8, <2>9 DEF Typed, Grows
    <2> QED
      BY <2>6, <2>7, <2>8, <2>10, WorksStep
  <1> QED
    BY <1>5, <1>6 DEF ResumeDone

\* What was to be resumed is logged in instead.
LEMMA ResumeFailsStep ==
    ASSUME IdentityInv, NEW p \in Process, ResumeFails(p)
    PROVE  IdentityInv'
  <1>1. /\ Free(p) /\ shared[p].stage = "resume" /\ session' = [session EXCEPT ![p] = None]
        /\ shared' = [shared EXCEPT ![p].stage = "login"]
        /\ UNCHANGED <<codex, up, mem, call, polled, disk, pds, joins, rows, orphaned>>
    BY DEF ResumeFails
  <1>2. /\ BoundsOK' /\ trouble' \in Nat /\ rows' \in Nat /\ trouble <= trouble' /\ rows <= rows'
        /\ rows' = rows
    <2>1. (UNCHANGED <<expired, trouble>> \/ Trouble) /\ BoundsOK
      BY DEF ResumeFails, IdentityInv, Typed
    <2>2. polled' \in BOOLEAN /\ orphaned' \in BOOLEAN /\ up' \subseteq Process
      BY <1>1, <2>1 DEF BoundsOK
    <2> QED
      BY <1>1, <2>1, <2>2, BoundsKept, BoundsTroubled
  <1>3. /\ mem[p] # None /\ shared[p].account \in 1..minted
        /\ minted \in Nat /\ Len(token) \in Nat /\ PdsOK
    BY <1>1, Reauthenticating
  <1>4. Grows /\ minted' = minted
    BY <1>1, <1>3, NothingIssued DEF pds
  <1>5. SessionOK'
    <2>1. IdOK(None, minted', Len(token'))
      BY <1>1, <1>3, Nobody DEF pds
    <2> QED
      BY <1>1, <1>3, <1>4, <2>1, SessionSet DEF IdentityInv, Typed
  <1>6. ReauthOK' /\ shared'[p].stage = "login" /\ \A q \in Process \ {p} : shared'[q] = shared[q]
    <2> DEFINE s == [shared[p] EXCEPT !.stage = "login"]
    <2>1. SharedOK(s, minted') /\ s.stage = "login"
      BY <1>3, <1>4 DEF IdentityInv, Typed, ReauthOK, SharedOK
    <2>2. shared' = [shared EXCEPT ![p] = s]
      BY <1>1
    <2> HIDE DEF s
    <2> QED
      BY <1>3, <1>4, <2>1, <2>2, ReauthSet DEF IdentityInv, Typed
  <1>7. Works(p)
    <2>1. UNCHANGED <<codex, up, pds>> /\ p \in up /\ UNCHANGED <<renaming, file, crossed, unsaved>>
          /\ \A q \in Process \ {p} : mem'[q] = mem[q] /\ call'[q] = call[q] /\ todo'[q] = todo[q]
      BY <1>1 DEF disk, Free
    <2> QED
      BY <1>1, <1>2, <1>6, <2>1, WorksQuietly
  <1>8. Typed'
    BY <1>1, <1>2, <1>3, <1>4, <1>5, <1>6, MemKept, CallsKept, DiskKept
       DEF IdentityInv, Typed, Grows
  <1>9. AllFit(p)
    BY <1>1, <1>7, FitStill DEF AllFit
  <1>10. Waits(p)
    <2>1. \E c \in Calls(p) : call[p][c].phase \in Waiting
      BY <1>1 DEF IdentityInv, NotStranded
    <2> QED
      BY <1>1, <1>6, <2>1 DEF Waits
  <1>11. Minted'
    BY <1>1, <1>4, <1>7, MintedStill
  <1>12. WritesFit(p) /\ Housed(p)
    BY <1>1, NoWrite, AtHome DEF disk, Free
  <1> QED
    BY <1>7, <1>8, <1>9, <1>10, <1>11, <1>12, WorksStep

\* A login fails for everybody who waited for it.
LEMMA LoginFailsStep ==
    ASSUME IdentityInv, NEW p \in Process, LoginFails(p)
    PROVE  IdentityInv'
  <1> DEFINE f == [c \in Calls(p) |-> IF call[p][c].phase \in Waiting THEN Idle ELSE call[p][c]]
  <1>1. /\ Free(p) /\ shared[p].stage = "login" /\ Trouble
        /\ session' = [session EXCEPT ![p] = None] /\ shared' = Cleared(p)
        /\ call' = [call EXCEPT ![p] = f]
        /\ UNCHANGED <<codex, up, mem, polled, disk, pds, joins, rows, orphaned>>
    BY DEF LoginFails, Rejected
  <1>2. /\ BoundsOK' /\ trouble' \in Nat /\ rows' \in Nat /\ trouble <= trouble' /\ rows <= rows'
        /\ rows' = rows
    BY <1>1, BoundsTroubled DEF IdentityInv, Typed, BoundsOK
  <1>3. minted \in Nat /\ Len(token) \in Nat /\ PdsOK
    BY <1>1, Reauthenticating
  <1>4. Grows /\ minted' = minted /\ Len(token') = Len(token)
    BY <1>1, <1>3, NothingIssued DEF pds
  <1>5. SessionOK'
    <2>1. IdOK(None, minted', Len(token'))
      BY <1>1, <1>3, Nobody DEF pds
    <2> QED
      BY <1>1, <1>3, <1>4, <2>1, SessionSet DEF IdentityInv, Typed
  <1>6. ReauthOK' /\ shared'[p] = NoReauth /\ \A q \in Process \ {p} : shared'[q] = shared[q]
    <2>1. SharedOK(NoReauth, minted')
      BY <1>3, <1>4, Nobody
    <2> QED
      BY <1>1, <1>3, <1>4, <2>1, ReauthSet DEF IdentityInv, Typed, Cleared
  <1>7. CallsOK' /\ call'[p] = f /\ \A q \in Process \ {p} : call'[q] = call[q]
    <2>1. f = [c \in Calls(p) |-> f[c]]
      OBVIOUS
    <2>2. \A c \in Calls(p) : CallOK(f[c], minted', Len(token'))
      BY <1>3, <1>4, Nobody DEF IdentityInv, Typed, CallsOK
    <2> HIDE DEF f
    <2> QED
      BY <1>1, <1>3, <1>4, <2>1, <2>2, CallsSet DEF IdentityInv, Typed
  <1>8. Works(p)
    <2>1. UNCHANGED <<codex, up, pds>> /\ p \in up /\ UNCHANGED <<renaming, file, crossed, unsaved>>
          /\ \A q \in Process \ {p} : mem'[q] = mem[q] /\ todo'[q] = todo[q]
      BY <1>1 DEF disk, Free
    <2> QED
      BY <1>1, <1>2, <1>6, <1>7, <2>1, WorksQuietly
  <1>9. \A c \in Calls(p) : f[c] = Idle \/ f[c] = call[p][c]
    OBVIOUS
  <1>10. Typed'
    BY <1>1, <1>2, <1>3, <1>4, <1>5, <1>6, <1>7, MemKept, DiskKept DEF IdentityInv, Typed, Grows
  <1>11. AllFit(p)
    BY <1>7, <1>8, <1>9, FitStill, IdleFits DEF AllFit
  <1>12. Waits(p)
    <2>1. \A c \in Calls(p) : f[c].phase \notin Waiting
      BY DEF Idle, Waiting
    <2> QED
      BY <1>6, <1>7, <2>1 DEF Waits, NoReauth
  <1>13. Minted'
    <2>1. \A c \in Calls(p) :
            /\ f[c].phase \in Joining => call[p][c].phase = f[c].phase
            /\ call[p][c].phase = "minted" => f[c].phase = "minted"
      BY DEF Idle, Joining, Waiting
    <2> QED
      BY <1>1, <1>4, <1>7, <1>8, <2>1, MintedStill
  <1>14. WritesFit(p) /\ Housed(p)
    BY <1>1, NoWrite, AtHome DEF disk, Free
  <1> QED
    BY <1>8, <1>10, <1>11, <1>12, <1>13, <1>14, WorksStep

(* Polling, delivering and joining *)

\* The launcher finds the identity that was joined, and saves it again.
LEMMA PollStep ==
    ASSUME IdentityInv, Poll
    PROVE  IdentityInv'
  <1> DEFINE a == file.account
             n == file.token
  <1>1. /\ Free(Host) /\ Loaded # None /\ polled' = TRUE /\ Host \in Process
        /\ mem' = [mem EXCEPT ![Host] = Loaded] /\ Write(Host, <<Save(Loaded)>>)
        /\ UNCHANGED <<codex, up, session, shared, call, pds, bounds, orphaned>>
    BY TwoProcesses DEF Poll
  <1>2. Loaded = Id(a, n) /\ file # NoFile
    BY <1>1 DEF Loaded
  <1>3. /\ BoundsOK' /\ trouble' = trouble /\ rows' = rows /\ trouble' \in Nat /\ rows' \in Nat
        /\ trouble <= trouble' /\ rows <= rows'
    BY <1>1 DEF IdentityInv, Typed, BoundsOK, bounds
  <1>4. Grows /\ PdsOK /\ minted' = minted /\ Len(token') = Len(token)
    BY <1>1, NothingIssued DEF IdentityInv, Typed, pds
  <1>5. minted' \in Nat /\ Len(token') \in Nat /\ a \in 1..minted' /\ n \in 1..Len(token')
    BY <1>2, <1>4 DEF IdentityInv, Typed, DiskOK, FileOK, PdsOK
  <1>6. /\ WriteOK(Save(Loaded), minted', Len(token')) /\ Save(Loaded).kind = "save"
        /\ IdOK(Loaded, minted', Len(token')) /\ Save(Loaded).id = Loaded
    <2> HIDE DEF a, n
    <2> QED
      BY <1>2, <1>5, Saves
  <1>7. MemOK' /\ mem'[Host] = Loaded /\ \A q \in Process \ {Host} : mem'[q] = mem[q]
    BY <1>1, <1>4, <1>6, MemSet DEF IdentityInv, Typed
  <1>8. /\ DiskOK' /\ WritesFit(Host) /\ UNCHANGED <<renaming, file, crossed, unsaved>>
        /\ \A q \in Process \ {Host} : todo'[q] = todo[q]
    BY <1>1, <1>3, <1>4, <1>6, <1>7, GoesOn
  <1>9. Works(Host)
    BY <1>1, <1>3, <1>7, <1>8, WorksQuietly DEF Free
  <1>10. SessionOK' /\ ReauthOK' /\ CallsOK'
    BY <1>1, <1>4, SessionKept, ReauthKept, CallsKept DEF IdentityInv, Typed
  <1>11. Typed'
    BY <1>3, <1>4, <1>7, <1>8, <1>10 DEF Typed, Grows
  <1>12. AllFit(Host)
    BY <1>1, <1>9, FitStill DEF AllFit
  <1>13. Waits(Host)
    BY <1>1 DEF IdentityInv, NotStranded, Waits
  <1>14. Minted'
    BY <1>1, <1>4, <1>9, MintedStill
  <1>15. Housed(Host)
    BY <1>1, <1>2 DEF Housed, Free
  <1> QED
    BY <1>1, <1>8, <1>9, <1>11, <1>12, <1>13, <1>14, <1>15, WorksStep

\* A notification is handed over and its cursor is committed.
LEMMA DeliverStep ==
    ASSUME IdentityInv, Deliver
    PROVE  IdentityInv'
  <1> DEFINE p == Listener
             w == Commit(rows')
  <1>1. /\ Free(p) /\ mem[p] # None /\ rows < MaxRow /\ rows' = rows + 1 /\ p \in Process
        /\ Write(p, <<w>>)
        /\ UNCHANGED <<codex, process, pds, joins, expired, trouble, orphaned>>
    BY TwoProcesses DEF Deliver
  <1>2. rows \in 1..MaxRow /\ rows' \in 1..MaxRow /\ rows <= rows'
    BY <1>1, IdentityAssumption DEF IdentityInv, Typed, BoundsOK
  <1>3. /\ BoundsOK' /\ trouble' = trouble /\ trouble' \in Nat /\ rows' \in Nat
        /\ trouble <= trouble'
    BY <1>1, <1>2 DEF IdentityInv, Typed, BoundsOK, process
  <1>4. Grows /\ PdsOK /\ minted' = minted
    BY <1>1, NothingIssued DEF IdentityInv, Typed, pds
  <1>5. w.kind = "commit" /\ w.cursor = rows' /\ WriteOK(w, minted', Len(token'))
    BY <1>3 DEF Commit, WriteOK, WriteRecord, IdRecord, None
  <1>6. UNCHANGED <<up, mem, session, shared, call, polled>>
    BY <1>1 DEF process
  <1>7. /\ DiskOK' /\ WritesFit(p) /\ UNCHANGED <<renaming, file, crossed, unsaved>>
        /\ \A q \in Process \ {p} : todo'[q] = todo[q]
    <2> HIDE DEF w
    <2> QED
      BY <1>1, <1>4, <1>5, <1>6, GoesOn
  <1>8. Works(p)
    BY <1>1, <1>2, <1>3, <1>6, <1>7, WorksQuietly DEF Free
  <1>9. Typed'
    BY <1>3, <1>4, <1>6, <1>7, MemKept, SessionKept, ReauthKept, CallsKept
       DEF IdentityInv, Typed, Grows
  <1>10. AllFit(p)
    BY <1>1, <1>6, <1>8, FitStill DEF AllFit
  <1>11. Waits(p)
    BY <1>1, <1>6 DEF IdentityInv, NotStranded, Waits
  <1>12. Minted'
    BY <1>1, <1>4, <1>6, <1>8, MintedStill
  <1>13. Housed(p)
    BY <1>1, <1>6, AtHome DEF Free
  <1> QED
    BY <1>1, <1>7, <1>8, <1>9, <1>10, <1>11, <1>12, <1>13, WorksStep

\* A join begins: a first one, or one that logs in again.
LEMMA JoinStarts ==
    ASSUME IdentityInv, NEW c \in ToolCall, Join(c)
    PROVE  IdentityInv'
  <1> DEFINE first == [Idle EXCEPT !.phase = "join"]
             again == [Idle EXCEPT !.phase = "again", !.account = mem[Tool].account]
  <1>1. /\ Free(Tool) /\ c \in Calls(Tool) /\ call[Tool][c].phase \in Quiet
        /\ joins < MaxJoin /\ joins' = joins + 1 /\ Tool \in Process
        /\ UNCHANGED <<codex, up, mem, session, shared, polled, disk, pds, rows, expired, trouble>>
    BY TwoProcesses DEF Join
  <1>2. /\ BoundsOK' /\ trouble' \in Nat /\ rows' \in Nat /\ rows' = rows /\ rows <= rows'
        /\ trouble' = trouble /\ trouble <= trouble'
    <2>1. joins' \in 0..MaxJoin
      BY <1>1, IdentityAssumption DEF IdentityInv, Typed, BoundsOK
    <2>2. orphaned' \in BOOLEAN
      BY DEF Join, IdentityInv, Typed, BoundsOK
    <2> QED
      BY <1>1, <2>1, <2>2 DEF IdentityInv, Typed, BoundsOK
  <1>3. Grows /\ PdsOK /\ minted \in Nat /\ Len(token) \in Nat /\ minted' = minted
    BY <1>1, NothingIssued DEF IdentityInv, Typed, PdsOK, pds
  <1>4. SessionOK' /\ ReauthOK'
    BY <1>1, <1>3, SessionKept, ReauthKept DEF IdentityInv, Typed
  <1>5. ASSUME NEW r, Becomes(Tool, c, r)
        PROVE  Works(Tool) /\ \A q \in Process \ {Tool} : shared'[q] = shared[q]
    <2>1. \A q \in Process \ {Tool} : call'[q] = call[q]
      BY <1>1, <1>5 DEF IdentityInv, Typed, CallsOK, Becomes
    <2> QED
      BY <1>1, <1>2, <2>1, WorksQuietly DEF disk, Free
  <1>6. CASE /\ mem[Tool] = None /\ Becomes(Tool, c, first)
             /\ orphaned' = (orphaned \/ \E d \in Calls(Tool) : call[Tool][d].phase \in Joining)
    <2>1. /\ first \in CallRecord /\ first.phase = "join" /\ first.account = 0 /\ first.used = 0
          /\ first.since = 0 /\ first.sent = 0
      BY DEF Idle, CallRecord, Phase, Joining
    <2>2. CallOK(first, minted, Len(token)) /\ CallFits(Tool, c, first) /\ first.phase \notin Waiting
      BY <1>2, <1>3, <2>1 DEF CallOK, CallFits, Waiting, Joining
    <2>3. Waits(Tool)
      <3> HIDE DEF first
      <3> QED
        BY <1>1, <1>6, <2>2, WaitsStill DEF Quiet, Waiting
    <2>4. Minted'
      <3> SUFFICES ASSUME ~orphaned' PROVE Minted'
        BY DEF Minted
      <3>1. ~orphaned /\ \A d \in Calls(Tool) : call[Tool][d].phase \notin Joining
        BY <1>6
      <3>2. /\ call'[Tool][c].phase = "join" /\ Calls(Tool)' = Calls(Tool)
            /\ \A d \in Calls(Tool) \ {c} : call'[Tool][d] = call[Tool][d]
        BY <1>1, <1>6, <2>1 DEF IdentityInv, Typed, CallsOK, Becomes, Calls, Listener
      <3>3. file = NoFile
        BY <1>1, <1>6 DEF IdentityInv, Homes, Free
      <3>4. minted = 0
        BY <1>3, <1>6, <3>1, <3>3 DEF IdentityInv, Minted, Joining
      <3> QED
        BY <1>3, <3>1, <3>2, <3>4 DEF Minted, Joining
    <2> HIDE DEF first
    <2> QED
      BY <1>1, <1>2, <1>3, <1>4, <1>5, <1>6, <2>2, <2>3, <2>4, CallOnly
  <1>7. CASE mem[Tool] # None /\ Becomes(Tool, c, again) /\ orphaned' = orphaned
    <2>1. mem[Tool].account \in 1..minted
      BY <1>1, <1>7 DEF IdentityInv, Typed, MemOK, IdOK
    <2>2. /\ again \in CallRecord /\ again.phase = "again" /\ again.account = mem[Tool].account
          /\ again.used = 0 /\ again.since = 0 /\ again.sent = 0
      <3>1. /\ Idle \in CallRecord /\ Idle.used = 0 /\ Idle.since = 0 /\ Idle.sent = 0
            /\ mem[Tool].account \in Nat /\ "again" \in Phase
        BY <1>3, <2>1 DEF Idle, CallRecord, Phase, Quiet
      <3> QED
        BY <3>1 DEF CallRecord
    <2>3. /\ CallOK(again, minted, Len(token)) /\ CallFits(Tool, c, again)
          /\ again.phase \notin Waiting /\ again.phase \notin Joining
      BY <1>1, <1>2, <1>3, <1>7, <2>1, <2>2 DEF CallOK, CallFits, Waiting, Joining
    <2>4. Waits(Tool) /\ Minted'
      <3> HIDE DEF again
      <3> QED
        BY <1>1, <1>3, <1>5, <1>7, <2>3, WaitsStill, MintedOne DEF Quiet, Waiting
    <2> HIDE DEF again
    <2> QED
      BY <1>1, <1>2, <1>3, <1>4, <1>5, <1>7, <2>3, <2>4, CallOnly
  <1> QED
    BY <1>6, <1>7 DEF Join, MayMint

\* The PDS creates the account of a first join.
LEMMA MintStep ==
    ASSUME IdentityInv, NEW c \in ToolCall, Mint(c)
    PROVE  IdentityInv'
  <1> DEFINE n == Len(token')
             r == [call[Tool][c] EXCEPT !.phase = "minted", !.account = minted', !.used = n]
  <1>1. /\ c \in Calls(Tool) /\ call[Tool][c].phase = "join" /\ minted' = minted + 1
        /\ token' = Append(token, "live") /\ Becomes(Tool, c, r) /\ Tool \in Process
        /\ UNCHANGED <<codex, up, mem, session, shared, polled, disk, bounds, orphaned>>
    BY TwoProcesses DEF Mint
  <1>2. /\ BoundsOK' /\ trouble' \in Nat /\ rows' \in Nat /\ rows' = rows /\ rows <= rows'
        /\ trouble' = trouble /\ trouble <= trouble'
    BY <1>1 DEF IdentityInv, Typed, BoundsOK, bounds
  <1>3. /\ Grows /\ PdsOK /\ minted \in Nat /\ minted' \in Nat /\ n \in Nat /\ n \in 1..n
        /\ minted' \in 1..minted' /\ \A t \in 1..Len(token) : token'[t] = token[t]
    <2>1. PdsOK
      BY DEF IdentityInv, Typed
    <2>2. Grows /\ n = Len(token) + 1 /\ \A t \in 1..Len(token) : token'[t] = token[t]
      BY <1>1, <2>1, Issued
    <2> QED
      BY <1>1, <2>1, <2>2 DEF PdsOK
  <1>4. /\ r \in CallRecord /\ r.phase = "minted" /\ r.account = minted' /\ r.used = n
        /\ r.since = call[Tool][c].since /\ r.sent = call[Tool][c].sent
    <2>1. call[Tool][c] \in CallRecord /\ "minted" \in Phase
      BY <1>1 DEF IdentityInv, Typed, CallsOK, Phase, Joining
    <2> QED
      BY <1>3, <2>1 DEF CallRecord
  <1> HIDE DEF r
  <1>5. CallOK(r, minted', n)
    BY <1>3, <1>4 DEF CallOK
  <1>6. Typed'
    BY <1>1, <1>2, <1>3, <1>5, MemKept, SessionKept, ReauthKept, CallSet, DiskKept
       DEF IdentityInv, Typed, Grows
  <1>7. Tool \in up
    BY <1>1 DEF IdentityInv, Homes, Joining
  <1>8. /\ call'[Tool][c] = r /\ Calls(Tool)' = Calls(Tool)
        /\ \A d \in Calls(Tool) \ {c} : call'[Tool][d] = call[Tool][d]
        /\ \A q \in Process \ {Tool} : call'[q] = call[q]
    BY <1>1 DEF IdentityInv, Typed, CallsOK, Becomes, Calls, Listener
  <1>9. Works(Tool)
    <2>1. \A t \in 1..Len(token) : Usable(t) => token'[t] \in {"live", "spent"}
      BY <1>3 DEF Usable
    <2> QED
      BY <1>1, <1>2, <1>3, <1>7, <1>8, <2>1 DEF Works, disk
  <1>10. AllFit(Tool)
    <2>1. CallFits(Tool, c, call[Tool][c])
      BY <1>1, <1>9, FitStill
    <2>2. CallFits(Tool, c, r)
      BY <1>4, <2>1 DEF CallFits, Joining
    <2> QED
      BY <1>1, <1>9, <2>2, OneFits
  <1>11. Waits(Tool)
    BY <1>1, <1>4, WaitsStill DEF Waiting
  <1>12. WritesFit(Tool) /\ Housed(Tool)
    <2>1. \A d \in Calls(Tool) :
            call[Tool][d].phase = "joined" => call'[Tool][d].phase = "joined"
      BY <1>1, <1>8
    <2>2. UNCHANGED <<todo, mem, rows>>
      BY <1>1, <1>2 DEF disk
    <2> QED
      BY <1>1, <2>1, <2>2, NoWrite DEF Housed
  <1>13. Minted'
    <2> SUFFICES ASSUME ~orphaned' PROVE Minted'
      BY DEF Minted
    <2>1. minted = 0 /\ \A d \in Calls(Tool) : call[Tool][d].phase \in Joining => d = c
      BY <1>1 DEF IdentityInv, Minted, Joining
    <2> QED
      BY <1>1, <1>4, <1>8, <2>1 DEF Minted, Joining
  <1> QED
    BY <1>1, <1>6, <1>9, <1>10, <1>11, <1>12, <1>13, WorksStep

\* The account that was created becomes the session's identity, and is saved.
LEMMA JoinDoneStep ==
    ASSUME IdentityInv, NEW c \in ToolCall, JoinDone(c)
    PROVE  IdentityInv'
  <1> DEFINE a == call[Tool][c].account
             n == call[Tool][c].used
             r == [Idle EXCEPT !.phase = "joined"]
  <1>1. /\ Free(Tool) /\ c \in Calls(Tool) /\ call[Tool][c].phase = "minted" /\ Tool \in Process
        /\ mem' = [mem EXCEPT ![Tool] = Id(a, n)] /\ Write(Tool, <<Save(mem'[Tool])>>)
        /\ Becomes(Tool, c, r)
        /\ UNCHANGED <<codex, up, session, shared, polled, pds, bounds, orphaned>>
    BY TwoProcesses DEF JoinDone
  <1>2. /\ BoundsOK' /\ trouble' \in Nat /\ rows' \in Nat /\ rows' = rows /\ rows <= rows'
        /\ trouble' = trouble /\ trouble <= trouble'
    BY <1>1 DEF IdentityInv, Typed, BoundsOK, bounds
  <1>3. Grows /\ PdsOK /\ minted' = minted /\ Len(token') = Len(token)
    BY <1>1, NothingIssued DEF IdentityInv, Typed, pds
  <1>4. minted' \in Nat /\ Len(token') \in Nat /\ a \in 1..minted' /\ n \in 1..Len(token')
    BY <1>1, <1>3 DEF IdentityInv, Typed, CallsOK, CallOK, PdsOK
  <1>5. /\ WriteOK(Save(Id(a, n)), minted', Len(token')) /\ Save(Id(a, n)).kind = "save"
        /\ IdOK(Id(a, n), minted', Len(token')) /\ Save(Id(a, n)).id = Id(a, n)
        /\ Id(a, n) # None
    <2> HIDE DEF a, n
    <2> QED
      BY <1>4, Saves
  <1>6. MemOK' /\ mem'[Tool] = Id(a, n) /\ \A q \in Process \ {Tool} : mem'[q] = mem[q]
    BY <1>1, <1>3, <1>5, MemSet DEF IdentityInv, Typed
  <1>7. /\ DiskOK' /\ WritesFit(Tool) /\ UNCHANGED <<renaming, file, crossed, unsaved>>
        /\ \A q \in Process \ {Tool} : todo'[q] = todo[q]
    BY <1>1, <1>2, <1>3, <1>5, <1>6, GoesOn
  <1>8. /\ r \in CallRecord /\ r.phase = "joined" /\ r.account = 0 /\ r.used = 0
        /\ r.since = 0 /\ r.sent = 0
    BY DEF Idle, CallRecord, Phase, Joining
  <1> HIDE DEF r
  <1>9. /\ call'[Tool][c] = r /\ Calls(Tool)' = Calls(Tool)
        /\ \A d \in Calls(Tool) \ {c} : call'[Tool][d] = call[Tool][d]
        /\ \A q \in Process \ {Tool} : call'[q] = call[q]
    BY <1>1 DEF IdentityInv, Typed, CallsOK, Becomes, Calls, Listener
  <1>10. Works(Tool)
    BY <1>1, <1>2, <1>5, <1>6, <1>7, <1>9, WorksQuietly DEF Free
  <1>11. CallOK(r, minted', Len(token')) /\ CallFits(Tool, c, r)
    BY <1>2, <1>4, <1>5, <1>6, <1>8 DEF CallOK, CallFits, Waiting
  <1>12. CallsOK' /\ SessionOK' /\ ReauthOK'
    BY <1>1, <1>3, <1>11, CallSet, SessionKept, ReauthKept DEF IdentityInv, Typed
  <1>13. Typed'
    BY <1>2, <1>3, <1>6, <1>7, <1>12 DEF Typed, Grows
  <1>14. AllFit(Tool)
    BY <1>1, <1>10, <1>11, OneFits
  <1>15. Waits(Tool)
    BY <1>1, <1>8, WaitsStill DEF Waiting
  <1>16. Minted'
    <2> SUFFICES ASSUME ~orphaned' PROVE Minted'
      BY DEF Minted
    <2>1. /\ minted <= 1 /\ (minted = 1 \/ minted = 0)
          /\ \A d \in Calls(Tool) : call[Tool][d].phase \in Joining => d = c
      BY <1>1, <1>3 DEF IdentityInv, Minted, Joining, Typed, PdsOK
    <2>2. \A d \in Calls(Tool)' : call'[Tool][d].phase \in Joining => d = c
      BY <1>9, <2>1
    <2>3. \A d \in Calls(Tool)' : call'[Tool][d].phase # "join"
      BY <1>8, <1>9, <2>2 DEF Joining
    <2> QED
      BY <1>3, <1>5, <1>6, <2>1, <2>2, <2>3 DEF Minted
  <1>17. Housed(Tool)
    <2>1. todo'[Tool] = <<Save(Id(a, n))>>
      BY <1>1, <1>6 DEF Write, IdentityInv, Typed, DiskOK
    <2>2. Save(Id(a, n)) \in WriteRecord
      BY <1>5 DEF WriteOK
    <2> QED
      BY <1>1, <1>5, <1>8, <1>9, <2>1, <2>2 DEF Housed, Free
  <1> QED
    BY <1>1, <1>7, <1>10, <1>13, <1>14, <1>15, <1>16, <1>17, WorksStep

\* The join returns.
LEMMA JoinedStep ==
    ASSUME IdentityInv, NEW c \in ToolCall, Joined(c)
    PROVE  IdentityInv'
  <1>1. /\ Free(Tool) /\ c \in Calls(Tool) /\ call[Tool][c].phase = "joined" /\ Tool \in Process
        /\ Becomes(Tool, c, Idle)
        /\ UNCHANGED <<codex, up, mem, session, shared, polled, disk, pds, bounds, orphaned>>
    BY TwoProcesses DEF Joined
  <1>2. /\ BoundsOK' /\ trouble' \in Nat /\ rows' \in Nat /\ rows' = rows /\ rows <= rows'
        /\ trouble' = trouble /\ trouble <= trouble'
    BY <1>1 DEF IdentityInv, Typed, BoundsOK, bounds
  <1>3. Grows /\ Works(Tool)
    <2>1. \A q \in Process \ {Tool} : call'[q] = call[q]
      BY <1>1 DEF IdentityInv, Typed, CallsOK, Becomes
    <2> QED
      BY <1>1, <1>2, <2>1, WorksQuietly DEF disk, Free
  <1>4. SessionOK' /\ ReauthOK'
    BY <1>1, <1>3, SessionKept, ReauthKept DEF IdentityInv, Typed
  <1>5. Waits(Tool) /\ Minted'
    BY <1>1, <1>3, WaitsStill, MintedOne DEF Idle, Waiting, Joining, pds
  <1>6. CallOK(Idle, minted, Len(token)) /\ CallFits(Tool, c, Idle)
    BY <1>1, <1>3, Nobody, IdleFits DEF IdentityInv, Typed, PdsOK
  <1> QED
    BY <1>1, <1>2, <1>4, <1>5, <1>6, CallOnly

\* The account is refused, or its answer is lost.
LEMMA JoinFailsStep ==
    ASSUME IdentityInv, NEW c \in ToolCall, JoinFails(c)
    PROVE  IdentityInv'
  <1>1. /\ Free(Tool) /\ c \in Calls(Tool) /\ call[Tool][c].phase \in {"join", "minted"}
        /\ Tool \in Process /\ Trouble /\ Becomes(Tool, c, Idle)
        /\ orphaned' = (orphaned \/ call[Tool][c].phase = "minted")
        /\ UNCHANGED <<codex, up, mem, session, shared, polled, disk, pds, joins, rows>>
    BY TwoProcesses DEF JoinFails
  <1>2. /\ BoundsOK' /\ trouble' \in Nat /\ rows' \in Nat /\ rows' = rows /\ rows <= rows'
        /\ trouble <= trouble'
    <2>1. polled' \in BOOLEAN /\ orphaned' \in BOOLEAN /\ up' \subseteq Process /\ BoundsOK
      BY <1>1 DEF IdentityInv, Typed, BoundsOK
    <2> QED
      BY <1>1, <2>1, BoundsTroubled
  <1>3. Grows /\ Works(Tool)
    <2>1. \A q \in Process \ {Tool} : call'[q] = call[q]
      BY <1>1 DEF IdentityInv, Typed, CallsOK, Becomes
    <2> QED
      BY <1>1, <1>2, <2>1, WorksQuietly DEF disk, Free
  <1>4. SessionOK' /\ ReauthOK'
    BY <1>1, <1>3, SessionKept, ReauthKept DEF IdentityInv, Typed
  <1>5. Waits(Tool)
    BY <1>1, WaitsStill DEF Idle, Waiting
  <1>6. Minted'
    <2> SUFFICES ASSUME ~orphaned' PROVE Minted'
      BY DEF Minted
    <2>1. call[Tool][c].phase # "minted" /\ minted' = minted
      BY <1>1 DEF pds
    <2>2. orphaned => orphaned'
      BY <1>1
    <2> QED
      BY <1>1, <1>3, <2>1, <2>2, MintedOne DEF Idle, Joining
  <1>7. CallOK(Idle, minted, Len(token)) /\ CallFits(Tool, c, Idle)
    BY <1>1, <1>3, Nobody, IdleFits DEF IdentityInv, Typed, PdsOK
  <1> QED
    BY <1>1, <1>2, <1>4, <1>5, <1>6, <1>7, CallOnly

\* A second join logs in again.
LEMMA AgainDoneStep ==
    ASSUME IdentityInv, NEW c \in ToolCall, AgainDone(c)
    PROVE  IdentityInv'
  <1>1. /\ Free(Tool) /\ c \in Calls(Tool) /\ call[Tool][c].phase = "again" /\ Tool \in Process
        /\ LoggedIn(Tool, call[Tool][c].account) /\ Becomes(Tool, c, Idle)
        /\ UNCHANGED <<codex, up, shared, polled, minted, bounds, orphaned>>
    BY TwoProcesses DEF AgainDone
  <1>2. BoundsOK' /\ trouble' = trouble /\ rows' = rows
    BY <1>1 DEF IdentityInv, Typed, BoundsOK, bounds
  <1>3. call[Tool][c].account \in 1..minted /\ mem[Tool] # None
    BY <1>1 DEF IdentityInv, Typed, CallsOK, CallOK, Homes, Quiet
  <1>4. Renewed(Tool)
    BY <1>1, <1>2, <1>3, LoginRenews
  <1>5. \A q \in Process \ {Tool} : call'[q] = call[q]
    BY <1>1 DEF IdentityInv, Typed, CallsOK, Becomes
  <1>6. Works(Tool) /\ Housed(Tool)
    BY <1>1, <1>2, <1>3, <1>4, <1>5, RenewedWorks
  <1>7. Grows /\ PdsOK /\ minted' = minted /\ minted' \in Nat /\ Len(token') \in Nat
    BY <1>1, <1>4 DEF Renewed, Grows, IdentityInv, Typed, PdsOK
  <1>8. CallOK(Idle, minted', Len(token')) /\ CallFits(Tool, c, Idle)
    BY <1>1, <1>6, <1>7, Nobody, IdleFits
  <1>9. CallsOK' /\ ReauthOK'
    BY <1>1, <1>7, <1>8, CallSet, ReauthKept DEF IdentityInv, Typed
  <1>10. AllFit(Tool)
    BY <1>1, <1>6, <1>8, OneFits
  <1>11. Waits(Tool) /\ Minted'
    BY <1>1, <1>6, <1>7, WaitsStill, MintedOne DEF Idle, Waiting, Joining
  <1>12. Typed'
    BY <1>2, <1>4, <1>9 DEF Typed, Renewed, Grows
  <1> QED
    BY <1>1, <1>4, <1>6, <1>10, <1>11, <1>12, WorksStep DEF Renewed

\* Or fails, and ends the agent's session.
LEMMA AgainFailsStep ==
    ASSUME IdentityInv, NEW c \in ToolCall, AgainFails(c)
    PROVE  IdentityInv'
  <1>1. /\ Free(Tool) /\ c \in Calls(Tool) /\ call[Tool][c].phase = "again" /\ Tool \in Process
        /\ Trouble /\ session' = [session EXCEPT ![Tool] = None] /\ Becomes(Tool, c, Idle)
        /\ UNCHANGED <<codex, up, mem, shared, polled, disk, pds, joins, rows, orphaned>>
    BY TwoProcesses DEF AgainFails
  <1>2. /\ BoundsOK' /\ trouble' \in Nat /\ rows' \in Nat /\ rows' = rows /\ rows <= rows'
        /\ trouble <= trouble'
    BY <1>1, BoundsTroubled DEF IdentityInv, Typed, BoundsOK
  <1>3. Grows /\ Works(Tool)
    <2>1. \A q \in Process \ {Tool} : call'[q] = call[q]
      BY <1>1 DEF IdentityInv, Typed, CallsOK, Becomes
    <2> QED
      BY <1>1, <1>2, <2>1, WorksQuietly DEF disk, Free
  <1>4. PdsOK /\ minted \in Nat /\ Len(token) \in Nat /\ IdOK(None, minted', Len(token'))
    BY <1>1, Nobody DEF IdentityInv, Typed, PdsOK, pds
  <1>5. SessionOK' /\ ReauthOK'
    BY <1>1, <1>3, <1>4, SessionSet, ReauthKept DEF IdentityInv, Typed
  <1>6. Waits(Tool) /\ Minted'
    BY <1>1, <1>3, WaitsStill, MintedOne DEF Idle, Waiting, Joining, pds
  <1>7. CallOK(Idle, minted, Len(token)) /\ CallFits(Tool, c, Idle)
    BY <1>1, <1>3, <1>4, Nobody, IdleFits
  <1> QED
    BY <1>1, <1>2, <1>5, <1>6, <1>7, CallOnly

(* Saves that throw *)

\* A process whose save threw works, has an identity and owes the file one.
LEMMA UnsavedWorks ==
    ASSUME IdentityInv, NEW p \in Process, Free(p), Unsaved(p), Grows, mem'[p] # None,
           UNCHANGED <<codex, up, polled, orphaned>>, mem[p] # None \/ p = Tool,
           \A q \in Process \ {p} :
             mem'[q] = mem[q] /\ shared'[q] = shared[q] /\ call'[q] = call[q]
    PROVE  /\ Works(p) /\ WritesFit(p) /\ Housed(p) /\ DiskOK' /\ BoundsOK'
           /\ trouble' \in Nat /\ rows' \in Nat /\ PdsOK /\ PdsOK'
  <1>1. /\ Trouble /\ unsaved' = [unsaved EXCEPT ![p] = TRUE] /\ todo[p] = <<>> /\ p \in up
        /\ UNCHANGED <<todo, renaming, file, crossed, joins, rows>>
    BY DEF Unsaved, Free
  <1>2. /\ BoundsOK' /\ trouble' \in Nat /\ rows' \in Nat /\ rows <= rows' /\ trouble <= trouble'
        /\ trouble # trouble'
    <2>1. polled' \in BOOLEAN /\ orphaned' \in BOOLEAN /\ up' \subseteq Process /\ BoundsOK
      BY DEF IdentityInv, Typed, BoundsOK
    <2> QED
      BY <1>1, <2>1, BoundsTroubled
  <1>3. /\ unsaved' \in [Process -> BOOLEAN] /\ unsaved'[p]
        /\ \A q \in Process \ {p} : unsaved'[q] = unsaved[q]
    BY <1>1 DEF IdentityInv, Typed, DiskOK
  <1>4. DiskOK'
    <2>1. \A q \in Process : TodoOK(todo[q], minted', Len(token'))
      BY DEF IdentityInv, Typed, DiskOK, TodoOK, WriteOK, Grows, PdsOK
    <2>2. /\ \A q \in Process : FileOK(renaming[q], minted', Len(token'))
          /\ FileOK(file, minted', Len(token'))
      BY DEF IdentityInv, Typed, DiskOK, FileOK, Grows, PdsOK
    <2> QED
      BY <1>1, <1>3, <2>1, <2>2 DEF IdentityInv, Typed, DiskOK
  <1>5. Works(p)
    BY <1>1, <1>2, <1>3 DEF Works
  <1>6. WritesFit(p) /\ Housed(p)
    BY <1>1, <1>3 DEF WritesFit, Housed
  <1> QED
    BY <1>2, <1>4, <1>5, <1>6 DEF Grows, IdentityInv, Typed

\* It has patched the tokens of its identity.
LEMMA TokensPatched ==
    ASSUME IdentityInv, NEW p \in Process, mem[p] # None, Grows, NEW n \in 1..Len(token'),
           mem' = [mem EXCEPT ![p].token = n]
    PROVE  MemOK' /\ mem'[p] # None /\ \A q \in Process \ {p} : mem'[q] = mem[q]
  <1> DEFINE a == mem[p].account
             i == [mem[p] EXCEPT !.token = n]
             m == minted'
             t == Len(token')
  <1>1. mem[p] \in IdRecord /\ a \in 1..m /\ m \in Nat /\ t \in Nat
    <2>1. mem[p] \in IdRecord /\ a \in 1..minted /\ minted \in Nat
      BY DEF IdentityInv, Typed, PdsOK, MemOK, IdOK
    <2>2. m \in Nat /\ t \in Nat /\ minted <= m
      BY DEF Grows, PdsOK
    <2> QED
      BY <2>1, <2>2
  <1>2. i \in IdRecord /\ i.account = a /\ i.token = n
    BY <1>1 DEF IdRecord
  <1>3. mem' = [mem EXCEPT ![p] = i]
    OBVIOUS
  <1>4. n \in 1..t
    OBVIOUS
  <1> HIDE DEF i, a, m, t
  <1>5. IdOK(i, m, t) /\ i # None
    BY <1>1, <1>2, <1>4 DEF IdOK, None
  <1> QED
    BY <1>3, <1>5, MemSet DEF IdentityInv, Typed, m, t

\* A login whose tokens are not saved; the agent keeps its session or not.
LEMMA LoginUnsaves ==
    ASSUME IdentityInv, NEW p \in Process, NEW a \in 1..minted, mem[p] # None,
           LoggedInUnsaved(p, a), UNCHANGED <<codex, minted>>
    PROVE  /\ Grows /\ PdsOK /\ minted' \in Nat /\ Len(token') \in Nat /\ SessionOK'
           /\ MemOK' /\ mem'[p] # None /\ \A q \in Process \ {p} : mem'[q] = mem[q]
  <1> DEFINE n == Len(token')
             m == minted'
  <1>1. PdsOK /\ token' = Append(token, "live") /\ mem' = [mem EXCEPT ![p].token = n]
    BY DEF IdentityInv, Typed, LoggedInUnsaved
  <1>2. PICK i \in {None, Id(a, n)} : session' = [session EXCEPT ![p] = i]
    BY DEF LoggedInUnsaved
  <1>3. Grows /\ n = Len(token) + 1
    BY <1>1, Issued
  <1>4. n \in 1..n /\ n \in Nat /\ m \in Nat /\ a \in 1..m
    BY <1>1, <1>3 DEF PdsOK
  <1>5. MemOK' /\ mem'[p] # None /\ \A q \in Process \ {p} : mem'[q] = mem[q]
    BY <1>1, <1>3, <1>4, TokensPatched
  <1> HIDE DEF n, m
  <1>6. IdOK(i, m, n)
    <2>1. IdOK(None, m, n)
      BY <1>4, Nobody
    <2>2. IdOK(Id(a, n), m, n)
      BY <1>4, Saves
    <2> QED
      BY <1>2, <2>1, <2>2
  <1>7. SessionOK'
    BY <1>1, <1>2, <1>3, <1>6, SessionSet DEF IdentityInv, Typed, n, m
  <1> QED
    BY <1>1, <1>3, <1>4, <1>5, <1>7 DEF n, m

\* A session that is resumed, but not saved, is logged in instead.
LEMMA ResumeUnsavedStep ==
    ASSUME IdentityInv, NEW p \in Process, ResumeUnsaved(p)
    PROVE  IdentityInv'
  <1> DEFINE t == session[p].token
  <1>1. /\ Free(p) /\ shared[p].stage = "resume" /\ session[p] # None /\ Unsaved(p)
        /\ session' = [session EXCEPT ![p] = None]
        /\ shared' = [shared EXCEPT ![p].stage = "login"]
        /\ UNCHANGED <<codex, up, call, polled, minted, orphaned>>
    BY DEF ResumeUnsaved
  <1>2. /\ mem[p] # None /\ shared[p].account \in 1..minted
        /\ minted \in Nat /\ Len(token) \in Nat /\ PdsOK
    BY <1>1, Reauthenticating
  <1>3. t \in 1..Len(token)
    BY <1>1 DEF IdentityInv, Typed, SessionOK, IdOK
  <1>4. Grows /\ \E n \in 1..Len(token') : mem' = [mem EXCEPT ![p].token = n]
    <2>1. CASE /\ token[t] = "stale" /\ token' = Append([token EXCEPT ![t] = "dead"], "live")
               /\ mem' = [mem EXCEPT ![p].token = Len(token')]
      <3>1. token' = Append([token EXCEPT ![t] = IF @ = "live" THEN "spent" ELSE "dead"], "live")
        BY <2>1
      <3>2. Grows /\ Len(token') = Len(token) + 1
        BY <1>1, <1>2, <1>3, <2>1, <3>1, IssuedAnew
      <3>3. Len(token') \in 1..Len(token')
        BY <1>2, <3>2
      <3> QED
        BY <2>1, <3>2, <3>3
    <2>2. CASE mem' = [mem EXCEPT ![p].token = t] /\ token' = token
      <3>1. Grows
        BY <1>1, <1>2, <2>2, NothingIssued DEF pds
      <3> QED
        BY <1>3, <2>2, <3>1
    <2> QED
      BY <2>1, <2>2 DEF ResumeUnsaved
  <1>5. MemOK' /\ mem'[p] # None /\ \A q \in Process \ {p} : mem'[q] = mem[q]
    BY <1>2, <1>4, TokensPatched
  <1>6. minted' \in Nat /\ Len(token') \in Nat /\ minted' = minted
    BY <1>1, <1>2, <1>4 DEF Grows
  <1>7. SessionOK'
    <2>1. IdOK(None, minted', Len(token'))
      BY <1>6, Nobody
    <2> QED
      BY <1>1, <1>2, <1>4, <2>1, SessionSet DEF IdentityInv, Typed
  <1>8. ReauthOK' /\ shared'[p].stage = "login" /\ \A q \in Process \ {p} : shared'[q] = shared[q]
    <2> DEFINE s == [shared[p] EXCEPT !.stage = "login"]
    <2>1. SharedOK(s, minted') /\ s.stage = "login"
      BY <1>2, <1>6 DEF IdentityInv, Typed, ReauthOK, SharedOK
    <2>2. shared' = [shared EXCEPT ![p] = s]
      BY <1>1
    <2> HIDE DEF s
    <2> QED
      BY <1>2, <1>4, <2>1, <2>2, ReauthSet DEF IdentityInv, Typed
  <1>9. Works(p) /\ WritesFit(p) /\ Housed(p) /\ DiskOK' /\ BoundsOK' /\ PdsOK'
    <2>1. \A q \in Process \ {p} : call'[q] = call[q]
      BY <1>1
    <2> QED
      BY <1>1, <1>2, <1>4, <1>5, <1>8, <2>1, UnsavedWorks
  <1>10. Typed'
    BY <1>1, <1>2, <1>4, <1>5, <1>7, <1>8, <1>9, CallsKept DEF IdentityInv, Typed
  <1>11. AllFit(p)
    BY <1>1, <1>9, FitStill DEF AllFit
  <1>12. Waits(p)
    <2>1. \E c \in Calls(p) : call[p][c].phase \in Waiting
      BY <1>1 DEF IdentityInv, NotStranded
    <2> QED
      BY <1>1, <1>8, <2>1 DEF Waits
  <1>13. Minted'
    BY <1>1, <1>6, <1>9, MintedStill
  <1> QED
    BY <1>9, <1>10, <1>11, <1>12, <1>13, WorksStep

\* A shared login that is not saved fails for everybody who waited for it.
LEMMA LoginUnsavedStep ==
    ASSUME IdentityInv, NEW p \in Process, LoginUnsaved(p)
    PROVE  IdentityInv'
  <1> DEFINE f == [c \in Calls(p) |-> IF call[p][c].phase \in Waiting THEN Idle ELSE call[p][c]]
  <1>1. /\ Free(p) /\ shared[p].stage = "login" /\ LoggedInUnsaved(p, shared[p].account)
        /\ Unsaved(p) /\ shared' = Cleared(p) /\ call' = [call EXCEPT ![p] = f]
        /\ UNCHANGED <<codex, up, polled, minted, orphaned>>
    BY DEF LoginUnsaved, LoggedInUnsaved, Rejected
  <1>2. mem[p] # None /\ shared[p].account \in 1..minted
    BY <1>1, Reauthenticating
  <1>3. /\ Grows /\ PdsOK /\ minted' \in Nat /\ Len(token') \in Nat /\ SessionOK'
        /\ MemOK' /\ mem'[p] # None /\ \A q \in Process \ {p} : mem'[q] = mem[q]
    BY <1>1, <1>2, LoginUnsaves
  <1>4. ReauthOK' /\ shared'[p] = NoReauth /\ \A q \in Process \ {p} : shared'[q] = shared[q]
    <2>1. SharedOK(NoReauth, minted')
      BY <1>3, Nobody
    <2> QED
      BY <1>1, <1>3, <2>1, ReauthSet DEF IdentityInv, Typed, Cleared
  <1>5. CallsOK' /\ call'[p] = f /\ \A q \in Process \ {p} : call'[q] = call[q]
    <2>1. f = [c \in Calls(p) |-> f[c]]
      OBVIOUS
    <2>2. \A c \in Calls(p) : CallOK(f[c], minted', Len(token'))
      BY <1>3, Nobody, CallStill DEF IdentityInv, Typed, CallsOK
    <2> HIDE DEF f
    <2> QED
      BY <1>1, <1>3, <2>1, <2>2, CallsSet DEF IdentityInv, Typed
  <1>6. Works(p) /\ WritesFit(p) /\ Housed(p) /\ DiskOK' /\ BoundsOK' /\ PdsOK'
    BY <1>1, <1>2, <1>3, <1>4, <1>5, UnsavedWorks
  <1>7. Typed'
    BY <1>3, <1>4, <1>5, <1>6 DEF Typed
  <1>8. \A c \in Calls(p) : f[c] = Idle \/ f[c] = call[p][c]
    OBVIOUS
  <1>9. AllFit(p)
    BY <1>5, <1>6, <1>8, FitStill, IdleFits DEF AllFit
  <1>10. Waits(p)
    <2>1. \A c \in Calls(p) : f[c].phase \notin Waiting
      BY DEF Idle, Waiting
    <2> QED
      BY <1>4, <1>5, <2>1 DEF Waits, NoReauth
  <1>11. Minted'
    <2>1. \A c \in Calls(p) :
            /\ f[c].phase \in Joining => call[p][c].phase = f[c].phase
            /\ call[p][c].phase = "minted" => f[c].phase = "minted"
      BY DEF Idle, Joining, Waiting
    <2> QED
      BY <1>1, <1>5, <1>6, <2>1, MintedStill
  <1> QED
    BY <1>6, <1>7, <1>9, <1>10, <1>11, WorksStep

\* A call goes on with refreshed tokens that are not saved.
LEMMA RepeatedUnsavedStep ==
    ASSUME IdentityInv, NEW p \in Process, NEW c \in Calls(p), RepeatedUnsaved(p, c)
    PROVE  IdentityInv'
  <1> DEFINE r == call[p][c]
             n == Len(token')
             s == session[p].token
             a == mem[p].account
             b == session[p].account
             again == [r EXCEPT !.used = n]
  <1>1. /\ Free(p) /\ r.phase \in {"call", "recall"} /\ session[p] # None
        /\ token[s] \in {"live", "stale"} /\ Refreshes(p) /\ Unsaved(p)
        /\ Becomes(p, c, again)
        /\ UNCHANGED <<codex, up, shared, polled, minted, orphaned>>
    BY DEF RepeatedUnsaved, Refreshable
  <1>2. mem[p] # None
    BY <1>1 DEF IdentityInv, Homes, Quiet, Joining
  <1>3. PdsOK /\ a \in 1..minted /\ b \in 1..minted /\ s \in 1..Len(token) /\ minted \in Nat
    BY <1>1, <1>2 DEF IdentityInv, Typed, MemOK, SessionOK, IdOK, PdsOK
  <1>4. /\ token' = Append([token EXCEPT ![s] = IF @ = "live" THEN "spent" ELSE "dead"], "live")
        /\ session' = [session EXCEPT ![p] = Id(b, n)] /\ mem' = [mem EXCEPT ![p] = Id(a, n)]
    BY <1>1 DEF Refreshes, IdentityInv, Typed, MemOK, SessionOK
  <1>5. Grows /\ n = Len(token) + 1 /\ token'[n] = "live"
    BY <1>1, <1>3, <1>4, IssuedAnew
  <1>6. n \in Nat /\ n \in 1..n /\ minted' = minted
    BY <1>1, <1>3, <1>5 DEF PdsOK
  <1>7. IdOK(Id(a, n), minted', n) /\ IdOK(Id(b, n), minted', n) /\ Id(a, n) # None
    <2> HIDE DEF n, a, b
    <2> QED
      BY <1>3, <1>6, Saves
  <1>8. MemOK' /\ mem'[p] # None /\ \A q \in Process \ {p} : mem'[q] = mem[q]
    <2> DEFINE i == Id(a, n)
    <2>1. IdOK(i, minted', Len(token')) /\ i # None /\ mem' = [mem EXCEPT ![p] = i]
      BY <1>4, <1>7
    <2> HIDE DEF i
    <2>2. MemOK /\ PdsOK
      BY <1>3 DEF IdentityInv, Typed
    <2> QED
      BY <1>5, <2>1, <2>2, MemSet
  <1>9. SessionOK'
    BY <1>3, <1>4, <1>5, <1>7, SessionSet DEF IdentityInv, Typed
  <1>10. \A q \in Process \ {p} : call'[q] = call[q] /\ shared'[q] = shared[q]
    BY <1>1 DEF IdentityInv, Typed, CallsOK, Becomes
  <1>11. Works(p) /\ WritesFit(p) /\ Housed(p) /\ DiskOK' /\ BoundsOK' /\ PdsOK'
    BY <1>1, <1>2, <1>5, <1>8, <1>10, UnsavedWorks
  <1>12. /\ r \in CallRecord /\ CallOK(r, minted, Len(token)) /\ r.account \in 1..minted
         /\ CallFits(p, c, r)
    BY <1>1, <1>11, FitStill DEF IdentityInv, Typed, CallsOK, CallOK
  <1>13. /\ again \in CallRecord /\ again.used = n /\ again.phase = r.phase
         /\ again.account = r.account /\ again.since = r.since /\ again.sent = r.sent
    BY <1>6, <1>12 DEF CallRecord
  <1>14. CallOK(again, minted', n) /\ CallFits(p, c, again)
    BY <1>5, <1>6, <1>12, <1>13 DEF CallOK, CallFits
  <1>15. CallsOK' /\ ReauthOK'
    BY <1>1, <1>3, <1>5, <1>14, CallSet, ReauthKept DEF IdentityInv, Typed
  <1>16. AllFit(p)
    BY <1>1, <1>11, <1>14, OneFits
  <1>17. Waits(p) /\ Minted'
    BY <1>1, <1>6, <1>11, <1>13, WaitsStill, MintedOne DEF Waiting, Joining
  <1>18. Typed'
    BY <1>8, <1>9, <1>11, <1>15 DEF Typed
  <1> QED
    BY <1>11, <1>16, <1>17, <1>18, WorksStep

\* The account that was created is the session's identity, in memory only.
LEMMA JoinUnsavedStep ==
    ASSUME IdentityInv, NEW c \in ToolCall, JoinUnsaved(c)
    PROVE  IdentityInv'
  <1> DEFINE a == call[Tool][c].account
             n == call[Tool][c].used
  <1>1. /\ Free(Tool) /\ c \in Calls(Tool) /\ call[Tool][c].phase = "minted" /\ Tool \in Process
        /\ mem' = [mem EXCEPT ![Tool] = Id(a, n)] /\ Unsaved(Tool) /\ Becomes(Tool, c, Idle)
        /\ UNCHANGED <<codex, up, session, shared, polled, pds, orphaned>>
    BY TwoProcesses DEF JoinUnsaved
  <1>2. Grows /\ PdsOK /\ minted' = minted /\ Len(token') = Len(token)
    BY <1>1, NothingIssued DEF IdentityInv, Typed, pds
  <1>3. minted' \in Nat /\ Len(token') \in Nat /\ a \in 1..minted' /\ n \in 1..Len(token')
    BY <1>1, <1>2 DEF IdentityInv, Typed, CallsOK, CallOK, PdsOK
  <1>4. IdOK(Id(a, n), minted', Len(token')) /\ Id(a, n) # None
    <2> HIDE DEF a, n
    <2> QED
      BY <1>3, Saves
  <1>5. MemOK' /\ mem'[Tool] = Id(a, n) /\ \A q \in Process \ {Tool} : mem'[q] = mem[q]
    BY <1>1, <1>2, <1>4, MemSet DEF IdentityInv, Typed
  <1>6. /\ call'[Tool][c] = Idle /\ Calls(Tool)' = Calls(Tool)
        /\ \A d \in Calls(Tool) \ {c} : call'[Tool][d] = call[Tool][d]
        /\ \A q \in Process \ {Tool} : call'[q] = call[q] /\ shared'[q] = shared[q]
    BY <1>1 DEF IdentityInv, Typed, CallsOK, Becomes, Calls, Listener
  <1>7. /\ Works(Tool) /\ WritesFit(Tool) /\ Housed(Tool) /\ DiskOK' /\ BoundsOK' /\ PdsOK'
    BY <1>1, <1>2, <1>4, <1>5, <1>6, UnsavedWorks
  <1>8. CallOK(Idle, minted', Len(token')) /\ CallFits(Tool, c, Idle)
    BY <1>1, <1>3, <1>7, Nobody, IdleFits
  <1>9. CallsOK' /\ SessionOK' /\ ReauthOK'
    BY <1>1, <1>2, <1>8, CallSet, SessionKept, ReauthKept DEF IdentityInv, Typed
  <1>10. Typed'
    BY <1>5, <1>7, <1>9 DEF Typed
  <1>11. AllFit(Tool)
    BY <1>1, <1>7, <1>8, OneFits
  <1>12. Waits(Tool)
    BY <1>1, WaitsStill DEF Idle, Waiting
  <1>13. Minted'
    <2> SUFFICES ASSUME ~orphaned' PROVE Minted'
      BY DEF Minted
    <2>1. /\ minted <= 1
          /\ \A d \in Calls(Tool) : call[Tool][d].phase \in Joining => d = c
      BY <1>1 DEF IdentityInv, Minted, Joining
    <2>2. \A d \in Calls(Tool)' : call'[Tool][d].phase \notin Joining
      BY <1>6, <2>1 DEF Idle, Joining
    <2> QED
      BY <1>2, <1>4, <1>5, <2>1, <2>2 DEF Minted, Joining
  <1> QED
    BY <1>1, <1>7, <1>10, <1>11, <1>12, <1>13, WorksStep

\* A second join whose login is not saved.
LEMMA AgainUnsavedStep ==
    ASSUME IdentityInv, NEW c \in ToolCall, AgainUnsaved(c)
    PROVE  IdentityInv'
  <1>1. /\ Free(Tool) /\ c \in Calls(Tool) /\ call[Tool][c].phase = "again" /\ Tool \in Process
        /\ LoggedInUnsaved(Tool, call[Tool][c].account) /\ Unsaved(Tool) /\ Becomes(Tool, c, Idle)
        /\ UNCHANGED <<codex, up, shared, polled, minted, orphaned>>
    BY TwoProcesses DEF AgainUnsaved, LoggedInUnsaved
  <1>2. call[Tool][c].account \in 1..minted /\ mem[Tool] # None
    BY <1>1 DEF IdentityInv, Typed, CallsOK, CallOK, Homes, Quiet
  <1>3. /\ Grows /\ PdsOK /\ minted' \in Nat /\ Len(token') \in Nat /\ SessionOK'
        /\ MemOK' /\ mem'[Tool] # None /\ \A q \in Process \ {Tool} : mem'[q] = mem[q]
    BY <1>1, <1>2, LoginUnsaves
  <1>4. \A q \in Process \ {Tool} : call'[q] = call[q] /\ shared'[q] = shared[q]
    BY <1>1 DEF IdentityInv, Typed, CallsOK, Becomes
  <1>5. /\ Works(Tool) /\ WritesFit(Tool) /\ Housed(Tool) /\ DiskOK' /\ BoundsOK' /\ PdsOK'
    BY <1>1, <1>2, <1>3, <1>4, UnsavedWorks
  <1>6. CallOK(Idle, minted', Len(token')) /\ CallFits(Tool, c, Idle)
    BY <1>1, <1>3, <1>5, Nobody, IdleFits
  <1>7. CallsOK' /\ ReauthOK'
    BY <1>1, <1>3, <1>6, CallSet, ReauthKept DEF IdentityInv, Typed
  <1>8. Typed'
    BY <1>3, <1>5, <1>7 DEF Typed
  <1>9. AllFit(Tool)
    BY <1>1, <1>5, <1>6, OneFits
  <1>10. Waits(Tool) /\ Minted'
    BY <1>1, <1>5, WaitsStill, MintedOne DEF Idle, Waiting, Joining
  <1> QED
    BY <1>1, <1>5, <1>8, <1>9, <1>10, WorksStep

(* Processes, the file and tokens that expire *)

\* What was loaded is an identity, unless there is no file.
LEMMA Loading ==
    ASSUME IdentityInv
    PROVE  /\ IdOK(Loaded, minted, Len(token))
           /\ Loaded = None <=> file = NoFile
  <1>1. FileOK(file, minted, Len(token)) /\ minted \in Nat /\ Len(token) \in Nat
    BY DEF IdentityInv, Typed, DiskOK, PdsOK
  <1>2. CASE file = NoFile
    BY <1>1, <1>2, Nobody DEF Loaded
  <1>3. CASE file # NoFile
    <2>1. file.account \in 1..minted /\ file.token \in 1..Len(token)
      BY <1>1, <1>3 DEF FileOK
    <2>2. IdOK(Id(file.account, file.token), minted, Len(token)) /\ Id(file.account, file.token) # None
      BY <1>1, <2>1, Saves
    <2> QED
      BY <1>3, <2>2 DEF Loaded
  <1> QED
    BY <1>2, <1>3

\* What does not concern a part of the session leaves it as it was.
LEMMA Untouched ==
    ASSUME IdentityInv, codex' = codex
    PROVE  /\ UNCHANGED <<shared, call>> => NotStranded'
           /\ UNCHANGED <<disk, call, rows>> => Cursors'
           /\ UNCHANGED <<call, token, trouble>> => Budget'
  <1>1. Listener' = Listener /\ \A p \in Process : Calls(p)' = Calls(p)
    BY DEF Calls, Listener
  <1>2. UNCHANGED <<shared, call>> => NotStranded'
    BY <1>1 DEF IdentityInv, NotStranded
  <1>3. UNCHANGED <<disk, call, rows>> => Cursors'
    BY <1>1 DEF IdentityInv, Cursors, disk
  <1>4. UNCHANGED <<call, token, trouble>> => Budget'
    BY <1>1 DEF IdentityInv, Budget, Usable
  <1> QED
    BY <1>2, <1>3, <1>4

\* A process starts with the identity on disk.
LEMMA StartStep ==
    ASSUME IdentityInv, NEW p \in Process, Start(p)
    PROVE  IdentityInv'
  <1>1. /\ p \notin up /\ (p = Host => codex) /\ up' = up \cup {p}
        /\ mem' = [mem EXCEPT ![p] = Loaded] /\ polled' = (polled /\ p # Host)
        /\ UNCHANGED <<codex, session, shared, call, disk, pds, bounds, orphaned>>
        /\ UNCHANGED <<todo, renaming, file, crossed, unsaved>>
    BY DEF Start, disk
  <1>2. Grows /\ PdsOK /\ minted' = minted /\ Len(token') = Len(token)
    BY <1>1, NothingIssued DEF IdentityInv, Typed, pds
  <1>3. MemOK' /\ mem'[p] = Loaded /\ \A q \in Process \ {p} : mem'[q] = mem[q]
    BY <1>1, <1>2, Loading, MemSet DEF IdentityInv, Typed
  <1>4. BoundsOK'
    <2>1. polled' \in BOOLEAN
      BY <1>1
    <2>2. BoundsOK /\ up' \subseteq Process
      BY <1>1 DEF IdentityInv, Typed, BoundsOK
    <2> QED
      BY <1>1, <2>1, <2>2 DEF BoundsOK, bounds
  <1>5. Typed'
    BY <1>1, <1>2, <1>3, <1>4, SessionKept, ReauthKept, CallsKept, DiskKept
       DEF IdentityInv, Typed, Grows
  <1>6. mem[p] = None /\ todo[p] = <<>> /\ renaming[p] = NoFile
    BY <1>1 DEF IdentityInv, Down, Typed, DiskOK
  <1>7. Down'
    BY <1>1, <1>3 DEF IdentityInv, Down
  <1>8. NotStranded' /\ Cursors' /\ Budget'
    BY <1>1, Untouched DEF pds, bounds
  <1>9. \A q \in Process : Calls(q)' = Calls(q)
    BY <1>1 DEF Calls, Listener
  <1>10. Homes'
    <2>1. Tool \in up' /\ mem'[Tool] = None => file = NoFile
      BY <1>1, <1>3, Loading, TwoProcesses DEF IdentityInv, Homes
    <2>2. mem'[Host] # None => file # NoFile
      BY <1>3, Loading, TwoProcesses DEF IdentityInv, Homes
    <2>3. \A q \in Process : todo[q] # <<>> => mem'[q] # None
      BY <1>3, <1>6 DEF IdentityInv, Homes
    <2>4. \A q \in Process : \A c \in Calls(q) :
            call[q][c].phase \notin Quiet \cup {"join", "minted"} => mem'[q] # None
      BY <1>3, <1>6 DEF IdentityInv, Homes
    <2>5. mem'[Tool] # None /\ file = NoFile /\ ~unsaved[Tool] =>
            /\ \E c \in Calls(Tool) : call[Tool][c].phase = "joined"
            /\ \E w \in WriteRecord : todo[Tool] = <<w>> /\ w.kind = "save"
      BY <1>3, Loading, TwoProcesses DEF IdentityInv, Homes
    <2>6. /\ \A c \in Calls(Host) : call[Host][c].phase \notin Joining
          /\ \A c \in Calls(Tool) : call[Tool][c].phase \in Joining => c \in ToolCall /\ Tool \in up'
      BY <1>1 DEF IdentityInv, Homes
    <2> QED
      BY <1>1, <1>9, TwoProcesses, <2>1, <2>2, <2>3, <2>4, <2>5, <2>6 DEF Homes
  <1>11. Minted'
    <2>1. mem[Tool] # None => mem'[Tool] # None
      BY <1>3, <1>6, TwoProcesses
    <2> QED
      BY <1>1, <1>2, <1>9, TwoProcesses, <2>1 DEF IdentityInv, Minted
  <1>12. OwnFile'
    <2> SUFFICES ASSUME ~codex PROVE OwnFile'
      BY <1>1 DEF OwnFile
    <2>1. p = Tool /\ Loaded' = Loaded
      BY <1>1, TwoProcesses DEF Loaded
    <2>2. \A w \in WriteRecord : <<w>> # <<>>
      OBVIOUS
    <2> QED
      BY <1>1, <1>3, <1>6, <2>1, <2>2, TwoProcesses DEF IdentityInv, OwnFile
  <1> QED
    BY <1>5, <1>7, <1>8, <1>10, <1>11, <1>12 DEF IdentityInv

\* A process is reaped, with all it has in memory.
LEMMA ReapStep ==
    ASSUME IdentityInv, NEW p \in Process, Reap(p)
    PROVE  IdentityInv'
  <1> DEFINE f == [c \in Calls(p) |-> Idle]
  <1>1. /\ p \in up /\ Trouble /\ up' = up \ {p}
        /\ mem' = [mem EXCEPT ![p] = None] /\ session' = [session EXCEPT ![p] = None]
        /\ shared' = [shared EXCEPT ![p] = NoReauth] /\ call' = [call EXCEPT ![p] = f]
        /\ todo' = [todo EXCEPT ![p] = <<>>] /\ renaming' = [renaming EXCEPT ![p] = NoFile]
        /\ unsaved' = [unsaved EXCEPT ![p] = FALSE]
        /\ orphaned' = \/ orphaned
                       \/ \E c \in Calls(p) : call[p][c].phase \in Joining
                       \/ unsaved[p] /\ file = NoFile
        /\ UNCHANGED <<codex, polled, file, crossed, pds, joins, rows>>
    BY DEF Reap
  <1>2. Grows /\ PdsOK /\ minted \in Nat /\ minted' = minted /\ Len(token) \in Nat
        /\ Len(token') = Len(token) /\ token' = token
    BY <1>1, NothingIssued DEF IdentityInv, Typed, PdsOK, pds
  <1>3. BoundsOK' /\ trouble \in Nat /\ trouble' \in Nat /\ trouble <= trouble' /\ rows' = rows
    <2>1. BoundsOK /\ polled' \in BOOLEAN /\ up' \subseteq Process
      BY <1>1 DEF IdentityInv, Typed, BoundsOK
    <2>2. orphaned' \in BOOLEAN
      BY <2>1 DEF Reap, BoundsOK
    <2> QED
      BY <1>1, <2>1, <2>2, BoundsTroubled DEF BoundsOK
  <1>4. /\ IdOK(None, minted', Len(token')) /\ SharedOK(NoReauth, minted')
        /\ CallOK(Idle, minted', Len(token')) /\ FileOK(NoFile, minted', Len(token'))
    BY <1>2, Nobody
  <1>5. MemOK' /\ mem'[p] = None /\ \A q \in Process \ {p} : mem'[q] = mem[q]
    BY <1>1, <1>2, <1>4, MemSet DEF IdentityInv, Typed
  <1>6. SessionOK'
    BY <1>1, <1>2, <1>4, SessionSet DEF IdentityInv, Typed
  <1>7. ReauthOK' /\ shared'[p] = NoReauth /\ \A q \in Process \ {p} : shared'[q] = shared[q]
    BY <1>1, <1>2, <1>4, ReauthSet DEF IdentityInv, Typed
  <1>8. CallsOK' /\ call'[p] = f /\ \A q \in Process \ {p} : call'[q] = call[q]
    <2>1. f = [c \in Calls(p) |-> f[c]] /\ \A c \in Calls(p) : f[c] = Idle
      OBVIOUS
    <2>2. \A c \in Calls(p) : CallOK(f[c], minted', Len(token'))
      BY <1>4, <2>1
    <2> HIDE DEF f
    <2> QED
      BY <1>1, <1>2, <2>1, <2>2, CallsSet DEF IdentityInv, Typed
  <1>9. /\ todo' = [q \in Process |-> todo'[q]] /\ todo'[p] = <<>> /\ renaming'[p] = NoFile
        /\ \A q \in Process \ {p} : todo'[q] = todo[q] /\ renaming'[q] = renaming[q]
        /\ renaming' \in [Process -> FileRecord]
        /\ unsaved' \in [Process -> BOOLEAN] /\ \A q \in Process \ {p} : unsaved'[q] = unsaved[q]
    BY <1>1, <1>4 DEF IdentityInv, Typed, DiskOK, FileOK
  <1>10. DiskOK'
    <2>1. \A q \in Process : TodoOK(todo'[q], minted', Len(token'))
      BY <1>2, <1>9 DEF IdentityInv, Typed, DiskOK, TodoOK, WriteOK
    <2>2. \A q \in Process : FileOK(renaming'[q], minted', Len(token'))
      BY <1>2, <1>4, <1>9 DEF IdentityInv, Typed, DiskOK, FileOK
    <2>3. \A q \in Process : renaming'[q] # NoFile => todo'[q] # <<>>
      BY <1>9 DEF IdentityInv, Typed, DiskOK
    <2> QED
      BY <1>1, <1>2, <1>9, <2>1, <2>2, <2>3 DEF IdentityInv, Typed, DiskOK, FileOK
  <1>11. Typed'
    BY <1>2, <1>3, <1>5, <1>6, <1>7, <1>8, <1>10 DEF Typed, Grows
  <1>12. Down'
    BY <1>1, <1>5, <1>9 DEF IdentityInv, Down
  <1>13. /\ Listener' = Listener /\ \A q \in Process : Calls(q)' = Calls(q)
         /\ \A c \in Calls(p) : call'[p][c] = Idle
    BY <1>1, <1>8 DEF Calls, Listener
  <1>14. NotStranded'
    <2>1. Idle.phase \notin Waiting /\ NoReauth.stage = "none"
      BY DEF Idle, Waiting, NoReauth
    <2> QED
      BY <1>7, <1>8, <1>13, <2>1 DEF IdentityInv, NotStranded
  <1>15. Idle.sent = 0 /\ Idle.since = 0 /\ Idle.phase = "idle" /\ NoFile.cursor = 0
    BY DEF Idle, NoFile
  <1>16. Cursors'
    <2>1. rows \in Nat /\ \A w \in WriteRecord : <<w>> # <<>>
      BY DEF IdentityInv, Typed, BoundsOK
    <2>2. \A q \in Process : renaming'[q].cursor <= rows
      BY <1>9, <1>15, <2>1 DEF IdentityInv, Cursors
    <2>3. \A q \in Process : \A c \in Calls(q) : call'[q][c].sent <= rows
      BY <1>8, <1>13, <1>15, <2>1 DEF IdentityInv, Cursors
    <2>4. \A q \in Process : renaming'[q] # NoFile /\ ~crossed[q] => file.cursor <= renaming'[q].cursor
      BY <1>9 DEF IdentityInv, Cursors
    <2>5. \A q \in Process : \A w \in WriteRecord : todo'[q] = <<w>> => q # p
      BY <1>9, <2>1
    <2>6. \A q \in Process : \A w \in WriteRecord : todo'[q] = <<w>> =>
            /\ w.kind = "commit" => q = Listener /\ w.cursor = rows
            /\ w.kind = "swap" => w.sent <= w.cursor /\ w.cursor <= rows
      BY <1>9, <2>5 DEF IdentityInv, Cursors
    <2>7. file' = file /\ crossed' = crossed /\ rows' = rows /\ file.cursor <= rows
      BY <1>1 DEF IdentityInv, Cursors
    <2> QED
      BY <1>13, <2>2, <2>3, <2>4, <2>6, <2>7 DEF Cursors
  <1>17. Budget'
    <2> SUFFICES ASSUME NEW q \in Process, NEW c \in Calls(q)
                 PROVE  /\ call'[q][c].phase # "threw" /\ call'[q][c].since <= trouble'
                        /\ call'[q][c].phase = "recall" /\ call'[q][c].since = trouble'
                             => Usable(call'[q][c].used)
      BY <1>2, <1>13 DEF Budget, Usable
    <2>1. CASE q = p
      BY <1>3, <1>13, <1>15, <2>1
    <2>2. CASE q # p
      <3>1. /\ call[q][c].phase # "threw" /\ call[q][c].since <= trouble
            /\ call[q][c].phase = "recall" /\ call[q][c].since = trouble => Usable(call[q][c].used)
            /\ call[q][c].since \in Nat
        BY DEF IdentityInv, Budget, Typed, CallsOK, CallRecord
      <3>2. call[q][c].since <= trouble' /\ (call[q][c].since = trouble' => trouble = trouble')
        BY <1>3, <3>1
      <3> QED
        BY <1>8, <2>2, <3>1, <3>2
    <2> QED
      BY <2>1, <2>2
  <1>18. Homes'
    <2>1. \A q \in Process : mem'[q] # None => q # p
      BY <1>5
    <2>2. Tool \in up' /\ mem'[Tool] = None => file = NoFile
      BY <1>1, <1>5, TwoProcesses DEF IdentityInv, Homes
    <2>3. mem'[Host] # None => file # NoFile
      BY <1>5, TwoProcesses DEF IdentityInv, Homes
    <2>4. \A q \in Process : todo'[q] # <<>> => mem'[q] # None
      BY <1>5, <1>9 DEF IdentityInv, Homes
    <2>5. \A q \in Process : \A c \in Calls(q) :
            call'[q][c].phase \notin Quiet \cup {"join", "minted"} => mem'[q] # None
      BY <1>5, <1>8, <1>13, <1>15 DEF IdentityInv, Homes, Quiet
    <2>6. mem'[Tool] # None /\ file = NoFile /\ ~unsaved'[Tool] =>
            /\ \E c \in Calls(Tool) : call'[Tool][c].phase = "joined"
            /\ \E w \in WriteRecord : todo'[Tool] = <<w>> /\ w.kind = "save"
      <3>1. CASE p = Tool
        BY <1>5, <3>1
      <3>2. CASE p # Tool
        <4>1. /\ mem'[Tool] = mem[Tool] /\ call'[Tool] = call[Tool] /\ todo'[Tool] = todo[Tool]
              /\ unsaved'[Tool] = unsaved[Tool]
          BY <1>5, <1>8, <1>9, <3>2, TwoProcesses
        <4> QED
          BY <4>1 DEF IdentityInv, Homes
      <3> QED
        BY <3>1, <3>2
    <2>7. \A c \in Calls(Host) : call'[Host][c].phase \notin Joining
      BY <1>8, <1>13, <1>15, TwoProcesses DEF IdentityInv, Homes, Joining
    <2>8. \A c \in Calls(Tool) :
            call'[Tool][c].phase \in Joining => c \in ToolCall /\ Tool \in up'
      <3>1. CASE p = Tool
        BY <1>13, <1>15, <3>1 DEF Joining
      <3>2. CASE p # Tool
        <4>1. call'[Tool] = call[Tool] /\ (Tool \in up => Tool \in up')
          BY <1>1, <1>8, <3>2, TwoProcesses
        <4> QED
          BY <4>1 DEF IdentityInv, Homes
      <3> QED
        BY <3>1, <3>2
    <2>9. /\ Calls(Tool)' = Calls(Tool) /\ Calls(Host)' = Calls(Host) /\ file' = file
          /\ \A q \in Process : Calls(q)' = Calls(q)
      BY <1>1, <1>13, TwoProcesses
    <2> QED
      BY <2>2, <2>3, <2>4, <2>5, <2>6, <2>7, <2>8, <2>9 DEF Homes
  <1>19. Minted'
    <2> SUFFICES ASSUME ~orphaned' PROVE Minted'
      BY DEF Minted
    <2>1. /\ ~orphaned /\ \A c \in Calls(p) : call[p][c].phase \notin Joining
          /\ ~(unsaved[p] /\ file = NoFile)
      BY <1>1
    <2>2. CASE p = Tool
      <3>1. \A c \in Calls(Tool) : call'[Tool][c].phase \notin Joining
        BY <1>13, <1>15, <2>2 DEF Joining
      <3>2. minted = 1 => file # NoFile
        BY <2>1, <2>2, TwoProcesses DEF IdentityInv, Minted, Homes, Joining
      <3> QED
        BY <1>1, <1>2, <1>13, <2>1, <3>1, <3>2, TwoProcesses DEF IdentityInv, Minted, Joining
    <2>3. CASE p # Tool
      BY <1>1, <1>2, <1>5, <1>8, <1>13, <2>1, <2>3, TwoProcesses DEF IdentityInv, Minted
    <2> QED
      BY <2>2, <2>3
  <1>20. OwnFile'
    <2> SUFFICES ASSUME ~codex PROVE OwnFile'
      BY <1>1 DEF OwnFile
    <2>1. p = Tool /\ Host \notin up' /\ Tool \notin up' /\ renaming'[Host] = NoFile
      BY <1>1, <1>9, TwoProcesses DEF IdentityInv, OwnFile
    <2>2. todo'[Tool] = <<>> /\ \A w \in WriteRecord : <<w>> # <<>>
      BY <1>9, <2>1
    <2> QED
      BY <1>1, <2>1, <2>2 DEF OwnFile
  <1> QED
    BY <1>11, <1>12, <1>14, <1>16, <1>17, <1>18, <1>19, <1>20 DEF IdentityInv

\* A process reads the file and merges what it has to write, or has nothing to write.
LEMMA ReadStep ==
    ASSUME IdentityInv, NEW p \in Process, Read(p)
    PROVE  IdentityInv'
  <1>1. /\ todo[p] # <<>> /\ renaming[p] = NoFile /\ crossed' = [crossed EXCEPT ![p] = FALSE]
        /\ UNCHANGED <<codex, up, mem, session, shared, call, polled, pds, bounds, unsaved, orphaned>>
        /\ file' = file
    BY DEF Read, Written, process
  <1>2. PICK w \in WriteRecord : WriteOK(w, minted, Len(token)) /\ todo[p] = <<w>>
    BY <1>1 DEF IdentityInv, Typed, DiskOK, TodoOK
  <1>3. Head(todo[p]) = w /\ Tail(todo[p]) = <<>>
    BY <1>2
  <1>4. \/ /\ Writes(w) /\ renaming' = [renaming EXCEPT ![p] = Merged(w)] /\ todo' = todo
        \/ /\ ~Writes(w) /\ todo' = [todo EXCEPT ![p] = <<>>] /\ renaming' = renaming
    BY <1>3 DEF Read
  <1>5. Grows /\ PdsOK /\ minted' = minted /\ Len(token') = Len(token) /\ minted \in Nat
        /\ Len(token) \in Nat
    BY <1>1, NothingIssued DEF IdentityInv, Typed, PdsOK, pds
  <1>6. BoundsOK'
    BY <1>1 DEF IdentityInv, Typed, BoundsOK, bounds
  <1>7. /\ MemOK' /\ SessionOK' /\ ReauthOK' /\ CallsOK'
    BY <1>1, <1>5, MemKept, SessionKept, ReauthKept, CallsKept DEF IdentityInv, Typed
  <1>8. /\ file \in FileRecord /\ file.cursor \in Nat /\ file.cursor <= rows /\ rows \in Nat
        /\ (file # NoFile => file.account \in 1..minted /\ file.token \in 1..Len(token))
    BY DEF IdentityInv, Typed, DiskOK, FileOK, FileRecord, Cursors, BoundsOK
  <1>9. w.cursor \in Nat /\ w.sent \in Nat /\ w.id \in IdRecord /\ w.kind \in {"save", "swap", "commit"}
    BY DEF WriteRecord
  <1>10. Writes(w) =>
           /\ Merged(w) \in FileRecord /\ Merged(w).cursor <= rows
           /\ file.cursor <= Merged(w).cursor
           /\ Merged(w).account \in 1..minted /\ Merged(w).token \in 1..Len(token)
           /\ w.kind = "save" => Merged(w).account = w.id.account /\ Merged(w).token = w.id.token
           /\ w.kind # "save" => Merged(w).account = file.account /\ Merged(w).token = file.token
    <2>1. CASE w.kind = "save"
      BY <1>2, <1>8, <1>9, <2>1 DEF Merged, FileRecord, WriteOK, IdRecord
    <2>2. CASE w.kind # "save"
      <3>1. Merged(w) = [file EXCEPT !.cursor = w.cursor]
        BY <2>2 DEF Merged
      <3>2. /\ Merged(w) \in FileRecord /\ Merged(w).cursor = w.cursor
            /\ Merged(w).account = file.account /\ Merged(w).token = file.token
        BY <1>8, <1>9, <3>1 DEF FileRecord
      <3>3. Writes(w) => file # NoFile /\ file.cursor <= w.cursor /\ w.cursor <= rows
        BY <1>2, <1>8, <1>9, <2>2 DEF Writes, IdentityInv, Cursors
      <3> QED
        BY <1>8, <2>2, <3>2, <3>3
    <2> QED
      BY <2>1, <2>2
  <1>11. /\ todo' = [q \in Process |-> todo'[q]] /\ renaming' \in [Process -> FileRecord]
         /\ crossed' \in [Process -> BOOLEAN] /\ crossed'[p] = FALSE
         /\ \A q \in Process \ {p} :
              todo'[q] = todo[q] /\ renaming'[q] = renaming[q] /\ crossed'[q] = crossed[q]
         /\ \/ Writes(w) /\ renaming'[p] = Merged(w) /\ todo'[p] = <<w>>
            \/ ~Writes(w) /\ renaming'[p] = NoFile /\ todo'[p] = <<>>
    <2>1. todo = [q \in Process |-> todo[q]] /\ renaming \in [Process -> FileRecord]
          /\ crossed \in [Process -> BOOLEAN]
      BY DEF IdentityInv, Typed, DiskOK
    <2>2. crossed' \in [Process -> BOOLEAN] /\ crossed'[p] = FALSE
          /\ \A q \in Process \ {p} : crossed'[q] = crossed[q]
      BY <1>1, <2>1
    <2>3. CASE Writes(w) /\ renaming' = [renaming EXCEPT ![p] = Merged(w)] /\ todo' = todo
      BY <1>2, <1>10, <2>1, <2>2, <2>3
    <2>4. CASE ~Writes(w) /\ todo' = [todo EXCEPT ![p] = <<>>] /\ renaming' = renaming
      BY <1>1, <2>1, <2>2, <2>4
    <2> QED
      BY <1>4, <2>3, <2>4
  <1>12. \A v \in WriteRecord : <<v>> # <<>> /\ (<<v>> = <<w>> => v = w)
    OBVIOUS
  <1>13. DiskOK'
    <2>1. \A q \in Process : TodoOK(todo'[q], minted', Len(token'))
      BY <1>2, <1>5, <1>11 DEF IdentityInv, Typed, DiskOK, TodoOK, WriteOK
    <2>2. \A q \in Process : FileOK(renaming'[q], minted', Len(token'))
      <3>1. FileOK(renaming'[p], minted', Len(token'))
        BY <1>5, <1>10, <1>11, Nobody DEF FileOK
      <3>2. \A q \in Process \ {p} : FileOK(renaming'[q], minted', Len(token'))
        BY <1>5, <1>11 DEF IdentityInv, Typed, DiskOK, FileOK
      <3> QED
        BY <3>1, <3>2
    <2>3. \A q \in Process : renaming'[q] # NoFile => todo'[q] # <<>>
      BY <1>11, <1>12 DEF IdentityInv, Typed, DiskOK
    <2>4. FileOK(file', minted', Len(token'))
      BY <1>1, <1>5 DEF IdentityInv, Typed, DiskOK, FileOK
    <2>5. unsaved' \in [Process -> BOOLEAN]
      BY <1>1 DEF IdentityInv, Typed, DiskOK
    <2> QED
      BY <1>11, <2>1, <2>2, <2>3, <2>4, <2>5 DEF DiskOK
  <1>14. Typed'
    BY <1>5, <1>6, <1>7, <1>13 DEF Typed, Grows
  <1>15. Down'
    BY <1>1, <1>11 DEF IdentityInv, Down
  <1>16. NotStranded' /\ Budget'
    BY <1>1, Untouched DEF pds, bounds
  <1>17. Listener' = Listener /\ \A q \in Process : Calls(q)' = Calls(q)
    BY <1>1 DEF Calls, Listener
  <1>18. Cursors'
    <2>1. \A q \in Process : renaming'[q].cursor <= rows
      BY <1>8, <1>10, <1>11 DEF IdentityInv, Cursors, NoFile
    <2>2. \A q \in Process : renaming'[q] # NoFile /\ ~crossed'[q] => file.cursor <= renaming'[q].cursor
      BY <1>10, <1>11 DEF IdentityInv, Cursors
    <2>3. \A q \in Process : \A v \in WriteRecord : todo'[q] = <<v>> => todo[q] = <<v>>
      BY <1>2, <1>11, <1>12
    <2>4. \A q \in Process : \A v \in WriteRecord : todo'[q] = <<v>> =>
            /\ v.kind = "commit" => q = Listener /\ v.cursor = rows
            /\ v.kind = "swap" => v.sent <= v.cursor /\ v.cursor <= rows
      BY <2>3 DEF IdentityInv, Cursors
    <2>5. /\ call' = call /\ file' = file /\ rows' = rows /\ file.cursor <= rows
          /\ \A q \in Process : \A c \in Calls(q) : call[q][c].sent <= rows
      BY <1>1 DEF bounds, IdentityInv, Cursors
    <2> QED
      BY <1>17, <2>1, <2>2, <2>4, <2>5 DEF Cursors
  <1>19. Homes'
    <2>1. \A q \in Process : todo'[q] # <<>> => todo[q] # <<>>
      BY <1>1, <1>11
    <2>2. mem[Tool] # None /\ file = NoFile /\ ~unsaved[Tool] =>
            \E v \in WriteRecord : todo'[Tool] = <<v>> /\ v.kind = "save"
      <3> SUFFICES ASSUME mem[Tool] # None, file = NoFile, ~unsaved[Tool]
                   PROVE  \E v \in WriteRecord : todo'[Tool] = <<v>> /\ v.kind = "save"
        OBVIOUS
      <3>1. PICK v \in WriteRecord : todo[Tool] = <<v>> /\ v.kind = "save"
        BY DEF IdentityInv, Homes
      <3>2. p = Tool => v = w /\ Writes(w)
        BY <1>2, <1>12, <3>1 DEF Writes
      <3> QED
        BY <1>11, <3>1, <3>2, TwoProcesses
    <2> QED
      BY <1>1, <1>17, <2>1, <2>2, TwoProcesses DEF IdentityInv, Homes
  <1>20. Minted'
    BY <1>1, <1>5, <1>17, TwoProcesses DEF IdentityInv, Minted
  <1>21. OwnFile'
    <2> SUFFICES ASSUME ~codex PROVE OwnFile'
      BY <1>1 DEF OwnFile
    <2>1. Loaded' = Loaded /\ Host \notin up /\ renaming[Host] = NoFile
      BY <1>1 DEF Loaded, IdentityInv, OwnFile
    <2>2. p = Tool
      <3>1. p = Host => p \notin up
        BY <2>1
      <3>2. p \in up
        BY <1>1 DEF IdentityInv, Down
      <3> QED
        BY <3>1, <3>2, TwoProcesses
    <2>3. /\ w.kind = "save" => w.id = mem[Tool]
          /\ w.kind # "save" /\ ~unsaved[Tool] => mem[Tool] = Loaded
      BY <1>2, <2>2 DEF IdentityInv, OwnFile
    <2>4. Writes(w) /\ (w.kind = "save" \/ ~unsaved[Tool]) => Id(Merged(w).account, Merged(w).token) = mem[Tool]
      <3>1. CASE w.kind = "save"
        <4>1. w.id = Id(w.id.account, w.id.token)
          BY <1>9 DEF IdRecord, Id
        <4> QED
          BY <1>10, <2>3, <3>1, <4>1
      <3>2. CASE w.kind # "save"
        BY <1>10, <2>3, <3>2 DEF Writes, Loaded
      <3> QED
        BY <3>1, <3>2
    <2>5. ~Writes(w) /\ ~unsaved[Tool] => mem[Tool] = Loaded
      BY <2>3 DEF Writes
    <2>6. \A v \in WriteRecord : todo'[Tool] = <<v>> =>
            v = w /\ Writes(w) /\ renaming'[Tool] = Merged(w)
      BY <1>11, <1>12, <2>2
    <2>7. todo'[Tool] = <<>> => ~Writes(w)
      BY <1>11, <1>12, <2>2
    <2> QED
      BY <1>1, <1>11, <2>1, <2>2, <2>3, <2>4, <2>5, <2>6, <2>7, TwoProcesses DEF OwnFile
  <1> QED
    BY <1>14, <1>15, <1>16, <1>18, <1>19, <1>20, <1>21 DEF IdentityInv

\* It renames what it merged over the file.
LEMMA RenameStep ==
    ASSUME IdentityInv, NEW p \in Process, Rename(p)
    PROVE  IdentityInv'
  <1>1. /\ renaming[p] # NoFile /\ file' = renaming[p]
        /\ renaming' = [renaming EXCEPT ![p] = NoFile] /\ todo' = [todo EXCEPT ![p] = Tail(@)]
        /\ crossed' = [q \in Process |-> q # p /\ renaming[q] # NoFile]
        /\ unsaved' = [unsaved EXCEPT ![p] = @ /\ Head(todo[p]).kind # "save"]
        /\ UNCHANGED <<codex, up, mem, session, shared, call, polled, pds, bounds, orphaned>>
    BY DEF Rename, process
  <1>2. PICK w \in WriteRecord : WriteOK(w, minted, Len(token)) /\ todo[p] = <<w>>
    BY <1>1 DEF IdentityInv, Typed, DiskOK, TodoOK
  <1>3. Tail(todo[p]) = <<>> /\ Head(todo[p]) = w /\ \A v \in WriteRecord : <<v>> # <<>>
    BY <1>2
  <1>4. Grows /\ PdsOK /\ minted' = minted /\ Len(token') = Len(token) /\ minted \in Nat
        /\ Len(token) \in Nat
    BY <1>1, NothingIssued DEF IdentityInv, Typed, PdsOK, pds
  <1>5. BoundsOK' /\ rows' = rows /\ rows \in Nat
    BY <1>1 DEF IdentityInv, Typed, BoundsOK, bounds
  <1>6. /\ MemOK' /\ SessionOK' /\ ReauthOK' /\ CallsOK'
    BY <1>1, <1>4, MemKept, SessionKept, ReauthKept, CallsKept DEF IdentityInv, Typed
  <1>7. /\ renaming[p] \in FileRecord /\ file' # NoFile
        /\ renaming[p].account \in 1..minted /\ renaming[p].token \in 1..Len(token)
    BY <1>1 DEF IdentityInv, Typed, DiskOK, FileOK
  <1>8. /\ todo' = [q \in Process |-> todo'[q]] /\ renaming' \in [Process -> FileRecord]
        /\ todo'[p] = <<>> /\ renaming'[p] = NoFile /\ crossed' \in [Process -> BOOLEAN]
        /\ \A q \in Process \ {p} : todo'[q] = todo[q] /\ renaming'[q] = renaming[q]
        /\ \A q \in Process : renaming'[q] # NoFile => q # p /\ crossed'[q]
        /\ unsaved' \in [Process -> BOOLEAN] /\ unsaved'[p] = (unsaved[p] /\ w.kind # "save")
    <2>1. NoFile \in FileRecord
      BY DEF NoFile, FileRecord
    <2>2. todo = [q \in Process |-> todo[q]] /\ renaming \in [Process -> FileRecord]
      BY DEF IdentityInv, Typed, DiskOK
    <2>3. unsaved' \in [Process -> BOOLEAN] /\ unsaved'[p] = (unsaved[p] /\ w.kind # "save")
      BY <1>1, <1>3 DEF IdentityInv, Typed, DiskOK
    <2> QED
      BY <1>1, <1>3, <2>1, <2>2, <2>3
  <1>9. DiskOK'
    <2>1. \A q \in Process : TodoOK(todo'[q], minted', Len(token'))
      BY <1>4, <1>8 DEF IdentityInv, Typed, DiskOK, TodoOK, WriteOK
    <2>2. \A q \in Process : FileOK(renaming'[q], minted', Len(token'))
      BY <1>4, <1>8, Nobody DEF IdentityInv, Typed, DiskOK, FileOK
    <2>3. \A q \in Process : renaming'[q] # NoFile => todo'[q] # <<>>
      BY <1>8 DEF IdentityInv, Typed, DiskOK
    <2>4. FileOK(file', minted', Len(token'))
      BY <1>1, <1>4, <1>7 DEF FileOK
    <2> QED
      BY <1>8, <2>1, <2>2, <2>3, <2>4 DEF DiskOK
  <1>10. Typed'
    BY <1>4, <1>5, <1>6, <1>9 DEF Typed, Grows
  <1>11. Down'
    BY <1>1, <1>8 DEF IdentityInv, Down
  <1>12. NotStranded' /\ Budget'
    BY <1>1, Untouched DEF pds, bounds
  <1>13. Listener' = Listener /\ \A q \in Process : Calls(q)' = Calls(q)
    BY <1>1 DEF Calls, Listener
  <1>14. \A q \in Process : \A v \in WriteRecord : todo'[q] = <<v>> => q # p /\ todo[q] = <<v>>
    BY <1>3, <1>8
  <1>15. Cursors'
    <2>1. \A q \in Process : renaming'[q].cursor <= rows /\ renaming[p].cursor <= rows
      BY <1>5, <1>8 DEF IdentityInv, Cursors, NoFile
    <2>2. \A q \in Process : ~(renaming'[q] # NoFile /\ ~crossed'[q])
      BY <1>8
    <2>3. \A q \in Process : \A v \in WriteRecord : todo'[q] = <<v>> =>
            /\ v.kind = "commit" => q = Listener /\ v.cursor = rows
            /\ v.kind = "swap" => v.sent <= v.cursor /\ v.cursor <= rows
      BY <1>14 DEF IdentityInv, Cursors
    <2>4. \A q \in Process : \A c \in Calls(q) : call'[q][c].sent <= rows
      BY <1>1 DEF IdentityInv, Cursors
    <2> QED
      BY <1>1, <1>5, <1>13, <2>1, <2>2, <2>3, <2>4 DEF Cursors
  <1>16. mem[p] # None
    BY <1>2, <1>3 DEF IdentityInv, Homes
  <1>17. Homes'
    <2>1. Tool \in up /\ mem[Tool] = None => file' = NoFile
      <3> SUFFICES ASSUME Tool \in up, mem[Tool] = None PROVE FALSE
        OBVIOUS
      <3>1. p = Host /\ file = NoFile
        BY <1>16, TwoProcesses DEF IdentityInv, Homes
      <3> QED
        BY <1>16, <3>1 DEF IdentityInv, Homes
    <2>2. \A q \in Process : todo'[q] # <<>> => mem[q] # None
      BY <1>8 DEF IdentityInv, Homes
    <2> QED
      BY <1>1, <1>7, <1>13, <2>1, <2>2, TwoProcesses DEF IdentityInv, Homes
  <1>18. Minted'
    BY <1>1, <1>4, <1>7, <1>13, TwoProcesses DEF IdentityInv, Minted
  <1>19. OwnFile'
    <2> SUFFICES ASSUME ~codex PROVE OwnFile'
      BY <1>1 DEF OwnFile
    <2>1. p = Tool /\ Host \notin up /\ renaming'[Host] = NoFile
      BY <1>1, <1>8, TwoProcesses DEF IdentityInv, OwnFile
    <2>2. ~unsaved'[Tool] => Id(renaming[Tool].account, renaming[Tool].token) = mem[Tool]
      BY <1>1, <1>2, <1>8, <2>1 DEF IdentityInv, OwnFile
    <2>3. ~unsaved'[Tool] => Loaded' = mem[Tool]
      BY <1>1, <1>7, <2>1, <2>2 DEF Loaded
    <2>4. todo'[Tool] = <<>> /\ \A v \in WriteRecord : todo'[Tool] # <<v>>
      BY <1>3, <1>8, <2>1
    <2>5. mem' = mem /\ up' = up
      BY <1>1
    <2> QED
      BY <2>1, <2>3, <2>4, <2>5 DEF OwnFile
  <1> QED
    BY <1>10, <1>11, <1>12, <1>15, <1>17, <1>18, <1>19 DEF IdentityInv

\* A token expires, which is trouble for whoever uses it.
LEMMA ExpireStep ==
    ASSUME IdentityInv, NEW t \in 1..Len(token), NEW state \in {"stale", "dead"}, Expire(t, state)
    PROVE  IdentityInv'
  <1>1. /\ expired < MaxExpire /\ expired' = expired + 1 /\ trouble' = trouble + 1
        /\ token' = [token EXCEPT ![t] = state]
        /\ UNCHANGED <<codex, up, mem, session, shared, call, polled, disk, minted, joins, rows, orphaned>>
        /\ UNCHANGED <<todo, renaming, file, crossed, unsaved>>
    BY DEF Expire, process, disk
  <1>2. Grows /\ PdsOK /\ PdsOK' /\ Len(token') = Len(token) /\ minted' = minted
    BY <1>1 DEF IdentityInv, Typed, PdsOK, Grows, TokenState
  <1>3. BoundsOK' /\ trouble \in Nat /\ trouble' \in Nat /\ trouble < trouble'
    <2>1. /\ BoundsOK /\ trouble \in Nat /\ expired \in 0..MaxExpire
          /\ trouble - expired \in 0..MaxTrouble
      BY DEF IdentityInv, Typed, BoundsOK
    <2>2. /\ trouble + 1 \in Nat /\ expired + 1 \in 0..MaxExpire /\ trouble < trouble + 1
          /\ (trouble + 1) - (expired + 1) \in 0..MaxTrouble
      BY <1>1, <2>1, IdentityAssumption
    <2>3. trouble' \in Nat /\ expired' \in 0..MaxExpire /\ trouble' - expired' \in 0..MaxTrouble
          /\ trouble < trouble'
      BY <1>1, <2>2
    <2> QED
      BY <1>1, <2>1, <2>3 DEF BoundsOK
  <1>4. Typed'
    BY <1>1, <1>2, <1>3, MemKept, SessionKept, ReauthKept, CallsKept, DiskKept
       DEF IdentityInv, Typed
  <1>5. Down'
    BY <1>1 DEF IdentityInv, Down
  <1>6. NotStranded' /\ Cursors'
    BY <1>1, Untouched
  <1>7. Listener' = Listener /\ \A q \in Process : Calls(q)' = Calls(q)
    BY <1>1 DEF Calls, Listener
  <1>8. Budget'
    <2> SUFFICES ASSUME NEW q \in Process, NEW c \in Calls(q)
                 PROVE  /\ call[q][c].phase # "threw" /\ call[q][c].since <= trouble'
                        /\ call[q][c].since # trouble'
      BY <1>1, <1>7 DEF Budget
    <2>1. /\ call[q][c].phase # "threw" /\ call[q][c].since <= trouble /\ call[q][c].since \in Nat
      BY DEF IdentityInv, Budget, Typed, CallsOK, CallRecord
    <2> QED
      BY <1>3, <2>1
  <1>9. Homes'
    BY <1>1, <1>7, TwoProcesses DEF IdentityInv, Homes
  <1>10. Minted'
    BY <1>1, <1>7, TwoProcesses DEF IdentityInv, Minted
  <1>11. OwnFile'
    BY <1>1 DEF IdentityInv, OwnFile, Loaded
  <1> QED
    BY <1>4, <1>5, <1>6, <1>8, <1>9, <1>10, <1>11 DEF IdentityInv

-----------------------------------------------------------------------------
(* The theorems *)

\* A session that has not started.
LEMMA IdentityInit == Init => IdentityInv
  <1> SUFFICES ASSUME Init PROVE IdentityInv
    OBVIOUS
  <1>1. /\ \A m, t \in Nat : IdOK(None, m, t) /\ SharedOK(NoReauth, m) /\ CallOK(Idle, m, t)
        /\ \A m, t \in Nat : FileOK(NoFile, m, t)
    BY Nobody
  <1>2. /\ minted = 0 /\ token = <<>> /\ Len(token) = 0 /\ 0 \in Nat
        /\ token \in Seq(TokenState)
    BY DEF Init
  <1>3. PdsOK
    BY <1>2 DEF PdsOK
  <1>4. None \in IdRecord /\ NoFile \in FileRecord /\ Idle \in CallRecord
        /\ NoReauth \in [stage : {"none", "resume", "login"}, account : Nat]
    BY <1>1 DEF IdOK, FileOK, CallOK, SharedOK
  <1>5. MemOK /\ SessionOK /\ ReauthOK
    BY <1>1, <1>2, <1>4 DEF Init, MemOK, SessionOK, ReauthOK
  <1>6. \A p \in Process : \A c \in Calls(p) : call[p][c] = Idle
    BY DEF Init
  <1>7. CallsOK
    <2>1. \A p \in Process : call[p] = [c \in Calls(p) |-> Idle]
      BY DEF Init
    <2>2. \A p \in Process : call[p] \in [Calls(p) -> CallRecord]
      BY <1>4, <2>1
    <2>3. \A p \in Process : \A c \in Calls(p) : CallOK(call[p][c], minted, Len(token))
      BY <1>1, <1>2, <1>6
    <2>4. call = [p \in Process |-> call[p]]
      BY DEF Init
    <2> QED
      BY <2>2, <2>3, <2>4 DEF CallsOK
  <1>8. DiskOK
    <2>1. \A p \in Process : TodoOK(todo[p], minted, Len(token))
      BY DEF Init, TodoOK
    <2> QED
      BY <1>1, <1>2, <1>4, <2>1 DEF Init, DiskOK
  <1>9. BoundsOK
    <2>1. codex \in BOOLEAN /\ up \subseteq Process /\ polled \in BOOLEAN /\ orphaned \in BOOLEAN
      BY DEF Init
    <2>2. joins = 0 /\ rows = 1 /\ expired = 0 /\ trouble = 0
      BY DEF Init
    <2>3. /\ joins \in 0..MaxJoin /\ rows \in 1..MaxRow /\ expired \in 0..MaxExpire
          /\ trouble \in Nat /\ trouble - expired \in 0..MaxTrouble
      BY <2>2, IdentityAssumption
    <2> QED
      BY <2>1, <2>3 DEF BoundsOK
  <1>10. Typed
    BY <1>3, <1>5, <1>7, <1>8, <1>9 DEF Typed
  <1>11. Down
    BY DEF Init, Down
  <1>12. /\ Idle.phase = "idle" /\ Idle.since = 0 /\ Idle.sent = 0 /\ NoReauth.stage = "none"
         /\ NoFile.cursor = 0
    BY DEF Idle, NoReauth, NoFile
  <1>13. NotStranded
    BY <1>6, <1>12 DEF Init, NotStranded, Waiting
  <1>14. \A w \in WriteRecord : <<w>> # <<>>
    OBVIOUS
  <1>15. Cursors
    BY <1>6, <1>12, <1>14 DEF Init, Cursors
  <1>16. Budget
    BY <1>6, <1>12 DEF Init, Budget
  <1>17. Homes
    BY <1>6, <1>12, <1>14, TwoProcesses DEF Init, Homes, Quiet, Joining
  <1>18. Minted
    BY <1>6, <1>12, <1>2, TwoProcesses DEF Minted, Joining
  <1>19. OwnFile
    BY <1>14, TwoProcesses DEF Init, OwnFile
  <1> QED
    BY <1>10, <1>11, <1>13, <1>15, <1>16, <1>17, <1>18, <1>19 DEF IdentityInv

\* What does nothing.
LEMMA StutterStep == IdentityInv /\ UNCHANGED vars => IdentityInv'
  <1> SUFFICES ASSUME IdentityInv, UNCHANGED vars PROVE IdentityInv'
    OBVIOUS
  <1>1. UNCHANGED <<codex, up, mem, session, shared, call, polled, todo, renaming, file, crossed,
                    unsaved, minted, token, joins, rows, expired, trouble, orphaned>>
    BY DEF vars, process, disk, pds, bounds
  <1>2. UNCHANGED <<disk, pds>>
    BY <1>1 DEF disk, pds
  <1>3. Grows /\ PdsOK
    BY <1>1, <1>2, NothingIssued DEF IdentityInv, Typed
  <1>4. Typed'
    BY <1>1, <1>2, <1>3, MemKept, SessionKept, ReauthKept, CallsKept, DiskKept
       DEF IdentityInv, Typed, BoundsOK, Grows
  <1>5. NotStranded' /\ Cursors' /\ Budget' /\ Down'
    BY <1>1, <1>2, Untouched DEF IdentityInv, Down
  <1>6. \A q \in Process : Calls(q)' = Calls(q)
    BY <1>1 DEF Calls, Listener
  <1>7. Homes' /\ Minted' /\ OwnFile'
    BY <1>1, <1>6, TwoProcesses DEF IdentityInv, Homes, Minted, OwnFile, Loaded
  <1> QED
    BY <1>4, <1>5, <1>7 DEF IdentityInv

\* Every step keeps the session in order.
LEMMA IdentityStep == IdentityInv /\ [Next]_vars => IdentityInv'
  <1> SUFFICES ASSUME IdentityInv, Next PROVE IdentityInv'
    BY StutterStep
  <1>1. ASSUME NEW p \in Process,
               \/ Start(p) \/ Reap(p) \/ Read(p) \/ Rename(p)
               \/ ResumeDone(p) \/ ResumeUnsaved(p) \/ ResumeFails(p)
               \/ LoginDone(p) \/ LoginUnsaved(p) \/ LoginFails(p)
        PROVE  IdentityInv'
    BY <1>1, StartStep, ReapStep, ReadStep, RenameStep, ResumeDoneStep, ResumeUnsavedStep,
       ResumeFailsStep, LoginDoneStep, LoginUnsavedStep, LoginFailsStep
  <1>2. ASSUME NEW p \in Process, NEW c \in Calls(p),
               Call(p, c) \/ CallDone(p, c) \/ RepeatedUnsaved(p, c) \/ CallLost(p, c)
        PROVE  IdentityInv'
    BY <1>2, CallStep, CallDoneStep, RepeatedUnsavedStep, CallLostStep
  <1>3. ASSUME NEW c \in ToolCall,
               \/ Join(c) \/ JoinStep(c) \/ JoinUnsaved(c) \/ JoinFails(c)
               \/ AgainUnsaved(c) \/ AgainFails(c)
        PROVE  IdentityInv'
    BY <1>3, JoinStarts, MintStep, JoinDoneStep, JoinUnsavedStep, JoinedStep, AgainDoneStep,
       AgainUnsavedStep, JoinFailsStep, AgainFailsStep DEF JoinStep
  <1> QED
    BY <1>1, <1>2, <1>3, PollStep, DeliverStep, ExpireStep DEF Next

\* A session's file, its processes, their calls and the tokens of the PDS keep to each
\* other, whatever is reaped, lost, expired or overwritten.
THEOREM IdentityInvariant == Spec => []IdentityInv
  BY IdentityInit, IdentityStep, PTL DEF Spec

\* Identities name what the PDS issued, and a process that is down holds nothing.
THEOREM IdentityTypeCorrect == Spec => []TypeOK
  <1>1. IdentityInv => TypeOK
    <2> SUFFICES ASSUME IdentityInv PROVE TypeOK
      OBVIOUS
    <2>1. \A p \in Process :
            /\ Known(mem[p]) /\ Known(session[p])
            /\ shared[p].stage \in {"none", "resume", "login"} /\ shared[p].account \in 0..minted
      BY DEF IdentityInv, Typed, MemOK, SessionOK, ReauthOK, SharedOK, IdOK, Known
    <2>2. \A p \in Process : \A c \in Calls(p) : call[p][c].phase \in Phase
      BY DEF IdentityInv, Typed, CallsOK, CallRecord
    <2>3. \A p \in Process :
            /\ renaming[p] # NoFile => todo[p] # <<>>
            /\ p \notin up => mem[p] = None /\ todo[p] = <<>>
      BY DEF IdentityInv, Typed, DiskOK, Down
    <2>4. file = NoFile \/ (Known(Id(file.account, file.token)) /\ file.cursor \in 0..rows)
      BY DEF IdentityInv, Typed, DiskOK, FileOK, FileRecord, Cursors, BoundsOK, Known, Id
    <2>5. token \in Seq({"live", "stale", "spent", "dead"})
      BY DEF IdentityInv, Typed, PdsOK, TokenState
    <2>6. /\ codex \in BOOLEAN /\ up \subseteq Process /\ polled \in BOOLEAN
      BY DEF IdentityInv, Typed, BoundsOK
    <2>7. /\ rows \in 1..MaxRow /\ joins \in 0..MaxJoin
          /\ expired \in 0..MaxExpire /\ trouble - expired \in 0..MaxTrouble
      BY DEF IdentityInv, Typed, BoundsOK
    <2> QED
      BY <2>1, <2>2, <2>3, <2>4, <2>5, <2>6, <2>7 DEF TypeOK
  <1> QED
    BY <1>1, IdentityInvariant, PTL

\* Each session gets one handle for its lifetime: no second account is created, short
\* of joins that overlap and an account that nobody lived to save.
THEOREM SessionHasOneHandle == Spec => []OneHandle
  <1>1. IdentityInv => OneHandle
    BY DEF IdentityInv, Minted, OneHandle
  <1> QED
    BY <1>1, IdentityInvariant, PTL

\* In a Claude session the file has what is in memory whenever something else can run,
\* unless the last save threw.
THEOREM SessionLosesNoToken == Spec => []MemoryOnDisk
  <1>1. IdentityInv => MemoryOnDisk
    BY DEF IdentityInv, OwnFile, MemoryOnDisk, Free
  <1> QED
    BY <1>1, IdentityInvariant, PTL

\* One retry is enough: a call fails only if something went wrong after it began.
THEOREM RetryIsEnough == Spec => []Unprovoked
  <1>1. IdentityInv => Unprovoked
    BY DEF IdentityInv, Budget, Unprovoked
  <1> QED
    BY <1>1, IdentityInvariant, PTL

\* A shared re-authentication runs as long as, and no longer than, somebody waits for it.
THEOREM NobodyIsStranded == Spec => []NotStranded
  <1>1. IdentityInv => NotStranded
    BY DEF IdentityInv
  <1> QED
    BY <1>1, IdentityInvariant, PTL

\* The cursor on disk goes back only where a process renames over what the other one
\* renamed since it read.
THEOREM CursorGoesOn == Spec => CursorKept
  <1> DEFINE Keeps == file'.cursor < file.cursor => \E p \in Process : Rename(p) /\ crossed[p]
  <1>1. IdentityInv /\ [Next]_vars => [Keeps]_vars
    <2> SUFFICES ASSUME IdentityInv, Next, file'.cursor < file.cursor
                 PROVE  \E p \in Process : Rename(p) /\ crossed[p]
      OBVIOUS
    <2>1. file.cursor \in Nat /\ ~(file.cursor < file.cursor)
      BY DEF IdentityInv, Typed, DiskOK, FileOK, FileRecord
    <2>2. file' # file
      BY <2>1
    <2>3. PICK p \in Process : Rename(p)
      <3>1. ASSUME NEW p \in Process, NEW c \in Calls(p),
                   Call(p, c) \/ CallDone(p, c) \/ RepeatedUnsaved(p, c) \/ CallLost(p, c)
            PROVE  file' = file
        <4>1. ASSUME CallDone(p, c) PROVE file' = file
          BY <4>1 DEF CallDone, Answered, Repeated, Denied, Refreshed, Write, disk
        <4> QED
          BY <3>1, <4>1 DEF Call, CallLost, RepeatedUnsaved, Unsaved, disk
      <3>2. ASSUME NEW p \in Process,
                   \/ Start(p) \/ Reap(p) \/ Read(p)
                   \/ ResumeDone(p) \/ ResumeUnsaved(p) \/ ResumeFails(p)
                   \/ LoginDone(p) \/ LoginUnsaved(p) \/ LoginFails(p)
            PROVE  file' = file
        <4>1. ASSUME Start(p) \/ Reap(p) \/ Read(p) PROVE file' = file
          BY <4>1 DEF Start, Reap, Read, Written, disk
        <4>2. ASSUME ResumeDone(p) \/ LoginDone(p) PROVE file' = file
          BY <4>2 DEF ResumeDone, LoginDone, Refreshed, LoggedIn, Write
        <4>3. ASSUME ResumeFails(p) \/ LoginFails(p) PROVE file' = file
          BY <4>3 DEF ResumeFails, LoginFails, disk
        <4>4. ASSUME ResumeUnsaved(p) \/ LoginUnsaved(p) PROVE file' = file
          BY <4>4 DEF ResumeUnsaved, LoginUnsaved, LoggedInUnsaved, Unsaved
        <4> QED
          BY <3>2, <4>1, <4>2, <4>3, <4>4
      <3>3. ASSUME NEW c \in ToolCall,
                   \/ Join(c) \/ JoinStep(c) \/ JoinUnsaved(c) \/ JoinFails(c)
                   \/ AgainUnsaved(c) \/ AgainFails(c)
            PROVE  file' = file
        <4>1. ASSUME JoinUnsaved(c) \/ AgainUnsaved(c) PROVE file' = file
          BY <4>1 DEF JoinUnsaved, AgainUnsaved, LoggedInUnsaved, Unsaved
        <4>2. ASSUME Join(c) \/ JoinStep(c) \/ JoinFails(c) \/ AgainFails(c)
              PROVE  file' = file
          BY <4>2 DEF Join, JoinStep, Mint, JoinDone, Joined, AgainDone, JoinFails, AgainFails,
                      LoggedIn, Write, disk
        <4> QED
          BY <3>3, <4>1, <4>2
      <3>4. Poll \/ Deliver => file' = file
        BY DEF Poll, Deliver, Write
      <3>5. ASSUME NEW t \in 1..Len(token), NEW state \in {"stale", "dead"}, Expire(t, state)
            PROVE  file' = file
        BY <3>5 DEF Expire, disk
      <3> QED
        BY <2>2, <3>1, <3>2, <3>3, <3>4, <3>5 DEF Next
    <2>4. crossed[p]
      BY <2>1, <2>3 DEF IdentityInv, Cursors, Rename, Typed, DiskOK, FileRecord
    <2> QED
      BY <2>3, <2>4
  <1> QED
    BY <1>1, IdentityInvariant, PTL DEF Spec, CursorKept
=============================================================================
