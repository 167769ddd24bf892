---------------------------- MODULE PushDelivery ----------------------------
(***************************************************************************)
(* Push delivery of notifications to one recipient: the AppView's registry *)
(* (appview/src/pushRegistry.ts), the listener and the channel sink of the *)
(* session's MCP process (mcp/src/push.ts) and the cursor that process     *)
(* keeps on disk (mcp/src/storage.ts).                                     *)
(*                                                                         *)
(* One recipient is enough: the registry, the delivery runner and the      *)
(* identity file are all keyed by the recipient's DID and share no state   *)
(* between DIDs.  A notification row is its seq, and the URI of its record *)
(* is the seq of the first row that record had: a record that is deleted   *)
(* and created again gets a new row under the same URI, and live tasks and *)
(* channelSink know a row by its URI.  A listener URL is the number of the *)
(* MCP process that bound it, for each process binds a port of its own.    *)
(*                                                                         *)
(* A step is what one JavaScript task runs before it next waits for I/O.   *)
(* The runner starts the next queued task in the microtask after the       *)
(* previous one ends, before the event loop takes another request, which   *)
(* is what Settled says.  The firehose's events are handled in microtasks  *)
(* too, and unless Prompt says otherwise may come in between.              *)
(***************************************************************************)
EXTENDS Integers, Sequences, FiniteSets

CONSTANTS
    MaxSeq,         \* bound: rows inserted for the recipient
    MaxProc,        \* bound: MCP processes, one after the other
    MaxQueue,       \* bound: tasks queued for the recipient
    MaxRequests,    \* bound: registration requests in transit
    MaxFaults,      \* bound: timeouts, lost calls, failed calls, AppView restarts
    HydrationFails, \* may the identity lookup of a replay throw?
    Inactivity,     \* may authors become inactive, and active again?
    Prompt          \* does the next task start before the firehose's next event?

ASSUME PushAssumption ==
    /\ MaxSeq \in Nat /\ MaxQueue \in Nat /\ MaxRequests \in Nat /\ MaxFaults \in Nat
    /\ MaxProc \in Nat \ {0}
    /\ HydrationFails \in BOOLEAN
    /\ Inactivity \in BOOLEAN /\ Prompt \in BOOLEAN

VARIABLES
    log,         \* notifications.seq runs over 1..log
    uri,         \* the record of each row: the first row it had
    deleted,     \* rows that were deleted
    hidden,      \* rows the queries leave out: deleted, or of an inactive author
    everHidden,  \* history: rows that were hidden at some time
    registry,    \* registry.get(did)?.url
    queue,       \* the recipient's partition of deliveryRunner; the head runs
    phase,       \* where the head task is
    todo,        \* rows the head task read and has not delivered yet
    answer,      \* what the listener answered to the POST in flight
    requests,    \* registerPushTarget calls not yet handled
    registering, \* registerInFlight is set
    sent,        \* the checkpoint that call sent, while one is under way
    reply,       \* its response is on the way back
    proc,        \* the MCP process, and so the URL of its listener
    seen,        \* channelSink's seen, a set of URIs
    emitting,    \* rows handed to mcp.notification, in order, not yet written
    cursor,      \* lastSeenNotificationCursor on disk
    emitted,     \* history: rows whose mcp.notification resolved
    repeated,    \* history: rows acknowledged without being handed over
    overtaken,   \* history: rows passed by a live task that found its record re-created
    start,       \* history: the cursor the running process began with
    faults       \* faults so far

table   == <<log, uri, deleted, hidden, everHidden>>
appview == <<registry, queue, phase, todo, answer>>
call    == <<requests, registering, sent, reply>>
sink    == <<seen, emitting, cursor, emitted, repeated, overtaken>>
process == <<proc, start>>
vars    == <<table, appview, call, sink, process, faults>>

NoUrl    == 0
NoCursor == -1

Row      == 1..MaxSeq
Position == {NoCursor} \cup 0..MaxSeq
Task     == [kind : {"replay", "live"}, url : 1..MaxProc, arg : 0..MaxSeq,
             awaited : BOOLEAN]
Request  == [url : 1..MaxProc, checkpoint : Position, awaited : BOOLEAN]

Live(url, n) == [kind |-> "live", url |-> url, arg |-> n, awaited |-> FALSE]

\* Every task, request and answer names rows and listeners that exist.
TypeOK ==
    /\ log \in 0..MaxSeq
    /\ uri \in [Row -> Row]
    /\ deleted \subseteq Row /\ hidden \subseteq Row /\ everHidden \subseteq Row
    /\ registry \in 0..MaxProc
    /\ queue \in Seq(Task)
    /\ phase \in {"idle", "hydrating", "posting"}
    /\ todo \subseteq Row
    /\ answer \in {"none", "pending", "ok", "error"}
    /\ requests \subseteq Request
    /\ registering \in BOOLEAN /\ reply \in BOOLEAN
    /\ sent \in Position
    /\ proc \in 1..MaxProc
    /\ seen \subseteq Row /\ emitting \in Seq(Row)
    /\ cursor \in Position /\ start \in Position
    /\ emitted \subseteq Row /\ repeated \subseteq Row /\ overtaken \subseteq Row
    /\ faults \in 0..MaxFaults

Init ==
    /\ log = 0 /\ uri = [n \in Row |-> n]
    /\ deleted = {} /\ hidden = {} /\ everHidden = {}
    /\ registry = NoUrl /\ queue = <<>>
    /\ phase = "idle" /\ todo = {} /\ answer = "none"
    /\ requests = {} /\ registering = FALSE /\ sent = NoCursor /\ reply = FALSE
    /\ proc = 1 /\ seen = {} /\ emitting = <<>>
    /\ cursor = NoCursor /\ start = NoCursor
    /\ emitted = {} /\ repeated = {} /\ overtaken = {}
    /\ faults = 0

Fault == faults < MaxFaults /\ faults' = faults + 1

-----------------------------------------------------------------------------
(* Shared pieces of the handlers.  The definitions named ...Bug are the    *)
(* faulty variants that show what each property is sensitive to.           *)

\* The runner has no task waiting to be started.
Settled == phase # "idle" \/ queue = <<>>

FirehoseRuns == Prompt => Settled

\* The seq a registration replays from: 0 when there is no cursor yet.
After(checkpoint) == IF checkpoint = NoCursor THEN 0 ELSE checkpoint

\* The rows a task reads when it starts, the queries' active filter applied: a
\* live task looks for the row its record has now, whatever row it was queued for.
RowsOfBug(t) ==
    {n \in 1..log \ hidden :
        IF t.kind = "replay" THEN n > t.arg + 1 ELSE uri[n] = uri[t.arg]}

RowsOf(t) ==
    {n \in 1..log \ hidden :
        IF t.kind = "replay" THEN n > t.arg ELSE uri[n] = uri[t.arg]}

\* A failed POST removes the registration if it is still the one POSTed to.
DropRegistrationBug(url) == registry' = registry

DropRegistration(url) ==
    registry' = IF registry = url THEN NoUrl ELSE registry

\* compareAndSwapNotificationCursor
SwappedCursorBug(expected, value) == value

SwappedCursor(expected, value) == IF cursor = expected THEN value ELSE cursor

\* Nobody waits any longer for the answer to a registration.
Forget(s) == [i \in DOMAIN s |-> [s[i] EXCEPT !.awaited = FALSE]]

Abandon ==
    /\ registering' = FALSE /\ sent' = NoCursor /\ reply' = FALSE
    /\ requests' = {[r EXCEPT !.awaited = FALSE] : r \in requests}
    /\ queue' = Forget(queue)

\* The head task returns: the registration call it belongs to is answered.
EndTask ==
    /\ queue' = Tail(queue)
    /\ phase' = "idle" /\ todo' = {} /\ answer' = "none"
    /\ reply' = (reply \/ Head(queue).awaited)

\* Rows are delivered in seq order.
IsNextBug(n) == n \in todo /\ \A m \in todo : n >= m

IsNext(n) == n \in todo /\ \A m \in todo : n <= m

\* A live task ends at once if its registration was replaced while it waited.
Superseded == Head(queue).kind = "live" /\ registry # Head(queue).url

-----------------------------------------------------------------------------
(* AppView *)

\* A record that has no row: a new one, or one whose row was deleted.
Unindexed(u) ==
    \/ u = log + 1
    \/ \E m \in deleted : uri[m] = u /\ \A n \in 1..log : uri[n] = u => n \in deleted

\* insertNotification writes a row and calls notifyInsert before it waits again.
Insert(u) ==
    /\ log < MaxSeq /\ Len(queue) < MaxQueue
    /\ FirehoseRuns /\ Unindexed(u)
    /\ log' = log + 1
    /\ uri' = [uri EXCEPT ![log + 1] = u]
    /\ queue' = IF registry = NoUrl THEN queue
                ELSE Append(queue, Live(registry, log + 1))
    /\ UNCHANGED <<deleted, hidden, everHidden, registry, phase, todo, answer,
                   call, sink, process, faults>>

HideRow(n) ==
    /\ hidden' = hidden \cup {n}
    /\ everHidden' = everHidden \cup {n}
    /\ UNCHANGED <<log, uri, appview, call, sink, process, faults>>

\* The record is deleted, and its row with it.
Delete(n) ==
    /\ FirehoseRuns /\ n \in 1..log \ deleted
    /\ deleted' = deleted \cup {n}
    /\ HideRow(n)

\* The author of the row becomes inactive.
Hide(n) ==
    /\ Inactivity /\ FirehoseRuns
    /\ n \in 1..log \ hidden
    /\ HideRow(n)
    /\ UNCHANGED deleted

\* The author of the row is active again.
Reveal(n) ==
    /\ Inactivity /\ FirehoseRuns
    /\ n \in hidden \ deleted
    /\ hidden' = hidden \ {n}
    /\ UNCHANGED <<log, uri, deleted, everHidden, appview, call, sink, process, faults>>

\* registerPushTargetHandler, registerAndReplay: the replay is queued and the
\* registration published in one step.
Accept(r) ==
    /\ r \in requests
    /\ Settled /\ Len(queue) < MaxQueue
    /\ requests' = requests \ {r}
    /\ queue' = Append(queue, [kind |-> "replay", url |-> r.url,
                               arg |-> After(r.checkpoint), awaited |-> r.awaited])
    /\ registry' = r.url
    /\ UNCHANGED <<table, phase, todo, answer, registering, sent, reply,
                   sink, process, faults>>

SkipSuperseded ==
    /\ phase = "idle" /\ queue # <<>>
    /\ Superseded
    /\ EndTask
    /\ UNCHANGED <<table, registry, requests, registering, sent, sink, process, faults>>

\* The head task reads its rows; then it waits for their authors' handles.
StartTask ==
    /\ phase = "idle" /\ queue # <<>>
    /\ ~Superseded
    /\ IF RowsOf(Head(queue)) = {} THEN EndTask
       ELSE /\ phase' = "hydrating"
            /\ todo' = RowsOf(Head(queue))
            /\ UNCHANGED <<queue, answer, reply>>
    /\ UNCHANGED <<table, registry, requests, registering, sent, sink, process, faults>>

\* The views are ready.  Only a replay looks at the registration again.
Hydrated ==
    /\ phase = "hydrating"
    /\ IF Head(queue).kind = "replay" /\ registry # Head(queue).url THEN EndTask
       ELSE /\ phase' = "posting"
            /\ UNCHANGED <<queue, todo, answer, reply>>
    /\ UNCHANGED <<table, registry, requests, registering, sent, sink, process, faults>>

\* The identity lookup throws: a live task drops the registration, a replay
\* fails its registration call and leaves the registration in place.
HydrationThrows ==
    /\ phase = "hydrating" /\ Fault
    /\ \/ /\ Head(queue).kind = "live"
          /\ DropRegistration(Head(queue).url)
       \/ /\ Head(queue).kind = "replay" /\ HydrationFails
          /\ UNCHANGED registry
    /\ queue' = Tail(queue)
    /\ phase' = "idle" /\ todo' = {} /\ answer' = "none"
    /\ UNCHANGED <<table, call, sink, process>>

\* The POST succeeds.  A replay goes on while it is the current registration.
PostOk ==
    /\ phase = "posting" /\ answer = "ok"
    /\ \E n \in todo :
         /\ IsNext(n)
         /\ IF todo = {n} \/ registry # Head(queue).url THEN EndTask
            ELSE /\ todo' = todo \ {n} /\ answer' = "none"
                 /\ UNCHANGED <<queue, phase, reply>>
    /\ UNCHANGED <<table, registry, requests, registering, sent, sink, process, faults>>

\* The listener is gone or answered 500; or the POST timed out, or its answer
\* was lost, whatever the listener did with it.
PostFails ==
    /\ phase = "posting"
    /\ \/ answer = "error" /\ UNCHANGED faults
       \/ Head(queue).url # proc /\ UNCHANGED faults
       \/ Fault
    /\ DropRegistration(Head(queue).url)
    /\ EndTask
    /\ UNCHANGED <<table, requests, registering, sent, sink, process>>

\* The registry and the queue are in memory only.
AppViewRestart ==
    /\ Fault
    /\ registry' = NoUrl /\ queue' = <<>>
    /\ phase' = "idle" /\ todo' = {} /\ answer' = "none"
    /\ UNCHANGED <<table, call, sink, process>>

-----------------------------------------------------------------------------
(* MCP process *)

\* tryRegister: at startup, from join, and on every heartbeat.
TryRegisterBug ==
    /\ ~registering /\ Cardinality(requests) < MaxRequests
    /\ cursor = NoCursor
    /\ registering' = TRUE /\ sent' = cursor
    /\ requests' = requests \cup {[url |-> proc, checkpoint |-> cursor, awaited |-> TRUE]}
    /\ UNCHANGED <<table, appview, reply, sink, process, faults>>

TryRegister ==
    /\ ~registering /\ Cardinality(requests) < MaxRequests
    /\ registering' = TRUE /\ sent' = cursor
    /\ requests' = requests \cup {[url |-> proc, checkpoint |-> cursor, awaited |-> TRUE]}
    /\ UNCHANGED <<table, appview, reply, sink, process, faults>>

\* The response: normalise the cursor unless delivery advanced it meanwhile.
RegisterDone ==
    /\ registering /\ reply
    /\ registering' = FALSE /\ sent' = NoCursor /\ reply' = FALSE
    /\ cursor' = SwappedCursor(sent, After(sent))
    /\ UNCHANGED <<table, appview, requests, seen, emitting, emitted,
                   repeated, overtaken, process, faults>>

\* The call failed, or the 5 s timeout aborted it.
RegisterFails ==
    /\ registering
    /\ \/ /\ ~reply
          /\ \A r \in requests : ~r.awaited
          /\ \A i \in DOMAIN queue : ~queue[i].awaited
          /\ UNCHANGED faults
       \/ Fault
    /\ Abandon
    /\ UNCHANGED <<table, registry, phase, todo, answer, sink, process>>

\* The call never reaches the AppView.
LoseRequest(r) ==
    /\ r \in requests /\ Fault
    /\ requests' = requests \ {r}
    /\ UNCHANGED <<table, appview, registering, sent, reply, sink, process>>

\* A live task that finds its record re-created passes the rows written between.
Passes(n) ==
    IF Head(queue).kind = "live" THEN (Head(queue).arg + 1)..(n - 1) ELSE {}

\* handleNotify and channelSink up to the await: a row whose URI was seen is
\* acknowledged, another one is handed to the transport, which may refuse it.
HandlePost ==
    /\ phase = "posting" /\ answer = "none" /\ Head(queue).url = proc
    /\ \E n \in todo :
         /\ IsNext(n)
         /\ \/ /\ uri[n] \in seen
               /\ answer' = "ok"
               /\ repeated' = repeated \cup ({n} \ emitted)
               /\ UNCHANGED <<seen, emitting, overtaken, faults>>
            \/ /\ uri[n] \notin seen
               /\ answer' = "pending"
               /\ seen' = seen \cup {uri[n]}
               /\ emitting' = Append(emitting, n)
               /\ overtaken' = overtaken \cup Passes(n)
               /\ UNCHANGED <<repeated, faults>>
            \/ /\ uri[n] \notin seen /\ Fault
               /\ answer' = "error"
               /\ UNCHANGED <<seen, emitting, repeated, overtaken>>
    /\ UNCHANGED <<table, registry, queue, phase, todo, call, cursor, emitted, process>>

\* mcp.notification resolves, in the order of the writes to stdout; the cursor
\* is committed in the same task and the POST, if it still waits, is answered.
EmitDone ==
    /\ emitting # <<>>
    /\ emitted' = emitted \cup {Head(emitting)}
    /\ cursor' = Head(emitting)
    /\ emitting' = Tail(emitting)
    /\ answer' = IF answer = "pending" /\ Head(queue).url = proc /\ IsNext(Head(emitting))
                 THEN "ok" ELSE answer
    /\ UNCHANGED <<table, registry, queue, phase, todo, call, seen, repeated, overtaken,
                   process, faults>>

\* The process ends and the session's next one starts with its cursor.
ProcRestart ==
    /\ proc < MaxProc
    /\ proc' = proc + 1 /\ start' = cursor
    /\ seen' = {} /\ emitting' = <<>>
    /\ Abandon
    /\ UNCHANGED <<table, registry, phase, todo, answer, cursor, emitted,
                   repeated, overtaken, faults>>

-----------------------------------------------------------------------------
AppViewNext ==
    \/ \E u \in Row : Insert(u)
    \/ \E n \in Row : Delete(n) \/ Hide(n) \/ Reveal(n)
    \/ \E r \in requests : Accept(r) \/ LoseRequest(r)
    \/ SkipSuperseded \/ StartTask \/ Hydrated \/ HydrationThrows
    \/ PostOk \/ PostFails \/ AppViewRestart

McpNext ==
    \/ TryRegister \/ RegisterDone \/ RegisterFails
    \/ HandlePost \/ EmitDone \/ ProcRestart

Next == AppViewNext \/ McpNext

Spec == Init /\ [][Next]_vars

\* The event loops run: the head task advances, a POST reaches a live listener,
\* a write to stdout drains, the heartbeat fires and its call is served.  No
\* fault, no insert and no restart has to happen.
Fairness ==
    /\ WF_vars(SkipSuperseded \/ StartTask \/ Hydrated \/ PostOk)
    /\ WF_vars(PostFails /\ UNCHANGED faults)
    /\ WF_vars(HandlePost /\ UNCHANGED faults)
    /\ WF_vars(EmitDone)
    /\ WF_vars(TryRegister)
    /\ WF_vars(RegisterDone)
    /\ WF_vars(RegisterFails /\ UNCHANGED faults)
    /\ SF_vars(\E r \in requests : Accept(r))

FairSpec == Spec /\ Fairness

-----------------------------------------------------------------------------
(* Properties *)

Emitting == {emitting[i] : i \in DOMAIN emitting}

\* The rows the session was handed, when those of S were: S, and the rows
\* channelSink acknowledged because it had been handed the record before.
Handed(S) == S \cup {n \in repeated : \E m \in S : uri[m] = uri[n]}

\* Rows the cursor may pass all the same: those that were invisible at some time
\* (the replay bound of appview/src/queries/listNotifications.ts would never
\* return them again) and those a live task passed on its way to the row of a
\* record that was re-created while it waited.
Excused == everHidden \cup overtaken

\* At least once: the committed cursor never passes a row that the session was
\* not handed, the excused ones aside.
NoSkip == \A n \in 1..cursor : n \in Handed(emitted) \cup Excused

\* A running task still has the rows of todo to deliver; a queued one will read
\* the rows it is for.
Pending(n) ==
    \/ /\ phase # "idle" /\ Head(queue).url = proc /\ n \in todo
    \/ \E i \in DOMAIN queue :
         /\ i = 1 => phase = "idle"
         /\ queue[i].url = proc
         /\ IF queue[i].kind = "replay" THEN queue[i].arg < n ELSE queue[i].arg = n

\* No cutover gap: while the AppView holds the registration of the running
\* process, every row was handed over or has a task that will deliver it.
NoCutoverGap ==
    registry = proc =>
        \A n \in 1..log : n \in Handed(emitted \cup Emitting) \cup Excused \/ Pending(n)

\* Whatever registrations are answered while live delivery advances it, the
\* cursor on disk goes back only to an excused row: one that a live task had
\* passed and that is delivered late, or one that had been hidden.
CursorMonotone == [][cursor' < cursor => cursor' \in Excused]_cursor

\* The decision of specs/notification-cursor-delivery.md, "must not permanently
\* skip a notification", for every row that stays visible: a row the cursor has
\* passed was handed over, or something under way will still deliver it.
NeverLost ==
    \A n \in 1..cursor :
        \/ n \in Handed(emitted \cup Emitting) \cup everHidden
        \/ Pending(n)
        \/ \E r \in requests : r.checkpoint < n

\* Every row is handed to the session in the end, through failed POSTs, lost
\* registrations and restarts of either side.
EventuallyEmitted == \A n \in Row : n <= log ~> n \in Handed(emitted) \cup Excused

\* The heartbeat restores a dropped, lost or superseded registration.
RegistrationRecovers == []<>(registry = proc)

\* Whatever was lost, dropped or restarted, delivery recovers: the registration comes back
\* and no row stays behind (push.ts:136, pushRegistry.ts:45-53).
DeliveryRecovers == EventuallyEmitted /\ RegistrationRecovers

-----------------------------------------------------------------------------
(* What the AppView's bookkeeping promises the listener, in terms of the   *)
(* tasks of the running process: the inductive invariant behind NoSkip and *)
(* NoCutoverGap while no replay throws.                                    *)

\* Rows this process need not hand over, those of S handed: it began after them,
\* they are excused, or it was handed their record and has its URI in seen.
Finished(S) == 1..start \cup Excused \cup {n \in Handed(S) : uri[n] \in seen}

Done == Finished(emitted \cup Emitting)

Passed(n) == 1..n \subseteq Finished(emitted)

Running == phase # "idle"

\* Rows that are handled before the task at position i starts.
Covered(m, i) ==
    \/ m \in Done
    \/ Running /\ 1 < i /\ queue[1].url = proc /\ m \in todo
    \/ \E j \in 1..Len(queue) :
         /\ j < i /\ (j = 1 => ~Running)
         /\ queue[j].kind = "live" /\ queue[j].url = proc /\ queue[j].arg = m

\* A replay that has not read its rows yet.
Unread(j) == queue[j].kind = "replay" /\ (j = 1 => ~Running)

\* Nothing belongs to a process that does not exist yet.
KnownUrls ==
    /\ registry <= proc
    /\ \A i \in 1..Len(queue) : queue[i].url <= proc
    /\ \A r \in requests : r.url <= proc

KnownRows ==
    /\ deleted \subseteq hidden /\ hidden \subseteq everHidden
    /\ todo \subseteq 1..log
    /\ \A i \in 1..Len(queue) :
          queue[i].arg <= log /\ (queue[i].kind = "live" => 0 < queue[i].arg)
    /\ everHidden \subseteq 1..log /\ overtaken \subseteq 1..log
    /\ emitted \subseteq 1..log /\ repeated \subseteq 1..log
    /\ \A i \in 1..Len(emitting) : emitting[i] <= log
    /\ \A r \in requests : r.checkpoint <= log
    /\ cursor <= log /\ sent <= log /\ start <= log

\* A record has one row at a time.
OneRow ==
    /\ \A n \in 1..log : uri[n] \in 1..n
    /\ \A m, n \in 1..log : m < n /\ uri[m] = uri[n] => m \in deleted

HeadTask ==
    /\ Running => queue # <<>>
    /\ ~Running => todo = {}
    /\ phase # "posting" => answer = "none"

\* The cursor is past what the session was handed, and every checkpoint of this
\* process lies between its first cursor and what it finished.
Checkpoints ==
    /\ 1..start \subseteq Handed(emitted) \cup Excused
    /\ start <= cursor /\ Passed(cursor)
    /\ \A r \in requests : r.url = proc => start <= r.checkpoint /\ Passed(r.checkpoint)
    /\ \A i \in 1..Len(queue) : queue[i].url = proc =>
          /\ start <= queue[i].arg
          /\ IF queue[i].kind = "replay" THEN Passed(queue[i].arg) ELSE start < queue[i].arg

\* A row in transit was handed over after everything smaller.
SinkOrder ==
    /\ seen \subseteq {uri[n] : n \in emitted \cup Emitting}
    /\ \A n \in Emitting : uri[n] \in seen /\ start < n
    /\ \A i \in 1..Len(emitting) :
          1..(emitting[i] - 1) \subseteq
              Finished(emitted \cup {emitting[j] : j \in 1..(i - 1)})

\* Rows of this process in transit do not go back, the excused ones aside.
SinkRises ==
    \A i \in 1..Len(emitting) :
        \/ emitting[i] \in Excused
        \/ /\ cursor <= emitting[i]
           /\ \A j \in 1..(i - 1) : emitting[j] < emitting[i]

Answered ==
    phase = "posting" /\ answer = "ok" /\ queue[1].url = proc =>
        \A n \in todo : IsNext(n) => n \in Done

RunningOrder ==
    Running /\ queue[1].url = proc =>
        \A n \in todo :
            /\ start < n
            /\ \A m \in 1..(n - 1) : m \in Done \cup todo \cup Passes(n)

\* A live task of this process runs after everything smaller was handled.
QueuedOrder ==
    Running \/ registry = proc =>
        \A i \in 1..Len(queue) :
            /\ queue[i].kind = "live" /\ queue[i].url = proc
            /\ i = 1 => ~Running
            /\ \A j \in 1..Len(queue) : j < i => ~Unread(j)
            => \A m \in 1..(queue[i].arg - 1) : Covered(m, i)

\* Between a task of another URL and a live task of this one there is a replay
\* of this one.
ReplayFirst ==
    \A i, j \in 1..Len(queue) :
        /\ j < i /\ queue[j].url # proc
        /\ queue[i].kind = "live" /\ queue[i].url = proc
        => \E k \in 1..Len(queue) :
             j < k /\ k < i /\ queue[k].kind = "replay" /\ queue[k].url = proc

ReplayLast ==
    registry = proc =>
        \A j \in 1..Len(queue) : queue[j].url # proc =>
            \E k \in 1..Len(queue) :
                j < k /\ queue[k].kind = "replay" /\ queue[k].url = proc

AllCovered ==
    /\ registry = proc
    /\ \A j \in 1..Len(queue) : ~Unread(j)
    => \A m \in 1..log : Covered(m, Len(queue) + 1)

\* The inductive invariant: what registry, queue and sink promise together.
IInv ==
    /\ TypeOK /\ KnownUrls /\ KnownRows /\ OneRow /\ HeadTask /\ Checkpoints
    /\ SinkOrder /\ SinkRises /\ Answered /\ RunningOrder
    /\ QueuedOrder /\ ReplayFirst /\ ReplayLast /\ AllCovered

-----------------------------------------------------------------------------
\* The abstract specification, and this one as an implementation of it.
Abs == INSTANCE AtLeastOnce
           WITH rows <- log, record <- uri, excused <- Excused,
                delivered <- Handed(emitted), position <- cursor

\* Delivery over HTTP, registrations and cursors is at-least-once delivery.
AbsSpec == Abs!Spec

=============================================================================
