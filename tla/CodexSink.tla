------------------------------ MODULE CodexSink ------------------------------
(***************************************************************************)
(* Delivery of notifications to one Codex thread: the sink                 *)
(* (mcp/src/codex/sink.ts), the app-server client it drives                *)
(* (mcp/src/codex/appServerClient.ts) and the part of the launcher         *)
(* (mcp/src/codex/host.ts) that gives every connection a new sink.         *)
(*                                                                         *)
(* A notification is its seq.  The AppView POSTs one recipient's rows in   *)
(* order, again from the cursor at each registration (PushDelivery): here  *)
(* it is the number of the last row posted.  The app-server is external:   *)
(* it runs the turns of a thread one after the other, queues a turn/start  *)
(* while one runs, and accepts a steer into the running turn only.         *)
(*                                                                         *)
(* A step is what one JavaScript task runs before it waits again: pump()   *)
(* runs inside the step that calls it, up to its await.  When an answer    *)
(* is observed is up to the environment, before or after the events of the *)
(* turn it names, as the code expects (earlyCompletions).                  *)
(***************************************************************************)
EXTENDS Integers, Sequences

CONSTANTS
    MaxRow,      \* bound: notifications of the recipient
    MaxBatch,    \* MAX_BATCH: most notifications one call carries
    MaxFaults,   \* bound: refused or garbled calls
    MaxFailed,   \* bound: turns that end as failed or interrupted
    MaxOther,    \* bound: turns the launcher starts itself (opening prompts)
    MaxDrops,    \* bound: lost connections to the app-server
    MaxCrashes,  \* bound: restarts of the launcher
    MaxTrouble   \* bound: all of these, except the opening prompts, together

ASSUME CodexAssumption ==
    /\ MaxRow \in Nat /\ MaxBatch \in Nat \ {0} /\ MaxFaults \in Nat
    /\ MaxFailed \in Nat /\ MaxOther \in Nat /\ MaxDrops \in Nat /\ MaxCrashes \in Nat
    /\ MaxTrouble \in Nat

VARIABLES
    log,        \* rows 1..log were inserted
    posted,     \* the last row the AppView posted since it last replayed
    registered, \* the AppView holds this launcher's registration
    queue,      \* accepted and not yet handed to codex
    seen,       \* accepted by this sink
    sending,    \* the call in flight: "no", "start" or "steer"
    batch,      \* the rows it carries
    target,     \* the turn a steer names
    reply,      \* its answer: the turn, or Refused; Waiting before
    inflight,   \* rows handed over, waiting for the completion of their turn
    early,      \* earlyCompletions
    timer,      \* a retry is due
    active,     \* client.activeTurnId(threadId)
    up,         \* the connection is up, and so activeSink is set
    events,     \* turn/started and turn/completed on their way to the client
    turns,      \* app-server: the running turn, then those that wait
    nextTurn,   \* app-server: turns accepted so far
    read,       \* history: rows in the input of a turn that completed
    again,      \* history: rows the app-server accepted a second time
    cursor,     \* lastSeenNotificationCursor on disk
    conn,       \* number of the connection
    faults, failed, others, drops, crashes

appview == <<log, posted, registered>>
call    == <<sending, batch, target, reply>>
sink    == <<queue, seen, call, inflight, early, timer>>
server  == <<turns, nextTurn, read, again>>
bounds  == <<faults, failed, others, drops, crashes>>
vars    == <<appview, sink, active, up, events, server, cursor, conn, bounds>>

Row     == 1..MaxRow
None    == 0
Waiting == 0
Refused == -1

NoBatch == [turn |-> None, rows |-> <<>>]

\* What the text of a turn carries: formatBatch writes every row of a batch into it.
RowsIn(s) == {s[i] : i \in DOMAIN s}

Status == {"completed", "failed"}
\* turn/started and turn/completed, of which only the turn and its status are read; a
\* turn has the input of turn/start and of each turn/steer that named it.
Event  == [turn : Nat \ {0}, status : {"started"} \cup Status]
Turn   == [id : Nat \ {0}, rows : SUBSET Row, conn : Nat]

\* Every call, batch and event names rows and turns that exist.
TypeOK ==
    /\ log \in 0..MaxRow /\ posted \in 0..log /\ registered \in BOOLEAN
    /\ queue \in Seq(Row) /\ seen \subseteq Row
    /\ sending \in {"no", "start", "steer"} /\ batch \in Seq(Row)
    /\ target \in Nat /\ reply \in Nat \cup {Refused}
    /\ inflight \in [turn : Nat, rows : Seq(Row)]
    /\ early \subseteq [turn : Nat \ {0}, status : Status]
    /\ timer \in BOOLEAN /\ active \in Nat /\ up \in BOOLEAN
    /\ events \in Seq(Event) /\ turns \in Seq(Turn) /\ nextTurn \in Nat
    /\ read \subseteq Row /\ again \subseteq Row
    /\ cursor \in 0..MaxRow /\ conn \in Nat
    /\ faults \in 0..MaxFaults /\ failed \in 0..MaxFailed /\ others \in 0..MaxOther
    /\ drops \in 0..MaxDrops /\ crashes \in 0..MaxCrashes

Init ==
    /\ log = 0 /\ posted = 0 /\ registered = FALSE
    /\ queue = <<>> /\ seen = {}
    /\ sending = "no" /\ batch = <<>> /\ target = None /\ reply = Waiting
    /\ inflight = NoBatch /\ early = {} /\ timer = FALSE
    /\ active = None /\ up = TRUE /\ events = <<>>
    /\ turns = <<>> /\ nextTurn = 0 /\ read = {} /\ again = {}
    /\ cursor = 0 /\ conn = 0
    /\ faults = 0 /\ failed = 0 /\ others = 0 /\ drops = 0 /\ crashes = 0

Trouble == faults + failed + drops + crashes < MaxTrouble

Fault ==
    /\ faults < MaxFaults /\ Trouble
    /\ faults' = faults + 1
    /\ UNCHANGED <<failed, others, drops, crashes>>

\* On a closed connection a call is rejected at once, and what follows it runs
\* before any other task: the event loop is not reached until it has ended.
Microtask == ~up /\ sending # "no"

-----------------------------------------------------------------------------
(* The sink.  The definitions named ...Bug are the faulty variants that    *)
(* show what each property is sensitive to.                                *)

Least(m, n) == IF m <= n THEN m ELSE n

\* A batch may be handed over: none waits, or it rides the turn that is running.
MayPumpBug(rows, riding, running) == rows # <<>>

MayPump(rows, riding, running) ==
    rows # <<>> /\ (riding.turn = None \/ riding.turn = running)

\* No call is in flight.
Rest(rows) ==
    /\ queue' = rows
    /\ sending' = "no" /\ batch' = <<>> /\ target' = None /\ reply' = Waiting

Call(kind, rows, turn) ==
    /\ sending' = kind /\ batch' = rows /\ target' = turn
    /\ reply' = IF up THEN Waiting ELSE Refused

\* pump(), when no call is in flight: rows is the queue it finds, riding the batch
\* in flight, running the active turn.
Pump(rows, riding, running) ==
    LET n == Least(MaxBatch, Len(rows))
    IN  IF MayPump(rows, riding, running)
        THEN /\ queue' = SubSeq(rows, n + 1, Len(rows))
             /\ Call(IF running = None THEN "start" ELSE "steer", SubSeq(rows, 1, n), running)
        ELSE Rest(rows)

\* The cursor of the last row a completed turn carried is committed.
Commit(rows) == cursor' = rows[Len(rows)]

\* finishTurn, and the pump that follows it when no call is in flight.
Finish(turn, status, running) ==
    IF inflight.turn # turn
    THEN UNCHANGED <<queue, call, inflight, timer, cursor>>
    ELSE /\ inflight' = NoBatch
         /\ IF status = "completed"
            THEN /\ Commit(inflight.rows)
                 /\ Pump(queue, NoBatch, running)
                 /\ UNCHANGED timer
            ELSE /\ queue' = inflight.rows \o queue
                 /\ timer' = TRUE
                 /\ UNCHANGED <<call, cursor>>

\* A row is accepted once in the life of the sink.
DuplicateBug(n) == FALSE

Duplicate(n) == n \in seen

\* deliver(): a POST of the next row.  Without a sink the listener answers 500 and
\* the AppView drops the registration.
Deliver ==
    /\ registered /\ posted < log /\ ~Microtask
    /\ IF ~up
       THEN registered' = FALSE /\ UNCHANGED <<posted, queue, seen, call>>
       ELSE /\ posted' = posted + 1
            /\ UNCHANGED registered
            /\ IF Duplicate(posted + 1)
               THEN UNCHANGED <<queue, seen, call>>
               ELSE /\ seen' = seen \cup {posted + 1}
                    /\ IF sending = "no"
                       THEN Pump(Append(queue, posted + 1), inflight, active)
                       ELSE queue' = Append(queue, posted + 1) /\ UNCHANGED call
    /\ UNCHANGED <<log, inflight, early, timer, active, up, events, server, cursor,
                   conn, bounds>>

\* The call was accepted: its rows ride the turn it names; the turn may have ended
\* already.  Then pump() goes on.
Accepted ==
    LET riding == IF inflight.turn = reply
                  THEN [inflight EXCEPT !.rows = @ \o batch]
                  ELSE [turn |-> reply, rows |-> batch]
        ended(status) == [turn |-> reply, status |-> status] \in early
    IN  /\ reply \notin {Waiting, Refused}
        /\ early' = {}
        /\ \/ /\ ended("completed")
              /\ Commit(riding.rows)
              /\ inflight' = NoBatch
              /\ Pump(queue, NoBatch, active)
              /\ UNCHANGED timer
           \/ /\ ended("failed")
              /\ inflight' = NoBatch
              /\ timer' = TRUE
              /\ Pump(riding.rows \o queue, NoBatch, active)
              /\ UNCHANGED cursor
           \/ /\ ~ended("completed") /\ ~ended("failed")
              /\ inflight' = riding
              /\ Pump(queue, riding, active)
              /\ UNCHANGED <<timer, cursor>>

\* The batch is put back, in front of what arrived during the call.
PutBackLostBug == queue
PutBackBug == queue \o batch

PutBack == batch \o queue

\* A steer was refused.  If a turn is running the batch waits, otherwise a turn is
\* started for it.
SteerRefusedBug ==
    /\ sending = "steer" /\ reply = Refused
    /\ IF active # None
       THEN Rest(PutBack) /\ UNCHANGED timer
       ELSE Call("start", batch, None) /\ UNCHANGED <<queue, timer>>
    /\ UNCHANGED <<inflight, early, cursor>>

SteerRefused ==
    /\ sending = "steer" /\ reply = Refused
    /\ IF active # None
       THEN Rest(PutBack) /\ timer' = TRUE
       ELSE Call("start", batch, None) /\ UNCHANGED <<queue, timer>>
    /\ UNCHANGED <<inflight, early, cursor>>

\* A start failed: the batch is put back, and pump() runs at once.
StartRefused ==
    /\ sending = "start" /\ reply = Refused
    /\ timer' = TRUE
    /\ Pump(PutBack, inflight, active)
    /\ UNCHANGED <<inflight, early, cursor>>

SendDone ==
    /\ sending # "no"
    /\ Accepted \/ SteerRefused \/ StartRefused
    /\ UNCHANGED <<appview, seen, active, up, events, server, conn, bounds>>

\* A retry timer fires; another one may still be set.
Retry ==
    /\ timer /\ timer' \in BOOLEAN /\ ~Microtask
    /\ IF sending = "no" THEN Pump(queue, inflight, active) ELSE UNCHANGED <<queue, call>>
    /\ UNCHANGED <<appview, seen, inflight, early, active, up, events, server, cursor,
                   conn, bounds>>

-----------------------------------------------------------------------------
(* The app-server client and the launcher. *)

\* onNotification: the next event of the connection.
Receive ==
    /\ up /\ events # <<>>
    /\ events' = Tail(events)
    /\ LET e == Head(events) IN
         IF e.status = "started"
         THEN active' = e.turn /\ UNCHANGED <<queue, call, inflight, early, timer, cursor>>
         ELSE /\ active' = None
              /\ IF sending # "no"
                 THEN /\ early' = early \cup {[turn |-> e.turn, status |-> e.status]}
                      /\ UNCHANGED <<queue, call, inflight, timer, cursor>>
                 ELSE Finish(e.turn, e.status, None) /\ UNCHANGED early
    /\ UNCHANGED <<appview, seen, up, server, conn, bounds>>

\* The connection closes: the call in flight is rejected.
Drop ==
    /\ up /\ drops < MaxDrops /\ Trouble
    /\ drops' = drops + 1
    /\ up' = FALSE /\ events' = <<>>
    /\ reply' = IF sending = "no" THEN Waiting ELSE Refused
    /\ UNCHANGED <<appview, queue, seen, sending, batch, target, inflight, early, timer,
                   active, server, cursor, conn, faults, failed, others, crashes>>

FreshSink ==
    /\ seen' = {} /\ Rest(<<>>) /\ inflight' = NoBatch /\ early' = {} /\ timer' = FALSE
    /\ active' = None /\ up' = TRUE /\ events' = <<>>
    /\ conn' = conn + 1

\* The supervisor's next lifecycle: a new client, and a new sink for it.
Reconnect ==
    /\ ~up /\ ~Microtask
    /\ FreshSink
    /\ UNCHANGED <<appview, server, cursor, bounds>>

\* The launcher ends and is resumed: its listener has a new URL.
Crash ==
    /\ crashes < MaxCrashes /\ Trouble
    /\ crashes' = crashes + 1
    /\ FreshSink
    /\ registered' = FALSE
    /\ UNCHANGED <<log, posted, server, cursor, faults, failed, others, drops>>

\* The launcher of a new session injects its opening prompt, before the session has
\* joined and so before it can have a notification.
OtherTurn ==
    /\ up /\ others < MaxOther
    /\ log = 0 /\ ~registered /\ conn = 0
    /\ others' = others + 1
    /\ nextTurn' = nextTurn + 1
    /\ turns' = Append(turns, [id |-> nextTurn + 1, rows |-> {}, conn |-> conn])
    /\ events' = IF turns = <<>>
                 THEN Append(events, [turn |-> nextTurn + 1, status |-> "started"])
                 ELSE events
    /\ UNCHANGED <<appview, sink, active, up, read, again, cursor, conn, faults, failed,
                   drops, crashes>>

-----------------------------------------------------------------------------
(* The AppView and the app-server, as this code uses them. *)

\* A row is written for the recipient; it is posted if there is a registration.
Publish ==
    /\ log < MaxRow
    /\ log' = log + 1
    /\ UNCHANGED <<posted, registered, sink, active, up, events, server, cursor, conn, bounds>>

\* tryRegister, at a new connection and on each heartbeat: after what is queued has
\* been posted, the rows behind the cursor are posted again.
Register ==
    /\ up /\ ~Microtask
    /\ ~registered \/ posted = log
    /\ registered' = TRUE
    /\ posted' = cursor
    /\ UNCHANGED <<log, sink, active, up, events, server, cursor, conn, bounds>>

Running(turn) == turns # <<>> /\ turns[1].id = turn

\* The rows of the call join the history of what was accepted.
Injected ==
    again' = again \cup {n \in RowsIn(batch) : n \in read \/ \E i \in DOMAIN turns : n \in turns[i].rows}

Start(answer) ==
    /\ sending = "start"
    /\ nextTurn' = nextTurn + 1
    /\ turns' = Append(turns, [id |-> nextTurn + 1, rows |-> RowsIn(batch), conn |-> conn])
    /\ events' = IF turns = <<>>
                 THEN Append(events, [turn |-> nextTurn + 1, status |-> "started"])
                 ELSE events
    /\ reply' = IF answer = Refused THEN Refused ELSE nextTurn + 1
    /\ Injected
    /\ UNCHANGED read

Steer(answer) ==
    /\ sending = "steer"
    /\ Running(target)
    /\ turns' = [turns EXCEPT ![1].rows = @ \cup RowsIn(batch)]
    /\ reply' = answer
    /\ Injected
    /\ UNCHANGED <<nextTurn, read, events>>

Turned == reply' = Refused /\ UNCHANGED <<server, events>>

\* The app-server handles the call: it accepts it, accepts it and answers something
\* the client rejects, or refuses it, a steer always if its turn is not running.
Serve ==
    /\ up /\ sending # "no" /\ reply = Waiting
    /\ \/ (Start(nextTurn + 1) \/ Steer(target)) /\ UNCHANGED bounds
       \/ (Start(Refused) \/ Steer(Refused)) /\ Fault
       \/ sending = "steer" /\ ~Running(target) /\ Turned /\ UNCHANGED bounds
       \/ Turned /\ Fault
    /\ UNCHANGED <<appview, queue, seen, sending, batch, target, inflight, early, timer,
                   active, up, cursor, conn>>

\* The running turn ends.  Its events go to the connection that started it.
EndTurn(status) ==
    /\ turns # <<>>
    /\ turns' = Tail(turns)
    /\ read' = IF status = "completed" THEN read \cup turns[1].rows ELSE read
    /\ LET own(i) == i <= Len(turns) /\ turns[i].conn = conn /\ up
       IN  events' = events
               \o (IF own(1) THEN <<[turn |-> turns[1].id, status |-> status]>> ELSE <<>>)
               \o (IF own(2) THEN <<[turn |-> turns[2].id, status |-> "started"]>> ELSE <<>>)
    /\ UNCHANGED <<appview, sink, active, up, nextTurn, again, cursor, conn>>

Complete == EndTurn("completed") /\ UNCHANGED bounds

Fail ==
    /\ failed < MaxFailed /\ Trouble
    /\ failed' = failed + 1
    /\ EndTurn("failed")
    /\ UNCHANGED <<faults, others, drops, crashes>>

Next ==
    \/ Deliver \/ SendDone \/ Retry \/ Receive
    \/ Drop \/ Reconnect \/ Crash \/ OtherTurn
    \/ Publish \/ Register \/ Serve \/ Complete \/ Fail

Spec == Init /\ [][Next]_vars

\* The event loop runs, a turn ends, the app-server answers, the AppView posts what
\* is queued, the heartbeat fires, and the supervisor's backoff ends when the event
\* loop gets to it.  No fault and no restart has to happen.
Fairness ==
    /\ WF_vars(Deliver) /\ WF_vars(SendDone) /\ WF_vars(Retry) /\ WF_vars(Receive)
    /\ SF_vars(Reconnect) /\ WF_vars(Register)
    /\ WF_vars(Serve /\ UNCHANGED bounds) /\ WF_vars(Complete)

FairSpec == Spec /\ Fairness

-----------------------------------------------------------------------------
(* Properties *)

Held == RowsIn(queue) \cup RowsIn(batch) \cup RowsIn(inflight.rows)

\* specs/codex-memory-and-recovery.md, "A notification remains replayable until its
\* matching Codex delivery turn completes and the persisted cursor advances": the
\* cursor never passes a row that no completed turn carried.
NoLoss == \A n \in 1..cursor : n \in read

\* Whatever calls are refused and whenever the launcher restarts, nothing is lost
\* until a turn fails or a connection does.
CommittedWasRead == failed = 0 /\ drops = 0 => NoLoss

\* Until a turn fails, a row whose repeats the sink suppresses was read or is still
\* held: it is put back when a call fails, also when the connection is gone.
StillHeld == failed = 0 => \A n \in seen : n \in read \/ n \in Held

\* Until a connection is lost the rows that are held are in order from the turn in
\* flight to the queue, through refused calls and failed turns: that is why the
\* last one a turn carried is the newest (finishTurn).
InOrder ==
    LET rows == inflight.rows \o batch \o queue
    IN  drops = 0 => \A i, j \in DOMAIN rows : i < j => rows[i] < rows[j]

\* Without a fault, a lost connection or a restart no row is given to codex twice,
\* however often the AppView posts it.
NoDoubleInjection == faults + failed + drops + crashes = 0 => again = {}

\* Each row is committed in the end: the rows are bounded, so the cursor comes to the last.
EventuallyCommitted == cursor < log ~> cursor = log

\* mcp/src/codex/host.ts, "a lost connection just means wait and reconnect".
Reconnects == ~up ~> up

=============================================================================
