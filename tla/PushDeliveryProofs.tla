------------------------- MODULE PushDeliveryProofs -------------------------
(***************************************************************************)
(* Proofs about PushDelivery, for every value of its constants: type       *)
(* correctness; and, when no replay's identity lookup throws, that IInv is *)
(* inductive, that the cursor never passes an undelivered row, that there  *)
(* is no cutover gap, that the cursor goes back to an excused row only,    *)
(* and that the protocol implements AtLeastOnce.                           *)
(***************************************************************************)
EXTENDS PushDelivery, SequenceTheorems, TLAPS

USE PushAssumption

-----------------------------------------------------------------------------
(* Sequences of tasks *)

LEMMA TailOfQueue ==
    ASSUME NEW S, NEW q \in Seq(S), q # <<>>
    PROVE  /\ Tail(q) \in Seq(S) /\ Head(q) \in S /\ Head(q) = q[1]
           /\ Len(q) \in Nat \ {0}
           /\ Len(Tail(q)) = Len(q) - 1
           /\ \A i \in 1..Len(Tail(q)) : Tail(q)[i] = q[i + 1]
  OBVIOUS

LEMMA AppendToQueue ==
    ASSUME NEW S, NEW q \in Seq(S), NEW e \in S
    PROVE  /\ Append(q, e) \in Seq(S)
           /\ Len(Append(q, e)) = Len(q) + 1
           /\ Append(q, e)[Len(q) + 1] = e
           /\ \A i \in 1..Len(q) : Append(q, e)[i] = q[i]
  OBVIOUS

LEMMA ForgetQueue ==
    ASSUME NEW q \in Seq(Task)
    PROVE  /\ Forget(q) \in Seq(Task)
           /\ Len(Forget(q)) = Len(q)
           /\ \A i \in 1..Len(q) : /\ Forget(q)[i].kind = q[i].kind
                                   /\ Forget(q)[i].url = q[i].url
                                   /\ Forget(q)[i].arg = q[i].arg
<1>1. ASSUME NEW i \in 1..Len(q)
      PROVE  [q[i] EXCEPT !.awaited = FALSE] \in Task
  <2>1. q[i] \in Task
    BY ElementOfSeq
  <2>. QED
    BY <2>1 DEF Task
<1>2. Forget(q) \in [1..Len(q) -> Task]
  BY <1>1, LenProperties DEF Forget
<1>3. Forget(q) \in Seq(Task) /\ Len(Forget(q)) = Len(q)
  BY <1>2, LenProperties, SeqDef
<1>4. ASSUME NEW i \in 1..Len(q)
      PROVE  /\ Forget(q)[i].kind = q[i].kind
             /\ Forget(q)[i].url = q[i].url
             /\ Forget(q)[i].arg = q[i].arg
  <2>1. q[i] \in Task
    BY ElementOfSeq
  <2>2. Forget(q)[i] = [q[i] EXCEPT !.awaited = FALSE]
    BY LenProperties DEF Forget
  <2>. QED
    BY <2>1, <2>2 DEF Task
<1>. QED
  BY <1>3, <1>4

-----------------------------------------------------------------------------
(* Type correctness *)

Typed == TypeOK /\ HeadTask

LEMMA TypeInit == Init => Typed
<1>1. <<>> \in Seq(Task) /\ <<>> \in Seq(Row)
  BY EmptySeq
<1>. SUFFICES ASSUME Init PROVE Typed
  OBVIOUS
<1>2. HeadTask
  BY DEF Init, HeadTask, Running
<1>3. queue \in Seq(Task) /\ emitting \in Seq(Row)
  BY <1>1 DEF Init
<1>4. /\ log \in 0..MaxSeq /\ registry \in 0..MaxProc /\ proc \in 1..MaxProc
      /\ sent \in Position /\ cursor \in Position /\ faults \in 0..MaxFaults
  BY DEF Init, NoUrl, NoCursor, Position
<1>. QED
  BY <1>2, <1>3, <1>4 DEF Init, Typed, TypeOK, Position

LEMMA EndTaskType ==
    ASSUME TypeOK, queue # <<>>, EndTask
    PROVE  /\ queue' \in Seq(Task) /\ phase' = "idle" /\ todo' = {}
           /\ answer' = "none" /\ reply' \in BOOLEAN
<1>1. queue \in Seq(Task) /\ reply \in BOOLEAN
  BY DEF TypeOK
<1>2. Tail(queue) \in Seq(Task) /\ Head(queue) \in Task
  BY <1>1, TailOfQueue
<1>3. Head(queue).awaited \in BOOLEAN
  BY <1>2 DEF Task
<1>. QED
  BY <1>1, <1>2, <1>3 DEF EndTask

LEMMA AbandonType ==
    ASSUME TypeOK, Abandon
    PROVE  /\ registering' \in BOOLEAN /\ reply' \in BOOLEAN /\ sent' \in Position
           /\ requests' \subseteq Request
           /\ queue' \in Seq(Task) /\ (queue # <<>> => queue' # <<>>)
<1>1. queue \in Seq(Task) /\ requests \subseteq Request
  BY DEF TypeOK
<1>2. Forget(queue) \in Seq(Task) /\ Len(Forget(queue)) = Len(queue)
  BY <1>1, ForgetQueue
<1>3. queue # <<>> => Forget(queue) # <<>>
  BY <1>1, <1>2, EmptySeq
<1>4. ASSUME NEW r \in requests PROVE [r EXCEPT !.awaited = FALSE] \in Request
  BY <1>1 DEF Request
<1>. QED
  BY <1>2, <1>3, <1>4 DEF Abandon, Position

LEMMA TypeStep == Typed /\ [Next]_vars => Typed'
<1>. SUFFICES ASSUME Typed, [Next]_vars PROVE Typed'
  OBVIOUS
<1>. USE DEF Typed, TypeOK, HeadTask, Running
<1>1. ASSUME NEW u \in Row, Insert(u) PROVE Typed'
  <2>0. uri' \in [Row -> Row]
    BY <1>1 DEF Insert
  <2>1. CASE registry = NoUrl
    BY <1>1, <2>0, <2>1 DEF Insert, call, sink, process
  <2>2. CASE registry # NoUrl
    <3>1. Live(registry, log + 1) \in Task
      BY <1>1, <2>2 DEF Insert, Live, Task, NoUrl
    <3>2. queue' \in Seq(Task) /\ queue' # <<>>
      BY <1>1, <2>2, <3>1, AppendToQueue, EmptySeq DEF Insert
    <3>. QED
      BY <1>1, <2>0, <3>2 DEF Insert, call, sink, process
  <2>. QED
    BY <2>1, <2>2
<1>2. ASSUME NEW n \in Row, Delete(n) \/ Hide(n) \/ Reveal(n) PROVE Typed'
  BY <1>2 DEF Delete, Hide, Reveal, HideRow, appview, call, sink, process
<1>3. ASSUME NEW r \in requests, Accept(r) PROVE Typed'
  <2>1. /\ r.url \in 1..MaxProc /\ r.awaited \in BOOLEAN
        /\ After(r.checkpoint) \in 0..MaxSeq
    BY DEF Request, Position, After, NoCursor
  <2>. DEFINE t == [kind |-> "replay", url |-> r.url,
                    arg |-> After(r.checkpoint), awaited |-> r.awaited]
  <2>2. t \in Task
    BY <2>1 DEF Task
  <2>3. Append(queue, t) \in Seq(Task) /\ Append(queue, t) # <<>>
    BY <2>2, AppendToQueue, EmptySeq
  <2>. QED
    BY <1>3, <2>1, <2>3 DEF Accept, table, sink, process
<1>4. ASSUME NEW r \in requests, LoseRequest(r) PROVE Typed'
  BY <1>4 DEF LoseRequest, Fault, table, appview, sink, process
<1>5. CASE SkipSuperseded
  BY <1>5, EndTaskType DEF SkipSuperseded, table, sink, process
<1>6. CASE StartTask
  <2>1. RowsOf(Head(queue)) \subseteq Row
    BY DEF RowsOf, Row
  <2>. QED
    BY <1>6, <2>1, EndTaskType DEF StartTask, table, sink, process
<1>7. CASE Hydrated
  BY <1>7, EndTaskType DEF Hydrated, table, sink, process
<1>8. CASE HydrationThrows
  <2>1. queue # <<>>
    BY <1>8 DEF HydrationThrows
  <2>2. Tail(queue) \in Seq(Task)
    BY <2>1, TailOfQueue
  <2>. QED
    BY <1>8, <2>2 DEF HydrationThrows, DropRegistration, Fault, NoUrl, table, call, sink, process
<1>9. CASE PostOk
  BY <1>9, EndTaskType DEF PostOk, table, sink, process
<1>10. CASE PostFails
  BY <1>10, EndTaskType DEF PostFails, DropRegistration, Fault, NoUrl, table, sink, process
<1>11. CASE AppViewRestart
  BY <1>11, EmptySeq DEF AppViewRestart, Fault, NoUrl, table, call, sink, process
<1>12. CASE TryRegister
  <2>1. [url |-> proc, checkpoint |-> cursor, awaited |-> TRUE] \in Request
    BY DEF Request
  <2>. QED
    BY <1>12, <2>1 DEF TryRegister, table, appview, sink, process
<1>13. CASE RegisterDone
  <2>1. SwappedCursor(sent, After(sent)) \in Position
    BY DEF SwappedCursor, After, Position, NoCursor
  <2>. QED
    BY <1>13, <2>1 DEF RegisterDone, Position, table, appview, process
<1>14. CASE RegisterFails
  BY <1>14, AbandonType DEF RegisterFails, Fault, table, sink, process
<1>15. CASE HandlePost
  <2>1. ASSUME NEW n \in todo
        PROVE  Append(emitting, n) \in Seq(Row) /\ n \in Row /\ uri[n] \in Row
    BY AppendToQueue
  <2>2. ASSUME NEW n \in todo PROVE Passes(n) \subseteq Row
    <3>1. queue # <<>> /\ Head(queue) \in Task
      BY <1>15, TailOfQueue DEF HandlePost
    <3>2. Head(queue).arg \in Nat
      BY <3>1 DEF Task
    <3>3. n \in 1..MaxSeq
      BY <2>1 DEF Row
    <3>4. (Head(queue).arg + 1)..(n - 1) \subseteq 1..MaxSeq
      BY <3>2, <3>3
    <3>. QED
      BY <3>4 DEF Passes, Row
  <2>3. /\ seen' \subseteq Row /\ emitting' \in Seq(Row)
        /\ repeated' \subseteq Row /\ overtaken' \subseteq Row
    BY <1>15, <2>1, <2>2 DEF HandlePost, IsNext
  <2>4. answer' \in {"none", "pending", "ok", "error"} /\ faults' \in 0..MaxFaults
    BY <1>15 DEF HandlePost, Fault
  <2>. QED
    BY <1>15, <2>3, <2>4 DEF HandlePost, table, call, process
<1>16. CASE EmitDone
  <2>1. Head(emitting) \in Row /\ Tail(emitting) \in Seq(Row)
    BY <1>16, TailOfQueue DEF EmitDone
  <2>2. cursor' \in Position
    <3>1. cursor' = Head(emitting)
      BY <1>16 DEF EmitDone
    <3>2. Head(emitting) \in 0..MaxSeq
      BY <2>1 DEF Row
    <3>. QED
      BY <3>1, <3>2 DEF Position
  <2>3. answer' \in {"none", "pending", "ok", "error"}
    BY <1>16 DEF EmitDone
  <2>. QED
    BY <1>16, <2>1, <2>2, <2>3 DEF EmitDone, table, call, process
<1>17. CASE ProcRestart
  BY <1>17, AbandonType, EmptySeq DEF ProcRestart, table, process
<1>18. CASE UNCHANGED vars
  BY <1>18 DEF vars, table, appview, call, sink, process
<1>. QED
  BY <1>1, <1>2, <1>3, <1>4, <1>5, <1>6, <1>7, <1>8, <1>9, <1>10, <1>11, <1>12,
     <1>13, <1>14, <1>15, <1>16, <1>17, <1>18 DEF Next, AppViewNext, McpNext

LEMMA AlwaysTyped == Spec => []Typed
  BY TypeInit, TypeStep, PTL DEF Spec

\* Every variable keeps its type: a cursor, a checkpoint and a queued task always
\* name rows and processes that exist within the bounds.
THEOREM TypeCorrect == Spec => []TypeOK
  BY AlwaysTyped, PTL DEF Typed

-----------------------------------------------------------------------------
(* Safety.  IInv is proved in three groups of conjuncts: what is known of  *)
(* rows, processes and checkpoints; the order in which rows reach the      *)
(* session; and what the queued tasks will deliver.                        *)

HIDE PushAssumption

Known    == KnownUrls /\ KnownRows /\ OneRow /\ Checkpoints
Ordered  == SinkOrder /\ SinkRises /\ Answered /\ RunningOrder
Queued   == QueuedOrder /\ ReplayFirst /\ ReplayLast /\ AllCovered

LEMMA Groups == IInv <=> Typed /\ Known /\ Ordered /\ Queued
  BY DEF IInv, Typed, Known, Ordered, Queued

LEMMA InvInit == Init => IInv
<1>. SUFFICES ASSUME Init PROVE IInv
  OBVIOUS
<1>1. Typed
  BY TypeInit
<1>2. Len(queue) = 0 /\ Len(emitting) = 0 /\ Emitting = {}
  BY EmptySeq DEF Init, Emitting
<1>3. KnownUrls /\ KnownRows /\ OneRow
  BY <1>2 DEF Init, KnownUrls, KnownRows, OneRow, NoUrl, NoCursor
<1>4. Checkpoints
  BY <1>2 DEF Init, Checkpoints, Passed, NoCursor
<1>5. Ordered
  BY <1>2 DEF Init, Ordered, SinkOrder, SinkRises, Answered, RunningOrder, Running
<1>6. Queued
  BY <1>2 DEF Init, Queued, QueuedOrder, ReplayFirst, ReplayLast, AllCovered, NoUrl
<1>. QED
  BY <1>1, <1>3, <1>4, <1>5, <1>6, Groups DEF Known

-----------------------------------------------------------------------------
(* What is finished stays finished *)

IsFinished(n, S, b, x, r, u, s) ==
    \/ n \in 1..b
    \/ n \in x
    \/ u[n] \in s /\ (n \in S \/ (n \in r /\ \E m \in S : u[m] = u[n]))

Rows == 1..log

\* What no step but a restart of the process undoes.
HistoryGrows ==
    /\ start' = start
    /\ everHidden \subseteq everHidden' /\ overtaken \subseteq overtaken'
    /\ emitted \subseteq emitted' /\ repeated \subseteq repeated' /\ seen \subseteq seen'
    /\ \A n \in 1..log : uri'[n] = uri[n]

LEMMA EmittingKnown ==
    ASSUME Typed, Known
    PROVE  /\ Emitting \subseteq 1..log /\ emitted \subseteq 1..log
           /\ repeated \subseteq 1..log /\ Excused \subseteq 1..log
<1>1. log \in Nat
  BY DEF Typed, TypeOK
<1>2. ASSUME NEW i \in DOMAIN emitting PROVE emitting[i] \in 1..log
  <2>1. i \in 1..Len(emitting) /\ emitting[i] \in Row
    BY ElementOfSeq, LenProperties DEF Typed, TypeOK
  <2>. QED
    BY <1>1, <2>1 DEF Known, KnownRows, Row
<1>. QED
  BY <1>2 DEF Emitting, Known, KnownRows, Excused

LEMMA Grown ==
    ASSUME Typed, Known, HistoryGrows
    PROVE  /\ Excused \subseteq Excused'
           /\ Finished(emitted) \subseteq Finished(emitted)'
           /\ Handed(emitted) \subseteq Handed(emitted)'
           /\ emitted \cup Emitting \subseteq emitted' \cup Emitting' => Done \subseteq Done'
<1>1. Emitting \subseteq 1..log /\ emitted \subseteq 1..log /\ repeated \subseteq 1..log
  BY EmittingKnown
<1>0. /\ emitted \cup Emitting \subseteq Rows /\ emitted \subseteq Rows /\ repeated \subseteq Rows
      /\ \A n \in Rows : uri'[n] = uri[n]
      /\ emitted \subseteq emitted' /\ repeated \subseteq repeated' /\ seen \subseteq seen'
  BY <1>1 DEF Rows, HistoryGrows
<1>2. Excused \subseteq Excused'
  BY DEF HistoryGrows, Excused
<1>3. Handed(emitted) \subseteq Handed(emitted)'
  BY <1>1 DEF HistoryGrows, Handed
<1>4. ASSUME NEW n \in Finished(emitted) PROVE n \in Finished(emitted)'
  <2>1. IsFinished(n, emitted, start, Excused, repeated, uri, seen)
    BY <1>4 DEF Finished, Handed, IsFinished
  <2>2. IsFinished(n, emitted', start, Excused', repeated', uri', seen')
    BY <1>0, <1>2, <2>1 DEF IsFinished
  <2>. QED
    BY <2>2 DEF HistoryGrows, Finished, Handed, IsFinished
<1>5. ASSUME NEW n \in Done, emitted \cup Emitting \subseteq emitted' \cup Emitting'
      PROVE  n \in Done'
  <2>1. IsFinished(n, emitted \cup Emitting, start, Excused, repeated, uri, seen)
    BY DEF Done, Finished, Handed, IsFinished
  <2>2. IsFinished(n, emitted' \cup Emitting', start, Excused', repeated', uri', seen')
    BY <1>0, <1>2, <1>5, <2>1 DEF IsFinished
  <2>. QED
    BY <2>2 DEF HistoryGrows, Done, Finished, Handed, IsFinished
<1>. QED
  BY <1>2, <1>3, <1>4, <1>5

\* What was handed over is finished before what is in transit.
LEMMA FinishedFirst ==
    /\ Finished(emitted) \subseteq Done
    /\ Excused \subseteq Done
    /\ Finished(emitted) \subseteq 1..start \cup Handed(emitted) \cup Excused
  BY DEF Done, Finished, Handed

LEMMA SinkUnchanged ==
    ASSUME UNCHANGED <<table, sink, process>>
    PROVE  /\ Done' = Done /\ Emitting' = Emitting /\ Excused' = Excused
           /\ Finished(emitted)' = Finished(emitted) /\ Handed(emitted)' = Handed(emitted)
           /\ UNCHANGED <<log, uri, deleted, hidden, everHidden, seen, emitting, cursor,
                          emitted, repeated, overtaken, proc, start>>
  BY DEF table, sink, process, Done, Emitting, Excused, Finished, Handed

-----------------------------------------------------------------------------
(* What a step can do to the queue *)

Alike(t, u) == t.kind = u.kind /\ t.url = u.url /\ t.arg = u.arg

SameQueue ==
    /\ Len(queue') = Len(queue)
    /\ \A i \in 1..Len(queue) : Alike(queue'[i], queue[i])

ShiftedQueue ==
    /\ Len(queue) = Len(queue') + 1
    /\ \A i \in 1..Len(queue') : queue'[i] = queue[i + 1]

GrownQueue(t) ==
    /\ Len(queue') = Len(queue) + 1
    /\ queue'[Len(queue) + 1] = t
    /\ \A i \in 1..Len(queue) : queue'[i] = queue[i]

LEMMA QueueIsSeq ==
    ASSUME TypeOK
    PROVE  /\ queue \in Seq(Task) /\ Len(queue) \in Nat
           /\ \A i \in 1..Len(queue) : queue[i] \in Task
           /\ emitting \in Seq(Row) /\ Len(emitting) \in Nat
           /\ \A i \in 1..Len(emitting) : emitting[i] \in Row
           /\ Emitting = {emitting[i] : i \in 1..Len(emitting)}
<1>1. queue \in Seq(Task) /\ emitting \in Seq(Row)
  BY DEF TypeOK
<1>2. Len(queue) \in Nat /\ Len(emitting) \in Nat /\ DOMAIN emitting = 1..Len(emitting)
  BY <1>1, LenProperties
<1>. QED
  BY <1>1, <1>2, ElementOfSeq DEF Emitting

LEMMA UnchangedQueue == TypeOK /\ queue' = queue => SameQueue
  BY DEF SameQueue, Alike

LEMMA ForgottenQueue == TypeOK /\ Abandon => SameQueue
  BY ForgetQueue DEF TypeOK, Abandon, SameQueue, Alike

LEMMA EndedQueue ==
    ASSUME TypeOK, queue # <<>>, queue' = Tail(queue)
    PROVE  ShiftedQueue /\ Len(queue') \in Nat /\ Head(queue) = queue[1] /\ queue[1] \in Task
  BY TailOfQueue DEF TypeOK, ShiftedQueue

LEMMA AppendedQueue ==
    ASSUME TypeOK, NEW t \in Task, queue' = Append(queue, t)
    PROVE  GrownQueue(t)
  BY AppendToQueue DEF TypeOK, GrownQueue

-----------------------------------------------------------------------------
(* Known *)

\* Every task of the new queue is one of the old queue.
LEMMA OldTasks ==
    ASSUME Typed, Typed', SameQueue \/ ShiftedQueue \/ Len(queue') = 0
    PROVE  \A i \in 1..Len(queue') : \E k \in 1..Len(queue) : Alike(queue'[i], queue[k])
<1>1. Len(queue) \in Nat /\ Len(queue') \in Nat
  BY QueueIsSeq, LenProperties DEF Typed, TypeOK
<1>. SUFFICES ASSUME NEW i \in 1..Len(queue')
              PROVE  \E k \in 1..Len(queue) : Alike(queue'[i], queue[k])
  OBVIOUS
<1>2. CASE SameQueue
  BY <1>2 DEF SameQueue
<1>3. CASE ShiftedQueue
  <2>1. i + 1 \in 1..Len(queue) /\ queue'[i] = queue[i + 1]
    BY <1>1, <1>3 DEF ShiftedQueue
  <2>. QED
    BY <2>1 DEF Alike
<1>. QED
  BY <1>1, <1>2, <1>3

\* The facts of Known that steps carry over, in one place.
LEMMA KnownFacts ==
    ASSUME Typed, Known
    PROVE  /\ registry \in Nat /\ proc \in Nat \ {0} /\ log \in Nat
           /\ cursor \in Int /\ sent \in Int /\ start \in Int
           /\ registry <= proc /\ deleted \subseteq hidden /\ hidden \subseteq everHidden
           /\ todo \subseteq 1..log /\ everHidden \subseteq 1..log /\ overtaken \subseteq 1..log
           /\ emitted \subseteq 1..log /\ repeated \subseteq 1..log
           /\ \A i \in 1..Len(emitting) : emitting[i] <= log
           /\ \A r \in requests : /\ r.url \in Nat /\ r.url <= proc
                                  /\ r.checkpoint \in Int /\ r.checkpoint <= log
                                  /\ r.url = proc => start <= r.checkpoint /\ Passed(r.checkpoint)
           /\ 1..start \subseteq Handed(emitted) \cup Excused
           /\ cursor <= log /\ sent <= log /\ start <= log
           /\ start <= cursor /\ Passed(cursor)
<1>1. \A r \in requests : r.url \in Nat /\ r.checkpoint \in Int
  BY DEF Typed, TypeOK, Request, Position, NoCursor
<1>2. /\ registry \in Nat /\ proc \in Nat \ {0} /\ log \in Nat
      /\ cursor \in Int /\ sent \in Int /\ start \in Int
  BY DEF Typed, TypeOK, Position, NoCursor
<1>. QED
  BY <1>1, <1>2 DEF Known, KnownUrls, KnownRows, Checkpoints

LEMMA TaskFacts ==
    ASSUME Typed, Known, NEW k \in 1..Len(queue)
    PROVE  /\ queue[k] \in Task /\ queue[k].url \in Nat /\ queue[k].url <= proc
           /\ queue[k].arg \in Nat /\ queue[k].arg <= log
           /\ queue[k].kind = "live" => queue[k].arg \in 1..log
           /\ queue[k].url = proc =>
                 /\ start <= queue[k].arg
                 /\ IF queue[k].kind = "replay" THEN Passed(queue[k].arg)
                    ELSE start < queue[k].arg
<1>1. queue[k] \in Task /\ log \in Nat
  BY QueueIsSeq, KnownFacts DEF Typed
<1>2. queue[k].url \in Nat /\ queue[k].arg \in Nat
  BY <1>1 DEF Task
<1>. QED
  BY <1>1, <1>2 DEF Known, KnownUrls, KnownRows, Checkpoints

\* Tasks of the new queue still name rows and processes that exist, and lie behind
\* what this process finished.
LEMMA KnownQueue ==
    ASSUME Typed, Typed', Known, SameQueue \/ ShiftedQueue \/ Len(queue') = 0,
           log <= log', (proc' = proc /\ HistoryGrows) \/ proc' = proc + 1
    PROVE  \A i \in 1..Len(queue') :
              /\ queue'[i].url <= proc' /\ queue'[i].arg <= log'
              /\ queue'[i].kind = "live" => 0 < queue'[i].arg
              /\ queue'[i].url = proc' =>
                    /\ start' <= queue'[i].arg
                    /\ IF queue'[i].kind = "replay" THEN Passed(queue[i].arg)'
                       ELSE start' < queue'[i].arg
<1>1. SUFFICES ASSUME NEW i \in 1..Len(queue')
               PROVE  /\ queue'[i].url <= proc' /\ queue'[i].arg <= log'
                      /\ queue'[i].kind = "live" => 0 < queue'[i].arg
                      /\ queue'[i].url = proc' =>
                            /\ start' <= queue'[i].arg
                            /\ IF queue'[i].kind = "replay" THEN Passed(queue[i].arg)'
                               ELSE start' < queue'[i].arg
  OBVIOUS
<1>2. PICK k \in 1..Len(queue) : Alike(queue'[i], queue[k])
  BY OldTasks
<1>3. /\ queue[k].url \in Nat /\ queue[k].url <= proc
      /\ queue[k].arg \in Nat /\ queue[k].arg <= log
      /\ queue[k].kind = "live" => queue[k].arg \in 1..log
      /\ queue[k].url = proc =>
            /\ start <= queue[k].arg
            /\ IF queue[k].kind = "replay" THEN Passed(queue[k].arg) ELSE start < queue[k].arg
  BY TaskFacts
<1>4. log \in Nat /\ log' \in Nat /\ proc \in Nat /\ start \in Int
  BY KnownFacts DEF Typed, TypeOK
<1>5. CASE proc' = proc /\ HistoryGrows
  <2>1. Passed(queue[k].arg) => 1..queue[k].arg \subseteq Finished(emitted)'
    BY <1>5, Grown DEF Passed
  <2>. QED
    BY <1>2, <1>3, <1>4, <1>5, <2>1 DEF Alike, Passed, HistoryGrows
<1>6. CASE proc' = proc + 1
  BY <1>2, <1>3, <1>4, <1>6 DEF Alike
<1>. QED
  BY <1>5, <1>6

\* Known holds of the new state when the queue loses or keeps tasks and the rest
\* of the state is known.
LEMMA KnownFrame ==
    ASSUME Typed, Typed', Known, SameQueue \/ ShiftedQueue \/ Len(queue') = 0,
           (proc' = proc /\ HistoryGrows) \/ proc' = proc + 1,
           UNCHANGED <<log, uri>>, deleted \subseteq deleted',
           registry' <= proc', deleted' \subseteq hidden', hidden' \subseteq everHidden',
           todo' \subseteq 1..log, everHidden' \subseteq 1..log, overtaken' \subseteq 1..log,
           emitted' \subseteq 1..log, repeated' \subseteq 1..log,
           \A i \in 1..Len(emitting') : emitting'[i] <= log,
           \A r \in requests' : /\ r.url <= proc' /\ r.checkpoint <= log
                                /\ r.url = proc' => start' <= r.checkpoint /\ Passed(r.checkpoint)',
           1..start' \subseteq Handed(emitted)' \cup Excused',
           cursor' <= log, sent' <= log, start' <= log, start' <= cursor', Passed(cursor)'
    PROVE  Known'
<1>1. log \in Nat
  BY KnownFacts
<1>2. \A i \in 1..Len(queue') :
         /\ queue'[i].url <= proc' /\ queue'[i].arg <= log'
         /\ queue'[i].kind = "live" => 0 < queue'[i].arg
         /\ queue'[i].url = proc' =>
               /\ start' <= queue'[i].arg
               /\ IF queue'[i].kind = "replay" THEN Passed(queue[i].arg)'
                  ELSE start' < queue'[i].arg
  BY <1>1, KnownQueue
<1>3. KnownUrls' /\ KnownRows'
  BY <1>2 DEF KnownUrls, KnownRows
<1>4. OneRow'
  BY DEF Known, OneRow
<1>5. Checkpoints'
  BY <1>2 DEF Checkpoints
<1>. QED
  BY <1>3, <1>4, <1>5 DEF Known

\* Steps that leave the rows and the sink alone.
LEMMA KnownSame ==
    ASSUME Typed, Typed', Known, SameQueue \/ ShiftedQueue \/ Len(queue') = 0,
           UNCHANGED <<table, sink, process>>, registry' <= proc, todo' \subseteq 1..log,
           \A r \in requests' : \/ \E q \in requests : r.url = q.url /\ r.checkpoint = q.checkpoint
                                \/ r.url = proc /\ r.checkpoint = cursor,
           sent' <= log
    PROVE  Known'
<1>1. HistoryGrows /\ proc' = proc
  BY SinkUnchanged DEF HistoryGrows
<1>2. Finished(emitted)' = Finished(emitted) /\ Handed(emitted)' = Handed(emitted)
  BY SinkUnchanged
<1>3. \A r \in requests' : /\ r.url <= proc' /\ r.checkpoint <= log
                           /\ r.url = proc' => start' <= r.checkpoint /\ Passed(r.checkpoint)'
  BY <1>1, <1>2, KnownFacts DEF Passed, HistoryGrows
<1>4. 1..start' \subseteq Handed(emitted)' \cup Excused' /\ Passed(cursor)'
  BY <1>2, KnownFacts, SinkUnchanged DEF Passed
<1>. QED
  BY <1>1, <1>3, <1>4, KnownFacts, KnownFrame, SinkUnchanged

LEMMA KnownAccept ==
    ASSUME Typed, Typed', Known, NEW r \in requests, Accept(r)
    PROVE  Known'
<1>. DEFINE t == [kind |-> "replay", url |-> r.url, arg |-> After(r.checkpoint), awaited |-> r.awaited]
<1>0. /\ UNCHANGED <<table, sink, process>> /\ UNCHANGED <<todo, sent>>
      /\ registry' = r.url /\ requests' \subseteq requests
  BY DEF Accept
<1>1. /\ r.url \in 1..MaxProc /\ r.url <= proc /\ r.checkpoint \in Position
      /\ r.checkpoint <= log /\ r.awaited \in BOOLEAN
      /\ r.url = proc => start <= r.checkpoint /\ Passed(r.checkpoint)
  BY KnownFacts DEF Typed, TypeOK, Request
<1>2. /\ t \in Task /\ t.url = r.url /\ t.arg <= log /\ t.kind = "replay"
      /\ r.url = proc => start <= t.arg /\ Passed(t.arg)
  <2>1. log \in 0..MaxSeq /\ (r.checkpoint = NoCursor \/ r.checkpoint \in 0..MaxSeq)
    BY <1>1 DEF Typed, TypeOK, Position
  <2>2. After(r.checkpoint) \in 0..log /\ After(r.checkpoint) \in 0..MaxSeq
    BY <1>1, <2>1, PushAssumption DEF After
  <2>3. r.url = proc => Passed(After(r.checkpoint)) /\ start <= After(r.checkpoint)
    BY <1>1, <2>1, KnownFacts DEF After, Passed, NoCursor
  <2>4. t \in Task
    BY <1>1, <2>1, <2>2 DEF Task
  <2>. QED
    BY <1>1, <2>1, <2>2, <2>3, <2>4
<1>. HIDE DEF t
<1>3. GrownQueue(t)
  BY <1>2, AppendedQueue DEF Accept, Typed, t
<1>4. /\ Len(queue) \in Nat
      /\ \A i \in 1..Len(queue') : (i \in 1..Len(queue) /\ queue'[i] = queue[i]) \/ queue'[i] = t
  BY <1>3, QueueIsSeq DEF GrownQueue, Typed
<1>5. /\ UNCHANGED <<log, uri, deleted, hidden, everHidden, emitting, cursor, emitted, repeated,
                     overtaken, proc, start>>
      /\ Finished(emitted)' = Finished(emitted) /\ Handed(emitted)' = Handed(emitted)
      /\ Excused' = Excused
  BY <1>0, SinkUnchanged
<1>6. KnownUrls' /\ KnownRows' /\ OneRow'
  BY <1>0, <1>1, <1>2, <1>4, <1>5 DEF Known, KnownUrls, KnownRows, OneRow
<1>7. Checkpoints'
  <2>1. ASSUME NEW i \in 1..Len(queue'), queue'[i].url = proc
        PROVE  /\ start <= queue'[i].arg
               /\ IF queue'[i].kind = "replay" THEN 1..queue'[i].arg \subseteq Finished(emitted)
                  ELSE start < queue'[i].arg
    BY <1>2, <1>4, <2>1, TaskFacts DEF Passed
  <2>. QED
    BY <1>0, <1>5, <2>1, KnownFacts DEF Checkpoints, Passed
<1>. QED
  BY <1>6, <1>7 DEF Known

\* A row is written under a URI that has no other row left.
LEMMA InsertOneRow ==
    ASSUME Typed, Typed', Known, NEW u \in Row, Insert(u)
    PROVE  OneRow' /\ \A n \in 1..log : uri'[n] = uri[n]
<1>1. /\ log \in Nat /\ log' = log + 1 /\ log' \in Row /\ deleted' = deleted
      /\ uri \in [Row -> Row] /\ uri' = [uri EXCEPT ![log + 1] = u]
      /\ \A n \in 1..log : n \in Row
  <2>1. log \in Nat /\ log' = log + 1 /\ deleted' = deleted /\ uri' = [uri EXCEPT ![log + 1] = u]
    BY KnownFacts DEF Insert
  <2>2. uri \in [Row -> Row] /\ log' \in 0..MaxSeq /\ MaxSeq \in Nat
    BY PushAssumption DEF Typed, TypeOK
  <2>. QED
    BY <2>1, <2>2 DEF Row
<1>2. uri'[log + 1] = u /\ \A n \in 1..log : uri'[n] = uri[n]
  BY <1>1
<1>3. /\ \A n \in 1..log : uri[n] \in 1..n
      /\ \A m, n \in 1..log : m < n /\ uri[m] = uri[n] => m \in deleted
  BY DEF Known, OneRow
<1>4. u = log + 1 \/ (u \in 1..log /\ \A n \in 1..log : uri[n] = u => n \in deleted)
  <2>1. SUFFICES ASSUME NEW m \in deleted, uri[m] = u PROVE u \in 1..log
    BY DEF Insert, Unindexed
  <2>2. m \in 1..log
    BY KnownFacts
  <2>3. u \in 1..m
    BY <1>3, <2>1, <2>2
  <2>. QED
    BY <1>1, <2>2, <2>3
<1>5. ASSUME NEW n \in 1..log' PROVE n \in 1..log \/ n = log + 1
  BY <1>1
<1>6. \A n \in 1..log' : uri'[n] \in 1..n
  BY <1>1, <1>2, <1>3, <1>4, <1>5
<1>7. ASSUME NEW m \in 1..log', NEW n \in 1..log', m < n, uri'[m] = uri'[n] PROVE m \in deleted
  <2>1. m \in 1..log
    BY <1>1, <1>7
  <2>2. CASE n \in 1..log
    BY <1>2, <1>3, <1>7, <2>1, <2>2
  <2>3. CASE n = log + 1
    <3>1. uri[m] = u /\ uri[m] \in 1..m
      BY <1>2, <1>3, <1>7, <2>1, <2>3
    <3>. QED
      BY <1>1, <1>4, <2>1, <3>1
  <2>. QED
    BY <1>5, <2>2, <2>3
<1>. QED
  BY <1>1, <1>2, <1>6, <1>7 DEF OneRow

\* Nothing that was finished or handed over concerns the new row.
LEMMA InsertKeeps ==
    ASSUME Typed, Typed', Known, NEW u \in Row, Insert(u)
    PROVE  /\ Done' = Done /\ Emitting' = Emitting /\ Excused' = Excused
           /\ Finished(emitted)' = Finished(emitted) /\ Handed(emitted)' = Handed(emitted)
<1>1. \A n \in 1..log : uri'[n] = uri[n]
  BY InsertOneRow
<1>2. /\ UNCHANGED <<start, everHidden, overtaken, repeated, seen, emitted, emitting>>
      /\ Emitting' = Emitting /\ Excused' = Excused
  BY DEF Insert, sink, process, Emitting, Excused
<1>3. /\ Emitting \subseteq 1..log /\ emitted \subseteq 1..log
      /\ repeated \subseteq 1..log /\ Excused \subseteq 1..log
  BY EmittingKnown
<1>4. Handed(emitted)' = Handed(emitted) /\ Handed(emitted \cup Emitting)' = Handed(emitted \cup Emitting)
  BY <1>1, <1>2, <1>3 DEF Handed
<1>5. Handed(emitted) \subseteq 1..log /\ Handed(emitted \cup Emitting) \subseteq 1..log
  BY <1>3 DEF Handed
<1>6. Finished(emitted)' = Finished(emitted)
  BY <1>1, <1>2, <1>4, <1>5 DEF Finished
<1>7. Done' = Done
  BY <1>1, <1>2, <1>4, <1>5 DEF Done, Finished
<1>. QED
  BY <1>2, <1>4, <1>6, <1>7

LEMMA KnownInsert ==
    ASSUME Typed, Typed', Known, NEW u \in Row, Insert(u)
    PROVE  Known'
<1>1. /\ log' = log + 1
      /\ UNCHANGED <<deleted, hidden, everHidden, registry, requests, todo, sent, proc, start,
                     emitting, cursor, emitted, repeated, overtaken>>
      /\ queue' = IF registry = NoUrl THEN queue ELSE Append(queue, Live(registry, log + 1))
  BY DEF Insert, call, sink, process
<1>2. log \in Nat /\ 1..log \subseteq 1..log' /\ start <= log
  BY <1>1, KnownFacts
<1>3. OneRow'
  BY InsertOneRow
<1>. DEFINE t == Live(registry, log + 1)
<1>4. registry # NoUrl =>
        /\ t \in Task /\ t.url = registry /\ t.url <= proc /\ t.arg = log + 1 /\ t.kind = "live"
  BY KnownFacts DEF Insert, Live, Task, NoUrl, Typed, TypeOK
<1>. HIDE DEF t
<1>5. /\ Len(queue) \in Nat
      /\ \A i \in 1..Len(queue') : \/ i \in 1..Len(queue) /\ queue'[i] = queue[i]
                                   \/ queue'[i] = t /\ registry # NoUrl
  <2>1. CASE registry = NoUrl
    BY <1>1, <2>1, QueueIsSeq DEF Typed
  <2>2. CASE registry # NoUrl
    <3>1. GrownQueue(t)
      BY <1>1, <1>4, <2>2, AppendedQueue DEF Typed, t
    <3>. QED
      BY <2>2, <3>1, QueueIsSeq DEF GrownQueue, Typed
  <2>. QED
    BY <2>1, <2>2
<1>6. ASSUME NEW i \in 1..Len(queue')
      PROVE  /\ queue'[i].url <= proc /\ queue'[i].arg <= log'
             /\ queue'[i].kind = "live" => 0 < queue'[i].arg
             /\ queue'[i].url = proc =>
                   /\ start <= queue'[i].arg
                   /\ IF queue'[i].kind = "replay"
                      THEN 1..queue'[i].arg \subseteq Finished(emitted)
                      ELSE start < queue'[i].arg
  <2>1. CASE i \in 1..Len(queue) /\ queue'[i] = queue[i]
    BY <1>1, <1>2, <2>1, TaskFacts DEF Passed
  <2>2. CASE queue'[i] = t /\ registry # NoUrl
    BY <1>1, <1>2, <1>4, <2>2, KnownFacts
  <2>. QED
    BY <1>5, <2>1, <2>2
<1>7. KnownUrls'
  BY <1>1, <1>6, KnownFacts DEF KnownUrls
<1>8. KnownRows'
  <2>1. \A i \in 1..Len(emitting') : emitting'[i] <= log'
    BY <1>1, KnownFacts, QueueIsSeq DEF Typed, Row
  <2>2. cursor' <= log' /\ sent' <= log' /\ start' <= log' /\ \A r \in requests' : r.checkpoint <= log'
    BY <1>1, KnownFacts
  <2>. QED
    BY <1>1, <1>2, <1>6, <2>1, <2>2, KnownFacts DEF KnownRows
<1>9. Checkpoints'
  <2>1. Finished(emitted)' = Finished(emitted) /\ Handed(emitted)' = Handed(emitted) /\ Excused' = Excused
    BY InsertKeeps
  <2>. QED
    BY <1>1, <1>6, <2>1, KnownFacts DEF Checkpoints, Passed
<1>. QED
  BY <1>3, <1>7, <1>8, <1>9 DEF Known

LEMMA KnownStep == IInv /\ Typed' /\ [Next]_vars => Known'
<1>. SUFFICES ASSUME IInv, Typed', [Next]_vars PROVE Known'
  OBVIOUS
<1>. Typed /\ Known /\ Ordered
  BY Groups
<1>. USE KnownFacts
<1>1. ASSUME NEW u \in Row, Insert(u) PROVE Known'
  BY <1>1, KnownInsert
<1>2. ASSUME NEW n \in Row, Delete(n) \/ Hide(n) \/ Reveal(n) PROVE Known'
  <2>1. /\ UNCHANGED <<log, uri, queue, registry, requests, todo, sent, seen, emitting, cursor,
                       emitted, repeated, overtaken, proc, start>>
        /\ deleted \subseteq deleted' /\ deleted' \subseteq hidden'
        /\ hidden' \subseteq everHidden' /\ everHidden \subseteq everHidden'
        /\ everHidden' \subseteq 1..log
    BY <1>2 DEF Delete, Hide, Reveal, HideRow, appview, call, sink, process
  <2>2. SameQueue /\ HistoryGrows
    BY <2>1, UnchangedQueue DEF Typed, HistoryGrows
  <2>3. /\ Finished(emitted) \subseteq Finished(emitted)'
        /\ Handed(emitted) \subseteq Handed(emitted)' /\ Excused \subseteq Excused'
    BY <2>2, Grown
  <2>4. \A r \in requests' : /\ r.url <= proc' /\ r.checkpoint <= log
                             /\ r.url = proc' => start' <= r.checkpoint /\ Passed(r.checkpoint)'
    BY <2>1, <2>3 DEF Passed
  <2>5. 1..start' \subseteq Handed(emitted)' \cup Excused' /\ Passed(cursor)'
    BY <2>1, <2>3 DEF Passed
  <2>. QED
    BY <2>1, <2>2, <2>4, <2>5, KnownFrame
<1>3. ASSUME NEW r \in requests, Accept(r) PROVE Known'
  BY <1>3, KnownAccept
<1>4. ASSUME NEW r \in requests, LoseRequest(r) PROVE Known'
  <2>1. SameQueue
    BY <1>4, UnchangedQueue DEF LoseRequest, appview, Typed
  <2>. QED
    BY <1>4, <2>1, KnownSame DEF LoseRequest, appview
<1>5. CASE SkipSuperseded
  <2>1. ShiftedQueue
    BY <1>5, EndedQueue DEF SkipSuperseded, EndTask, Typed
  <2>. QED
    BY <1>5, <2>1, KnownSame DEF SkipSuperseded, EndTask
<1>6. CASE StartTask
  <2>1. SameQueue \/ ShiftedQueue
    BY <1>6, EndedQueue, UnchangedQueue DEF StartTask, EndTask, Typed
  <2>2. todo' \subseteq 1..log
    BY <1>6 DEF StartTask, EndTask, RowsOf
  <2>. QED
    BY <1>6, <2>1, <2>2, KnownSame DEF StartTask
<1>7. CASE Hydrated
  <2>0. queue # <<>>
    BY <1>7 DEF Hydrated, Typed, HeadTask, Running
  <2>1. SameQueue \/ ShiftedQueue
    BY <1>7, <2>0, EndedQueue, UnchangedQueue DEF Hydrated, EndTask, Typed
  <2>. QED
    BY <1>7, <2>1, KnownSame DEF Hydrated, EndTask
<1>8. CASE HydrationThrows
  <2>0. queue # <<>>
    BY <1>8 DEF HydrationThrows, Typed, HeadTask, Running
  <2>1. ShiftedQueue
    BY <1>8, <2>0, EndedQueue DEF HydrationThrows, Typed
  <2>2. registry' \in {registry, NoUrl}
    BY <1>8 DEF HydrationThrows, DropRegistration
  <2>. QED
    BY <1>8, <2>1, <2>2, KnownSame DEF HydrationThrows, NoUrl, call
<1>9. CASE PostOk
  <2>0. queue # <<>>
    BY <1>9 DEF PostOk, Typed, HeadTask, Running
  <2>1. SameQueue \/ ShiftedQueue
    BY <1>9, <2>0, EndedQueue, UnchangedQueue DEF PostOk, EndTask, Typed
  <2>2. todo' \subseteq todo
    BY <1>9 DEF PostOk, EndTask
  <2>. QED
    BY <1>9, <2>1, <2>2, KnownSame DEF PostOk
<1>10. CASE PostFails
  <2>0. queue # <<>>
    BY <1>10 DEF PostFails, Typed, HeadTask, Running
  <2>1. ShiftedQueue
    BY <1>10, <2>0, EndedQueue DEF PostFails, EndTask, Typed
  <2>2. registry' \in {registry, NoUrl}
    BY <1>10 DEF PostFails, DropRegistration
  <2>. QED
    BY <1>10, <2>1, <2>2, KnownSame DEF PostFails, EndTask, NoUrl
<1>11. CASE AppViewRestart
  <2>1. Len(queue') = 0
    BY <1>11, EmptySeq DEF AppViewRestart
  <2>. QED
    BY <1>11, <2>1, KnownSame DEF AppViewRestart, NoUrl, call
<1>12. CASE TryRegister
  <2>1. SameQueue
    BY <1>12, UnchangedQueue DEF TryRegister, appview, Typed
  <2>2. \A r \in requests' : r \in requests \/ (r.url = proc /\ r.checkpoint = cursor)
    BY <1>12 DEF TryRegister
  <2>. QED
    BY <1>12, <2>1, <2>2, KnownSame DEF TryRegister, appview
<1>13. CASE RegisterDone
  <2>1. SameQueue
    BY <1>13, UnchangedQueue DEF RegisterDone, appview, Typed
  <2>2. /\ UNCHANGED <<table, requests, todo, registry, seen, emitting, emitted, repeated, overtaken,
                       proc, start>>
        /\ HistoryGrows
    BY <1>13 DEF RegisterDone, table, appview, process, HistoryGrows
  <2>3. sent' = NoCursor /\ (cursor' = cursor \/ (cursor' = 0 /\ cursor = NoCursor))
    BY <1>13 DEF RegisterDone, SwappedCursor, After
  <2>4. /\ Finished(emitted) \subseteq Finished(emitted)'
        /\ Handed(emitted) \subseteq Handed(emitted)' /\ Excused \subseteq Excused'
    BY <2>2, Grown
  <2>5. \A r \in requests' : /\ r.url <= proc' /\ r.checkpoint <= log
                             /\ r.url = proc' => start' <= r.checkpoint /\ Passed(r.checkpoint)'
    BY <2>2, <2>4 DEF Passed
  <2>6. 1..start' \subseteq Handed(emitted)' \cup Excused' /\ Passed(cursor)'
    BY <2>2, <2>3, <2>4 DEF Passed
  <2>7. cursor' <= log /\ sent' <= log /\ start' <= cursor'
    BY <2>2, <2>3 DEF NoCursor
  <2>. QED
    BY <2>1, <2>2, <2>5, <2>6, <2>7, KnownFrame DEF table
<1>14. CASE RegisterFails
  <2>1. SameQueue
    BY <1>14, ForgottenQueue DEF RegisterFails, Typed
  <2>2. \A r \in requests' : \E q \in requests : r.url = q.url /\ r.checkpoint = q.checkpoint
    BY <1>14 DEF RegisterFails, Abandon, Typed, TypeOK, Request
  <2>3. sent' <= log
    BY <1>14 DEF RegisterFails, Abandon, NoCursor
  <2>. QED
    BY <1>14, <2>1, <2>2, <2>3, KnownSame DEF RegisterFails
<1>15. CASE HandlePost
  <2>1. SameQueue /\ queue # <<>> /\ Head(queue) = queue[1] /\ 1 \in 1..Len(queue)
    BY <1>15, UnchangedQueue, TailOfQueue DEF HandlePost, Typed, TypeOK, HeadTask, Running
  <2>2. /\ UNCHANGED <<table, registry, todo, requests, sent, cursor, emitted, process>>
        /\ UNCHANGED <<log, uri, deleted, hidden, everHidden, proc, start>>
    BY <1>15 DEF HandlePost, table, call, process
  <2>3. PICK n \in todo :
          /\ repeated' = repeated \/ repeated' = repeated \cup ({n} \ emitted)
          /\ seen \subseteq seen' /\ (emitting' = emitting \/ emitting' = Append(emitting, n))
          /\ overtaken' = overtaken \/ overtaken' = overtaken \cup Passes(n)
    BY <1>15 DEF HandlePost
  <2>4. n \in 1..log /\ Passes(n) \subseteq 1..log
    <3>1. n \in 1..log /\ log \in Nat
      OBVIOUS
    <3>2. Head(queue).arg \in Nat
      BY <2>1, TaskFacts
    <3>3. (Head(queue).arg + 1)..(n - 1) \subseteq 1..log
      BY <3>1, <3>2
    <3>. QED
      BY <3>1, <3>3 DEF Passes
  <2>5. HistoryGrows
    BY <2>2, <2>3 DEF HistoryGrows
  <2>6. /\ Finished(emitted) \subseteq Finished(emitted)'
        /\ Handed(emitted) \subseteq Handed(emitted)' /\ Excused \subseteq Excused'
    BY <2>5, Grown
  <2>7. repeated' \subseteq 1..log /\ overtaken' \subseteq 1..log
    BY <2>3, <2>4
  <2>8. \A i \in 1..Len(emitting') : emitting'[i] <= log
    <3>1. CASE emitting' = emitting
      BY <3>1
    <3>2. CASE emitting' = Append(emitting, n)
      <4>1. n \in Row /\ n <= log /\ emitting \in Seq(Row) /\ Len(emitting) \in Nat
        BY <2>4, QueueIsSeq DEF Typed, TypeOK
      <4>2. /\ Len(emitting') = Len(emitting) + 1 /\ emitting'[Len(emitting) + 1] = n
            /\ \A i \in 1..Len(emitting) : emitting'[i] = emitting[i]
        BY <3>2, <4>1, AppendToQueue
      <4>. QED
        BY <4>1, <4>2
    <3>. QED
      BY <2>3, <3>1, <3>2
  <2>9. \A r \in requests' : /\ r.url <= proc' /\ r.checkpoint <= log
                             /\ r.url = proc' => start' <= r.checkpoint /\ Passed(r.checkpoint)'
    BY <2>2, <2>6 DEF Passed
  <2>10. 1..start' \subseteq Handed(emitted)' \cup Excused' /\ Passed(cursor)'
    BY <2>2, <2>6 DEF Passed
  <2>. QED
    BY <2>1, <2>2, <2>5, <2>7, <2>8, <2>9, <2>10, KnownFrame
<1>16. CASE EmitDone
  <2>1. SameQueue
    BY <1>16, UnchangedQueue DEF EmitDone, Typed
  <2>2. /\ Len(emitting) \in Nat \ {0} /\ Len(emitting') = Len(emitting) - 1
        /\ Head(emitting) = emitting[1] /\ emitting[1] \in Row
        /\ \A i \in 1..Len(emitting') : emitting'[i] = emitting[i + 1]
    BY <1>16, TailOfQueue DEF EmitDone, Typed, TypeOK
  <2>3. /\ emitting[1] <= log /\ emitting[1] \in 1..log /\ 1 \in 1..Len(emitting)
        /\ \A i \in 1..Len(emitting') : emitting'[i] <= log
    <3>1. log \in Nat /\ \A i \in 1..Len(emitting) : emitting[i] <= log
      OBVIOUS
    <3>2. 1 \in 1..Len(emitting) /\ \A i \in 1..Len(emitting') : i + 1 \in 1..Len(emitting)
      BY <2>2
    <3>3. emitting[1] \in Nat /\ emitting[1] >= 1
      BY <2>2 DEF Row
    <3>4. emitting[1] <= log
      BY <3>1, <3>2
    <3>5. emitting[1] \in 1..log
      BY <3>1, <3>3, <3>4
    <3>6. ASSUME NEW i \in 1..Len(emitting') PROVE emitting'[i] <= log
      BY <2>2, <3>1, <3>2
    <3>. QED
      BY <3>2, <3>4, <3>5, <3>6
  <2>4. /\ UNCHANGED <<log, uri, deleted, hidden, everHidden, registry, todo, requests, sent, seen,
                       repeated, overtaken, proc, start>>
        /\ cursor' = emitting[1] /\ emitted' = emitted \cup {emitting[1]}
    BY <1>16, <2>2 DEF EmitDone, table, call, process
  <2>5. HistoryGrows
    BY <2>4 DEF HistoryGrows
  <2>6. /\ Finished(emitted) \subseteq Finished(emitted)'
        /\ Handed(emitted) \subseteq Handed(emitted)' /\ Excused \subseteq Excused'
    BY <2>5, Grown
  <2>7. /\ 1..(emitting[1] - 1) \subseteq Finished(emitted)
        /\ uri[emitting[1]] \in seen /\ start < emitting[1]
    <3>1. emitting[1] \in Emitting
      BY <2>3, QueueIsSeq DEF Typed
    <3>2. emitted \cup {emitting[j] : j \in 1..(1 - 1)} = emitted
      OBVIOUS
    <3>3. 1..(emitting[1] - 1) \subseteq Finished(emitted \cup {emitting[j] : j \in 1..(1 - 1)})
      BY <2>3 DEF Ordered, SinkOrder
    <3>. QED
      BY <3>1, <3>2, <3>3 DEF Ordered, SinkOrder
  <2>8. emitting[1] \in Finished(emitted)'
    BY <2>4, <2>7 DEF Finished, Handed
  <2>9. Passed(cursor)'
    <3>1. 1..emitting[1] \subseteq (1..(emitting[1] - 1)) \cup {emitting[1]}
      BY <2>3
    <3>. QED
      BY <2>4, <2>6, <2>7, <2>8, <3>1 DEF Passed
  <2>10. \A r \in requests' : /\ r.url <= proc' /\ r.checkpoint <= log
                              /\ r.url = proc' => start' <= r.checkpoint /\ Passed(r.checkpoint)'
    BY <2>4, <2>6 DEF Passed
  <2>11. 1..start' \subseteq Handed(emitted)' \cup Excused'
    BY <2>4, <2>6
  <2>12. start' <= cursor' /\ emitted' \subseteq 1..log /\ cursor' <= log
    BY <2>3, <2>4, <2>7
  <2>. QED
    BY <2>1, <2>3, <2>4, <2>5, <2>9, <2>10, <2>11, <2>12, KnownFrame
<1>17. CASE ProcRestart
  <2>1. SameQueue
    BY <1>17, ForgottenQueue DEF ProcRestart, Typed
  <2>2. \A r \in requests' : \E q \in requests : r.url = q.url /\ r.checkpoint = q.checkpoint
    BY <1>17 DEF ProcRestart, Abandon, Typed, TypeOK, Request
  <2>3. /\ Len(emitting') = 0 /\ proc' = proc + 1 /\ start' = cursor /\ sent' = NoCursor
        /\ UNCHANGED <<log, uri, deleted, hidden, everHidden, registry, todo, cursor, emitted,
                       repeated, overtaken>>
    BY <1>17, EmptySeq DEF ProcRestart, Abandon, table
  <2>4. Handed(emitted)' = Handed(emitted) /\ Excused' = Excused
    BY <2>3 DEF Handed, Excused
  <2>5. 1..cursor \subseteq Handed(emitted) \cup Excused
    BY FinishedFirst DEF Passed
  <2>6. Passed(cursor)'
    BY <2>3 DEF Passed, Finished
  <2>7. \A r \in requests' : r.url <= proc' /\ r.url # proc' /\ r.checkpoint <= log
    BY <2>2, <2>3
  <2>. QED
    BY <2>1, <2>3, <2>4, <2>5, <2>6, <2>7, KnownFrame DEF NoCursor
<1>18. CASE UNCHANGED vars
  <2>1. SameQueue
    BY <1>18, UnchangedQueue DEF vars, appview, Typed
  <2>. QED
    BY <1>18, <2>1, KnownSame DEF vars, appview, call
<1>. QED
  BY <1>1, <1>2, <1>3, <1>4, <1>5, <1>6, <1>7, <1>8, <1>9, <1>10, <1>11, <1>12,
     <1>13, <1>14, <1>15, <1>16, <1>17, <1>18 DEF Next, AppViewNext, McpNext

-----------------------------------------------------------------------------
(* Ordered *)

\* The rows handed over before position i of the sink.
Before(i) == emitted \cup {emitting[j] : j \in 1..(i - 1)}

\* Steps that leave the sink's rows alone: what was in order stays in order.
LEMMA SinkFrame ==
    ASSUME Typed, Known, Ordered, HistoryGrows,
           UNCHANGED <<emitting, seen, cursor, emitted>>
    PROVE  SinkOrder' /\ SinkRises' /\ Emitting' = Emitting /\ Done \subseteq Done'
<1>1. /\ Emitting \subseteq 1..log /\ emitted \subseteq 1..log /\ repeated \subseteq 1..log
      /\ Emitting' = Emitting
  BY EmittingKnown DEF Emitting
<1>2. Excused \subseteq Excused' /\ Done \subseteq Done'
  BY <1>1, Grown
<1>3. \A n \in 1..log : uri'[n] = uri[n]
  BY DEF HistoryGrows
<1>4. seen' \subseteq {uri'[n] : n \in emitted' \cup Emitting'}
  BY <1>1, <1>3 DEF Ordered, SinkOrder
<1>5. \A n \in Emitting' : uri'[n] \in seen' /\ start' < n
  BY <1>1, <1>3 DEF Ordered, SinkOrder, HistoryGrows
<1>6. ASSUME NEW i \in 1..Len(emitting), NEW m \in 1..(emitting[i] - 1)
      PROVE  m \in Finished(emitted \cup {emitting[j] : j \in 1..(i - 1)})'
  <2>1. m \in Finished(emitted \cup {emitting[j] : j \in 1..(i - 1)})
    BY <1>6 DEF Ordered, SinkOrder
  <2>2. IsFinished(m, Before(i), start, Excused, repeated, uri, seen)
    BY <2>1 DEF Finished, Handed, IsFinished, Before
  <2>3. Before(i) \subseteq Rows
    <3>1. Emitting = {emitting[j] : j \in 1..Len(emitting)} /\ Len(emitting) \in Nat
      BY QueueIsSeq DEF Typed
    <3>2. \A j \in 1..(i - 1) : j \in 1..Len(emitting)
      BY <3>1
    <3>. QED
      BY <1>1, <3>1, <3>2 DEF Before, Rows
  <2>4. IsFinished(m, Before(i), start, Excused', repeated', uri', seen')
    <3>1. repeated \subseteq Rows /\ \A n \in Rows : uri'[n] = uri[n]
      BY <1>1, <1>3 DEF Rows
    <3>2. repeated \subseteq repeated' /\ seen \subseteq seen'
      BY DEF HistoryGrows
    <3>. QED
      BY <1>2, <2>2, <2>3, <3>1, <3>2 DEF IsFinished
  <2>. QED
    BY <2>4 DEF HistoryGrows, Finished, Handed, IsFinished, Before
<1>7. SinkOrder'
  BY <1>4, <1>5, <1>6 DEF SinkOrder
<1>8. SinkRises'
  BY <1>2 DEF Ordered, SinkRises
<1>. QED
  BY <1>1, <1>2, <1>7, <1>8

LEMMA SinkSame ==
    ASSUME Typed, Known, Ordered, UNCHANGED <<table, sink, process>>
    PROVE  SinkOrder' /\ SinkRises' /\ Emitting' = Emitting /\ Done' = Done
<1>1. HistoryGrows
  BY SinkUnchanged DEF HistoryGrows
<1>. QED
  BY <1>1, SinkFrame, SinkUnchanged

LEMMA IdleOrder ==
    ASSUME phase' = "idle"
    PROVE  Answered' /\ RunningOrder'
  BY DEF Answered, RunningOrder, Running

LEMMA HeadFacts ==
    ASSUME Typed, Running
    PROVE  queue # <<>> /\ Head(queue) = queue[1] /\ queue[1] \in Task /\ 1 \in 1..Len(queue)
  BY TailOfQueue DEF Typed, TypeOK, HeadTask

\* The rows the head task is for are handled, or are among those it reads.
LEMMA HeadReads ==
    ASSUME Typed, Known, queue # <<>>, queue[1].url = proc, NEW m \in 1..log,
           queue[1].kind = "replay" \/ queue[1].arg = m
    PROVE  m \in Done \cup RowsOf(Head(queue))
<1>1. /\ Head(queue) = queue[1] /\ queue[1] \in Task /\ 1 \in 1..Len(queue)
  BY TailOfQueue DEF Typed, TypeOK
<1>2. m \in hidden => m \in Done
  BY KnownFacts, FinishedFirst DEF Excused
<1>3. CASE queue[1].kind = "replay" /\ m <= queue[1].arg
  <2>1. Passed(queue[1].arg) /\ m \in 1..queue[1].arg
    BY <1>1, <1>3, TaskFacts DEF Task
  <2>. QED
    BY <2>1, FinishedFirst DEF Passed
<1>4. CASE queue[1].kind = "replay" /\ m > queue[1].arg
  BY <1>1, <1>2, <1>4 DEF RowsOf
<1>5. CASE queue[1].kind # "replay"
  BY <1>1, <1>2, <1>5 DEF RowsOf
<1>. QED
  BY <1>1, <1>3, <1>4, <1>5 DEF Task

\* Everything smaller than a row the head task reads is handled, read with it, or
\* passed because the record of the task has a newer row.
LEMMA StartOrder ==
    ASSUME IInv, StartTask, phase' = "hydrating"
    PROVE  RunningOrder'
<1>1. Typed /\ Known /\ Ordered /\ Queued
  BY Groups
<1>2. /\ phase = "idle" /\ queue # <<>> /\ ~Superseded /\ queue' = queue
      /\ todo' = RowsOf(Head(queue)) /\ registry' = registry
      /\ UNCHANGED <<table, sink, process>>
  BY DEF StartTask, EndTask
<1>3. /\ Head(queue) = queue[1] /\ queue[1] \in Task /\ 1 \in 1..Len(queue) /\ Len(queue) \in Nat
  BY <1>1, <1>2, TailOfQueue DEF Typed, TypeOK
<1>4. Done' = Done /\ start' = start /\ proc' = proc
  BY <1>2, SinkUnchanged
<1>5. SUFFICES ASSUME queue[1].url = proc, NEW n \in RowsOf(Head(queue))
               PROVE  /\ start < n
                      /\ \A m \in 1..(n - 1) : m \in Done \cup RowsOf(Head(queue)) \cup Passes(n)
  BY <1>2, <1>4 DEF RunningOrder, Passes
<1>6. /\ n \in 1..log /\ n \notin hidden /\ log \in Nat /\ start \in Int /\ queue[1].arg \in Nat
      /\ start <= queue[1].arg
  BY <1>1, <1>3, <1>5, KnownFacts, TaskFacts DEF RowsOf
<1>7. CASE queue[1].kind = "replay"
  <2>1. n > queue[1].arg
    BY <1>3, <1>7 DEF RowsOf
  <2>2. \A m \in 1..(n - 1) : m \in 1..log
    BY <1>6
  <2>. QED
    BY <1>1, <1>2, <1>5, <1>6, <1>7, <2>1, <2>2, HeadReads
<1>8. CASE queue[1].kind = "live"
  <2>. DEFINE a == queue[1].arg
  <2>1. /\ registry = proc /\ uri[n] = uri[a] /\ a \in 1..log /\ start < a
    BY <1>1, <1>2, <1>3, <1>5, <1>8, TaskFacts DEF Superseded, RowsOf
  <2>2. \A k, l \in 1..log : k < l /\ uri[k] = uri[l] => k \in hidden
    BY <1>1, KnownFacts DEF Known, OneRow
  <2>3. a <= n
    BY <1>6, <2>1, <2>2
  <2>4. a < n => a \in Done
    BY <1>1, <1>6, <2>1, <2>2, KnownFacts, FinishedFirst DEF Excused
  <2>5. \A m \in 1..(a - 1) : m \in Done
    <3>1. \A m \in 1..(a - 1) : Covered(m, 1)
      BY <1>1, <1>2, <1>3, <1>5, <1>8, <2>1 DEF Queued, QueuedOrder, Running
    <3>. QED
      BY <3>1 DEF Covered
  <2>6. Passes(n) = (a + 1)..(n - 1)
    BY <1>3, <1>8 DEF Passes
  <2>. HIDE DEF a
  <2>7. a \in Nat
    BY <1>6 DEF a
  <2>. QED
    BY <1>6, <2>1, <2>3, <2>4, <2>5, <2>6, <2>7
<1>. QED
  BY <1>3, <1>7, <1>8 DEF Task

\* Steps that leave the head task, the sink and the answer alone.
LEMMA OrderedFrame ==
    ASSUME Typed, Known, Ordered, HistoryGrows,
           UNCHANGED <<emitting, seen, cursor, emitted, phase, answer, todo, proc>>,
           Running => Alike(queue'[1], queue[1]) /\ Head(queue') = queue'[1]
    PROVE  Ordered'
<1>1. SinkOrder' /\ SinkRises' /\ Emitting' = Emitting /\ Done \subseteq Done'
  BY SinkFrame
<1>2. Answered'
  BY <1>1 DEF Ordered, Answered, IsNext, Running, Alike
<1>3. Running => \A n : Passes(n)' = Passes(n)
  BY HeadFacts DEF Passes, Alike
<1>4. RunningOrder'
  BY <1>1, <1>3 DEF Ordered, RunningOrder, Running, Alike, HistoryGrows
<1>. QED
  BY <1>1, <1>2, <1>4 DEF Ordered

LEMMA HeadOfSame ==
    ASSUME Typed, Typed', Running, SameQueue
    PROVE  Alike(queue'[1], queue[1]) /\ Head(queue') = queue'[1]
<1>1. 1 \in 1..Len(queue) /\ Len(queue) \in Nat /\ queue' \in Seq(Task)
  BY HeadFacts, QueueIsSeq DEF Typed, TypeOK
<1>2. queue' # <<>>
  BY <1>1, EmptySeq DEF SameQueue
<1>. QED
  BY <1>1, <1>2, TailOfQueue DEF SameQueue

LEMMA AppendHead ==
    ASSUME Typed, Running, NEW t, queue' = Append(queue, t)
    PROVE  Alike(queue'[1], queue[1]) /\ Head(queue') = queue'[1]
<1>1. 1 \in 1..Len(queue) /\ queue \in Seq(Task) /\ queue # <<>>
  BY EmptySeq, HeadFacts DEF Typed, TypeOK, HeadTask
<1>2. queue'[1] = queue[1]
  BY <1>1, AppendProperties
<1>. QED
  BY <1>2 DEF Alike

\* A POST handed to the sink: a repeat is of a record the session was handed; a
\* new row follows every smaller row of the sink, the excused ones aside.
LEMMA HandleOrder ==
    ASSUME IInv, Typed', HandlePost
    PROVE  Ordered' /\ Done \subseteq Done'
<1>1. Typed /\ Known /\ Ordered
  BY Groups
<1>2. /\ phase = "posting" /\ Head(queue).url = proc /\ Running
      /\ UNCHANGED <<queue, phase, todo, table, process, cursor, emitted>>
      /\ UNCHANGED <<log, uri, everHidden, proc, start>>
  BY <1>1 DEF HandlePost, Running, table, call, process
<1>3. /\ Head(queue) = queue[1] /\ queue # <<>> /\ emitting \in Seq(Row) /\ Len(emitting) \in Nat
  BY <1>1, <1>2, HeadFacts, QueueIsSeq DEF Typed
<1>4. PICK n \in todo :
        /\ IsNext(n)
        /\ \/ /\ uri[n] \in seen /\ answer' = "ok"
              /\ repeated' = repeated \cup ({n} \ emitted)
              /\ UNCHANGED <<seen, emitting, overtaken>>
           \/ /\ uri[n] \notin seen /\ answer' = "pending"
              /\ seen' = seen \cup {uri[n]} /\ emitting' = Append(emitting, n)
              /\ overtaken' = overtaken \cup Passes(n) /\ repeated' = repeated
           \/ /\ answer' = "error" /\ UNCHANGED <<seen, emitting, repeated, overtaken>>
  BY DEF HandlePost
<1>5. n \in 1..log /\ log \in Nat /\ todo \subseteq 1..log /\ n \in Row
  BY <1>1, KnownFacts DEF Typed, TypeOK
<1>6. /\ Emitting \subseteq 1..log /\ emitted \subseteq 1..log /\ repeated \subseteq 1..log
  BY <1>1, EmittingKnown
<1>7. HistoryGrows
  BY <1>2, <1>4 DEF HistoryGrows
<1>8. \A k : Passes(k)' = Passes(k)
  BY <1>2 DEF Passes
<1>9. /\ start < n
      /\ \A m \in 1..(n - 1) : m \in Done \cup Passes(n)
  <2>1. start < n /\ \A m \in 1..(n - 1) : m \in Done \cup todo \cup Passes(n)
    BY <1>1, <1>2, <1>3 DEF Ordered, RunningOrder
  <2>2. \A m \in todo : n <= m
    BY <1>4 DEF IsNext
  <2>. QED
    BY <1>5, <2>1, <2>2
<1>10. CASE UNCHANGED <<seen, emitting>>
  <2>1. SinkOrder' /\ SinkRises' /\ Emitting' = Emitting /\ Done \subseteq Done'
    BY <1>1, <1>2, <1>7, <1>10, SinkFrame
  <2>2. RunningOrder'
    BY <1>1, <1>2, <1>8, <2>1 DEF Ordered, RunningOrder, Running
  <2>3. ASSUME answer' = "ok", NEW k \in todo, IsNext(k)
        PROVE  k \in Done'
    <3>1. k = n
      BY <1>4, <1>5, <2>3 DEF IsNext
    <3>2. uri[n] \in seen /\ repeated' = repeated \cup ({n} \ emitted)
      BY <1>4, <2>3
    <3>3. PICK h \in emitted \cup Emitting : uri[h] = uri[n]
      BY <1>1, <3>2 DEF Ordered, SinkOrder
    <3>4. IsFinished(n, emitted \cup Emitting, start, Excused', repeated', uri, seen)
      BY <3>2, <3>3 DEF IsFinished
    <3>. QED
      BY <1>2, <1>10, <2>1, <3>1, <3>4 DEF Done, Finished, Handed, IsFinished
  <2>4. Answered'
    BY <1>2, <2>3 DEF Answered, IsNext
  <2>. QED
    BY <2>1, <2>2, <2>4 DEF Ordered
<1>11. CASE /\ uri[n] \notin seen /\ answer' = "pending"
            /\ seen' = seen \cup {uri[n]} /\ emitting' = Append(emitting, n)
            /\ overtaken' = overtaken \cup Passes(n) /\ repeated' = repeated
  <2>1. /\ emitting' \in Seq(Row) /\ Len(emitting') = Len(emitting) + 1
        /\ emitting'[Len(emitting) + 1] = n
        /\ \A i \in 1..Len(emitting) : emitting'[i] = emitting[i]
    BY <1>3, <1>5, <1>11, AppendToQueue
  <2>2. /\ Emitting = {emitting[i] : i \in 1..Len(emitting)}
        /\ Emitting' = {emitting'[i] : i \in 1..Len(emitting')}
    BY <1>3, <2>1, LenProperties DEF Emitting
  <2>3. Emitting' = Emitting \cup {n}
    BY <1>3, <2>1, <2>2
  <2>4. Done \subseteq Done' /\ Excused \subseteq Excused' /\ Passes(n) \subseteq Excused'
    BY <1>1, <1>2, <1>7, <1>11, <2>3, Grown DEF Excused
  <2>5. RunningOrder'
    BY <1>1, <1>2, <1>8, <2>4 DEF Ordered, RunningOrder, Running
  <2>6. Answered'
    BY <1>11 DEF Answered
  <2>7. seen' \subseteq {uri'[k] : k \in emitted' \cup Emitting'}
    BY <1>1, <1>2, <1>11, <2>3 DEF Ordered, SinkOrder
  <2>8. \A k \in Emitting' : uri'[k] \in seen' /\ start' < k
    BY <1>1, <1>2, <1>9, <1>11, <2>3 DEF Ordered, SinkOrder
  <2>9. ASSUME NEW i \in 1..Len(emitting'), NEW m \in 1..(emitting'[i] - 1)
        PROVE  m \in Finished(emitted \cup {emitting[j] : j \in 1..(i - 1)})'
    <3>1. /\ Before(i) \subseteq emitted' \cup {emitting'[j] : j \in 1..(i - 1)}
          /\ Before(i) \subseteq Rows
      <4>1. \A j \in 1..(i - 1) : j \in 1..Len(emitting)
        BY <1>3, <2>1
      <4>. QED
        BY <1>2, <1>6, <2>1, <2>2, <4>1 DEF Before, Rows
    <3>2. IsFinished(m, Before(i), start, Excused, repeated, uri, seen) => m \in Finished(emitted \cup {emitting[j] : j \in 1..(i - 1)})'
      <4>1. SUFFICES ASSUME IsFinished(m, Before(i), start, Excused, repeated, uri, seen)
                     PROVE  m \in Finished(emitted \cup {emitting[j] : j \in 1..(i - 1)})'
        OBVIOUS
      <4>2. IsFinished(m, emitted' \cup {emitting'[j] : j \in 1..(i - 1)}, start, Excused',
                       repeated', uri', seen')
        <5>1. repeated \subseteq Rows /\ repeated \subseteq repeated' /\ seen \subseteq seen'
          BY <1>6, <1>7 DEF Rows, HistoryGrows
        <5>2. \A k \in Rows : uri'[k] = uri[k]
          BY <1>2
        <5>. QED
          BY <2>4, <3>1, <4>1, <5>1, <5>2 DEF IsFinished
      <4>. QED
        BY <1>2, <4>2 DEF Finished, Handed, IsFinished
    <3>3. CASE i = Len(emitting) + 1
      <4>1. m \in Done \cup Passes(n)
        BY <1>9, <2>1, <2>9, <3>3
      <4>2. CASE m \in Passes(n)
        BY <2>4, <4>2 DEF Finished
      <4>3. CASE m \in Done
        <5>1. Before(i) = emitted \cup Emitting
          BY <1>3, <2>2, <3>3 DEF Before
        <5>2. IsFinished(m, Before(i), start, Excused, repeated, uri, seen)
          BY <4>3, <5>1 DEF Done, Finished, Handed, IsFinished
        <5>. QED
          BY <3>2, <5>2
      <4>. QED
        BY <4>1, <4>2, <4>3
    <3>4. CASE i # Len(emitting) + 1
      <4>1. i \in 1..Len(emitting) /\ m \in 1..(emitting[i] - 1)
        BY <1>3, <2>1, <2>9, <3>4
      <4>2. m \in Finished(emitted \cup {emitting[j] : j \in 1..(i - 1)})
        BY <1>1, <4>1 DEF Ordered, SinkOrder
      <4>3. IsFinished(m, Before(i), start, Excused, repeated, uri, seen)
        BY <4>2 DEF Before, Finished, Handed, IsFinished
      <4>. QED
        BY <3>2, <4>3
    <3>. QED
      BY <3>3, <3>4
  <2>10. SinkOrder'
    BY <2>7, <2>8, <2>9 DEF SinkOrder
  <2>11. ASSUME NEW S, n \in Finished(S) PROVE n \in Excused
    BY <1>5, <1>9, <1>1, <1>11, <2>11, KnownFacts DEF Finished
  <2>12. n \in Excused \/ (cursor <= n /\ \A j \in 1..Len(emitting) : emitting[j] < n)
    <3>1. SUFFICES ASSUME n \notin Excused
                   PROVE  cursor <= n /\ \A j \in 1..Len(emitting) : emitting[j] < n
      OBVIOUS
    <3>2. cursor <= n
      <4>1. n \notin Finished(emitted) /\ Passed(cursor) /\ cursor \in Int
        BY <1>1, <2>11, <3>1, KnownFacts
      <4>. QED
        BY <1>5, <4>1 DEF Passed
    <3>3. ASSUME NEW j \in 1..Len(emitting) PROVE emitting[j] < n
      <4>1. emitting[j] \in Row /\ emitting[j] \in Emitting
        BY <1>1, <2>2, QueueIsSeq DEF Typed
      <4>2. emitting[j] # n
        BY <1>1, <1>11, <4>1 DEF Ordered, SinkOrder
      <4>3. n \notin Finished(Before(j)) /\ 1..(emitting[j] - 1) \subseteq Finished(Before(j))
        BY <1>1, <2>11, <3>1 DEF Ordered, SinkOrder, Before
      <4>. QED
        BY <1>5, <4>1, <4>2, <4>3 DEF Row
    <3>. QED
      BY <3>2, <3>3
  <2>13. SinkRises'
    <3>1. SUFFICES ASSUME NEW i \in 1..Len(emitting')
                   PROVE  \/ emitting'[i] \in Excused'
                          \/ /\ cursor <= emitting'[i]
                             /\ \A j \in 1..(i - 1) : emitting'[j] < emitting'[i]
      BY <1>2 DEF SinkRises
    <3>2. \A j \in 1..(i - 1) : j \in 1..Len(emitting)
      BY <1>3, <2>1
    <3>3. CASE i = Len(emitting) + 1
      BY <2>1, <2>4, <2>12, <3>2, <3>3
    <3>4. CASE i # Len(emitting) + 1
      <4>1. i \in 1..Len(emitting)
        BY <1>3, <2>1, <3>4
      <4>. QED
        BY <1>1, <2>1, <2>4, <3>2, <4>1 DEF Ordered, SinkRises
    <3>. QED
      BY <3>3, <3>4
  <2>. QED
    BY <2>4, <2>5, <2>6, <2>10, <2>13 DEF Ordered
<1>. QED
  BY <1>4, <1>10, <1>11

\* A write to stdout drained: the oldest row of the sink is the session's now.
LEMMA EmitOrder ==
    ASSUME IInv, Typed', EmitDone
    PROVE  Ordered' /\ Done' = Done
<1>1. Typed /\ Known /\ Ordered
  BY Groups
<1>. DEFINE h == Head(emitting)
<1>2. /\ emitting # <<>> /\ emitting' = Tail(emitting) /\ emitted' = emitted \cup {h} /\ cursor' = h
      /\ UNCHANGED <<queue, phase, todo, proc, start, uri, seen, everHidden, repeated, overtaken>>
      /\ answer' = "ok" => answer = "ok" \/ (h \in todo /\ IsNext(h))
  BY DEF EmitDone, IsNext, table, call, process
<1>3. /\ emitting \in Seq(Row) /\ Len(emitting) \in Nat \ {0} /\ h = emitting[1] /\ h \in Row
      /\ emitting' \in Seq(Row) /\ Len(emitting') = Len(emitting) - 1
      /\ \A i \in 1..Len(emitting') : emitting'[i] = emitting[i + 1]
  BY <1>1, <1>2, TailOfQueue DEF Typed, TypeOK
<1>4. /\ Emitting = {emitting[i] : i \in 1..Len(emitting)}
      /\ Emitting' = {emitting'[i] : i \in 1..Len(emitting')}
  BY <1>3, LenProperties DEF Emitting
<1>5. ASSUME NEW i \in 1..Len(emitting), i # 1
      PROVE  i - 1 \in 1..Len(emitting') /\ emitting'[i - 1] = emitting[i]
  BY <1>3, <1>5
<1>6. Emitting' \cup {h} = Emitting
  <2>1. Emitting \subseteq Emitting' \cup {h}
    BY <1>3, <1>4, <1>5
  <2>2. Emitting' \subseteq Emitting /\ h \in Emitting
    BY <1>3, <1>4
  <2>. QED
    BY <2>1, <2>2
<1>. HIDE DEF h
<1>7. emitted' \cup Emitting' = emitted \cup Emitting /\ Excused' = Excused
  BY <1>2, <1>6 DEF Excused
<1>8. Done' = Done
  BY <1>2, <1>7 DEF Done, Finished, Handed
<1>9. uri[h] \in seen /\ h \in Done
  <2>1. uri[h] \in seen /\ h \in Emitting
    BY <1>1, <1>6 DEF Ordered, SinkOrder
  <2>. QED
    BY <2>1 DEF Done, Finished, Handed
<1>10. RunningOrder'
  BY <1>1, <1>2, <1>8 DEF Ordered, RunningOrder, Running, Passes
<1>11. Answered'
  <2>1. ASSUME NEW k \in todo, IsNext(k), IsNext(h) PROVE k = h
    <3>1. h \in Row /\ k \in Row
      BY <1>1, <1>3, <2>1 DEF Typed, TypeOK
    <3>2. h \in todo /\ k <= h /\ h <= k
      BY <2>1 DEF IsNext
    <3>. QED
      BY <3>1, <3>2 DEF Row
  <2>. QED
    BY <1>1, <1>2, <1>8, <1>9, <2>1 DEF Ordered, Answered, IsNext
<1>12. ASSUME NEW i \in 1..Len(emitting'), NEW m \in 1..(emitting'[i] - 1)
       PROVE  m \in Finished(emitted \cup {emitting[j] : j \in 1..(i - 1)})'
  <2>1. i + 1 \in 1..Len(emitting) /\ emitting'[i] = emitting[i + 1] /\ i \in Nat
    BY <1>3
  <2>2. m \in Finished(emitted \cup {emitting[j] : j \in 1..((i + 1) - 1)})
    BY <1>1, <1>12, <2>1 DEF Ordered, SinkOrder
  <2>3. emitted \cup {emitting[j] : j \in 1..((i + 1) - 1)}
          = emitted' \cup {emitting'[j] : j \in 1..(i - 1)}
    <3>1. ASSUME NEW j \in 1..((i + 1) - 1)
          PROVE  emitting[j] \in emitted' \cup {emitting'[k] : k \in 1..(i - 1)}
      <4>1. CASE j = 1
        BY <1>2, <1>3, <4>1
      <4>2. CASE j # 1
        <5>1. j - 1 \in 1..(i - 1) /\ j \in 1..Len(emitting)
          BY <1>3, <2>1, <4>2
        <5>. QED
          BY <1>5, <4>2, <5>1
      <4>. QED
        BY <4>1, <4>2
    <3>2. ASSUME NEW j \in 1..(i - 1)
          PROVE  emitting'[j] \in {emitting[k] : k \in 1..((i + 1) - 1)}
      <4>1. j \in 1..Len(emitting') /\ j + 1 \in 1..((i + 1) - 1)
        BY <1>3, <2>1
      <4>. QED
        BY <1>3, <4>1
    <3>3. h \in {emitting[k] : k \in 1..((i + 1) - 1)}
      BY <1>3, <2>1
    <3>. QED
      BY <1>2, <3>1, <3>2, <3>3
  <2>. QED
    BY <1>2, <1>7, <2>2, <2>3 DEF Finished, Handed
<1>13. SinkOrder'
  <2>1. /\ seen' \subseteq {uri'[n] : n \in emitted' \cup Emitting'}
        /\ \A n \in Emitting' : uri'[n] \in seen' /\ start' < n
    BY <1>1, <1>2, <1>6, <1>7 DEF Ordered, SinkOrder
  <2>. QED
    BY <1>12, <2>1 DEF SinkOrder
<1>14. SinkRises'
  <2>1. SUFFICES ASSUME NEW i \in 1..Len(emitting'), emitting'[i] \notin Excused
                 PROVE  /\ h <= emitting'[i]
                        /\ \A j \in 1..(i - 1) : emitting'[j] < emitting'[i]
    BY <1>2, <1>7 DEF SinkRises
  <2>2. i + 1 \in 1..Len(emitting) /\ emitting'[i] = emitting[i + 1] /\ i \in Nat
    BY <1>3
  <2>3. \A j \in 1..((i + 1) - 1) : emitting[j] < emitting[i + 1]
    BY <1>1, <2>1, <2>2 DEF Ordered, SinkRises
  <2>4. h < emitting'[i]
    BY <1>3, <2>2, <2>3
  <2>5. ASSUME NEW j \in 1..(i - 1) PROVE emitting'[j] < emitting'[i]
    <3>1. j + 1 \in 1..((i + 1) - 1) /\ emitting'[j] = emitting[j + 1]
      BY <1>3, <2>2
    <3>. QED
      BY <2>2, <2>3, <3>1
  <2>6. emitting'[i] \in Row
    BY <1>3
  <2>. QED
    BY <1>3, <2>4, <2>5, <2>6 DEF Row
<1>. QED
  BY <1>8, <1>10, <1>11, <1>13, <1>14 DEF Ordered

LEMMA OrderedStep == IInv /\ Typed' /\ [Next]_vars => Ordered'
<1>. SUFFICES ASSUME IInv, Typed', [Next]_vars PROVE Ordered'
  OBVIOUS
<1>0. Typed /\ Known /\ Ordered
  BY Groups
<1>1. ASSUME NEW u \in Row, Insert(u) PROVE Ordered'
  <2>1. Running => Alike(queue'[1], queue[1]) /\ Head(queue') = queue'[1]
    <3>1. CASE registry = NoUrl
      BY <1>0, <1>1, <3>1, HeadFacts DEF Insert, Alike
    <3>2. CASE registry # NoUrl
      BY <1>0, <1>1, <3>2, AppendHead DEF Insert
    <3>. QED
      BY <3>1, <3>2
  <2>2. HistoryGrows
    BY <1>0, <1>1, InsertOneRow DEF Insert, sink, process, HistoryGrows
  <2>. QED
    BY <1>0, <1>1, <2>1, <2>2, OrderedFrame DEF Insert, sink, process
<1>2. ASSUME NEW n \in Row, Delete(n) \/ Hide(n) \/ Reveal(n) PROVE Ordered'
  <2>1. /\ UNCHANGED <<log, uri, overtaken, repeated, start, queue>>
        /\ UNCHANGED <<emitting, seen, cursor, emitted, phase, answer, todo, proc>>
        /\ everHidden \subseteq everHidden'
    BY <1>2 DEF Delete, Hide, Reveal, HideRow, appview, call, sink, process
  <2>2. HistoryGrows
    BY <2>1 DEF HistoryGrows
  <2>3. Running => Alike(queue'[1], queue[1]) /\ Head(queue') = queue'[1]
    BY <1>0, <2>1, HeadFacts DEF Alike
  <2>. QED
    BY <1>0, <2>1, <2>2, <2>3, OrderedFrame
<1>3. ASSUME UNCHANGED <<table, sink, process>>, UNCHANGED <<phase, answer, todo>>,
             Running => Alike(queue'[1], queue[1]) /\ Head(queue') = queue'[1]
      PROVE  Ordered'
  <2>1. HistoryGrows
    BY <1>3, SinkUnchanged DEF HistoryGrows
  <2>. QED
    BY <1>0, <1>3, <2>1, SinkUnchanged, OrderedFrame
<1>4. ASSUME UNCHANGED <<table, sink, process>>, phase' = "idle"
      PROVE  Ordered'
  BY <1>0, <1>4, SinkSame, IdleOrder DEF Ordered
<1>5. CASE \E r \in requests : Accept(r)
  <2>1. Running => Alike(queue'[1], queue[1]) /\ Head(queue') = queue'[1]
    BY <1>0, <1>5, AppendHead DEF Accept, Typed
  <2>. QED
    BY <1>3, <1>5, <2>1 DEF Accept, appview
<1>6. CASE (\E r \in requests : LoseRequest(r)) \/ TryRegister
  BY <1>0, <1>3, <1>6, HeadFacts DEF LoseRequest, TryRegister, appview, Alike
<1>7. CASE SkipSuperseded
  BY <1>4, <1>7 DEF SkipSuperseded, EndTask
<1>8. CASE StartTask
  <2>1. CASE phase' = "idle"
    BY <1>4, <1>8, <2>1 DEF StartTask
  <2>2. CASE phase' # "idle"
    <3>1. phase' = "hydrating"
      BY <1>8, <2>2 DEF StartTask, EndTask
    <3>2. SinkOrder' /\ SinkRises'
      BY <1>0, <1>8, SinkSame DEF StartTask
    <3>. QED
      BY <1>8, <3>1, <3>2, StartOrder DEF Ordered, Answered
  <2>. QED
    BY <2>1, <2>2
<1>9. CASE Hydrated
  <2>1. CASE phase' = "idle"
    BY <1>4, <1>9, <2>1 DEF Hydrated
  <2>2. CASE phase' # "idle"
    <3>1. /\ phase = "hydrating" /\ answer' = "none" /\ UNCHANGED <<queue, todo>>
          /\ UNCHANGED <<table, sink, process>>
      BY <1>0, <1>9, <2>2 DEF Hydrated, EndTask, Typed, HeadTask
    <3>2. SinkOrder' /\ SinkRises' /\ Done' = Done /\ proc' = proc /\ start' = start
      BY <1>0, <3>1, SinkSame, SinkUnchanged
    <3>. QED
      BY <1>0, <3>1, <3>2 DEF Ordered, Answered, RunningOrder, Running, Passes
  <2>. QED
    BY <2>1, <2>2
<1>10. CASE HydrationThrows
  BY <1>4, <1>10 DEF HydrationThrows
<1>11. CASE PostOk
  <2>1. SinkOrder' /\ SinkRises' /\ Done' = Done /\ proc' = proc /\ start' = start
    BY <1>0, <1>11, SinkSame, SinkUnchanged DEF PostOk
  <2>2. CASE phase' = "idle"
    BY <2>1, <2>2, IdleOrder DEF Ordered
  <2>3. CASE phase' # "idle"
    <3>1. PICK n \in todo : IsNext(n) /\ todo' = todo \ {n} /\ answer' = "none" /\ queue' = queue
      BY <1>11, <2>3 DEF PostOk, EndTask
    <3>2. phase = "posting" /\ Running /\ answer = "ok"
      BY <1>11 DEF PostOk, Running
    <3>3. queue[1].url = proc => n \in Done
      BY <1>0, <3>1, <3>2 DEF Ordered, Answered
    <3>. QED
      BY <1>0, <2>1, <3>1, <3>2, <3>3 DEF Ordered, Answered, RunningOrder, Passes
  <2>. QED
    BY <2>2, <2>3
<1>12. CASE PostFails
  BY <1>4, <1>12 DEF PostFails, EndTask
<1>13. CASE AppViewRestart
  BY <1>4, <1>13 DEF AppViewRestart
<1>14. CASE RegisterDone
  <2>1. /\ UNCHANGED <<table, appview, seen, emitting, emitted, repeated, overtaken, process>>
        /\ cursor' = cursor \/ cursor' = 0
    BY <1>14 DEF RegisterDone, SwappedCursor, After
  <2>2. /\ UNCHANGED <<log, uri, everHidden, proc, start, queue, phase, todo, answer>>
        /\ Emitting' = Emitting /\ Excused' = Excused /\ Done' = Done
    BY <2>1 DEF table, appview, process, Emitting, Excused, Done, Finished, Handed
  <2>3. SinkOrder'
    BY <1>0, <2>1, <2>2 DEF Ordered, SinkOrder, Finished, Handed
  <2>4. SinkRises'
    <3>1. \A i \in 1..Len(emitting) : 0 <= emitting[i]
      BY <1>0, QueueIsSeq DEF Typed, Row
    <3>. QED
      BY <1>0, <2>1, <2>2, <3>1 DEF Ordered, SinkRises
  <2>5. Answered' /\ RunningOrder'
    BY <1>0, <2>2 DEF Ordered, Answered, RunningOrder, Running, IsNext, Passes
  <2>. QED
    BY <2>3, <2>4, <2>5 DEF Ordered
<1>15. CASE RegisterFails
  <2>1. Running => Alike(queue'[1], queue[1]) /\ Head(queue') = queue'[1]
    BY <1>0, <1>15, HeadOfSame, ForgottenQueue DEF RegisterFails, Typed
  <2>. QED
    BY <1>3, <1>15, <2>1 DEF RegisterFails
<1>16. CASE HandlePost
  BY <1>16, HandleOrder
<1>17. CASE EmitDone
  BY <1>17, EmitOrder
<1>18. CASE ProcRestart
  <2>1. Len(emitting') = 0 /\ emitting' = <<>> /\ seen' = {} /\ proc' = proc + 1
    BY <1>18, EmptySeq DEF ProcRestart
  <2>2. SinkOrder' /\ SinkRises'
    <3>1. Emitting' = {}
      BY <2>1 DEF Emitting
    <3>. QED
      BY <2>1, <3>1 DEF SinkOrder, SinkRises
  <2>3. Running => queue'[1].url = queue[1].url /\ queue[1].url \in Nat /\ queue[1].url <= proc
    <3>1. Running => queue'[1].url = queue[1].url
      BY <1>0, <1>18, HeadOfSame, ForgottenQueue DEF ProcRestart, Typed, Alike
    <3>. QED
      BY <1>0, <3>1, HeadFacts, TaskFacts
  <2>4. Running' => queue'[1].url # proc'
    BY <1>0, <1>18, <2>1, <2>3, KnownFacts DEF ProcRestart, Running
  <2>. QED
    BY <2>2, <2>4 DEF Ordered, Answered, RunningOrder, Running
<1>19. CASE UNCHANGED vars
  BY <1>0, <1>3, <1>19, HeadFacts DEF vars, appview, Alike
<1>. QED
  BY <1>1, <1>2, <1>5, <1>6, <1>7, <1>8, <1>9, <1>10, <1>11, <1>12,
     <1>13, <1>14, <1>15, <1>16, <1>17, <1>18, <1>19 DEF Next, AppViewNext, McpNext

-----------------------------------------------------------------------------
(* Queued *)

\* Steps that keep the tasks: more is handled, and what the head task of the
\* running process no longer has to deliver is handled.
LEMMA QueuedFrame ==
    ASSUME Typed, Queued, SameQueue, UNCHANGED <<registry, proc, log>>,
           Running' <=> Running, Done \subseteq Done',
           Running /\ queue[1].url = proc => todo \subseteq todo' \cup Done'
    PROVE  Queued'
<1>1. /\ Len(queue) \in Nat /\ Len(queue') = Len(queue)
      /\ \A i \in 1..Len(queue) : Alike(queue'[i], queue[i])
      /\ Running => 1 \in 1..Len(queue)
  BY QueueIsSeq, EmptySeq DEF SameQueue, Typed, TypeOK, HeadTask
<1>2. ASSUME NEW m, NEW i \in 1..(Len(queue) + 1), Covered(m, i)
      PROVE  Covered(m, i)'
  <2>1. CASE m \in Done
    BY <2>1 DEF Covered
  <2>2. CASE Running /\ 1 < i /\ queue[1].url = proc /\ m \in todo
    BY <1>1, <2>2 DEF Covered, Alike
  <2>3. CASE \E j \in 1..Len(queue) :
               /\ j < i /\ (j = 1 => ~Running)
               /\ queue[j].kind = "live" /\ queue[j].url = proc /\ queue[j].arg = m
    BY <1>1, <2>3 DEF Covered, Alike
  <2>. QED
    BY <1>2, <2>1, <2>2, <2>3 DEF Covered
<1>3. \A j \in 1..Len(queue) : Unread(j)' <=> Unread(j)
  BY <1>1 DEF Unread, Alike
<1>4. QueuedOrder'
  <2>1. SUFFICES ASSUME Running \/ registry = proc, NEW i \in 1..Len(queue),
                        queue[i].kind = "live", queue[i].url = proc, i = 1 => ~Running,
                        \A j \in 1..Len(queue) : j < i => ~Unread(j),
                        NEW m \in 1..(queue[i].arg - 1)
                 PROVE  Covered(m, i)'
    BY <1>1, <1>3 DEF QueuedOrder, Alike
  <2>2. Covered(m, i)
    BY <2>1 DEF Queued, QueuedOrder
  <2>. QED
    BY <1>1, <1>2, <2>2
<1>5. ReplayFirst'
  <2>1. SUFFICES ASSUME NEW i \in 1..Len(queue), NEW j \in 1..Len(queue),
                        j < i, queue[j].url # proc, queue[i].kind = "live", queue[i].url = proc
                 PROVE  \E k \in 1..Len(queue) :
                          j < k /\ k < i /\ queue[k].kind = "replay" /\ queue[k].url = proc
    BY <1>1 DEF ReplayFirst, Alike
  <2>. QED
    BY <2>1 DEF Queued, ReplayFirst
<1>6. ReplayLast'
  BY <1>1 DEF Queued, ReplayLast, Alike
<1>7. AllCovered'
  BY <1>1, <1>2, <1>3 DEF Queued, AllCovered
<1>. QED
  BY <1>4, <1>5, <1>6, <1>7 DEF Queued

\* The head task ends.  If it was the running process's and the registration
\* stands, the rows it was for are handled.
LEMMA QueuedEnd ==
    ASSUME IInv, queue # <<>>, ShiftedQueue, Len(queue') \in Nat, phase' = "idle",
           UNCHANGED <<proc, log>>, registry' \in {registry, NoUrl}, Done \subseteq Done',
           registry' = proc /\ queue[1].url = proc =>
              /\ todo \subseteq Done'
              /\ ~Running => \A m \in 1..log :
                    queue[1].kind = "replay" \/ queue[1].arg = m => m \in Done'
    PROVE  Queued'
<1>1. Typed /\ Known /\ Queued
  BY Groups
<1>2. /\ ~Running' /\ Len(queue) \in Nat /\ Len(queue) = Len(queue') + 1
      /\ \A i \in 1..Len(queue') : i + 1 \in 1..Len(queue) /\ queue'[i] = queue[i + 1]
      /\ \A i \in 2..Len(queue) : i - 1 \in 1..Len(queue') /\ queue'[i - 1] = queue[i]
      /\ 1 \in 1..Len(queue) /\ \A i \in 1..Len(queue) : queue[i] \in Task
  BY <1>1, QueueIsSeq DEF ShiftedQueue, Running, Typed
<1>3. registry' = proc => registry = proc
  BY <1>1, KnownFacts DEF NoUrl
<1>4. ReplayFirst'
  <2>1. SUFFICES ASSUME NEW i \in 1..Len(queue'), NEW j \in 1..Len(queue'), j < i,
                        queue'[j].url # proc, queue'[i].kind = "live", queue'[i].url = proc
                 PROVE  \E k \in 1..Len(queue') :
                          j < k /\ k < i /\ queue'[k].kind = "replay" /\ queue'[k].url = proc
    BY DEF ReplayFirst
  <2>2. /\ i + 1 \in 1..Len(queue) /\ j + 1 \in 1..Len(queue) /\ j + 1 < i + 1
        /\ queue'[i] = queue[i + 1] /\ queue'[j] = queue[j + 1]
    BY <1>2, <2>1
  <2>3. PICK k \in 1..Len(queue) : /\ j + 1 < k /\ k < i + 1
                                   /\ queue[k].kind = "replay" /\ queue[k].url = proc
    BY <1>1, <2>1, <2>2 DEF Queued, ReplayFirst
  <2>4. k \in 2..Len(queue) /\ j < k - 1 /\ k - 1 < i
    BY <1>2, <2>3
  <2>. QED
    BY <1>2, <2>3, <2>4
<1>5. ReplayLast'
  <2>1. SUFFICES ASSUME registry = proc, NEW j \in 1..Len(queue'), queue'[j].url # proc
                 PROVE  \E k \in 1..Len(queue') :
                          j < k /\ queue'[k].kind = "replay" /\ queue'[k].url = proc
    BY <1>3 DEF ReplayLast
  <2>2. j + 1 \in 1..Len(queue) /\ queue[j + 1].url # proc
    BY <1>2, <2>1
  <2>3. PICK k \in 1..Len(queue) : j + 1 < k /\ queue[k].kind = "replay" /\ queue[k].url = proc
    BY <1>1, <2>1, <2>2 DEF Queued, ReplayLast
  <2>4. k \in 2..Len(queue) /\ j < k - 1
    BY <1>2, <2>3
  <2>. QED
    BY <1>2, <2>3, <2>4
<1>6. ASSUME registry' = proc, queue[1].url = proc,
             NEW m \in 1..log, NEW i \in 1..(Len(queue') + 1), Covered(m, i + 1)
      PROVE  Covered(m, i)'
  <2>1. CASE m \in Done \/ m \in todo
    BY <1>6, <2>1 DEF Covered
  <2>2. ASSUME NEW j \in 1..Len(queue), j < i + 1, j = 1 => ~Running,
               queue[j].kind = "live", queue[j].url = proc, queue[j].arg = m
        PROVE  Covered(m, i)'
    <3>1. CASE j = 1
      BY <1>6, <2>2, <3>1 DEF Covered
    <3>2. CASE j # 1
      <4>1. j - 1 \in 1..Len(queue') /\ j - 1 < i /\ queue'[j - 1] = queue[j]
        BY <1>2, <2>2, <3>2
      <4>. QED
        BY <1>2, <2>2, <4>1 DEF Covered
    <3>. QED
      BY <3>1, <3>2
  <2>. QED
    BY <1>6, <2>1, <2>2 DEF Covered
<1>7. ASSUME registry' = proc, queue[1].url = proc, queue[1].kind = "replay", ~Running,
             NEW m \in 1..log, NEW i
      PROVE  Covered(m, i)'
  BY <1>7 DEF Covered
<1>8. ASSUME NEW i \in 1..(Len(queue') + 1), \A j \in 1..Len(queue') : j < i => ~Unread(j)',
             queue[1].kind # "replay" \/ Running
      PROVE  \A j \in 1..Len(queue) : j < i + 1 => ~Unread(j)
  <2>1. SUFFICES ASSUME NEW j \in 1..Len(queue), j < i + 1, Unread(j) PROVE FALSE
    OBVIOUS
  <2>2. j # 1
    BY <1>8, <2>1 DEF Unread
  <2>3. j - 1 \in 1..Len(queue') /\ j - 1 < i /\ queue'[j - 1] = queue[j]
    BY <1>2, <2>1, <2>2
  <2>. QED
    BY <1>2, <1>8, <2>1, <2>3 DEF Unread
<1>9. QueuedOrder'
  <2>1. SUFFICES ASSUME registry' = proc, NEW i \in 1..Len(queue'),
                        queue'[i].kind = "live", queue'[i].url = proc,
                        \A j \in 1..Len(queue') : j < i => ~Unread(j)',
                        NEW m \in 1..(queue'[i].arg - 1)
                 PROVE  Covered(m, i)'
    BY <1>2 DEF QueuedOrder
  <2>2. /\ i + 1 \in 1..Len(queue) /\ queue'[i] = queue[i + 1] /\ m \in 1..log
        /\ registry = proc
    <3>1. i + 1 \in 1..Len(queue) /\ queue'[i] = queue[i + 1]
      BY <1>2
    <3>2. log \in Nat /\ KnownRows
      BY <1>1, KnownFacts DEF Known
    <3>3. queue[i + 1].arg <= log
      BY <3>1, <3>2 DEF KnownRows
    <3>4. queue[i + 1].arg \in Nat
      BY <1>2, <3>1 DEF Task
    <3>. QED
      BY <1>3, <2>1, <3>1, <3>2, <3>3, <3>4
  <2>3. queue[1].url = proc
    <3>1. SUFFICES ASSUME queue[1].url # proc PROVE FALSE
      OBVIOUS
    <3>2. PICK k \in 1..Len(queue) : /\ 1 < k /\ k < i + 1
                                     /\ queue[k].kind = "replay" /\ queue[k].url = proc
      BY <1>1, <1>2, <2>1, <2>2, <3>1 DEF Queued, ReplayFirst
    <3>3. k - 1 \in 1..Len(queue') /\ k - 1 < i /\ queue'[k - 1] = queue[k]
      BY <1>2, <3>2
    <3>. QED
      BY <1>2, <2>1, <3>2, <3>3 DEF Unread
  <2>4. CASE queue[1].kind = "replay" /\ ~Running
    BY <1>7, <2>1, <2>2, <2>3, <2>4
  <2>5. CASE queue[1].kind # "replay" \/ Running
    <3>0. i \in 1..(Len(queue') + 1)
      BY <1>2
    <3>1. \A j \in 1..Len(queue) : j < i + 1 => ~Unread(j)
      BY <1>8, <2>1, <2>5, <3>0
    <3>2. Covered(m, i + 1)
      BY <1>1, <2>1, <2>2, <3>1 DEF Queued, QueuedOrder
    <3>. QED
      BY <1>6, <2>1, <2>2, <2>3, <3>2
  <2>. QED
    BY <2>4, <2>5
<1>10. AllCovered'
  <2>1. SUFFICES ASSUME registry' = proc, \A j \in 1..Len(queue') : ~Unread(j)',
                        NEW m \in 1..log
                 PROVE  Covered(m, Len(queue) + 1)'
    BY DEF AllCovered
  <2>2. queue[1].url = proc
    <3>1. SUFFICES ASSUME queue[1].url # proc PROVE FALSE
      OBVIOUS
    <3>2. PICK k \in 1..Len(queue) : 1 < k /\ queue[k].kind = "replay" /\ queue[k].url = proc
      BY <1>1, <1>2, <1>3, <2>1, <3>1 DEF Queued, ReplayLast
    <3>3. k - 1 \in 1..Len(queue') /\ queue'[k - 1] = queue[k]
      BY <1>2, <3>2
    <3>. QED
      BY <1>2, <2>1, <3>2, <3>3 DEF Unread
  <2>3. CASE queue[1].kind = "replay" /\ ~Running
    BY <1>7, <2>1, <2>2, <2>3
  <2>4. CASE queue[1].kind # "replay" \/ Running
    <3>1. \A j \in 1..Len(queue) : j < Len(queue') + 2 => ~Unread(j)
      BY <1>2, <1>8, <2>1, <2>4
    <3>2. Covered(m, Len(queue) + 1)
      BY <1>1, <1>2, <1>3, <2>1, <3>1 DEF Queued, AllCovered
    <3>. QED
      BY <1>2, <1>6, <2>1, <2>2, <3>2
  <2>. QED
    BY <2>3, <2>4
<1>. QED
  BY <1>4, <1>5, <1>9, <1>10 DEF Queued

\* The head task reads its rows and goes on: what it was for is in todo now.
LEMMA QueuedStart ==
    ASSUME IInv, StartTask, phase' = "hydrating"
    PROVE  Queued'
<1>1. Typed /\ Known /\ Queued
  BY Groups
<1>2. /\ phase = "idle" /\ queue # <<>> /\ ~Superseded /\ queue' = queue
      /\ todo' = RowsOf(Head(queue)) /\ registry' = registry
      /\ UNCHANGED <<table, sink, process>> /\ UNCHANGED <<proc, log>>
  BY DEF StartTask, EndTask, table, process
<1>3. /\ Head(queue) = queue[1] /\ 1 \in 1..Len(queue) /\ Len(queue) \in Nat
      /\ \A i \in 1..Len(queue) : queue[i] \in Task
  BY <1>1, <1>2, TailOfQueue, QueueIsSeq DEF Typed, TypeOK
<1>4. Done' = Done /\ Running' /\ ~Running
  BY <1>2, SinkUnchanged DEF Running
<1>5. \A j \in 1..Len(queue) : Unread(j)' <=> j # 1 /\ queue[j].kind = "replay"
  BY <1>2, <1>4 DEF Unread
<1>6. ASSUME NEW m \in 1..log, queue[1].url = proc,
             queue[1].kind = "replay" \/ queue[1].arg = m,
             NEW i \in 2..(Len(queue) + 1)
      PROVE  Covered(m, i)'
  <2>1. m \in Done' \/ m \in todo'
    BY <1>1, <1>2, <1>4, <1>6, HeadReads
  <2>. QED
    BY <1>2, <1>4, <1>6, <2>1 DEF Covered
<1>7. ASSUME NEW m \in 1..log, queue[1].url = proc,
             NEW i \in 2..(Len(queue) + 1), Covered(m, i)
      PROVE  Covered(m, i)'
  <2>1. CASE m \in Done
    BY <1>4, <2>1 DEF Covered
  <2>2. ASSUME NEW j \in 1..Len(queue), j < i,
               queue[j].kind = "live", queue[j].url = proc, queue[j].arg = m
        PROVE  Covered(m, i)'
    <3>1. CASE j = 1
      BY <1>6, <1>7, <2>2, <3>1
    <3>2. CASE j # 1
      BY <1>2, <2>2, <3>2 DEF Covered
    <3>. QED
      BY <3>1, <3>2
  <2>. QED
    BY <1>4, <1>7, <2>1, <2>2 DEF Covered
<1>8. QueuedOrder'
  <2>1. SUFFICES ASSUME NEW i \in 1..Len(queue), i # 1,
                        queue[i].kind = "live", queue[i].url = proc,
                        \A j \in 1..Len(queue) : j < i => ~Unread(j)',
                        NEW m \in 1..(queue[i].arg - 1)
                 PROVE  Covered(m, i)'
    BY <1>2, <1>4 DEF QueuedOrder
  <2>2. m \in 1..log /\ i \in 2..(Len(queue) + 1)
    <3>1. queue[i].arg \in Nat /\ queue[i].arg <= log /\ log \in Nat
      BY <1>1, <1>3, KnownFacts DEF Known, KnownRows, Task
    <3>. QED
      BY <1>3, <2>1, <3>1
  <2>3. queue[1].url = proc
    <3>1. SUFFICES ASSUME queue[1].url # proc PROVE FALSE
      OBVIOUS
    <3>2. 1 < i /\ ReplayFirst
      BY <1>1, <2>2 DEF Queued
    <3>3. PICK k \in 1..Len(queue) : 1 < k /\ k < i /\ queue[k].kind = "replay"
      BY <1>3, <2>1, <3>1, <3>2 DEF ReplayFirst
    <3>. QED
      BY <1>5, <2>1, <3>3
  <2>4. CASE queue[1].kind = "replay"
    BY <1>6, <2>2, <2>3, <2>4
  <2>5. CASE queue[1].kind = "live"
    <3>1. registry = proc
      BY <1>2, <1>3, <2>3, <2>5 DEF Superseded
    <3>2. \A j \in 1..Len(queue) : j < i => ~Unread(j)
      BY <1>5, <2>1, <2>5 DEF Unread
    <3>3. Covered(m, i)
      BY <1>1, <1>4, <2>1, <3>1, <3>2 DEF Queued, QueuedOrder
    <3>. QED
      BY <1>7, <2>2, <2>3, <3>3
  <2>. QED
    BY <1>3, <2>4, <2>5 DEF Task
<1>9. ReplayFirst' /\ ReplayLast'
  BY <1>1, <1>2 DEF Queued, ReplayFirst, ReplayLast
<1>10. AllCovered'
  <2>1. SUFFICES ASSUME registry = proc, \A j \in 1..Len(queue) : ~Unread(j)',
                        NEW m \in 1..log, NEW i, i = Len(queue) + 1
                 PROVE  Covered(m, i)'
    BY <1>2 DEF AllCovered, Covered
  <2>2. i \in 2..(Len(queue) + 1)
    BY <1>3, <2>1
  <2>3. queue[1].url = proc
    <3>1. SUFFICES ASSUME queue[1].url # proc PROVE FALSE
      OBVIOUS
    <3>2. PICK k \in 1..Len(queue) : 1 < k /\ queue[k].kind = "replay"
      BY <1>1, <1>3, <2>1, <3>1 DEF Queued, ReplayLast
    <3>. QED
      BY <1>5, <2>1, <3>2
  <2>4. CASE queue[1].kind = "replay"
    BY <1>6, <2>2, <2>3, <2>4
  <2>5. CASE queue[1].kind = "live"
    <3>1. \A j \in 1..Len(queue) : ~Unread(j)
      BY <1>5, <2>1, <2>5 DEF Unread
    <3>2. Covered(m, i)
      BY <1>1, <2>1, <3>1 DEF Queued, AllCovered
    <3>. QED
      BY <1>7, <2>2, <2>3, <3>2
  <2>. QED
    BY <1>3, <2>4, <2>5 DEF Task
<1>. QED
  BY <1>8, <1>9, <1>10 DEF Queued

\* A task joins the queue: a live task only behind all smaller rows, a replay of
\* the registration made in the same step.
LEMMA QueuedGrow ==
    ASSUME IInv, NEW t \in Task, GrownQueue(t),
           UNCHANGED <<phase, proc, todo>>, Done' = Done, log' \in Nat, registry' = t.url,
           \/ t.kind = "live" /\ registry = registry' /\ t.arg = log + 1 /\ log' = log + 1
           \/ t.kind = "replay" /\ log' = log /\ Settled
    PROVE  Queued'
<1>1. Typed /\ Known /\ Queued
  BY Groups
<1>2. /\ Len(queue) \in Nat /\ Len(queue') = Len(queue) + 1 /\ queue'[Len(queue) + 1] = t
      /\ \A i \in 1..Len(queue) : queue'[i] = queue[i] /\ i \in 1..Len(queue')
      /\ Len(queue) + 1 \in 1..Len(queue')
      /\ \A i \in 1..Len(queue') : i \in 1..Len(queue) \/ i = Len(queue) + 1
      /\ log \in Nat
  BY <1>1, QueueIsSeq, KnownFacts DEF GrownQueue, Typed
<1>3. /\ Running' <=> Running
      /\ Running => 1 \in 1..Len(queue)
  BY <1>1, <1>2, EmptySeq DEF Running, Typed, TypeOK, HeadTask
<1>4. \A j \in 1..Len(queue) : Unread(j)' <=> Unread(j)
  BY <1>2, <1>3 DEF Unread
<1>5. ASSUME NEW m, NEW i \in 1..(Len(queue) + 2), Covered(m, i)
      PROVE  Covered(m, i)'
  <2>1. CASE m \in Done
    BY <2>1 DEF Covered
  <2>2. CASE Running /\ 1 < i /\ queue[1].url = proc /\ m \in todo
    BY <1>2, <1>3, <2>2 DEF Covered
  <2>3. CASE \E j \in 1..Len(queue) :
               /\ j < i /\ (j = 1 => ~Running)
               /\ queue[j].kind = "live" /\ queue[j].url = proc /\ queue[j].arg = m
    BY <1>2, <1>3, <2>3 DEF Covered
  <2>. QED
    BY <1>5, <2>1, <2>2, <2>3 DEF Covered
<1>6. CASE t.kind = "live" /\ registry = registry' /\ t.arg = log + 1 /\ log' = log + 1
  <2>1. QueuedOrder'
    <3>1. SUFFICES ASSUME Running \/ registry = proc, NEW i \in 1..Len(queue'),
                          queue'[i].kind = "live", queue'[i].url = proc, i = 1 => ~Running,
                          \A j \in 1..Len(queue') : j < i => ~Unread(j)',
                          NEW m \in 1..(queue'[i].arg - 1)
                   PROVE  Covered(m, i)'
      BY <1>3, <1>6 DEF QueuedOrder
    <3>2. CASE i = Len(queue) + 1
      <4>1. registry = proc /\ m \in 1..log /\ queue'[i] = t
        BY <1>2, <1>6, <3>1, <3>2
      <4>2. \A j \in 1..Len(queue) : ~Unread(j)
        BY <1>2, <1>4, <3>1, <3>2
      <4>3. Covered(m, Len(queue) + 1)
        BY <1>1, <4>1, <4>2 DEF Queued, AllCovered
      <4>. QED
        BY <1>2, <1>5, <3>2, <4>3
    <3>3. CASE i \in 1..Len(queue)
      <4>1. \A j \in 1..Len(queue) : j < i => ~Unread(j)
        BY <1>2, <1>4, <3>1
      <4>2. Covered(m, i)
        BY <1>1, <1>2, <3>1, <3>3, <4>1 DEF Queued, QueuedOrder
      <4>. QED
        BY <1>2, <1>5, <3>3, <4>2
    <3>. QED
      BY <1>2, <3>2, <3>3
  <2>2. ReplayFirst'
    <3>1. SUFFICES ASSUME NEW i \in 1..Len(queue'), NEW j \in 1..Len(queue'), j < i,
                          queue'[j].url # proc, queue'[i].kind = "live", queue'[i].url = proc
                   PROVE  \E k \in 1..Len(queue') :
                            j < k /\ k < i /\ queue'[k].kind = "replay" /\ queue'[k].url = proc
      BY DEF ReplayFirst
    <3>2. j \in 1..Len(queue) /\ queue'[j] = queue[j]
      BY <1>2, <3>1
    <3>3. CASE i = Len(queue) + 1
      <4>1. registry = proc
        BY <1>2, <1>6, <3>1, <3>3
      <4>2. PICK k \in 1..Len(queue) : j < k /\ queue[k].kind = "replay" /\ queue[k].url = proc
        BY <1>1, <3>1, <3>2, <4>1 DEF Queued, ReplayLast
      <4>. QED
        BY <1>2, <3>3, <4>2
    <3>4. CASE i \in 1..Len(queue)
      <4>1. PICK k \in 1..Len(queue) : /\ j < k /\ k < i
                                       /\ queue[k].kind = "replay" /\ queue[k].url = proc
        BY <1>1, <1>2, <3>1, <3>2, <3>4 DEF Queued, ReplayFirst
      <4>. QED
        BY <1>2, <4>1
    <3>. QED
      BY <1>2, <3>3, <3>4
  <2>3. ReplayLast'
    <3>1. SUFFICES ASSUME registry = proc, NEW j \in 1..Len(queue'), queue'[j].url # proc
                   PROVE  \E k \in 1..Len(queue') :
                            j < k /\ queue'[k].kind = "replay" /\ queue'[k].url = proc
      BY <1>6 DEF ReplayLast
    <3>2. j \in 1..Len(queue) /\ queue'[j] = queue[j]
      BY <1>2, <1>6, <3>1
    <3>3. PICK k \in 1..Len(queue) : j < k /\ queue[k].kind = "replay" /\ queue[k].url = proc
      BY <1>1, <3>1, <3>2 DEF Queued, ReplayLast
    <3>. QED
      BY <1>2, <3>3
  <2>4. AllCovered'
    <3>1. SUFFICES ASSUME registry = proc, \A j \in 1..Len(queue') : ~Unread(j)',
                          NEW m \in 1..(log + 1), NEW i, i = Len(queue) + 2
                   PROVE  Covered(m, i)'
      BY <1>2, <1>6 DEF AllCovered, Covered
    <3>2. CASE m = log + 1
      <4>. DEFINE j == Len(queue) + 1
      <4>1. j \in 1..Len(queue') /\ j < i /\ queue'[j] = t /\ (j = 1 => ~Running')
        BY <1>2, <1>3, <3>1
      <4>2. t.kind = "live" /\ t.url = proc' /\ t.arg = m
        BY <1>6, <3>1, <3>2
      <4>. HIDE DEF j
      <4>. QED
        BY <4>1, <4>2 DEF Covered
    <3>3. CASE m \in 1..log
      <4>1. \A j \in 1..Len(queue) : ~Unread(j)
        BY <1>2, <1>4, <3>1
      <4>2. Covered(m, Len(queue) + 1)
        BY <1>1, <3>1, <3>3, <4>1 DEF Queued, AllCovered
      <4>3. Covered(m, i)
        BY <1>2, <3>1, <4>2 DEF Covered
      <4>. QED
        BY <1>2, <1>5, <3>1, <4>3
    <3>. QED
      BY <1>2, <3>2, <3>3
  <2>. QED
    BY <2>1, <2>2, <2>3, <2>4 DEF Queued
<1>7. CASE t.kind = "replay" /\ log' = log /\ Settled
  <2>1. QueuedOrder'
    <3>1. SUFFICES ASSUME NEW i \in 1..Len(queue'),
                          queue'[i].kind = "live", queue'[i].url = proc, i = 1 => ~Running,
                          \A j \in 1..Len(queue') : j < i => ~Unread(j)',
                          NEW m \in 1..(queue'[i].arg - 1)
                   PROVE  Covered(m, i)'
      BY <1>3 DEF QueuedOrder
    <3>2. i \in 1..Len(queue) /\ queue'[i] = queue[i]
      BY <1>2, <1>7, <3>1
    <3>3. Running
      BY <1>2, <1>7, <3>2 DEF Settled, Running
    <3>4. \A j \in 1..Len(queue) : j < i => ~Unread(j)
      BY <1>2, <1>4, <3>1
    <3>5. Covered(m, i)
      BY <1>1, <3>1, <3>2, <3>3, <3>4 DEF Queued, QueuedOrder
    <3>. QED
      BY <1>2, <1>5, <3>2, <3>5
  <2>2. ReplayFirst'
    <3>1. SUFFICES ASSUME NEW i \in 1..Len(queue'), NEW j \in 1..Len(queue'), j < i,
                          queue'[j].url # proc, queue'[i].kind = "live", queue'[i].url = proc
                   PROVE  \E k \in 1..Len(queue') :
                            j < k /\ k < i /\ queue'[k].kind = "replay" /\ queue'[k].url = proc
      BY DEF ReplayFirst
    <3>2. i \in 1..Len(queue) /\ j \in 1..Len(queue) /\ queue'[i] = queue[i] /\ queue'[j] = queue[j]
      BY <1>2, <1>7, <3>1
    <3>3. PICK k \in 1..Len(queue) : /\ j < k /\ k < i
                                     /\ queue[k].kind = "replay" /\ queue[k].url = proc
      BY <1>1, <3>1, <3>2 DEF Queued, ReplayFirst
    <3>. QED
      BY <1>2, <3>3
  <2>3. ReplayLast'
    <3>1. SUFFICES ASSUME t.url = proc, NEW j \in 1..Len(queue'), queue'[j].url # proc
                   PROVE  \E k \in 1..Len(queue') :
                            j < k /\ queue'[k].kind = "replay" /\ queue'[k].url = proc
      BY DEF ReplayLast
    <3>2. j < Len(queue) + 1
      BY <1>2, <3>1
    <3>. QED
      BY <1>2, <1>7, <3>1, <3>2
  <2>4. AllCovered'
    <3>1. Len(queue) + 1 = 1 => ~Running
      BY <1>2, <1>3
    <3>2. ASSUME NEW j, j = Len(queue) + 1 PROVE Unread(j)'
      BY <1>2, <1>3, <1>7, <3>1, <3>2 DEF Unread
    <3>3. \E j \in 1..Len(queue') : Unread(j)'
      BY <1>2, <3>2
    <3>. QED
      BY <3>3 DEF AllCovered
  <2>. QED
    BY <2>1, <2>2, <2>3, <2>4 DEF Queued
<1>. QED
  BY <1>6, <1>7

LEMMA QueuedStep == ~HydrationFails /\ IInv /\ Typed' /\ [Next]_vars => Queued'
<1>. SUFFICES ASSUME ~HydrationFails, IInv, Typed', [Next]_vars PROVE Queued'
  OBVIOUS
<1>0. Typed /\ Known /\ Ordered /\ Queued
  BY Groups
<1>1. ASSUME NEW u \in Row, Insert(u) PROVE Queued'
  <2>1. /\ UNCHANGED <<registry, phase, proc, todo>> /\ Done' = Done
        /\ log' = log + 1 /\ log' \in Nat /\ log \in Nat
    <3>1. Done' = Done
      BY <1>0, <1>1, InsertKeeps
    <3>2. log \in Nat
      BY <1>0, KnownFacts
    <3>. QED
      BY <1>1, <3>1, <3>2 DEF Insert, call, process
  <2>2. CASE registry # NoUrl
    <3>1. Live(registry, log + 1) \in Task
      BY <1>0, <1>1, <2>2 DEF Insert, Live, Task, NoUrl, Typed, TypeOK
    <3>2. GrownQueue(Live(registry, log + 1))
      BY <1>0, <1>1, <2>2, <3>1, AppendedQueue DEF Insert, Typed
    <3>3. /\ Live(registry, log + 1).kind = "live" /\ Live(registry, log + 1).url = registry
          /\ Live(registry, log + 1).arg = log + 1
      BY DEF Live
    <3>. QED
      BY <2>1, <3>1, <3>2, <3>3, QueuedGrow
  <2>3. CASE registry = NoUrl
    <3>1. queue' = queue
      BY <1>1, <2>3 DEF Insert
    <3>2. registry # proc
      BY <1>0, <2>3, KnownFacts DEF NoUrl
    <3>3. ASSUME NEW m, NEW i PROVE Covered(m, i)' <=> Covered(m, i)
      BY <2>1, <3>1 DEF Covered, Running
    <3>4. QueuedOrder'
      BY <1>0, <2>1, <3>1, <3>3 DEF Queued, QueuedOrder, Running, Unread
    <3>5. ReplayFirst' /\ ReplayLast' /\ AllCovered'
      BY <1>0, <2>1, <3>1, <3>2 DEF Queued, ReplayFirst, ReplayLast, AllCovered
    <3>. QED
      BY <3>4, <3>5 DEF Queued
  <2>. QED
    BY <2>2, <2>3
<1>2. ASSUME NEW n \in Row, Delete(n) \/ Hide(n) \/ Reveal(n) PROVE Queued'
  <2>1. /\ UNCHANGED <<log, uri, overtaken, repeated, start, seen, emitting, emitted>>
        /\ UNCHANGED <<registry, queue, phase, todo, proc>> /\ everHidden \subseteq everHidden'
    BY <1>2 DEF Delete, Hide, Reveal, HideRow, appview, sink, process
  <2>2. SameQueue /\ HistoryGrows /\ Emitting' = Emitting
    BY <1>0, <2>1, UnchangedQueue DEF Typed, HistoryGrows, Emitting
  <2>3. Done \subseteq Done'
    BY <1>0, <2>1, <2>2, Grown
  <2>. QED
    BY <1>0, <2>1, <2>2, <2>3, QueuedFrame DEF Running
<1>3. ASSUME NEW r \in requests, Accept(r) PROVE Queued'
  <2>. DEFINE t == [kind |-> "replay", url |-> r.url, arg |-> After(r.checkpoint), awaited |-> r.awaited]
  <2>1. UNCHANGED <<phase, proc, todo, log>> /\ Done' = Done /\ Settled /\ registry' = t.url
    BY <1>3, SinkUnchanged DEF Accept
  <2>2. r \in Request /\ log \in Nat
    BY <1>0, KnownFacts DEF Typed, TypeOK
  <2>3. After(r.checkpoint) \in 0..MaxSeq
    BY <2>2, PushAssumption DEF Request, Position, After, NoCursor
  <2>4. t \in Task
    BY <2>2, <2>3 DEF Request, Task
  <2>5. GrownQueue(t)
    BY <1>0, <1>3, <2>4, AppendedQueue DEF Accept, Typed
  <2>. QED
    BY <2>1, <2>2, <2>4, <2>5, QueuedGrow
<1>4. ASSUME NEW r \in requests, LoseRequest(r) PROVE Queued'
  <2>1. SameQueue
    BY <1>0, <1>4, UnchangedQueue DEF LoseRequest, appview, Typed, process
  <2>. QED
    BY <1>0, <1>4, <2>1, QueuedFrame, SinkUnchanged DEF LoseRequest, appview, Running, process
<1>5. CASE SkipSuperseded
  <2>1. /\ queue # <<>> /\ ShiftedQueue /\ Len(queue') \in Nat /\ Head(queue) = queue[1]
    BY <1>0, <1>5, EndedQueue DEF SkipSuperseded, EndTask, Typed, process
  <2>2. registry' = registry /\ registry # queue[1].url /\ phase' = "idle" /\ proc' = proc
    BY <1>5, <2>1 DEF SkipSuperseded, Superseded, EndTask, process
  <2>. QED
    BY <1>5, <2>1, <2>2, QueuedEnd, SinkUnchanged DEF SkipSuperseded, process
<1>6. CASE StartTask
  <2>1. CASE phase' = "hydrating"
    BY <1>6, <2>1, QueuedStart
  <2>2. CASE phase' # "hydrating"
    <3>1. queue # <<>> /\ RowsOf(Head(queue)) = {} /\ EndTask /\ UNCHANGED <<registry, proc>>
      BY <1>6, <2>2 DEF StartTask, process
    <3>2. /\ ShiftedQueue /\ Len(queue') \in Nat /\ phase' = "idle"
      BY <1>0, <3>1, EndedQueue DEF EndTask, Typed
    <3>3. Done' = Done /\ log' = log /\ todo = {}
      BY <1>0, <1>6, SinkUnchanged DEF StartTask, Typed, HeadTask, Running
    <3>4. queue[1].url = proc =>
            \A m \in 1..log : queue[1].kind = "replay" \/ queue[1].arg = m => m \in Done'
      BY <1>0, <3>1, <3>3, HeadReads
    <3>. QED
      BY <3>1, <3>2, <3>3, <3>4, QueuedEnd
  <2>. QED
    BY <2>1, <2>2
<1>7. CASE Hydrated
  <2>1. Running /\ UNCHANGED <<registry, proc, log>> /\ Done' = Done
    BY <1>7, SinkUnchanged DEF Hydrated, Running, process
  <2>2. CASE phase' = "posting"
    <3>1. queue' = queue /\ todo' = todo
      BY <1>7, <2>2 DEF Hydrated, EndTask, process
    <3>2. SameQueue
      BY <1>0, <3>1, UnchangedQueue DEF Typed
    <3>. QED
      BY <1>0, <2>1, <2>2, <3>1, <3>2, QueuedFrame DEF Running
  <2>3. CASE phase' # "posting"
    <3>1. EndTask /\ registry # Head(queue).url /\ queue # <<>> /\ Head(queue) = queue[1]
      BY <1>0, <1>7, <2>1, <2>3, HeadFacts DEF Hydrated, process
    <3>2. /\ ShiftedQueue /\ Len(queue') \in Nat /\ phase' = "idle"
      BY <1>0, <3>1, EndedQueue DEF EndTask, Typed
    <3>. QED
      BY <2>1, <3>1, <3>2, QueuedEnd
  <2>. QED
    BY <2>2, <2>3
<1>8. CASE HydrationThrows
  <2>1. Running /\ UNCHANGED <<proc, log>> /\ Done' = Done /\ DropRegistration(Head(queue).url)
    BY <1>8, SinkUnchanged DEF HydrationThrows, Running, sink, call, process
  <2>2. queue # <<>> /\ Head(queue) = queue[1] /\ queue[1] \in Task
    BY <1>0, <2>1, HeadFacts
  <2>3. registry' \in {registry, NoUrl} /\ registry' # queue[1].url
    BY <2>1, <2>2 DEF DropRegistration, NoUrl, Task
  <2>4. ShiftedQueue /\ Len(queue') \in Nat /\ phase' = "idle"
    BY <1>0, <1>8, <2>2, EndedQueue DEF HydrationThrows, Typed, process
  <2>. QED
    BY <2>1, <2>2, <2>3, <2>4, QueuedEnd
<1>9. CASE PostOk
  <2>1. /\ Running /\ phase = "posting" /\ answer = "ok" /\ UNCHANGED <<registry, proc, log>>
        /\ Done' = Done
    BY <1>9, SinkUnchanged DEF PostOk, Running, process
  <2>2. queue # <<>> /\ Head(queue) = queue[1]
    BY <1>0, <2>1, HeadFacts
  <2>3. PICK n \in todo :
          /\ IsNext(n)
          /\ \/ EndTask /\ (todo = {n} \/ registry # queue[1].url)
             \/ todo' = todo \ {n} /\ UNCHANGED <<queue, phase>>
    BY <1>9, <2>2 DEF PostOk, process
  <2>4. queue[1].url = proc => n \in Done
    BY <1>0, <2>1, <2>3 DEF Ordered, Answered
  <2>5. CASE EndTask /\ (todo = {n} \/ registry # queue[1].url)
    <3>1. ShiftedQueue /\ Len(queue') \in Nat /\ phase' = "idle"
      BY <1>0, <2>2, <2>5, EndedQueue DEF EndTask, Typed
    <3>2. registry' = proc /\ queue[1].url = proc => todo \subseteq Done'
      BY <2>1, <2>4, <2>5
    <3>. QED
      BY <2>1, <2>2, <3>1, <3>2, QueuedEnd
  <2>6. CASE todo' = todo \ {n} /\ UNCHANGED <<queue, phase>>
    <3>1. SameQueue
      BY <1>0, <2>6, UnchangedQueue DEF Typed
    <3>. QED
      BY <1>0, <2>1, <2>4, <2>6, <3>1, QueuedFrame DEF Running
  <2>. QED
    BY <2>3, <2>5, <2>6
<1>10. CASE PostFails
  <2>1. /\ Running /\ UNCHANGED <<proc, log>> /\ Done' = Done /\ EndTask
        /\ DropRegistration(Head(queue).url)
    BY <1>10, SinkUnchanged DEF PostFails, Running, sink, process
  <2>2. queue # <<>> /\ Head(queue) = queue[1] /\ queue[1] \in Task
    BY <1>0, <2>1, HeadFacts
  <2>3. registry' \in {registry, NoUrl} /\ registry' # queue[1].url
    BY <2>1, <2>2 DEF DropRegistration, NoUrl, Task
  <2>4. ShiftedQueue /\ Len(queue') \in Nat /\ phase' = "idle"
    BY <1>0, <2>1, <2>2, EndedQueue DEF EndTask, Typed
  <2>. QED
    BY <2>1, <2>2, <2>3, <2>4, QueuedEnd
<1>11. CASE AppViewRestart
  <2>1. Len(queue') = 0 /\ registry' = NoUrl /\ proc' = proc
    BY <1>11, EmptySeq DEF AppViewRestart, sink, process
  <2>2. registry' # proc'
    BY <1>0, <2>1, KnownFacts DEF NoUrl
  <2>. QED
    BY <2>1, <2>2 DEF Queued, QueuedOrder, ReplayFirst, ReplayLast, AllCovered
<1>12. CASE TryRegister
  <2>1. SameQueue
    BY <1>0, <1>12, UnchangedQueue DEF TryRegister, appview, Typed, process
  <2>. QED
    BY <1>0, <1>12, <2>1, QueuedFrame, SinkUnchanged DEF TryRegister, appview, Running, process
<1>13. CASE RegisterDone
  <2>1. SameQueue
    BY <1>0, <1>13, UnchangedQueue DEF RegisterDone, appview, Typed, process
  <2>2. Done' = Done
    BY <1>13 DEF RegisterDone, table, process, Done, Emitting, Finished, Handed, Excused
  <2>. QED
    BY <1>0, <1>13, <2>1, <2>2, QueuedFrame DEF RegisterDone, table, appview, Running, process
<1>14. CASE RegisterFails
  <2>1. SameQueue
    BY <1>0, <1>14, ForgottenQueue DEF RegisterFails, Typed, process
  <2>. QED
    BY <1>0, <1>14, <2>1, QueuedFrame, SinkUnchanged DEF RegisterFails, Running, process
<1>15. CASE HandlePost
  <2>1. SameQueue
    BY <1>0, <1>15, UnchangedQueue DEF HandlePost, Typed
  <2>2. Done \subseteq Done'
    BY <1>15, HandleOrder
  <2>. QED
    BY <1>0, <1>15, <2>1, <2>2, QueuedFrame DEF HandlePost, table, Running, process
<1>16. CASE EmitDone
  <2>1. SameQueue
    BY <1>0, <1>16, UnchangedQueue DEF EmitDone, Typed
  <2>. QED
    BY <1>0, <1>16, <2>1, EmitOrder, QueuedFrame DEF EmitDone, table, Running, process
<1>17. CASE ProcRestart
  <2>1. proc' = proc + 1 /\ registry' = registry /\ proc \in Nat
    BY <1>0, <1>17, KnownFacts DEF ProcRestart, process
  <2>2. SameQueue /\ \A i \in 1..Len(queue) : queue[i] \in Task /\ queue[i].url <= proc
    BY <1>0, <1>17, ForgottenQueue, QueueIsSeq DEF ProcRestart, Typed, Known, KnownUrls, process
  <2>3. registry' # proc'
    BY <1>0, <2>1, KnownFacts
  <2>4. \A i \in 1..Len(queue') : queue'[i].url # proc'
    BY <2>1, <2>2 DEF SameQueue, Alike, Task
  <2>. QED
    BY <2>3, <2>4 DEF Queued, QueuedOrder, ReplayFirst, ReplayLast, AllCovered
<1>18. CASE UNCHANGED vars
  <2>1. SameQueue
    BY <1>0, <1>18, UnchangedQueue DEF vars, appview, Typed, process
  <2>. QED
    BY <1>0, <1>18, <2>1, QueuedFrame, SinkUnchanged DEF vars, appview, Running, process
<1>. QED
  BY <1>1, <1>2, <1>3, <1>4, <1>5, <1>6, <1>7, <1>8, <1>9, <1>10, <1>11, <1>12,
     <1>13, <1>14, <1>15, <1>16, <1>17, <1>18 DEF Next, AppViewNext, McpNext

-----------------------------------------------------------------------------
(* Theorems *)

LEMMA InvStep == ~HydrationFails /\ IInv /\ [Next]_vars => IInv'
<1>. SUFFICES ASSUME ~HydrationFails, IInv, [Next]_vars PROVE IInv'
  OBVIOUS
<1>1. Typed'
  BY Groups, TypeStep
<1>2. Known' /\ Ordered' /\ Queued'
  BY <1>1, KnownStep, OrderedStep, QueuedStep
<1>. QED
  BY <1>1, <1>2 DEF IInv, Typed, Known, Ordered, Queued

\* The AppView's bookkeeping keeps its promises (IInv) in every reachable state,
\* whatever is lost, times out or restarts, while no replay throws.
THEOREM Invariant == ~HydrationFails => (Spec => []IInv)
<1>. SUFFICES ASSUME ~HydrationFails PROVE Spec => []IInv
  OBVIOUS
<1>1. IInv /\ [Next]_vars => IInv'
  BY InvStep
<1>. QED
  BY <1>1, InvInit, PTL DEF Spec

\* At least once: the cursor on disk never passes a row the session was not
\* handed, but for rows that were hidden and rows a live task passed because the
\* record it was for had been deleted and created again.
THEOREM NeverSkips == ~HydrationFails => (Spec => []NoSkip)
<1>. SUFFICES ASSUME ~HydrationFails PROVE Spec => []NoSkip
  OBVIOUS
<1>1. IInv => NoSkip
  BY FinishedFirst DEF IInv, Checkpoints, Passed, NoSkip
<1>2. Spec => []IInv
  BY Invariant
<1>. QED
  BY <1>1, <1>2, PTL

LEMMA GapFree == IInv => NoCutoverGap
<1>0. IInv => Done \subseteq Handed(emitted \cup Emitting) \cup Excused
  <2>1. Handed(emitted) \subseteq Handed(emitted \cup Emitting)
    BY DEF Handed
  <2>. QED
    BY <2>1 DEF IInv, Checkpoints, Done, Finished
<1>. SUFFICES ASSUME IInv, registry = proc, NEW n \in 1..log
              PROVE  n \in Done \/ Pending(n)
  BY <1>0 DEF NoCutoverGap
<1>1. /\ Typed /\ Known /\ Queued /\ Len(queue) \in Nat
      /\ \A i \in 1..Len(queue) : queue[i] \in Task
      /\ DOMAIN queue = 1..Len(queue) /\ log \in Nat
  BY Groups, QueueIsSeq, KnownFacts, LenProperties DEF Typed
<1>2. ASSUME NEW j \in 1..Len(queue), Unread(j), queue[j].url = proc
      PROVE  n \in Done \/ Pending(n)
  <2>1. Passed(queue[j].arg) /\ queue[j].arg \in Nat
    BY <1>1, <1>2, TaskFacts DEF Unread
  <2>2. CASE queue[j].arg < n
    BY <1>1, <1>2, <2>2 DEF Pending, Unread, Running
  <2>3. CASE n <= queue[j].arg
    BY <2>1, <2>3, FinishedFirst DEF Passed
  <2>. QED
    BY <1>1, <2>1, <2>2, <2>3
<1>3. CASE \E j \in 1..Len(queue) : Unread(j)
  <2>1. PICK j \in 1..Len(queue) : Unread(j)
    BY <1>3
  <2>2. CASE queue[j].url = proc
    BY <1>2, <2>1, <2>2
  <2>3. CASE queue[j].url # proc
    <3>1. PICK k \in 1..Len(queue) : j < k /\ queue[k].kind = "replay" /\ queue[k].url = proc
      BY <1>1, <2>1, <2>3 DEF Queued, ReplayLast
    <3>2. k # 1
      BY <3>1
    <3>. QED
      BY <1>2, <3>1, <3>2 DEF Unread
  <2>. QED
    BY <2>2, <2>3
<1>4. CASE ~\E j \in 1..Len(queue) : Unread(j)
  <2>1. Covered(n, Len(queue) + 1)
    BY <1>1, <1>4 DEF Queued, AllCovered
  <2>2. CASE Running /\ queue[1].url = proc /\ n \in todo
    BY <1>1, <2>2, HeadFacts DEF Pending, Running
  <2>3. ASSUME NEW j \in 1..Len(queue), j = 1 => ~Running,
               queue[j].kind = "live", queue[j].url = proc, queue[j].arg = n
        PROVE  Pending(n)
    BY <1>1, <2>3 DEF Pending, Running
  <2>. QED
    BY <2>1, <2>2, <2>3 DEF Covered
<1>. QED
  BY <1>3, <1>4

\* No cutover gap: while the AppView holds the running process's registration,
\* every row was handed over or has a task that will deliver it.
THEOREM NoGap == ~HydrationFails => (Spec => []NoCutoverGap)
<1>. SUFFICES ASSUME ~HydrationFails PROVE Spec => []NoCutoverGap
  OBVIOUS
<1>1. Spec => []IInv
  BY Invariant
<1>. QED
  BY <1>1, GapFree, PTL

\* The steps that leave the rows, the cursor and what was handed over alone.
LEMMA Elsewhere ==
    ASSUME [Next]_vars, ~HandlePost, ~EmitDone, ~RegisterDone, ~(\E u \in Row : Insert(u)),
           ~(\E n \in Row : Delete(n) \/ Hide(n) \/ Reveal(n))
    PROVE  UNCHANGED <<table, cursor, emitted, repeated, overtaken>>
<1>1. CASE \E r \in requests : Accept(r) \/ LoseRequest(r)
  BY <1>1 DEF Accept, LoseRequest, sink
<1>2. CASE SkipSuperseded \/ StartTask \/ Hydrated \/ HydrationThrows
  BY <1>2 DEF SkipSuperseded, StartTask, Hydrated, HydrationThrows, sink
<1>3. CASE PostOk \/ PostFails \/ AppViewRestart
  BY <1>3 DEF PostOk, PostFails, AppViewRestart, sink
<1>4. CASE TryRegister \/ RegisterFails \/ ProcRestart
  BY <1>4 DEF TryRegister, RegisterFails, ProcRestart, sink
<1>5. CASE UNCHANGED vars
  BY <1>5 DEF vars, sink
<1>. QED
  BY <1>1, <1>2, <1>3, <1>4, <1>5 DEF Next, AppViewNext, McpNext

LEMMA CursorStep == IInv /\ [Next]_vars => [cursor' < cursor => cursor' \in Excused]_cursor
<1>. SUFFICES ASSUME IInv, [Next]_vars, cursor' # cursor, cursor' < cursor
              PROVE  cursor' \in Excused
  OBVIOUS
<1>0. Typed /\ Known /\ Ordered /\ cursor \in Int
  BY Groups, KnownFacts
<1>1. CASE EmitDone
  <2>1. Len(emitting) \in Nat \ {0} /\ cursor' = emitting[1]
    BY <1>0, <1>1, TailOfQueue DEF EmitDone, Typed, TypeOK
  <2>2. emitting[1] \in Excused \/ cursor <= emitting[1]
    BY <1>0, <2>1 DEF Ordered, SinkRises
  <2>3. emitting[1] \in Row
    BY <1>0, <2>1, QueueIsSeq DEF Typed
  <2>. QED
    BY <1>0, <2>1, <2>2, <2>3 DEF Row
<1>2. CASE RegisterDone
  <2>1. cursor' = 0 /\ cursor = NoCursor
    BY <1>2 DEF RegisterDone, SwappedCursor, After
  <2>. QED
    BY <2>1 DEF NoCursor
<1>3. ASSUME ~EmitDone, ~RegisterDone PROVE cursor' = cursor
  <2>1. CASE HandlePost
    BY <2>1 DEF HandlePost
  <2>2. CASE \E u \in Row : Insert(u)
    BY <2>2 DEF Insert, sink
  <2>3. CASE \E n \in Row : Delete(n) \/ Hide(n) \/ Reveal(n)
    BY <2>3 DEF Delete, Hide, Reveal, HideRow, sink
  <2>. QED
    BY <1>3, <2>1, <2>2, <2>3, Elsewhere
<1>. QED
  BY <1>1, <1>2, <1>3

\* Whatever registrations are answered while live delivery advances it, the cursor
\* on disk goes back only to an excused row.
THEOREM CursorRises == ~HydrationFails => (Spec => CursorMonotone)
<1>. SUFFICES ASSUME ~HydrationFails PROVE Spec => CursorMonotone
  OBVIOUS
<1>1. Spec => []IInv
  BY Invariant
<1>. QED
  BY <1>1, CursorStep, PTL DEF Spec, CursorMonotone

LEMMA AbsInit == Init => Abs!Init
  BY DEF Init, Abs!Init, NoCursor, Excused, Handed

\* Rows are excused only for a reason: hidden, deleted, or passed.
LEMMA AbsExcuse ==
    ASSUME NEW S \in SUBSET (1..log), Excused' = Excused \cup S,
           UNCHANGED <<log, uri, cursor>>, Handed(emitted)' = Handed(emitted)
    PROVE  Abs!Next
  BY DEF Abs!Next, Abs!Excuse

LEMMA AbsStep == IInv /\ [Next]_vars => [Abs!Next]_(Abs!vars)
<1>. SUFFICES ASSUME IInv, [Next]_vars PROVE Abs!Next \/ UNCHANGED Abs!vars
  OBVIOUS
<1>0. Typed /\ Known /\ Ordered /\ log \in Nat
  BY Groups, KnownFacts
<1>. USE DEF Abs!Next, Abs!vars
<1>1. ASSUME NEW u \in Row, Insert(u) PROVE Abs!Next
  <2>1. Excused' = Excused /\ Handed(emitted)' = Handed(emitted) /\ \A n \in 1..log : uri'[n] = uri[n]
    BY <1>0, <1>1, InsertKeeps, InsertOneRow, TypeStep
  <2>. QED
    BY <1>1, <2>1 DEF Insert, sink, Abs!Publish
<1>2. ASSUME NEW n \in Row, Delete(n) \/ Hide(n) PROVE Abs!Next
  <2>1. /\ UNCHANGED <<log, uri, emitted, repeated, overtaken, cursor>>
        /\ everHidden' = everHidden \cup {n} /\ n \in 1..log
    BY <1>2 DEF Delete, Hide, HideRow, sink
  <2>2. Excused' = Excused \cup {n} /\ Handed(emitted)' = Handed(emitted)
    BY <2>1 DEF Excused, Handed
  <2>. QED
    BY <2>1, <2>2, AbsExcuse
<1>3. CASE HandlePost
  <2>1. /\ UNCHANGED <<table, cursor, emitted>> /\ UNCHANGED <<log, uri, everHidden>>
        /\ queue # <<>> /\ Head(queue) = queue[1] /\ 1 \in 1..Len(queue)
    BY <1>0, <1>3, HeadFacts DEF HandlePost, Running, table
  <2>2. PICK n \in todo :
          \/ /\ uri[n] \in seen /\ repeated' = repeated \cup ({n} \ emitted) /\ overtaken' = overtaken
          \/ repeated' = repeated /\ overtaken' = overtaken \cup Passes(n)
          \/ UNCHANGED <<repeated, overtaken>>
    BY <1>3 DEF HandlePost
  <2>3. n \in 1..log /\ emitted \subseteq 1..log
    BY <1>0, KnownFacts
  <2>4. CASE uri[n] \in seen /\ repeated' = repeated \cup ({n} \ emitted) /\ overtaken' = overtaken
    <3>1. Excused' = Excused
      BY <2>1, <2>4 DEF Excused
    <3>2. CASE n \notin emitted /\ \E m \in emitted : uri[m] = uri[n]
      <4>1. Handed(emitted)' = Handed(emitted) \cup {n}
        BY <2>1, <2>4, <3>2 DEF Handed
      <4>2. Abs!SameRecord(n) \cap Handed(emitted) # {}
        BY <2>3, <3>2 DEF Abs!SameRecord, Handed
      <4>3. Abs!Repeat(n)
        BY <2>1, <3>1, <4>1, <4>2 DEF Abs!Repeat
      <4>. QED
        BY <2>3, <4>3
    <3>3. CASE ~(n \notin emitted /\ \E m \in emitted : uri[m] = uri[n])
      <4>1. Handed(emitted)' = Handed(emitted)
        BY <2>1, <2>4, <3>3 DEF Handed
      <4>. QED
        BY <2>1, <3>1, <4>1
    <3>. QED
      BY <3>2, <3>3
  <2>5. CASE repeated' = repeated /\ overtaken' = overtaken \cup Passes(n)
    <3>1. Head(queue).arg \in Nat
      BY <1>0, <2>1, TaskFacts
    <3>2. Passes(n) \in SUBSET (1..log)
      <4>1. (Head(queue).arg + 1)..(n - 1) \subseteq 1..log
        BY <1>0, <2>3, <3>1
      <4>. QED
        BY <4>1 DEF Passes
    <3>3. Excused' = Excused \cup Passes(n) /\ Handed(emitted)' = Handed(emitted)
      BY <2>1, <2>5 DEF Excused, Handed
    <3>. QED
      BY <2>1, <3>2, <3>3, AbsExcuse
  <2>6. CASE UNCHANGED <<repeated, overtaken>>
    BY <2>1, <2>6 DEF Excused, Handed
  <2>. QED
    BY <2>2, <2>4, <2>5, <2>6
<1>4. CASE EmitDone
  <2>1. /\ Len(emitting) \in Nat \ {0} /\ Head(emitting) = emitting[1] /\ emitting[1] \in Row
        /\ 1 \in 1..Len(emitting)
    BY <1>0, <1>4, TailOfQueue DEF EmitDone, Typed, TypeOK
  <2>. DEFINE h == emitting[1]
  <2>2. h \in 1..log
    BY <1>0, <2>1, KnownFacts DEF Row
  <2>3. /\ UNCHANGED <<log, uri, everHidden, repeated, overtaken>>
        /\ emitted' = emitted \cup {h} /\ cursor' = h
    BY <1>4, <2>1 DEF EmitDone, table
  <2>4. 1..(h - 1) \subseteq Handed(emitted) \cup Excused
    <3>1. 1..(h - 1) \subseteq Finished(emitted \cup {emitting[j] : j \in 1..(1 - 1)})
      BY <1>0, <2>1 DEF Ordered, SinkOrder
    <3>2. emitted \cup {emitting[j] : j \in 1..(1 - 1)} = emitted
      OBVIOUS
    <3>3. 1..start \subseteq Handed(emitted) \cup Excused
      BY <1>0, KnownFacts
    <3>. QED
      BY <3>1, <3>2, <3>3, FinishedFirst
  <2>. HIDE DEF h
  <2>5. Excused' = Excused
    BY <2>3 DEF Excused
  <2>. DEFINE S == {n \in repeated : uri[n] = uri[h]}
  <2>6. Handed(emitted)' = Handed(emitted) \cup {h} \cup S
    BY <2>3 DEF Handed
  <2>7. S \in SUBSET Abs!SameRecord(h)
    BY <1>0, KnownFacts DEF Abs!SameRecord
  <2>. HIDE DEF S
  <2>8. Abs!Deliver(h)
    BY <2>3, <2>4, <2>5, <2>6, <2>7 DEF Abs!Deliver, Abs!Settled
  <2>. QED
    BY <2>2, <2>8
<1>5. CASE RegisterDone
  <2>1. /\ UNCHANGED <<log, uri, everHidden, overtaken, repeated, emitted>>
        /\ cursor' = cursor \/ cursor' = 0
    BY <1>5 DEF RegisterDone, SwappedCursor, After, table
  <2>2. Excused' = Excused /\ Handed(emitted)' = Handed(emitted)
    BY <2>1 DEF Excused, Handed
  <2>3. CASE cursor' = cursor
    BY <2>1, <2>2, <2>3
  <2>4. CASE cursor' = 0
    <3>1. Abs!Restore(0) /\ 0 \in 0..log
      BY <1>0, <2>1, <2>2, <2>4 DEF Abs!Restore, Abs!Settled
    <3>. QED
      BY <3>1
  <2>. QED
    BY <2>1, <2>3, <2>4
<1>6. ASSUME UNCHANGED <<table, cursor, emitted, repeated, overtaken>>
      PROVE  UNCHANGED Abs!vars
  BY <1>6 DEF table, Excused, Handed
<1>7. ASSUME NEW n \in Row, Reveal(n) PROVE UNCHANGED Abs!vars
  BY <1>7 DEF Reveal, sink, Excused, Handed
<1>8. CASE ~HandlePost /\ ~EmitDone /\ ~RegisterDone /\ ~(\E u \in Row : Insert(u))
           /\ ~(\E n \in Row : Delete(n) \/ Hide(n) \/ Reveal(n))
  BY <1>6, <1>8, Elsewhere
<1>. QED
  BY <1>1, <1>2, <1>3, <1>4, <1>5, <1>7, <1>8

\* The protocol implements AtLeastOnce: rows are handed over in order, the excused
\* ones aside, and the cursor is only ever set to a position before which all rows
\* were handed over or are excused.
THEOREM Implements == ~HydrationFails => (Spec => AbsSpec)
<1>. SUFFICES ASSUME ~HydrationFails PROVE Spec => AbsSpec
  OBVIOUS
<1>1. Spec => []IInv
  BY Invariant
<1>. QED
  BY <1>1, AbsInit, AbsStep, PTL DEF Spec, AbsSpec, Abs!Spec

=============================================================================
