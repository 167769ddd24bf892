---------------------------- MODULE CodexSinkProofs ----------------------------
(***************************************************************************)
(* Why the sink loses no row, keeps the rows in order and hands none over  *)
(* twice, for any number of rows, turns, faults, lost connections and      *)
(* restarts.                                                               *)
(*                                                                         *)
(* The rows this sink has accepted have no gap, from its cursor to the     *)
(* last row posted, so a row it has not accepted is newer than all that it *)
(* holds.  A row rides the turn whose completion commits it: it is in the  *)
(* input of that turn, or was read.  And the events of the connection tell *)
(* when a turn is over, so that a batch is given up only when it was read. *)
(***************************************************************************)
EXTENDS CodexSink, TLAPS, SequenceTheorems

\* Rows in order, and rows that all come before others.
Increasing(s) == \A i, j \in DOMAIN s : i < j => s[i] < s[j]

Before(s, t) == \A m \in RowsIn(s), n \in RowsIn(t) : m < n

\* The cursor and what was accepted are rows of the log; only a lost connection is down.
Within ==
    /\ cursor <= log /\ \A n \in seen : n <= log
    /\ ~up => events = <<>> /\ drops > 0

\* What is held was accepted, and calls and batches have the shape the code gives them.
Shape ==
    /\ \A n \in Held : n \in seen
    /\ sending = "no" => batch = <<>> /\ target = None /\ reply = Waiting
    /\ sending # "no" => batch # <<>>
    /\ sending = "start" => target = None
    /\ sending = "steer" => target # None
    /\ inflight.turn = None <=> inflight.rows = <<>>
    /\ ~up => reply \in {Waiting, Refused}

Ids == {turns[i].id : i \in DOMAIN turns}

\* Turns are numbered as they are accepted, and nothing names one that was not.
Numbered ==
    /\ \A i \in DOMAIN turns : turns[i].id <= nextTurn
    /\ \A i, j \in DOMAIN turns : i < j => turns[i].id < turns[j].id
    /\ \A i \in DOMAIN events : events[i].turn <= nextTurn
    /\ \A e \in early : e.turn <= nextTurn
    /\ {active, target, inflight.turn} \subseteq 0..nextTurn
    /\ reply <= nextTurn

\* A turn of this connection is running.
Heads(turn) == turns # <<>> /\ turns[1].id = turn /\ turns[1].conn = conn

\* The events of the connection tell of one turn after the other: who is active is
\* running, or its end is the next event.
Told ==
    /\ \A i \in DOMAIN events :
         events[i].status = "started" =>
           IF i = Len(events) THEN Heads(events[i].turn)
           ELSE events[i + 1].status # "started" /\ events[i + 1].turn = events[i].turn
    /\ up /\ active # None =>
         IF events = <<>> THEN Heads(active)
         ELSE events[1].status # "started" /\ events[1].turn = active

\* A turn whose end was told is over, and none failed if no turn did.
Ended ==
    /\ \A i \in DOMAIN events : events[i].status # "started" => events[i].turn \notin Ids
    /\ \A e \in early : e.turn \notin Ids
    /\ failed = 0 => /\ \A i \in DOMAIN events : events[i].status # "failed"
                     /\ \A e \in early : e.status # "failed"

\* A call rides the turn of the batch in flight, or that turn is over.
Replaces ==
    /\ sending = "steer" =>
         /\ inflight.turn \in {None, target}
         /\ reply \in {Waiting, Refused, target}
         /\ active # target => target \notin Ids
    /\ sending = "start" /\ inflight.turn # None => inflight.turn \notin Ids

\* Where the rows accepted may begin and end.
Marks == {cursor} \cup (IF registered THEN {posted} ELSE {}) \cup UNION {{n - 1, n} : n \in seen}

\* There is no gap between two of them.
Unbroken == drops = 0 => \A x, y \in Marks : \A m \in (x + 1)..y : m \in seen

\* A row was read, or is in the input of a turn.
Carried(n, turn) == n \in read \/ \E i \in DOMAIN turns : turns[i].id = turn /\ n \in turns[i].rows

\* What was handed over to a turn is carried by it, until a turn fails.
Rides ==
    failed = 0 =>
      /\ \A n \in RowsIn(inflight.rows) : Carried(n, inflight.turn)
      /\ reply \notin {Waiting, Refused} => \A n \in RowsIn(batch) : Carried(n, reply)

\* The rows in flight come before those of the call, and these before the queue.
Ordered ==
    drops = 0 =>
      /\ Increasing(inflight.rows) /\ Increasing(batch) /\ Increasing(queue)
      /\ Before(inflight.rows, batch) /\ Before(batch, queue) /\ Before(inflight.rows, queue)

\* The rows codex was ever given.
Given == read \cup UNION {turns[i].rows : i \in DOMAIN turns}

\* While nothing has gone wrong, what codex was given was accepted, and what is to be
\* given to it was not given before.
Once ==
    faults + failed + drops + crashes = 0 =>
      /\ again = {}
      /\ Given \subseteq seen
      /\ \A n \in RowsIn(queue) : n \notin Given
      /\ reply \in {Waiting, Refused} => \A n \in RowsIn(batch) : n \notin Given

Typed == TypeOK /\ Within /\ Shape

SinkInv ==
    /\ Typed /\ Numbered /\ Told /\ Ended /\ Replaces
    /\ Unbroken /\ Rides /\ Ordered /\ Once
    /\ StillHeld /\ CommittedWasRead

-----------------------------------------------------------------------------
(* Sequences of rows *)

\* What is known of a row's place in a sequence of rows.
LEMMA RowsAt ==
    ASSUME NEW s \in Seq(Row)
    PROVE  /\ DOMAIN s = 1..Len(s) /\ Len(s) \in Nat
           /\ \A i \in 1..Len(s) : s[i] \in Row /\ s[i] \in Int /\ s[i] \in RowsIn(s)
           /\ \A n \in RowsIn(s) : n \in Row /\ n \in Int /\ \E i \in 1..Len(s) : n = s[i]
           /\ RowsIn(s) = {} <=> s = <<>>
  <1>1. DOMAIN s = 1..Len(s) /\ Len(s) \in Nat /\ \A i \in 1..Len(s) : s[i] \in Row
    BY LenProperties, ElementOfSeq
  <1>2. Row \subseteq Int
    BY CodexAssumption DEF Row
  <1>3. s # <<>> => 1 \in 1..Len(s)
    BY <1>1, EmptySeq
  <1>4. s = <<>> => Len(s) = 0
    BY EmptySeq
  <1>5. RowsIn(s) = {} <=> s = <<>>
    BY <1>1, <1>3, <1>4 DEF RowsIn
  <1> QED
    BY <1>1, <1>2, <1>5 DEF RowsIn

\* No rows at all.
LEMMA NoRows == <<>> \in Seq(Row) /\ RowsIn(<<>>) = {} /\ Increasing(<<>>)
  <1>1. <<>> \in Seq(Row) /\ Len(<<>>) = 0
    BY EmptySeq
  <1>2. RowsIn(<<>>) = {} /\ DOMAIN <<>> = {}
    BY <1>1, RowsAt
  <1> QED
    BY <1>1, <1>2 DEF Increasing

\* Two lines of rows, one behind the other.
LEMMA Behind ==
    ASSUME NEW s \in Seq(Row), NEW t \in Seq(Row)
    PROVE  /\ s \o t \in Seq(Row)
           /\ RowsIn(s \o t) = RowsIn(s) \cup RowsIn(t)
           /\ Increasing(s) /\ Increasing(t) /\ Before(s, t) <=> Increasing(s \o t)
  <1> DEFINE u == s \o t
  <1>1. /\ u \in Seq(Row) /\ Len(u) = Len(s) + Len(t)
        /\ \A i \in 1..Len(s) + Len(t) : u[i] = IF i <= Len(s) THEN s[i] ELSE t[i - Len(s)]
    BY ConcatProperties
  <1> HIDE DEF u
  <1>0. Len(s) \in Nat /\ Len(t) \in Nat /\ DOMAIN s = 1..Len(s) /\ DOMAIN t = 1..Len(t)
        /\ DOMAIN u = 1..Len(u)
    BY <1>1, RowsAt
  <1>r. /\ \A i \in 1..Len(s) : s[i] \in RowsIn(s) /\ s[i] \in Int
        /\ \A i \in 1..Len(t) : t[i] \in RowsIn(t) /\ t[i] \in Int
        /\ \A i \in 1..Len(u) : u[i] \in RowsIn(u) /\ u[i] \in Int
    BY <1>1, RowsAt
  <1>s. /\ \A n \in RowsIn(s) : \E i \in 1..Len(s) : n = s[i]
        /\ \A n \in RowsIn(t) : \E i \in 1..Len(t) : n = t[i]
        /\ \A n \in RowsIn(u) : \E i \in 1..Len(u) : n = u[i]
    BY <1>1, RowsAt
  <1>2. /\ \A i \in 1..Len(s) : i \in 1..Len(u) /\ u[i] = s[i]
        /\ \A i \in 1..Len(t) : Len(s) + i \in 1..Len(u) /\ u[Len(s) + i] = t[i]
    <2>1. ASSUME NEW i \in 1..Len(s) PROVE i \in 1..Len(u) /\ u[i] = s[i]
      BY <1>0, <1>1
    <2>2. ASSUME NEW i \in 1..Len(t) PROVE Len(s) + i \in 1..Len(u) /\ u[Len(s) + i] = t[i]
      <3>1. Len(s) + i \in 1..Len(s) + Len(t) /\ ~(Len(s) + i <= Len(s)) /\ (Len(s) + i) - Len(s) = i
        BY <1>0
      <3> QED
        BY <1>1, <3>1
    <2> QED
      BY <2>1, <2>2
  <1>3. RowsIn(u) = RowsIn(s) \cup RowsIn(t)
    <2>1. RowsIn(u) \subseteq RowsIn(s) \cup RowsIn(t)
      <3> SUFFICES ASSUME NEW n \in RowsIn(u) PROVE n \in RowsIn(s) \cup RowsIn(t)
        OBVIOUS
      <3>1. PICK i \in 1..Len(u) : n = u[i]
        BY <1>1, RowsAt
      <3>2. CASE i <= Len(s)
        BY <1>0, <1>1, <1>r, <3>1, <3>2
      <3>3. CASE i > Len(s)
        <4>1. i - Len(s) \in 1..Len(t) /\ n = t[i - Len(s)]
          BY <1>1, <3>1, <3>3, RowsAt
        <4> QED
          BY <4>1, RowsAt
      <3> QED
        BY <3>2, <3>3, RowsAt
    <2>2. RowsIn(s) \subseteq RowsIn(u)
      BY <1>2, <1>r, <1>s
    <2>3. RowsIn(t) \subseteq RowsIn(u)
      BY <1>2, <1>r, <1>s
    <2> QED
      BY <2>1, <2>2, <2>3
  <1>4. ASSUME Increasing(s), Increasing(t), Before(s, t) PROVE Increasing(u)
    <2> SUFFICES ASSUME NEW i \in 1..Len(u), NEW j \in 1..Len(u), i < j PROVE u[i] < u[j]
      BY <1>1, RowsAt DEF Increasing
    <2>1. CASE j <= Len(s)
      <3>1. i \in 1..Len(s) /\ j \in 1..Len(s) /\ u[i] = s[i] /\ u[j] = s[j]
        BY <1>0, <1>1, <2>1
      <3> QED
        BY <1>0, <1>4, <3>1 DEF Increasing
    <2>2. CASE i > Len(s)
      <3>1. /\ i - Len(s) \in 1..Len(t) /\ j - Len(s) \in 1..Len(t)
            /\ u[i] = t[i - Len(s)] /\ u[j] = t[j - Len(s)]
        BY <1>1, <2>2, RowsAt
      <3> QED
        BY <1>4, <3>1, RowsAt DEF Increasing
    <2>3. CASE i <= Len(s) /\ j > Len(s)
      <3>1. /\ i \in 1..Len(s) /\ j - Len(s) \in 1..Len(t)
            /\ u[i] = s[i] /\ u[j] = t[j - Len(s)]
        BY <1>1, <2>3, RowsAt
      <3>2. s[i] \in RowsIn(s) /\ t[j - Len(s)] \in RowsIn(t)
        BY <3>1, RowsAt
      <3> QED
        BY <1>4, <3>1, <3>2 DEF Before
    <2> QED
      BY <2>1, <2>2, <2>3, RowsAt
  <1>5. ASSUME Increasing(u) PROVE Increasing(s) /\ Increasing(t) /\ Before(s, t)
    <2>1. \A i, j \in 1..Len(u) : i < j => u[i] < u[j]
      BY <1>1, <1>5, RowsAt DEF Increasing
    <2>2. Increasing(s)
      BY <1>2, <2>1, RowsAt DEF Increasing
    <2>3. Increasing(t)
      <3> SUFFICES ASSUME NEW i \in 1..Len(t), NEW j \in 1..Len(t), i < j PROVE t[i] < t[j]
        BY RowsAt DEF Increasing
      <3>1. Len(s) + i < Len(s) + j
        BY RowsAt
      <3> QED
        BY <1>2, <2>1, <3>1
    <2>4. Before(s, t)
      <3> SUFFICES ASSUME NEW m \in RowsIn(s), NEW n \in RowsIn(t) PROVE m < n
        BY DEF Before
      <3>1. PICK i \in 1..Len(s) : m = s[i]
        BY RowsAt
      <3>2. PICK j \in 1..Len(t) : n = t[j]
        BY RowsAt
      <3>3. i < Len(s) + j
        BY RowsAt
      <3> QED
        BY <1>2, <2>1, <3>1, <3>2, <3>3
    <2> QED
      BY <2>2, <2>3, <2>4
  <1> QED
    BY <1>1, <1>3, <1>4, <1>5 DEF u

\* A newer row at the end.
LEMMA AtTheEnd ==
    ASSUME NEW s \in Seq(Row), NEW n \in Row
    PROVE  /\ Append(s, n) \in Seq(Row)
           /\ RowsIn(Append(s, n)) = RowsIn(s) \cup {n}
           /\ Increasing(s) /\ (\A m \in RowsIn(s) : m < n) => Increasing(Append(s, n))
  <1>1. <<n>> \in Seq(Row) /\ Len(<<n>>) = 1 /\ <<n>>[1] = n
    OBVIOUS
  <1>2. RowsIn(<<n>>) = {n} /\ Increasing(<<n>>)
    <2>1. DOMAIN <<n>> = 1..1
      BY <1>1, LenProperties
    <2> QED
      BY <1>1, <2>1 DEF RowsIn, Increasing
  <1>3. Append(s, n) = s \o <<n>>
    BY AppendIsConcat
  <1>4. /\ s \o <<n>> \in Seq(Row)
        /\ RowsIn(s \o <<n>>) = RowsIn(s) \cup RowsIn(<<n>>)
        /\ Increasing(s) /\ Increasing(<<n>>) /\ Before(s, <<n>>) => Increasing(s \o <<n>>)
    BY <1>1, Behind
  <1>5. (\A m \in RowsIn(s) : m < n) => Before(s, <<n>>)
    BY <1>2 DEF Before
  <1> QED
    BY <1>2, <1>3, <1>4, <1>5

\* The first rows of a line, and the others.
LEMMA Parted ==
    ASSUME NEW s \in Seq(Row), NEW k \in 0..Len(s)
    PROVE  LET first == SubSeq(s, 1, k)
               rest  == SubSeq(s, k + 1, Len(s))
           IN  /\ first \in Seq(Row) /\ rest \in Seq(Row) /\ Len(first) = k
               /\ RowsIn(first) \cup RowsIn(rest) = RowsIn(s)
               /\ Increasing(s) => Increasing(first) /\ Increasing(rest) /\ Before(first, rest)
  <1> DEFINE first == SubSeq(s, 1, k)
             rest == SubSeq(s, k + 1, Len(s))
  <1>1. Len(s) \in Nat /\ \A i \in 1..Len(s) : s[i] \in Row
    BY RowsAt
  <1>2. first \in Seq(Row) /\ Len(first) = k
    BY <1>1, SubSeqProperties
  <1>3. rest \in Seq(Row)
    BY <1>1, SubSeqProperties
  <1>4. first \o rest = s
    <2>1. SubSeq(s, 1, Len(s)) = s
      BY SubSeqFull
    <2>2. SubSeq(s, 1, k) \o SubSeq(s, k + 1, Len(s)) = SubSeq(s, 1, Len(s))
      <3>1. 1 \in 1..Len(s) + 1 /\ k \in 1 - 1..Len(s) /\ Len(s) \in k..Len(s)
        BY <1>1
      <3> QED
        BY <3>1, ConcatAdjacentSubSeq
    <2> QED
      BY <2>1, <2>2
  <1> HIDE DEF first, rest
  <1>5. /\ RowsIn(first) \cup RowsIn(rest) = RowsIn(s)
        /\ Increasing(s) => Increasing(first) /\ Increasing(rest) /\ Before(first, rest)
    BY <1>2, <1>3, <1>4, Behind
  <1> QED
    BY <1>2, <1>3, <1>5 DEF first, rest

\* The last of rows that are in order is the newest.
LEMMA Newest ==
    ASSUME NEW s \in Seq(Row), s # <<>>
    PROVE  /\ s[Len(s)] \in RowsIn(s)
           /\ Increasing(s) => \A n \in RowsIn(s) : n <= s[Len(s)]
  <1>1. Len(s) \in 1..Len(s)
    BY RowsAt, EmptySeq
  <1>2. ASSUME Increasing(s), NEW n \in RowsIn(s) PROVE n <= s[Len(s)]
    <2>1. PICK i \in 1..Len(s) : n = s[i]
      BY RowsAt
    <2>2. i = Len(s) \/ i < Len(s)
      BY RowsAt
    <2> QED
      BY <1>1, <1>2, <2>1, <2>2, RowsAt DEF Increasing
  <1> QED
    BY <1>1, <1>2, RowsAt
-----------------------------------------------------------------------------
(* The calls of the sink *)

\* A step leaves these rows for the call and the queue.
Settles(rows) ==
    /\ queue' \in Seq(Row) /\ batch' \in Seq(Row)
    /\ RowsIn(batch') \cup RowsIn(queue') = RowsIn(rows)
    /\ Increasing(rows) => Increasing(batch') /\ Increasing(queue') /\ Before(batch', queue')

\* It makes a call that fits the batch in flight and the active turn, or none.
Calls(riding, running) ==
    \/ sending' = "no" /\ batch' = <<>> /\ target' = None /\ reply' = Waiting
    \/ /\ sending' = "start" /\ batch' # <<>> /\ target' = None /\ riding.turn = None
       /\ reply' \in {Waiting, Refused}
    \/ /\ sending' = "steer" /\ batch' # <<>> /\ target' = running /\ running # None
       /\ riding.turn \in {None, running} /\ reply' \in {Waiting, Refused}

\* Without a call the queue is all there is.
LEMMA Resting ==
    ASSUME NEW rows \in Seq(Row), NEW riding, NEW running, Rest(rows)
    PROVE  Settles(rows) /\ Calls(riding, running)
  BY NoRows DEF Rest, Settles, Calls, Before

\* pump() takes the first rows of the queue, and calls or rests.
LEMMA Pumping ==
    ASSUME NEW rows \in Seq(Row), NEW riding, NEW running, Pump(rows, riding, running)
    PROVE  Settles(rows) /\ Calls(riding, running)
  <1> DEFINE n == Least(MaxBatch, Len(rows))
  <1>1. CASE ~MayPump(rows, riding, running)
    <2>1. Rest(rows)
      BY <1>1 DEF Pump
    <2> QED
      BY <2>1, Resting
  <1>2. CASE MayPump(rows, riding, running)
    <2>1. rows # <<>> /\ riding.turn \in {None, running}
      BY <1>2 DEF MayPump
    <2>2. Len(rows) \in Nat \ {0}
      BY <2>1, EmptySeq
    <2>3. n \in 0..Len(rows) /\ n # 0
      BY <2>2, CodexAssumption DEF Least
    <2> HIDE DEF n
    <2>4. /\ queue' = SubSeq(rows, n + 1, Len(rows)) /\ batch' = SubSeq(rows, 1, n)
          /\ sending' = IF running = None THEN "start" ELSE "steer"
          /\ target' = running /\ reply' \in {Waiting, Refused}
      BY <1>2 DEF Pump, Call, n
    <2>5. Settles(rows) /\ Len(batch') = n
      BY <2>3, <2>4, Parted DEF Settles
    <2>6. batch' # <<>>
      BY <2>3, <2>5, EmptySeq
    <2> QED
      BY <2>1, <2>4, <2>5, <2>6 DEF Calls
  <1> QED
    BY <1>1, <1>2

\* How rows are handed on: given the batch that will be in flight and the rows that are
\* left for the call and the queue, the sink is in order again if these are.
LEMMA HandedOn ==
    ASSUME SinkInv,
           NEW riding \in [turn : Nat, rows : Seq(Row)], NEW rows \in Seq(Row),
           inflight' = riding, Settles(rows), Calls(riding, active'),
           UNCHANGED <<turns, nextTurn, read, again, up, faults, failed, drops, crashes>>,
           seen \subseteq seen', active' \in 0..nextTurn,
           riding.turn <= nextTurn, riding.turn = None <=> riding.rows = <<>>,
           RowsIn(riding.rows) \cup RowsIn(rows) \subseteq seen',
           failed = 0 => \A n \in RowsIn(riding.rows) : Carried(n, riding.turn),
           drops = 0 => /\ Increasing(riding.rows) /\ Increasing(rows)
                        /\ Before(riding.rows, rows),
           faults + failed + drops + crashes = 0 => \A n \in RowsIn(rows) : n \notin Given,
           failed = 0 => \A n \in seen' : n \in read \cup RowsIn(riding.rows) \cup RowsIn(rows)
    PROVE  /\ queue' \in Seq(Row) /\ batch' \in Seq(Row)
           /\ sending' \in {"no", "start", "steer"}
           /\ target' \in 0..nextTurn /\ reply' \in {Waiting, Refused}
           /\ inflight' \in [turn : Nat, rows : Seq(Row)] /\ inflight'.turn \in 0..nextTurn
           /\ Shape' /\ Replaces' /\ Rides' /\ Ordered' /\ Once' /\ StillHeld'
  <1> USE DEF None, Waiting, Refused
  <1>1. /\ queue' \in Seq(Row) /\ batch' \in Seq(Row)
        /\ RowsIn(batch') \cup RowsIn(queue') = RowsIn(rows)
    BY DEF Settles
  <1>2. /\ sending' \in {"no", "start", "steer"}
        /\ target' \in 0..nextTurn /\ reply' \in {Waiting, Refused}
    <2>1. nextTurn \in Nat
      BY DEF SinkInv, Typed, TypeOK
    <2> QED
      BY <2>1 DEF Calls
  <1>3. inflight' \in [turn : Nat, rows : Seq(Row)] /\ inflight'.turn \in 0..nextTurn
    BY DEF SinkInv, Typed, TypeOK
  <1>4. Held' = RowsIn(riding.rows) \cup RowsIn(rows)
    BY <1>1 DEF Held
  <1>5. Shape'
    BY <1>4 DEF Shape, Calls
  <1>6. Replaces'
    BY DEF Replaces, Calls
  <1>7. Rides'
    BY <1>2 DEF Rides, Carried
  <1>8. Ordered'
    BY <1>1 DEF Ordered, Settles, Before
  <1>9. Once'
    BY <1>1 DEF SinkInv, Once, Given
  <1>10. StillHeld'
    BY <1>4 DEF StillHeld
  <1> QED
    BY <1>1, <1>2, <1>3, <1>5, <1>6, <1>7, <1>8, <1>9, <1>10

\* What a step leaves alone stays as it was.
LEMMA EventsFrame ==
    ASSUME SinkInv, UNCHANGED <<turns, events, active, up, conn, failed>>, early' \subseteq early
    PROVE  Told' /\ Ended'
  BY DEF SinkInv, Told, Ended, Heads, Ids

\* The numbers the sink knows and has read, likewise.
LEMMA NumbersFrame ==
    ASSUME SinkInv, UNCHANGED <<turns, nextTurn, events>>, early' \subseteq early,
           {active', target', inflight'.turn} \subseteq 0..nextTurn, reply' <= nextTurn
    PROVE  Numbered'
  BY DEF SinkInv, Numbered

\* The calls, likewise.
LEMMA CallFrame ==
    ASSUME SinkInv,
           UNCHANGED <<queue, call, inflight, seen, turns, nextTurn, read, again, active, up,
                       faults, failed, drops, crashes>>
    PROVE  Shape' /\ Replaces' /\ Rides' /\ Ordered' /\ Once' /\ StillHeld'
  <1> USE DEF SinkInv, Typed, call
  <1>1. Held' = Held
    BY DEF Held
  <1>2. Shape'
    BY <1>1 DEF Shape
  <1>3. Replaces' /\ Ordered'
    BY DEF Replaces, Ids, Ordered
  <1>4. Rides' /\ Once'
    BY DEF Rides, Carried, Once, Given
  <1>5. StillHeld'
    BY <1>1 DEF StillHeld
  <1> QED
    BY <1>2, <1>3, <1>4, <1>5

\* The cursor, likewise.
LEMMA CursorFrame ==
    ASSUME SinkInv, UNCHANGED <<cursor, drops, failed>>, read \subseteq read', seen \subseteq seen',
           Marks' \subseteq Marks
    PROVE  Unbroken' /\ CommittedWasRead'
  BY DEF SinkInv, Unbroken, CommittedWasRead, NoLoss

\* The cursor of a row is committed when all older rows of this sink were read.
LEMMA Committing ==
    ASSUME SinkInv, NEW c \in seen, cursor' = c,
           UNCHANGED <<registered, posted, seen, read, drops, failed>>,
           failed = 0 /\ drops = 0 => \A n \in seen : n <= c => n \in read
    PROVE  cursor' <= log /\ cursor' \in 0..MaxRow /\ Unbroken' /\ CommittedWasRead'
  <1>1. c \in Nat /\ c <= log /\ cursor \in Nat /\ cursor' \in 0..MaxRow
    BY CodexAssumption DEF SinkInv, Typed, TypeOK, Within, Row
  <1>2. Marks' \subseteq Marks
    BY DEF Marks
  <1>3. Unbroken'
    BY <1>2 DEF SinkInv, Unbroken
  <1>4. CommittedWasRead'
    <2> SUFFICES ASSUME failed = 0, drops = 0, NEW n \in 1..c PROVE n \in read
      BY DEF CommittedWasRead, NoLoss
    <2>1. CASE n <= cursor
      BY <1>1, <2>1 DEF SinkInv, CommittedWasRead, NoLoss
    <2>2. CASE n > cursor
      <3>1. cursor \in Marks /\ c \in Marks
        BY DEF Marks
      <3>2. n \in (cursor + 1)..c
        BY <1>1, <2>2
      <3>3. n \in seen
        BY <3>1, <3>2 DEF SinkInv, Unbroken
      <3> QED
        BY <1>1, <3>3
    <2> QED
      BY <1>1, <2>1, <2>2
  <1> QED
    BY <1>1, <1>3, <1>4
-----------------------------------------------------------------------------
(* The steps of the sink *)

\* A row that is new to the sink is newer than all it has accepted.
LEMMA NewIsNewest ==
    ASSUME SinkInv, drops = 0, registered, posted < log, posted + 1 \notin seen
    PROVE  \A n \in seen : n < posted + 1
  <1> SUFFICES ASSUME NEW n \in seen, n >= posted + 1 PROVE FALSE
    BY DEF SinkInv, Typed, TypeOK, Row
  <1>1. n \in Nat /\ posted \in Nat
    BY CodexAssumption DEF SinkInv, Typed, TypeOK, Row
  <1>2. posted \in Marks /\ n \in Marks
    BY DEF Marks
  <1>3. posted + 1 \in (posted + 1)..n
    BY <1>1
  <1> QED
    BY <1>2, <1>3 DEF SinkInv, Unbroken

\* The next row is posted, and accepted or known already.
LEMMA PostedOn ==
    ASSUME SinkInv, registered, posted < log, UNCHANGED <<cursor, drops, failed, read, registered>>,
           posted' = posted + 1, seen' = seen \cup {posted + 1}
    PROVE  Unbroken' /\ CommittedWasRead'
  <1> DEFINE n == posted + 1
  <1>1. posted \in Nat /\ cursor \in Nat /\ seen \subseteq Nat
    BY CodexAssumption DEF SinkInv, Typed, TypeOK, Row
  <1>2. Marks' \subseteq Marks \cup {n} /\ posted \in Marks /\ Marks \subseteq Int
    BY <1>1 DEF Marks
  <1>3. ASSUME drops = 0, NEW x \in Marks', NEW y \in Marks', NEW m \in (x + 1)..y
        PROVE  m \in seen'
    <2>1. x \in Int /\ y \in Int /\ m \in Int /\ x < m /\ m <= y
      BY <1>1, <1>2, <1>3
    <2>2. CASE x \in Marks /\ y \in Marks
      BY <1>3, <2>2 DEF SinkInv, Unbroken
    <2>3. CASE x \in Marks /\ y = n
      <3>1. m = n \/ m \in (x + 1)..posted
        BY <1>1, <2>1, <2>3
      <3> QED
        BY <1>2, <1>3, <2>3, <3>1 DEF SinkInv, Unbroken
    <2>4. CASE x = n /\ y \in Marks
      <3>1. m \in (posted + 1)..y
        BY <1>1, <2>1, <2>4
      <3> QED
        BY <1>2, <1>3, <2>4, <3>1 DEF SinkInv, Unbroken
    <2>5. ~(x = n /\ y = n)
      BY <2>1
    <2> QED
      BY <1>2, <2>2, <2>3, <2>4, <2>5
  <1>4. Unbroken'
    BY <1>3 DEF Unbroken
  <1>5. CommittedWasRead'
    BY DEF SinkInv, CommittedWasRead, NoLoss
  <1> QED
    BY <1>4, <1>5

\* Each POST.
LEMMA DeliverStep == SinkInv /\ Deliver => SinkInv'
  <1> SUFFICES ASSUME SinkInv, Deliver PROVE SinkInv'
    OBVIOUS
  <1> USE DEF appview, call, server, bounds
  <1>1. registered /\ posted < log /\ UNCHANGED <<log, inflight, early, timer, active, up, events,
            turns, nextTurn, read, again, cursor, conn, faults, failed, others, drops, crashes>>
    BY DEF Deliver
  <1>2. /\ posted + 1 \in Row /\ posted' \in 0..log /\ inflight \in [turn : Nat, rows : Seq(Row)]
        /\ queue \in Seq(Row) /\ batch \in Seq(Row) /\ seen \subseteq Row
    <2>1. log \in 0..MaxRow /\ posted \in 0..log /\ MaxRow \in Nat
      BY CodexAssumption DEF SinkInv, Typed, TypeOK
    <2>2. posted + 1 \in Row
      BY <1>1, <2>1 DEF Row
    <2>3. posted' = posted \/ posted' = posted + 1
      BY DEF Deliver
    <2> QED
      BY <1>1, <2>1, <2>2, <2>3 DEF SinkInv, Typed, TypeOK
  <1>3. Told' /\ Ended'
    BY <1>1, EventsFrame
  <1>4. CASE UNCHANGED <<queue, seen, call>>
    <2>1. Shape' /\ Replaces' /\ Rides' /\ Ordered' /\ Once' /\ StillHeld'
      BY <1>1, <1>4, CallFrame
    <2>2. Unbroken' /\ CommittedWasRead'
      <3>1. CASE registered' /\ posted' = posted + 1 /\ posted + 1 \in seen
        BY <1>1, <1>4, <3>1, PostedOn DEF Deliver, SinkInv, Typed, TypeOK
      <3>2. CASE registered' = FALSE
        <4>1. Marks' \subseteq Marks
          BY <1>1, <1>4, <3>2 DEF Marks
        <4> QED
          BY <1>1, <1>4, <4>1, CursorFrame
      <3> QED
        BY <1>4, <3>1, <3>2, <1>1 DEF Deliver, Duplicate, SinkInv, Typed, TypeOK
    <2>3. Numbered'
      BY <1>1, <1>4 DEF SinkInv, Numbered
    <2>4. Within'
      BY <1>1, <1>4 DEF SinkInv, Typed, Within
    <2>5. TypeOK'
      BY <1>1, <1>2, <1>4 DEF SinkInv, Typed, TypeOK, Deliver
    <2>6. Typed'
      BY <2>1, <2>4, <2>5 DEF Typed
    <2> QED
      BY <1>3, <2>1, <2>2, <2>3, <2>6 DEF SinkInv
  <1>5. CASE ~UNCHANGED <<queue, seen, call>>
    <2> DEFINE n == posted + 1
    <2>1. /\ UNCHANGED registered /\ posted' = n /\ n \notin seen /\ seen' = seen \cup {n}
          /\ \/ sending = "no" /\ Pump(Append(queue, n), inflight, active)
             \/ sending # "no" /\ queue' = Append(queue, n) /\ UNCHANGED call
      BY <1>5 DEF Deliver, Duplicate
    <2> HIDE DEF n
    <2>2. Unbroken' /\ CommittedWasRead'
      BY <1>1, <2>1, PostedOn DEF n
    <2>3. /\ Append(queue, n) \in Seq(Row) /\ RowsIn(Append(queue, n)) = RowsIn(queue) \cup {n}
          /\ Increasing(queue) /\ (\A m \in RowsIn(queue) : m < n) => Increasing(Append(queue, n))
      BY <1>2, AtTheEnd DEF n
    <2>4. drops = 0 => \A m \in seen : m < n
      BY <1>1, <2>1, NewIsNewest DEF n
    <2>5. Held \subseteq seen
      BY DEF SinkInv, Typed, Shape
    <2>6. faults + failed + drops + crashes = 0 => n \notin Given
      BY <2>1 DEF SinkInv, Once
    <2>7. /\ drops = 0 => /\ Increasing(inflight.rows) /\ Increasing(batch)
                          /\ Increasing(Append(queue, n)) /\ Before(inflight.rows, batch)
                          /\ Before(batch, Append(queue, n)) /\ Before(inflight.rows, Append(queue, n))
          /\ failed = 0 => \A m \in seen' : m \in read \cup Held \cup {n}
      BY <2>1, <2>3, <2>4, <2>5 DEF SinkInv, Ordered, Before, Held, StillHeld
    <2>8. /\ queue' \in Seq(Row) /\ batch' \in Seq(Row)
          /\ sending' \in {"no", "start", "steer"}
          /\ target' \in 0..nextTurn /\ reply' \in Nat \cup {Refused} /\ reply' <= nextTurn
          /\ inflight' \in [turn : Nat, rows : Seq(Row)] /\ inflight'.turn \in 0..nextTurn
          /\ Shape' /\ Replaces' /\ Rides' /\ Ordered' /\ Once' /\ StillHeld'
      <3>1. CASE sending = "no" /\ Pump(Append(queue, n), inflight, active)
        <4>1. Settles(Append(queue, n)) /\ Calls(inflight, active')
          BY <1>1, <2>3, <3>1, Pumping
        <4>2. RowsIn(batch) = {}
          BY <1>2, <3>1, RowsAt DEF SinkInv, Typed, Shape
        <4>3. /\ failed = 0 => \A m \in RowsIn(inflight.rows) : Carried(m, inflight.turn)
              /\ faults + failed + drops + crashes = 0 =>
                   \A m \in RowsIn(Append(queue, n)) : m \notin Given
              /\ RowsIn(inflight.rows) \cup RowsIn(Append(queue, n)) \subseteq seen'
              /\ failed = 0 => \A m \in seen' : m \in read \cup RowsIn(inflight.rows)
                                                      \cup RowsIn(Append(queue, n))
          BY <2>1, <2>3, <2>5, <2>6, <2>7, <4>2 DEF SinkInv, Rides, Once, Held
        <4>4. /\ active' \in 0..nextTurn /\ inflight.turn <= nextTurn /\ nextTurn \in Nat
              /\ inflight.turn = None <=> inflight.rows = <<>>
          BY <1>1 DEF SinkInv, Numbered, Typed, TypeOK, Shape
        <4>5. /\ queue' \in Seq(Row) /\ batch' \in Seq(Row)
              /\ sending' \in {"no", "start", "steer"}
              /\ target' \in 0..nextTurn /\ reply' \in {Waiting, Refused}
              /\ inflight' \in [turn : Nat, rows : Seq(Row)] /\ inflight'.turn \in 0..nextTurn
              /\ Shape' /\ Replaces' /\ Rides' /\ Ordered' /\ Once' /\ StillHeld'
          BY <1>1, <1>2, <2>1, <2>3, <2>7, <4>1, <4>3, <4>4, HandedOn
        <4> QED
          BY <4>4, <4>5 DEF Waiting, Refused
      <3>2. CASE sending # "no" /\ queue' = Append(queue, n) /\ UNCHANGED call
        <4>1. Held' = Held \cup {n}
          BY <1>1, <2>3, <3>2 DEF Held
        <4>2. Shape' /\ StillHeld'
          BY <1>1, <2>1, <2>7, <3>2, <4>1 DEF SinkInv, Typed, Shape, StillHeld
        <4>3. Ordered' /\ Replaces'
          BY <1>1, <2>7, <3>2 DEF SinkInv, Ordered, Replaces, Ids
        <4>4. Rides' /\ Once'
          BY <1>1, <2>1, <2>3, <2>6, <3>2 DEF SinkInv, Rides, Carried, Once, Given
        <4> QED
          BY <1>1, <1>2, <2>3, <3>2, <4>2, <4>3, <4>4 DEF SinkInv, Typed, TypeOK, Numbered
      <3> QED
        BY <2>1, <3>1, <3>2
    <2>9. Numbered'
      BY <1>1, <2>8, NumbersFrame DEF SinkInv, Numbered
    <2>10. Typed'
      <3>1. /\ UNCHANGED <<log, registered, early, timer, active, up, events, turns, nextTurn, read,
                           again, cursor, conn, faults, failed, others, drops, crashes>>
            /\ queue' \in Seq(Row) /\ batch' \in Seq(Row) /\ sending' \in {"no", "start", "steer"}
            /\ reply' \in Nat \cup {Refused} /\ inflight' \in [turn : Nat, rows : Seq(Row)]
        BY <1>1, <2>1, <2>8
      <3>2. TypeOK /\ Within /\ nextTurn \in Nat /\ log \in Nat
        BY CodexAssumption DEF SinkInv, Typed, TypeOK
      <3>3. posted' \in 0..log /\ n \in Row /\ n <= log
        BY <1>1, <1>2, <2>1, <3>2 DEF TypeOK, n
      <3>4. seen' \subseteq Row /\ (\A m \in seen' : m <= log) /\ target' \in Nat
        <4>1. seen' = seen \cup {n}
          BY <2>1 DEF n
        <4>2. seen \subseteq Row /\ \A m \in seen : m <= log
          BY <3>2 DEF TypeOK, Within
        <4>3. target' \in Nat
          BY <2>8, <3>2
        <4> QED
          BY <3>3, <4>1, <4>2, <4>3
      <3>5. TypeOK'
        BY <3>1, <3>2, <3>3, <3>4 DEF TypeOK
      <3>6. Within'
        BY <3>1, <3>2, <3>4 DEF Within
      <3> QED
        BY <2>8, <3>5, <3>6 DEF Typed
    <2> QED
      BY <1>3, <2>2, <2>8, <2>9, <2>10 DEF SinkInv
  <1> QED
    BY <1>4, <1>5
\* A batch in flight and rows for the call and the queue that fit together.
Fits(riding, rows) ==
    /\ riding \in [turn : Nat, rows : Seq(Row)] /\ rows \in Seq(Row)
    /\ riding.turn <= nextTurn /\ (riding.turn = None <=> riding.rows = <<>>)
    /\ RowsIn(riding.rows) \cup RowsIn(rows) \subseteq seen
    /\ failed = 0 => \A n \in RowsIn(riding.rows) : Carried(n, riding.turn)
    /\ drops = 0 => Increasing(riding.rows) /\ Increasing(rows) /\ Before(riding.rows, rows)
    /\ faults + failed + drops + crashes = 0 => \A n \in RowsIn(rows) : n \notin Given
    /\ failed = 0 => \A n \in seen : n \in read \cup RowsIn(riding.rows) \cup RowsIn(rows)

\* The cursor stays, or that of a row is committed whose elders were all read.
Commits ==
    \/ cursor' = cursor
    \/ /\ cursor' \in seen
       /\ failed = 0 /\ drops = 0 => \A n \in seen : n <= cursor' => n \in read

\* A step of the sink that hands rows on keeps all but what concerns the events.
LEMMA HandsOver ==
    ASSUME SinkInv, NEW riding, NEW rows, Fits(riding, rows), Commits,
           inflight' = riding, Settles(rows), Calls(riding, active'),
           UNCHANGED <<appview, seen, up, server, conn, bounds>>,
           active' \in 0..nextTurn, timer' \in BOOLEAN,
           events' \in Seq(Event), ~up => events' = <<>>,
           \A i \in DOMAIN events' : events'[i].turn <= nextTurn,
           early' \subseteq [turn : Nat \ {0}, status : Status], \A e \in early' : e.turn <= nextTurn
    PROVE  /\ Typed' /\ Numbered' /\ Replaces' /\ Unbroken' /\ Rides' /\ Ordered' /\ Once'
           /\ StillHeld' /\ CommittedWasRead'
  <1> USE DEF appview, server, bounds
  <1>1. nextTurn \in Nat /\ cursor \in 0..MaxRow /\ cursor <= log
    BY DEF SinkInv, Typed, TypeOK, Within
  <1>2. /\ queue' \in Seq(Row) /\ batch' \in Seq(Row)
        /\ sending' \in {"no", "start", "steer"}
        /\ target' \in 0..nextTurn /\ reply' \in {Waiting, Refused}
        /\ inflight' \in [turn : Nat, rows : Seq(Row)] /\ inflight'.turn \in 0..nextTurn
        /\ Shape' /\ Replaces' /\ Rides' /\ Ordered' /\ Once' /\ StillHeld'
    BY HandedOn DEF Fits
  <1>3. Numbered'
    BY <1>1, <1>2 DEF SinkInv, Numbered, Waiting, Refused
  <1>4. /\ cursor' <= log /\ cursor' \in 0..MaxRow /\ Unbroken' /\ CommittedWasRead'
    <2>1. CASE cursor' = cursor
      BY <1>1, <2>1, CursorFrame DEF Marks
    <2>2. CASE cursor' # cursor
      BY <2>2, Committing DEF Commits
    <2> QED
      BY <2>1, <2>2
  <1>5. TypeOK'
    <2>1. target' \in Nat /\ reply' \in Nat \cup {Refused}
      BY <1>1, <1>2 DEF Waiting
    <2>2. /\ log' \in 0..MaxRow /\ posted' \in 0..log' /\ registered' \in BOOLEAN
          /\ seen' \subseteq Row /\ active' \in Nat /\ up' \in BOOLEAN /\ timer' \in BOOLEAN
          /\ turns' \in Seq(Turn) /\ nextTurn' \in Nat /\ read' \subseteq Row /\ again' \subseteq Row
          /\ conn' \in Nat /\ faults' \in 0..MaxFaults /\ failed' \in 0..MaxFailed
          /\ others' \in 0..MaxOther /\ drops' \in 0..MaxDrops /\ crashes' \in 0..MaxCrashes
      <3>1. /\ UNCHANGED <<log, posted, registered, seen, up, turns, nextTurn, read, again, conn,
                           faults, failed, others, drops, crashes>>
            /\ active' \in Nat /\ timer' \in BOOLEAN
        BY <1>1
      <3>2. TypeOK
        BY DEF SinkInv, Typed
      <3> QED
        BY <3>1, <3>2 DEF TypeOK
    <2> QED
      BY <1>2, <1>4, <2>1, <2>2 DEF TypeOK
  <1>6. Within'
    BY <1>4 DEF SinkInv, Typed, Within
  <1> QED
    BY <1>2, <1>3, <1>4, <1>5, <1>6 DEF Typed

\* The rows of the sink, as they are.
LEMMA TheRows ==
    ASSUME SinkInv
    PROVE  /\ inflight \in [turn : Nat, rows : Seq(Row)] /\ batch \in Seq(Row) /\ queue \in Seq(Row)
           /\ RowsIn(inflight.rows) \subseteq seen /\ RowsIn(batch) \subseteq seen
           /\ RowsIn(queue) \subseteq seen /\ seen \subseteq Row
           /\ nextTurn \in Nat /\ inflight.turn \in 0..nextTurn /\ active \in 0..nextTurn
           /\ inflight.turn = None <=> inflight.rows = <<>>
           /\ sending = "no" => RowsIn(batch) = {}
           /\ failed = 0 => \A n \in seen : \/ n \in read \/ n \in RowsIn(inflight.rows)
                                            \/ n \in RowsIn(batch) \/ n \in RowsIn(queue)
           /\ events \in Seq(Event) /\ timer \in BOOLEAN
           /\ early \subseteq [turn : Nat \ {0}, status : Status]
           /\ ~up => events = <<>>
           /\ \A i \in DOMAIN events : events[i].turn <= nextTurn
           /\ \A e \in early : e.turn <= nextTurn
  <1>1. /\ inflight \in [turn : Nat, rows : Seq(Row)] /\ batch \in Seq(Row) /\ queue \in Seq(Row)
        /\ seen \subseteq Row /\ nextTurn \in Nat /\ events \in Seq(Event) /\ timer \in BOOLEAN
        /\ early \subseteq [turn : Nat \ {0}, status : Status]
    BY DEF SinkInv, Typed, TypeOK
  <1>2. /\ RowsIn(inflight.rows) \subseteq seen /\ RowsIn(batch) \subseteq seen
        /\ RowsIn(queue) \subseteq seen
    BY DEF SinkInv, Typed, Shape, Held
  <1>3. sending = "no" => RowsIn(batch) = {}
    BY NoRows DEF SinkInv, Typed, Shape
  <1>4. /\ inflight.turn \in 0..nextTurn /\ active \in 0..nextTurn
        /\ inflight.turn = None <=> inflight.rows = <<>>
    BY DEF SinkInv, Typed, Shape, Numbered
  <1>5. failed = 0 => \A n \in seen : \/ n \in read \/ n \in RowsIn(inflight.rows)
                                      \/ n \in RowsIn(batch) \/ n \in RowsIn(queue)
    BY DEF SinkInv, StillHeld, Held
  <1>6. /\ ~up => events = <<>>
        /\ \A i \in DOMAIN events : events[i].turn <= nextTurn
        /\ \A e \in early : e.turn <= nextTurn
    BY DEF SinkInv, Typed, Within, Numbered
  <1> QED
    BY <1>1, <1>2, <1>3, <1>4, <1>5, <1>6

\* Whose turn is over, and none failed: the rows it carried were read.
LEMMA ReadWhenOver ==
    ASSUME NEW turn, turn \notin Ids, NEW n, Carried(n, turn)
    PROVE  n \in read
  BY DEF Carried, Ids

\* No batch in flight, and the queue.
LEMMA QueueFits ==
    ASSUME SinkInv, failed = 0 => \A n \in RowsIn(inflight.rows) \cup RowsIn(batch) : n \in read
    PROVE  Fits(NoBatch, queue)
  <1>1. /\ NoBatch \in [turn : Nat, rows : Seq(Row)] /\ RowsIn(NoBatch.rows) = {}
        /\ NoBatch.rows = <<>> /\ NoBatch.turn = None /\ Increasing(NoBatch.rows)
    BY NoRows DEF NoBatch, None
  <1>2. Before(NoBatch.rows, queue)
    BY <1>1 DEF Before
  <1>3. drops = 0 => Increasing(queue)
    BY DEF SinkInv, Ordered
  <1>4. faults + failed + drops + crashes = 0 => \A n \in RowsIn(queue) : n \notin Given
    BY DEF SinkInv, Once
  <1>5. NoBatch.turn <= nextTurn
    BY <1>1, TheRows DEF None
  <1> QED
    BY <1>1, <1>2, <1>3, <1>4, <1>5, TheRows DEF Fits

\* The batch in flight, and the queue, when no call is in flight.
LEMMA AsItIs ==
    ASSUME SinkInv, sending = "no"
    PROVE  Fits(inflight, queue)
  <1>1. drops = 0 => /\ Increasing(inflight.rows) /\ Increasing(queue)
                     /\ Before(inflight.rows, queue)
    BY DEF SinkInv, Ordered
  <1>2. failed = 0 => \A n \in RowsIn(inflight.rows) : Carried(n, inflight.turn)
    BY DEF SinkInv, Rides
  <1>3. faults + failed + drops + crashes = 0 => \A n \in RowsIn(queue) : n \notin Given
    BY DEF SinkInv, Once
  <1> QED
    BY <1>1, <1>2, <1>3, TheRows DEF Fits

\* Rows that are put back in front of the queue, once a turn failed.
LEMMA PutBackFits ==
    ASSUME SinkInv, NEW rows \in Seq(Row), RowsIn(rows) \subseteq seen, failed # 0,
           drops = 0 => Increasing(rows) /\ Before(rows, queue)
    PROVE  Fits(NoBatch, rows \o queue)
  <1>1. /\ NoBatch \in [turn : Nat, rows : Seq(Row)] /\ RowsIn(NoBatch.rows) = {}
        /\ NoBatch.rows = <<>> /\ NoBatch.turn = None /\ Increasing(NoBatch.rows)
    BY NoRows DEF NoBatch, None
  <1>2. /\ rows \o queue \in Seq(Row) /\ RowsIn(rows \o queue) = RowsIn(rows) \cup RowsIn(queue)
        /\ Increasing(rows) /\ Increasing(queue) /\ Before(rows, queue) => Increasing(rows \o queue)
    BY TheRows, Behind
  <1>3. drops = 0 => Increasing(rows \o queue) /\ Before(NoBatch.rows, rows \o queue)
    BY <1>1, <1>2 DEF SinkInv, Ordered, Before
  <1>4. faults + failed + drops + crashes # 0
    BY DEF SinkInv, Typed, TypeOK
  <1>5. NoBatch.turn <= nextTurn
    BY <1>1, TheRows DEF None
  <1> QED
    BY <1>1, <1>2, <1>3, <1>4, <1>5, TheRows DEF Fits

\* The rows of a refused call, in front of the queue.
LEMMA RefusedFits ==
    ASSUME SinkInv, reply = Refused
    PROVE  Fits(inflight, batch \o queue)
  <1>1. /\ batch \o queue \in Seq(Row) /\ RowsIn(batch \o queue) = RowsIn(batch) \cup RowsIn(queue)
        /\ Increasing(batch) /\ Increasing(queue) /\ Before(batch, queue) => Increasing(batch \o queue)
    BY TheRows, Behind
  <1>2. drops = 0 => /\ Increasing(inflight.rows) /\ Increasing(batch \o queue)
                     /\ Before(inflight.rows, batch \o queue)
    BY <1>1 DEF SinkInv, Ordered, Before
  <1>3. failed = 0 => \A n \in RowsIn(inflight.rows) : Carried(n, inflight.turn)
    BY DEF SinkInv, Rides
  <1>4. faults + failed + drops + crashes = 0 => \A n \in RowsIn(batch \o queue) : n \notin Given
    BY <1>1 DEF SinkInv, Once
  <1> QED
    BY <1>1, <1>2, <1>3, <1>4, TheRows DEF Fits
\* The batch that is in flight when a call was accepted.
Accepting == IF inflight.turn = reply
             THEN [inflight EXCEPT !.rows = @ \o batch] ELSE [turn |-> reply, rows |-> batch]

\* It rides the turn that was named, and what it replaces was read.
LEMMA AcceptingRows ==
    ASSUME SinkInv, reply \notin {Waiting, Refused}
    PROVE  /\ Accepting \in [turn : Nat, rows : Seq(Row)] /\ Accepting.turn = reply
           /\ Accepting.rows # <<>> /\ reply \in Nat \ {0} /\ reply <= nextTurn
           /\ RowsIn(Accepting.rows) \subseteq seen
           /\ failed = 0 => \A n \in RowsIn(Accepting.rows) : Carried(n, reply)
           /\ drops = 0 => Increasing(Accepting.rows) /\ Before(Accepting.rows, queue)
           /\ failed = 0 => \A n \in seen : n \in read \cup RowsIn(Accepting.rows) \cup RowsIn(queue)
  <1>1. /\ reply \in Nat \ {0} /\ reply <= nextTurn /\ batch # <<>> /\ sending \in {"start", "steer"}
    BY DEF SinkInv, Typed, TypeOK, Shape, Numbered, Waiting, Refused
  <1>2. CASE inflight.turn = reply
    <2>1. /\ Accepting = [turn |-> inflight.turn, rows |-> inflight.rows \o batch]
      BY <1>2, TheRows DEF Accepting
    <2>2. /\ inflight.rows \o batch \in Seq(Row)
          /\ RowsIn(inflight.rows \o batch) = RowsIn(inflight.rows) \cup RowsIn(batch)
          /\ Increasing(inflight.rows) /\ Increasing(batch) /\ Before(inflight.rows, batch)
               => Increasing(inflight.rows \o batch)
      BY TheRows, Behind
    <2>3. RowsIn(inflight.rows \o batch) # {}
      BY <1>1, <2>2, RowsAt, TheRows
    <2>4. inflight.rows \o batch # <<>>
      BY <2>3, NoRows
    <2>5. drops = 0 => /\ Increasing(inflight.rows \o batch)
                       /\ Before(inflight.rows \o batch, queue)
      BY <2>2 DEF SinkInv, Ordered, Before
    <2>6. failed = 0 => \A n \in RowsIn(inflight.rows \o batch) : Carried(n, reply)
      BY <1>2, <2>2 DEF SinkInv, Rides
    <2> QED
      BY <1>1, <1>2, <2>1, <2>2, <2>4, <2>5, <2>6, TheRows
  <1>3. CASE inflight.turn # reply
    <2>1. /\ Accepting.turn = reply /\ Accepting.rows = batch
          /\ Accepting \in [turn : Nat, rows : Seq(Row)]
      BY <1>1, <1>3, TheRows DEF Accepting
    <2>2. drops = 0 => Increasing(batch) /\ Before(batch, queue)
      BY DEF SinkInv, Ordered
    <2>3. failed = 0 => \A n \in RowsIn(batch) : Carried(n, reply)
      BY DEF SinkInv, Rides
    <2>4. failed = 0 => \A n \in RowsIn(inflight.rows) : n \in read
      <3>1. CASE inflight.turn = None
        BY <3>1, NoRows, TheRows
      <3>2. CASE inflight.turn # None
        <4>1. inflight.turn \notin Ids
          BY <1>1, <1>3, <3>2 DEF SinkInv, Replaces, Waiting, Refused
        <4> QED
          BY <4>1, ReadWhenOver DEF SinkInv, Rides
      <3> QED
        BY <3>1, <3>2
    <2> QED
      BY <1>1, <2>1, <2>2, <2>3, <2>4, TheRows
  <1> QED
    BY <1>2, <1>3

\* The turn of an accepted call may have ended already.
LEMMA AcceptedStep ==
    ASSUME SinkInv, sending # "no", Accepted,
           UNCHANGED <<appview, seen, active, up, events, server, conn, bounds>>
    PROVE  SinkInv'
  <1> DEFINE ended(status) == [turn |-> reply, status |-> status] \in early
  <1>1. /\ reply \notin {Waiting, Refused} /\ early' = {}
        /\ \/ ended("completed") /\ Commit(Accepting.rows) /\ inflight' = NoBatch
              /\ Pump(queue, NoBatch, active) /\ UNCHANGED timer
           \/ ended("failed") /\ inflight' = NoBatch /\ timer' = TRUE
              /\ Pump(Accepting.rows \o queue, NoBatch, active) /\ UNCHANGED cursor
           \/ inflight' = Accepting /\ Pump(queue, Accepting, active) /\ UNCHANGED <<timer, cursor>>
    BY DEF Accepted, Accepting
  <1> HIDE DEF ended
  <1>2. Told' /\ Ended'
    BY <1>1, EventsFrame DEF server, bounds
  <1>3. Accepting.rows \in Seq(Row)
    BY <1>1, AcceptingRows
  <1>4. /\ Typed' /\ Numbered' /\ Replaces' /\ Unbroken' /\ Rides' /\ Ordered' /\ Once'
        /\ StillHeld' /\ CommittedWasRead'
    <2>1. /\ active' \in 0..nextTurn /\ timer' \in BOOLEAN /\ events' \in Seq(Event)
          /\ ~up => events' = <<>>
          /\ \A i \in DOMAIN events' : events'[i].turn <= nextTurn
          /\ early' \subseteq [turn : Nat \ {0}, status : Status]
          /\ \A e \in early' : e.turn <= nextTurn
      BY <1>1, TheRows
    <2>2. CASE ended("completed") /\ Commit(Accepting.rows) /\ inflight' = NoBatch
               /\ Pump(queue, NoBatch, active)
      <3>1. reply \notin Ids
        BY <2>2 DEF SinkInv, Ended, ended
      <3>2. failed = 0 => \A n \in RowsIn(Accepting.rows) : n \in read
        BY <1>1, <3>1, AcceptingRows, ReadWhenOver
      <3>3. failed = 0 => \A n \in seen : n \in read \cup RowsIn(queue)
        BY <1>1, <3>2, AcceptingRows
      <3>4. failed = 0 => \A n \in RowsIn(inflight.rows) \cup RowsIn(batch) : n \in read
        <4>1. CASE inflight.turn = reply
          <5>1. RowsIn(Accepting.rows) = RowsIn(inflight.rows) \cup RowsIn(batch)
            BY <4>1, TheRows, Behind DEF Accepting
          <5> QED
            BY <3>2, <5>1
        <4>2. CASE inflight.turn # reply
          <5>1. RowsIn(Accepting.rows) = RowsIn(batch)
            BY <4>2, TheRows DEF Accepting
          <5>2. inflight.turn = None \/ inflight.turn \notin Ids
            BY <1>1, <4>2 DEF SinkInv, Replaces, Typed, TypeOK, Shape
          <5>3. inflight.turn = None => RowsIn(inflight.rows) = {}
            BY NoRows, TheRows
          <5>4. failed = 0 /\ inflight.turn \notin Ids =>
                  \A n \in RowsIn(inflight.rows) : n \in read
            BY ReadWhenOver DEF SinkInv, Rides
          <5> QED
            BY <3>2, <5>1, <5>2, <5>3, <5>4
        <4> QED
          BY <4>1, <4>2
      <3>5. Fits(NoBatch, queue)
        BY <3>4, QueueFits
      <3>6. Commits
        <4>1. cursor' \in RowsIn(Accepting.rows)
              /\ (drops = 0 => \A n \in RowsIn(queue) : cursor' < n)
          BY <1>1, <1>3, <2>2, AcceptingRows, Newest DEF Commit, Before
        <4>2. RowsIn(queue) \subseteq Int /\ cursor' \in Int
          BY <4>1, <1>3, RowsAt, TheRows
        <4> QED
          BY <1>1, <3>3, <4>1, <4>2, AcceptingRows DEF Commits
      <3>7. Settles(queue) /\ Calls(NoBatch, active')
        BY <2>2, TheRows, Pumping
      <3> QED
        BY <2>1, <2>2, <3>5, <3>6, <3>7, HandsOver
    <2>3. CASE ended("failed") /\ inflight' = NoBatch
               /\ Pump(Accepting.rows \o queue, NoBatch, active) /\ UNCHANGED cursor
      <3>1. failed # 0
        BY <2>3 DEF SinkInv, Ended, ended
      <3>2. Fits(NoBatch, Accepting.rows \o queue)
        BY <1>1, <1>3, <3>1, AcceptingRows, PutBackFits
      <3>3. Settles(Accepting.rows \o queue) /\ Calls(NoBatch, active')
        BY <2>3, <3>2, Pumping DEF Fits
      <3> QED
        BY <2>1, <2>3, <3>2, <3>3, HandsOver DEF Commits
    <2>4. CASE inflight' = Accepting /\ Pump(queue, Accepting, active) /\ UNCHANGED cursor
      <3>1. Fits(Accepting, queue)
        <4>1. drops = 0 => Increasing(queue)
          BY DEF SinkInv, Ordered
        <4>2. faults + failed + drops + crashes = 0 => \A n \in RowsIn(queue) : n \notin Given
          BY DEF SinkInv, Once
        <4> QED
          BY <1>1, <4>1, <4>2, AcceptingRows, TheRows DEF Fits, None
      <3>2. Settles(queue) /\ Calls(Accepting, active')
        BY <2>4, TheRows, Pumping
      <3> QED
        BY <2>1, <2>4, <3>1, <3>2, HandsOver DEF Commits
    <2> QED
      BY <1>1, <2>2, <2>3, <2>4
  <1> QED
    BY <1>2, <1>4 DEF SinkInv

\* A refused call is put back, or tried again as a start.
LEMMA RefusedStep ==
    ASSUME SinkInv, SteerRefused \/ StartRefused,
           UNCHANGED <<appview, seen, active, up, events, server, conn, bounds>>
    PROVE  SinkInv'
  <1>1. reply = Refused /\ UNCHANGED <<inflight, early, cursor>> /\ timer' \in BOOLEAN
    BY TheRows DEF SteerRefused, StartRefused
  <1>2. Told' /\ Ended'
    BY <1>1, EventsFrame DEF server, bounds
  <1>3. CASE Rest(PutBack) \/ Pump(PutBack, inflight, active)
    <2>1. Fits(inflight, PutBack)
      BY <1>1, RefusedFits DEF PutBack
    <2>2. Settles(PutBack) /\ Calls(inflight, active')
      BY <1>3, <2>1, Resting, Pumping DEF Fits
    <2>3. /\ Typed' /\ Numbered' /\ Replaces' /\ Unbroken' /\ Rides' /\ Ordered' /\ Once'
          /\ StillHeld' /\ CommittedWasRead'
      BY <1>1, <2>1, <2>2, TheRows, HandsOver DEF Commits
    <2> QED
      BY <1>2, <2>3 DEF SinkInv
  <1>4. CASE sending = "steer" /\ active = None /\ Call("start", batch, None) /\ UNCHANGED <<queue, timer>>
    <2> USE DEF appview, server, bounds
    <2>1. /\ sending' = "start" /\ batch' = batch /\ target' = None /\ reply' \in {Waiting, Refused}
          /\ UNCHANGED <<queue, timer>> /\ batch # <<>> /\ target # None
      BY <1>4 DEF Call, SinkInv, Typed, Shape
    <2>2. inflight.turn \in {None, target} /\ target \notin Ids
      BY <1>4, <2>1 DEF SinkInv, Replaces
    <2>3. Held' = Held
      BY <1>1, <2>1 DEF Held
    <2>4. Shape' /\ StillHeld'
      BY <1>1, <2>1, <2>3 DEF SinkInv, Typed, Shape, StillHeld
    <2>5. Replaces' /\ Ordered'
      BY <1>1, <2>1, <2>2 DEF SinkInv, Replaces, Ordered, Ids
    <2>6. Rides' /\ Once'
      BY <1>1, <2>1 DEF SinkInv, Rides, Carried, Once, Given
    <2>7. Unbroken' /\ CommittedWasRead'
      BY <1>1, CursorFrame DEF Marks
    <2>8. Numbered'
      BY <1>1, <2>1, TheRows DEF SinkInv, Numbered, None, Waiting, Refused
    <2>9. Within' /\ TypeOK'
      <3>1. /\ UNCHANGED <<log, posted, registered, queue, seen, batch, inflight, early, timer, active,
                           up, events, turns, nextTurn, read, again, cursor, conn, faults, failed,
                           others, drops, crashes>>
            /\ sending' \in {"no", "start", "steer"} /\ target' \in Nat
            /\ reply' \in Nat \cup {Refused}
        BY <1>1, <2>1 DEF None, Waiting
      <3>2. TypeOK /\ Within
        BY DEF SinkInv, Typed
      <3>3. TypeOK'
        BY <3>1, <3>2 DEF TypeOK
      <3>4. Within'
        BY <3>1, <3>2 DEF Within
      <3> QED
        BY <3>3, <3>4
    <2> QED
      BY <1>2, <2>4, <2>5, <2>6, <2>7, <2>8, <2>9 DEF SinkInv, Typed
  <1> QED
    BY <1>1, <1>3, <1>4 DEF SteerRefused, StartRefused

\* A retry that comes while a call is in flight does nothing.
LEMMA RetryStep == SinkInv /\ Retry => SinkInv'
  <1> SUFFICES ASSUME SinkInv, Retry PROVE SinkInv'
    OBVIOUS
  <1>1. /\ timer' \in BOOLEAN
        /\ UNCHANGED <<appview, seen, inflight, early, active, up, events, server, cursor, conn, bounds>>
        /\ IF sending = "no" THEN Pump(queue, inflight, active) ELSE UNCHANGED <<queue, call>>
    BY DEF Retry
  <1>2. Told' /\ Ended'
    BY <1>1, EventsFrame DEF server, bounds
  <1>3. CASE sending = "no"
    <2>1. Fits(inflight, queue)
      BY <1>3, AsItIs
    <2>2. Settles(queue) /\ Calls(inflight, active')
      BY <1>1, <1>3, TheRows, Pumping
    <2>3. /\ Typed' /\ Numbered' /\ Replaces' /\ Unbroken' /\ Rides' /\ Ordered' /\ Once'
          /\ StillHeld' /\ CommittedWasRead'
      BY <1>1, <2>1, <2>2, TheRows, HandsOver DEF Commits
    <2> QED
      BY <1>2, <2>3 DEF SinkInv
  <1>4. CASE sending # "no"
    <2> USE DEF appview, server, bounds
    <2>1. Shape' /\ Replaces' /\ Rides' /\ Ordered' /\ Once' /\ StillHeld'
      BY <1>1, <1>4, CallFrame
    <2>2. Unbroken' /\ CommittedWasRead'
      BY <1>1, CursorFrame DEF Marks
    <2>3. Numbered' /\ Within' /\ TypeOK'
      BY <1>1, <1>4 DEF SinkInv, Numbered, Typed, Within, TypeOK, call
    <2> QED
      BY <1>2, <2>1, <2>2, <2>3 DEF SinkInv, Typed
  <1> QED
    BY <1>3, <1>4

\* The next event: a turn has begun, or it is over for the call or the batch in flight.
LEMMA ReceiveStep == SinkInv /\ Receive => SinkInv'
  <1> SUFFICES ASSUME SinkInv, Receive PROVE SinkInv'
    OBVIOUS
  <1> DEFINE e == events[1]
  <1>1. /\ up /\ events # <<>> /\ events' = Tail(events) /\ e = Head(events)
        /\ UNCHANGED <<appview, seen, up, server, conn, bounds>>
    BY DEF Receive
  <1>2. /\ events' \in Seq(Event) /\ Len(events) \in Nat \ {0} /\ Len(events') = Len(events) - 1
        /\ DOMAIN events = 1..Len(events) /\ DOMAIN events' = 1..Len(events')
        /\ \A i \in DOMAIN events' : i + 1 \in DOMAIN events /\ events'[i] = events[i + 1]
        /\ e \in Event
    <2>1. events \in Seq(Event)
      BY TheRows
    <2>2. /\ events' \in Seq(Event) /\ Len(events') = Len(events) - 1
          /\ \A i \in 1..Len(events') : events'[i] = events[i + 1]
      BY <1>1, <2>1, HeadTailProperties
    <2>3. Len(events) \in Nat \ {0} /\ DOMAIN events = 1..Len(events) /\ DOMAIN events' = 1..Len(events')
      BY <1>1, <2>1, <2>2, EmptySeq, LenProperties
    <2> QED
      BY <2>1, <2>2, <2>3, ElementOfSeq
  <1>3. e.turn \in 1..nextTurn /\ e.status \in {"started", "completed", "failed"}
    <2>1. e.turn \in Nat \ {0} /\ e.status \in {"started", "completed", "failed"}
      BY <1>2 DEF Event, Status
    <2>2. 1 \in DOMAIN events
      BY <1>2
    <2>3. e.turn <= nextTurn /\ nextTurn \in Nat
      BY <2>2, TheRows
    <2> QED
      BY <2>1, <2>3
  <1> HIDE DEF e
  <1>4. \A i \in DOMAIN events' : events'[i].turn <= nextTurn
    BY <1>2, TheRows
  <1>5. CASE e.status = "started"
    <2> USE DEF appview, server, bounds
    <2>1. active' = e.turn /\ UNCHANGED <<queue, call, inflight, early, timer, cursor>>
      BY <1>1, <1>5 DEF Receive
    <2>2. active = None
      BY <1>1, <1>5 DEF e, SinkInv, Told
    <2>3. e.turn # None
      BY <1>3 DEF None
    <2>4. IF events' = <<>> THEN Heads(e.turn) ELSE events'[1].status # "started" /\ events'[1].turn = e.turn
      <3>1. CASE Len(events) = 1
        <4>1. Heads(e.turn)
          BY <1>2, <1>5, <3>1 DEF e, SinkInv, Told
        <4>2. events' = <<>>
          BY <1>2, <3>1, EmptySeq
        <4> QED
          BY <4>1, <4>2
      <3>2. CASE Len(events) # 1
        <4>1. events[1 + 1].status # "started" /\ events[1 + 1].turn = events[1].turn
          BY <1>2, <1>5, <3>2 DEF e, SinkInv, Told
        <4>2. 1 \in DOMAIN events' /\ events'[1] = events[1 + 1] /\ events' # <<>>
          BY <1>2, <3>2, EmptySeq
        <4> QED
          BY <4>1, <4>2 DEF e
      <3> QED
        BY <3>1, <3>2
    <2>5. Told'
      BY <1>1, <1>2, <2>1, <2>4 DEF SinkInv, Told, Heads
    <2>6. Ended'
      BY <1>1, <1>2, <2>1 DEF SinkInv, Ended, Ids
    <2>7. Held' = Held
      BY <2>1 DEF Held, call
    <2>8. Shape' /\ StillHeld'
      BY <1>1, <2>1, <2>7 DEF SinkInv, Typed, Shape, StillHeld, call
    <2>9. Replaces'
      <3>1. sending = "steer" => target \notin Ids
        BY <2>2 DEF SinkInv, Replaces, Typed, Shape
      <3> QED
        BY <1>1, <2>1, <3>1 DEF SinkInv, Replaces, Ids, call
    <2>10. Ordered' /\ Rides' /\ Once'
      BY <1>1, <2>1 DEF SinkInv, Ordered, Rides, Carried, Once, Given, call
    <2>11. Unbroken' /\ CommittedWasRead'
      BY <1>1, <2>1, CursorFrame DEF Marks
    <2>12. Numbered'
      BY <1>1, <1>3, <1>4, <2>1 DEF SinkInv, Numbered, call
    <2>13. Within' /\ TypeOK'
      <3>1. active' \in Nat
        BY <1>3, <2>1, TheRows
      <3> QED
        BY <1>1, <1>2, <2>1, <3>1 DEF SinkInv, Typed, Within, TypeOK, call
    <2> QED
      BY <2>5, <2>6, <2>8, <2>9, <2>10, <2>11, <2>12, <2>13 DEF SinkInv, Typed
  <1>6. CASE e.status # "started"
    <2>1. /\ active' = None /\ e.turn \notin Ids /\ (failed = 0 => e.status = "completed")
          /\ \/ sending # "no" /\ early' = early \cup {[turn |-> e.turn, status |-> e.status]}
                /\ UNCHANGED <<queue, call, inflight, timer, cursor>>
             \/ sending = "no" /\ Finish(e.turn, e.status, None) /\ UNCHANGED early
      BY <1>1, <1>2, <1>3, <1>6 DEF Receive, e, SinkInv, Ended
    <2>2. Told'
      BY <1>1, <1>2, <2>1 DEF SinkInv, Told, Heads, server
    <2>3. Ended'
      BY <1>1, <1>2, <2>1 DEF SinkInv, Ended, Ids, server, bounds
    <2>4. active' \in 0..nextTurn /\ early' \subseteq [turn : Nat \ {0}, status : Status]
          /\ \A x \in early' : x.turn <= nextTurn
      BY <1>3, <1>6, <2>1, TheRows DEF None, Status
    <2>5. CASE UNCHANGED <<queue, call, inflight, timer, cursor>>
      <3> USE DEF appview, server, bounds
      <3>1. Held' = Held
        BY <2>5 DEF Held, call
      <3>2. Shape' /\ StillHeld'
        BY <1>1, <2>5, <3>1 DEF SinkInv, Typed, Shape, StillHeld, call
      <3>3. Replaces'
        <4>1. active # None => active = e.turn
          BY <1>1 DEF SinkInv, Told, e
        <4>2. sending = "steer" => target \notin Ids
          BY <2>1, <4>1 DEF SinkInv, Replaces, Typed, Shape
        <4> QED
          BY <1>1, <2>5, <4>2 DEF SinkInv, Replaces, Ids, call
      <3>4. Ordered' /\ Rides' /\ Once'
        BY <1>1, <2>5 DEF SinkInv, Ordered, Rides, Carried, Once, Given, call
      <3>5. Unbroken' /\ CommittedWasRead'
        BY <1>1, <2>5, CursorFrame DEF Marks
      <3>6. Numbered'
        BY <1>1, <1>4, <2>4, <2>5 DEF SinkInv, Numbered, call
      <3>7. Within' /\ TypeOK'
        BY <1>1, <1>2, <2>1, <2>4, <2>5 DEF SinkInv, Typed, Within, TypeOK, call, None
      <3> QED
        BY <2>2, <2>3, <3>2, <3>3, <3>4, <3>5, <3>6, <3>7 DEF SinkInv, Typed
    <2>6. CASE sending = "no" /\ inflight.turn = e.turn /\ Finish(e.turn, e.status, None)
      <3>1. failed = 0 => \A n \in RowsIn(inflight.rows) : n \in read
        BY <2>1, <2>6, ReadWhenOver DEF SinkInv, Rides
      <3>2. inflight.rows # <<>> /\ RowsIn(batch) = {} /\ batch = <<>>
        BY <1>3, <2>6, TheRows DEF None, SinkInv, Typed, Shape
      <3>3. CASE e.status = "completed"
        <4>1. /\ Commit(inflight.rows) /\ inflight' = NoBatch /\ UNCHANGED timer
              /\ Pump(queue, NoBatch, None)
          BY <2>6, <3>3 DEF Finish
        <4>2. Fits(NoBatch, queue)
          BY <3>1, <3>2, QueueFits
        <4>3. Settles(queue) /\ Calls(NoBatch, active')
          BY <2>1, <4>1, TheRows, Pumping
        <4>4. Commits
          <5>1. drops = 0 => Increasing(inflight.rows) /\ Before(inflight.rows, queue)
            BY DEF SinkInv, Ordered
          <5>2. cursor' \in RowsIn(inflight.rows) /\ (drops = 0 => \A n \in RowsIn(queue) : cursor' < n)
            BY <3>2, <4>1, <5>1, TheRows, Newest DEF Commit, Before
          <5>3. RowsIn(queue) \subseteq Int /\ cursor' \in Int
            BY <5>2, RowsAt, TheRows
          <5>4. cursor' \in seen
            BY <5>2, TheRows
          <5>5. ASSUME failed = 0, drops = 0, NEW n \in seen, n <= cursor' PROVE n \in read
            <6>1. n \notin RowsIn(queue)
              BY <5>2, <5>3, <5>5
            <6> QED
              BY <3>1, <3>2, <5>5, <6>1, TheRows
          <5> QED
            BY <5>4, <5>5 DEF Commits
        <4>5. /\ Typed' /\ Numbered' /\ Replaces' /\ Unbroken' /\ Rides' /\ Ordered' /\ Once'
              /\ StillHeld' /\ CommittedWasRead'
          BY <1>1, <1>2, <1>4, <2>4, <4>1, <4>2, <4>3, <4>4, TheRows, HandsOver
        <4> QED
          BY <2>2, <2>3, <4>5 DEF SinkInv
      <3>4. CASE e.status # "completed"
        <4>1. /\ inflight' = NoBatch /\ queue' = inflight.rows \o queue /\ timer' = TRUE
              /\ UNCHANGED <<call, cursor>>
          BY <2>6, <3>4 DEF Finish
        <4>2. Fits(NoBatch, inflight.rows \o queue)
          BY <2>1, <3>4, TheRows, PutBackFits DEF SinkInv, Ordered
        <4>3. Settles(inflight.rows \o queue)
          BY <3>2, <4>1, <4>2, NoRows DEF Settles, Before, Fits, call
        <4>4. Calls(NoBatch, active')
          BY <2>6, <4>1 DEF Calls, SinkInv, Typed, Shape, call
        <4>5. /\ Typed' /\ Numbered' /\ Replaces' /\ Unbroken' /\ Rides' /\ Ordered' /\ Once'
              /\ StillHeld' /\ CommittedWasRead'
          BY <1>1, <1>2, <1>4, <2>4, <4>1, <4>2, <4>3, <4>4, TheRows, HandsOver DEF Commits
        <4> QED
          BY <2>2, <2>3, <4>5 DEF SinkInv
      <3> QED
        BY <3>3, <3>4
    <2> QED
      BY <2>1, <2>5, <2>6 DEF Finish
  <1> QED
    BY <1>5, <1>6
-----------------------------------------------------------------------------
(* The steps of the AppView, the app-server and the connection *)

\* What the turns carry, and which are over, is only added to.
Grows(rows) ==
    /\ read \subseteq read' /\ nextTurn <= nextTurn' /\ nextTurn' \in Nat
    /\ \A t \in 0..nextTurn : t \notin Ids => t \notin Ids'
    /\ failed' = 0 => \A n \in Row, t \in Nat : Carried(n, t) => Carried(n, t)'
    /\ Given' \subseteq Given \cup rows

\* The turns, one by one.
LEMMA TurnsAt ==
    ASSUME SinkInv
    PROVE  /\ turns \in Seq(Turn) /\ Len(turns) \in Nat /\ DOMAIN turns = 1..Len(turns)
           /\ turns = <<>> <=> Len(turns) = 0
           /\ \A i \in 1..Len(turns) : turns[i] \in Turn
           /\ \A i \in 1..Len(turns) : turns[i].id \in 1..nextTurn
           /\ \A i, j \in 1..Len(turns) : i < j => turns[i].id < turns[j].id
  <1>1. turns \in Seq(Turn)
    BY DEF SinkInv, Typed, TypeOK
  <1>2. /\ Len(turns) \in Nat /\ DOMAIN turns = 1..Len(turns)
        /\ turns = <<>> <=> Len(turns) = 0
        /\ \A i \in 1..Len(turns) : turns[i] \in Turn
    BY <1>1, LenProperties, EmptySeq, ElementOfSeq
  <1>3. nextTurn \in Nat
    BY TheRows
  <1>4. \A i \in 1..Len(turns) : turns[i].id \in Nat \ {0}
    BY <1>2 DEF Turn
  <1>5. /\ \A i \in 1..Len(turns) : turns[i].id <= nextTurn
        /\ \A i, j \in 1..Len(turns) : i < j => turns[i].id < turns[j].id
    BY <1>2 DEF SinkInv, Numbered
  <1> QED
    BY <1>1, <1>2, <1>3, <1>4, <1>5

\* A turn is accepted, behind the others.
NewTurn(rows) ==
    /\ nextTurn' = nextTurn + 1
    /\ turns' = Append(turns, [id |-> nextTurn + 1, rows |-> rows, conn |-> conn])
    /\ events' = IF turns = <<>>
                 THEN Append(events, [turn |-> nextTurn + 1, status |-> "started"]) ELSE events
    /\ UNCHANGED <<read, active, up, conn, early>>

\* What that does to the turns and the events.
LEMMA NewTurnStep ==
    ASSUME SinkInv, NEW rows \in SUBSET Row, NewTurn(rows), up, failed' = failed
    PROVE  /\ turns' \in Seq(Turn) /\ events' \in Seq(Event) /\ nextTurn' = nextTurn + 1
           /\ Grows(rows) /\ \A n \in rows : Carried(n, nextTurn)'
           /\ \A i \in DOMAIN turns' : turns'[i].id <= nextTurn'
           /\ \A i, j \in DOMAIN turns' : i < j => turns'[i].id < turns'[j].id
           /\ \A i \in DOMAIN events' : events'[i].turn <= nextTurn'
           /\ Told' /\ Ended'
  <1> DEFINE new == [id |-> nextTurn + 1, rows |-> rows, conn |-> conn]
             L == Len(turns)
  <1>1. nextTurn \in Nat /\ conn \in Nat /\ nextTurn' = nextTurn + 1
    BY DEF SinkInv, Typed, TypeOK, NewTurn
  <1>2. new \in Turn
    BY <1>1 DEF Turn
  <1>3. /\ turns' \in Seq(Turn) /\ Len(turns') = L + 1
        /\ \A i \in 1..L : turns'[i] = turns[i]
        /\ turns'[L + 1] = new
    BY <1>2, TurnsAt, AppendProperties DEF NewTurn
  <1>4. DOMAIN turns' = 1..L + 1 /\ turns' # <<>> /\ L \in Nat /\ DOMAIN turns = 1..L
    BY <1>3, TurnsAt, LenProperties, EmptySeq
  <1>5. new.id = nextTurn + 1 /\ new.rows = rows /\ new.conn = conn
    OBVIOUS
  <1> HIDE DEF new, L
  <1>6. Ids' = Ids \cup {nextTurn + 1}
    BY <1>3, <1>4, <1>5 DEF Ids
  <1>7. nextTurn + 1 \notin Ids
    BY <1>1, <1>4, TurnsAt DEF Ids, L
  <1>8. UNCHANGED read
    BY DEF NewTurn
  <1>9. Given' \subseteq Given \cup rows
    BY <1>3, <1>4, <1>5, <1>8 DEF Given
  <1>10. \A n \in Row, t \in Nat : Carried(n, t) => Carried(n, t)'
    BY <1>3, <1>4, <1>8 DEF Carried
  <1>11. \A n \in rows : Carried(n, nextTurn)'
    <2>1. L + 1 \in DOMAIN turns'
      BY <1>4
    <2> QED
      BY <1>1, <1>3, <1>5, <2>1 DEF Carried
  <1>12. Grows(rows)
    BY <1>1, <1>6, <1>8, <1>9, <1>10 DEF Grows
  <1>13. /\ \A i \in DOMAIN turns' : turns'[i].id <= nextTurn'
         /\ \A i, j \in DOMAIN turns' : i < j => turns'[i].id < turns'[j].id
    <2>1. \A i \in 1..L : turns'[i].id \in 1..nextTurn
      BY <1>3, TurnsAt DEF L
    <2>2. ASSUME NEW i \in DOMAIN turns', NEW j \in DOMAIN turns', i < j
          PROVE  turns'[i].id < turns'[j].id
      <3>1. CASE j = L + 1
        BY <1>1, <1>3, <1>4, <1>5, <2>1, <2>2, <3>1
      <3>2. CASE j # L + 1
        <4>1. i \in 1..L /\ j \in 1..L
          BY <1>4, <2>2, <3>2
        <4> QED
          BY <1>3, <2>2, <4>1, TurnsAt DEF L
      <3> QED
        BY <3>1, <3>2
    <2> QED
      BY <1>1, <1>3, <1>4, <1>5, <2>1, <2>2
  <1>14. /\ UNCHANGED <<active, up, conn, early, failed>> /\ events \in Seq(Event)
         /\ DOMAIN events = 1..Len(events) /\ Len(events) \in Nat
    BY TheRows, LenProperties DEF NewTurn
  <1>15. Heads(active) => Heads(active)'
    BY <1>3, <1>4, <1>14, TurnsAt DEF Heads, L
  <1>16. /\ \A i \in DOMAIN events : events[i].turn \in 1..nextTurn
         /\ \A e \in early : e.turn \in 1..nextTurn
    <2>1. \A i \in DOMAIN events : events[i] \in Event
      BY <1>14, ElementOfSeq
    <2> QED
      BY <1>1, <2>1, TheRows DEF Event
  <1>17. CASE turns # <<>>
    <2>1. events' = events
      BY <1>17 DEF NewTurn
    <2>2. \A t : Heads(t) => Heads(t)'
      BY <1>3, <1>4, <1>14, TurnsAt DEF Heads, L
    <2>3. Told'
      BY <1>14, <2>1, <2>2 DEF SinkInv, Told
    <2>4. Ended'
      BY <1>1, <1>6, <1>14, <1>16, <2>1 DEF SinkInv, Ended
    <2> QED
      BY <1>1, <1>3, <1>11, <1>12, <1>13, <1>14, <1>16, <2>1, <2>3, <2>4
  <1>18. CASE turns = <<>>
    <2> DEFINE told == [turn |-> nextTurn + 1, status |-> "started"]
               E == Len(events)
    <2>1. told \in Event /\ told.turn = nextTurn + 1 /\ told.status = "started"
      BY <1>1 DEF Event
    <2>2. /\ events' \in Seq(Event) /\ Len(events') = E + 1 /\ events' # <<>>
          /\ \A i \in 1..E : events'[i] = events[i]
          /\ events'[E + 1] = told
      BY <1>14, <1>18, <2>1, AppendProperties DEF NewTurn
    <2>3. DOMAIN events' = 1..E + 1 /\ DOMAIN events = 1..E /\ E \in Nat
      BY <1>14, <2>2, LenProperties
    <2> HIDE DEF told, E
    <2>4. /\ turns' # <<>> /\ turns'[1].id = nextTurn + 1 /\ turns'[1].conn = conn'
          /\ \A t : ~Heads(t)
      <3>1. L = 0
        BY <1>18, TurnsAt DEF L
      <3>2. turns'[1] = new
        BY <1>3, <3>1
      <3> QED
        BY <1>4, <1>5, <1>14, <1>18, <3>2 DEF Heads
    <2>5. \A i \in 1..E : events[i].status = "started" =>
            /\ i + 1 \in 1..E
            /\ events[i + 1].status # "started" /\ events[i + 1].turn = events[i].turn
      BY <2>3, <2>4 DEF SinkInv, Told, E
    <2>6. \A i \in DOMAIN events' :
            events'[i].status = "started" =>
              IF i = Len(events')
              THEN turns' # <<>> /\ turns'[1].id = events'[i].turn /\ turns'[1].conn = conn'
              ELSE events'[i + 1].status # "started" /\ events'[i + 1].turn = events'[i].turn
      <3> SUFFICES ASSUME NEW i \in DOMAIN events', events'[i].status = "started"
                   PROVE  IF i = Len(events')
                          THEN turns' # <<>> /\ turns'[1].id = events'[i].turn /\ turns'[1].conn = conn'
                          ELSE events'[i + 1].status # "started" /\ events'[i + 1].turn = events'[i].turn
        OBVIOUS
      <3>1. CASE i = E + 1
        BY <2>1, <2>2, <2>3, <2>4, <3>1
      <3>2. CASE i # E + 1
        <4>1. i \in 1..E
          BY <2>3, <3>2
        <4> QED
          BY <2>2, <2>3, <2>5, <3>2, <4>1
      <3> QED
        BY <3>1, <3>2
    <2>7. up /\ active # None => E # 0 /\ events[1].status # "started" /\ events[1].turn = active
      BY <1>14, <2>4, EmptySeq DEF SinkInv, Told, E
    <2>8. Told'
      <3>1. up' /\ active' # None =>
              IF events' = <<>> THEN Heads(active)'
              ELSE events'[1].status # "started" /\ events'[1].turn = active'
        BY <1>14, <2>2, <2>3, <2>7
      <3> QED
        BY <2>6, <3>1 DEF Told, Heads
    <2>9. Ended'
      BY <1>1, <1>6, <1>14, <1>16, <2>1, <2>2, <2>3 DEF SinkInv, Ended
    <2>10. \A i \in DOMAIN events' : events'[i].turn <= nextTurn'
      BY <1>1, <1>16, <2>1, <2>2, <2>3
    <2> QED
      BY <1>1, <1>3, <1>11, <1>12, <1>13, <2>2, <2>8, <2>9, <2>10
  <1> QED
    BY <1>17, <1>18

\* The running turn is given more rows.
LEMMA SteeredStep ==
    ASSUME SinkInv, NEW rows \in SUBSET Row, turns # <<>>,
           turns' = [turns EXCEPT ![1].rows = @ \cup rows],
           UNCHANGED <<nextTurn, read, events, active, up, conn, early, failed>>
    PROVE  /\ turns' \in Seq(Turn)
           /\ Grows(rows) /\ \A n \in rows : Carried(n, turns[1].id)'
           /\ turns'[1].id = turns[1].id
           /\ \A i \in DOMAIN turns' : turns'[i].id <= nextTurn'
           /\ \A i, j \in DOMAIN turns' : i < j => turns'[i].id < turns'[j].id
           /\ Told' /\ Ended'
  <1> DEFINE new == [turns[1] EXCEPT !.rows = @ \cup rows]
             L == Len(turns)
  <1>1. 1 \in 1..L /\ turns[1] \in Turn /\ L \in Nat
    BY TurnsAt
  <1>2. /\ new \in Turn /\ new.id = turns[1].id /\ new.conn = turns[1].conn
        /\ new.rows = turns[1].rows \cup rows
    BY <1>1 DEF Turn
  <1>3. turns' = [turns EXCEPT ![1] = new]
    OBVIOUS
  <1> HIDE DEF new, L
  <1>4. /\ turns' \in Seq(Turn) /\ Len(turns') = L
        /\ \A i \in 1..L : turns'[i] = IF i = 1 THEN new ELSE turns[i]
    <2>1. turns \in Seq(Turn) /\ 1 \in 1..Len(turns)
      BY <1>1, TurnsAt DEF L
    <2>2. /\ [turns EXCEPT ![1] = new] \in Seq(Turn)
          /\ Len([turns EXCEPT ![1] = new]) = Len(turns)
          /\ \A j \in 1..Len(turns) : [turns EXCEPT ![1] = new][j] = IF j = 1 THEN new ELSE turns[j]
      BY <1>2, <2>1, ExceptSeq
    <2> QED
      BY <1>3, <2>2 DEF L
  <1>5. DOMAIN turns' = 1..L /\ DOMAIN turns = 1..L /\ turns' # <<>>
    BY <1>1, <1>4, TurnsAt, LenProperties, EmptySeq DEF L
  <1>6. \A i \in 1..L : /\ turns'[i].id = turns[i].id /\ turns'[i].conn = turns[i].conn
                        /\ turns[i].rows \subseteq turns'[i].rows
                        /\ turns'[i].rows \subseteq turns[i].rows \cup rows
    BY <1>2, <1>4
  <1>7. Ids' = Ids /\ \A t : Heads(t) => Heads(t)'
    BY <1>1, <1>5, <1>6 DEF Ids, Heads
  <1>8. /\ Given' \subseteq Given \cup rows
        /\ \A n \in Row, t \in Nat : Carried(n, t) => Carried(n, t)'
    BY <1>5, <1>6 DEF Given, Carried
  <1>9. \A n \in rows : Carried(n, turns[1].id)'
    BY <1>1, <1>2, <1>4, <1>5 DEF Carried
  <1>10. Grows(rows)
    BY <1>7, <1>8, TheRows DEF Grows
  <1>11. /\ \A i \in DOMAIN turns' : turns'[i].id <= nextTurn'
         /\ \A i, j \in DOMAIN turns' : i < j => turns'[i].id < turns'[j].id
    BY <1>5, <1>6, TurnsAt DEF L
  <1>12. Told' /\ Ended'
    BY <1>7 DEF SinkInv, Told, Ended
  <1> QED
    BY <1>1, <1>4, <1>6, <1>9, <1>10, <1>11, <1>12

\* Every turn that has begun is told to be over.
Closed(stream) ==
    /\ \A i \in 1..Len(stream) : stream[i].status = "started" =>
         /\ i + 1 \in 1..Len(stream)
         /\ stream[i + 1].status # "started" /\ stream[i + 1].turn = stream[i].turn
    /\ up /\ active # None =>
         /\ 1 \in 1..Len(stream)
         /\ stream[1].status # "started" /\ stream[1].turn = active

\* The running turn ends, and the next one begins.
LEMMA EndedTurnStep ==
    ASSUME SinkInv, NEW status \in Status, EndTurn(status),
           IF status = "completed" THEN failed' = failed ELSE failed' = failed + 1
    PROVE  /\ turns' \in Seq(Turn) /\ events' \in Seq(Event) /\ read' \subseteq Row
           /\ (~up => events' = <<>>) /\ Grows({})
           /\ \A i \in DOMAIN turns' : turns'[i].id <= nextTurn'
           /\ \A i, j \in DOMAIN turns' : i < j => turns'[i].id < turns'[j].id
           /\ \A i \in DOMAIN events' : events'[i].turn <= nextTurn'
           /\ Told' /\ Ended'
  <1> DEFINE L == Len(turns)
             E == Len(events)
             head == turns[1].id
             over == [turn |-> head, status |-> status]
             begun == [turn |-> turns[2].id, status |-> "started"]
             own(i) == i <= L /\ turns[i].conn = conn /\ up
             mid == IF own(1) THEN Append(events, over) ELSE events
  <1>1. /\ turns # <<>> /\ turns' = Tail(turns)
        /\ read' = IF status = "completed" THEN read \cup turns[1].rows ELSE read
        /\ UNCHANGED <<nextTurn, early, active, up, conn>>
        /\ events' = events \o (IF own(1) THEN <<over>> ELSE <<>>)
                            \o (IF own(2) THEN <<begun>> ELSE <<>>)
    BY DEF EndTurn, sink
  <1>2. /\ L \in Nat \ {0} /\ DOMAIN turns = 1..L
        /\ turns' \in Seq(Turn) /\ Len(turns') = L - 1 /\ DOMAIN turns' = 1..L - 1
        /\ \A i \in 1..L - 1 : turns'[i] = turns[i + 1]
    <2>1. turns \in Seq(Turn) /\ L \in Nat \ {0} /\ DOMAIN turns = 1..L
      BY <1>1, TurnsAt
    <2>2. /\ turns' \in Seq(Turn) /\ Len(turns') = L - 1
          /\ \A i \in 1..Len(turns') : turns'[i] = turns[i + 1]
      BY <1>1, <2>1, HeadTailProperties
    <2> QED
      BY <2>1, <2>2, LenProperties
  <1>3. /\ events \in Seq(Event) /\ E \in Nat /\ DOMAIN events = 1..E
        /\ \A i \in 1..E : events[i] \in Event /\ events[i].turn \in 1..nextTurn
        /\ nextTurn \in Nat /\ (~up => E = 0) /\ read \subseteq Row
    <2>1. /\ events \in Seq(Event) /\ E \in Nat /\ DOMAIN events = 1..E /\ nextTurn \in Nat
          /\ \A i \in 1..E : events[i] \in Event
      BY TheRows, LenProperties, ElementOfSeq
    <2>2. \A i \in 1..E : events[i].turn \in 1..nextTurn
      <3>1. \A i \in 1..E : events[i].turn <= nextTurn
        BY <2>1, TheRows
      <3>2. \A i \in 1..E : events[i].turn \in Nat \ {0}
        BY <2>1 DEF Event
      <3> HIDE DEF E
      <3> QED
        BY <2>1, <3>1, <3>2
    <2>3. (~up => E = 0) /\ read \subseteq Row
      BY TheRows, EmptySeq DEF SinkInv, Typed, TypeOK
    <2> QED
      BY <2>1, <2>2, <2>3
  <1>4. /\ head \in 1..nextTurn /\ over \in Event /\ turns[1].rows \subseteq Row
        /\ \A i \in 1..L : turns[i].id \in 1..nextTurn /\ turns[i] \in Turn
        /\ \A i, j \in 1..L : i < j => turns[i].id < turns[j].id
    <2>1. /\ \A i \in 1..L : turns[i].id \in 1..nextTurn /\ turns[i] \in Turn
          /\ \A i, j \in 1..L : i < j => turns[i].id < turns[j].id
      BY TurnsAt
    <2>2. 1 \in 1..L
      BY <1>2
    <2> QED
      BY <1>3, <2>1, <2>2 DEF Event, Turn
  <1>5. over.turn = head /\ over.status = status /\ status # "started"
    BY DEF Status
  <1>6. begun.turn = turns[2].id /\ begun.status = "started"
    OBVIOUS
  <1>7. own(2) => 1 \in 1..L - 1 /\ turns'[1] = turns[2] /\ turns[2].conn = conn
                  /\ turns[2].id \in 1..nextTurn /\ begun \in Event
    BY <1>2, <1>3, <1>4 DEF Event
  <1>8. mid \in Seq(Event) /\ events' = IF own(2) THEN Append(mid, begun) ELSE mid
    <2>1. mid \in Seq(Event)
      BY <1>3, <1>4, AppendProperties
    <2>2. mid = events \o (IF own(1) THEN <<over>> ELSE <<>>)
      BY <1>3, <1>4, AppendIsConcat, ConcatEmptySeq
    <2> HIDE DEF mid
    <2>3. mid \o <<>> = mid /\ (own(2) => mid \o <<begun>> = Append(mid, begun))
      BY <1>7, <2>1, AppendIsConcat, ConcatEmptySeq
    <2> QED
      BY <1>1, <2>1, <2>2, <2>3
  <1>9. /\ DOMAIN mid = 1..Len(mid) /\ Len(mid) \in Nat
        /\ \A i \in 1..Len(mid) : \/ i \in 1..E /\ mid[i] = events[i]
                                  \/ own(1) /\ i = E + 1 /\ mid[i] = over
        /\ \A i \in 1..E : i \in 1..Len(mid) /\ mid[i] = events[i]
        /\ own(1) => E + 1 \in 1..Len(mid) /\ mid[E + 1] = over
    <2>1. CASE own(1)
      <3>1. /\ mid \in Seq(Event) /\ Len(mid) = E + 1
            /\ \A i \in 1..E : mid[i] = events[i]
            /\ mid[E + 1] = over
        BY <1>3, <1>4, <2>1, AppendProperties
      <3> HIDE DEF mid
      <3>2. DOMAIN mid = 1..Len(mid)
        BY <3>1, LenProperties
      <3>3. E \in Nat
        BY <1>3
      <3> HIDE DEF E, over
      <3>4. \A i \in 1..E + 1 : i \in 1..E \/ i = E + 1
        BY <3>3
      <3>5. E + 1 \in 1..E + 1 /\ \A i \in 1..E : i \in 1..E + 1
        BY <3>3
      <3>6. E + 1 \in Nat
        BY <3>3
      <3> QED
        BY <2>1, <3>1, <3>2, <3>4, <3>5, <3>6
    <2>2. CASE ~own(1)
      BY <1>3, <2>2
    <2> QED
      BY <2>1, <2>2
  <1> HIDE DEF L, E, head, over, begun, mid
  <1>10. head \notin Ids' /\ Ids' \subseteq Ids
    <2>1. \A i \in 1..L - 1 : i + 1 \in 1..L /\ turns[i + 1].id # head /\ turns'[i].id = turns[i + 1].id
      BY <1>2, <1>4 DEF head
    <2> QED
      BY <1>2, <2>1 DEF Ids
  <1>11. Given' \subseteq Given
    <2>1. \A i \in 1..L - 1 : i + 1 \in 1..L /\ turns'[i].rows = turns[i + 1].rows
      BY <1>2
    <2>2. read' \subseteq Given
      BY <1>1, <1>2 DEF Given
    <2> QED
      BY <1>2, <2>1, <2>2 DEF Given
  <1>12. failed' = 0 => \A n \in Row, t \in Nat : Carried(n, t) => Carried(n, t)'
    <2> SUFFICES ASSUME failed' = 0, NEW n \in Row, NEW t \in Nat, Carried(n, t)
                 PROVE  Carried(n, t)'
      OBVIOUS
    <2>1. status = "completed"
      BY DEF SinkInv, Typed, TypeOK
    <2>2. CASE n \in read
      BY <1>1, <2>2 DEF Carried
    <2>3. ASSUME NEW i \in 1..L, n \in turns[i].rows, turns[i].id = t PROVE Carried(n, t)'
      <3>1. CASE i = 1
        BY <1>1, <2>1, <2>3, <3>1 DEF Carried
      <3>2. CASE i # 1
        <4>1. i - 1 \in 1..L - 1 /\ turns'[i - 1] = turns[i]
          BY <1>2, <3>2
        <4> QED
          BY <1>2, <2>3, <4>1 DEF Carried
      <3> QED
        BY <3>1, <3>2
    <2> QED
      BY <1>2, <2>2, <2>3 DEF Carried
  <1>13. Grows({}) /\ read' \subseteq Row
    BY <1>1, <1>3, <1>4, <1>10, <1>11, <1>12 DEF Grows
  <1>14. /\ \A i \in DOMAIN turns' : turns'[i].id <= nextTurn'
         /\ \A i, j \in DOMAIN turns' : i < j => turns'[i].id < turns'[j].id
    <2>1. \A i \in 1..L - 1 : i + 1 \in 1..L /\ turns'[i].id = turns[i + 1].id
      BY <1>2
    <2>2. \A i \in 1..L - 1 : turns'[i].id <= nextTurn'
      <3>1. \A i \in 1..L : turns[i].id <= nextTurn
        BY <1>3, <1>4
      <3> QED
        BY <1>1, <2>1, <3>1
    <2>3. \A i, j \in 1..L - 1 : i < j => turns'[i].id < turns'[j].id
      <3> SUFFICES ASSUME NEW i \in 1..L - 1, NEW j \in 1..L - 1, i < j
                   PROVE  turns'[i].id < turns'[j].id
        OBVIOUS
      <3>1. i + 1 \in 1..L /\ j + 1 \in 1..L /\ i + 1 < j + 1
        BY <2>1
      <3>2. turns[i + 1].id < turns[j + 1].id
        BY <1>4, <3>1
      <3> QED
        BY <2>1, <3>2
    <2> QED
      BY <1>2, <2>2, <2>3
  <1>15. Closed(mid)
    <2>1. ASSUME NEW i \in 1..Len(mid), mid[i].status = "started"
          PROVE  /\ i + 1 \in 1..Len(mid)
                 /\ mid[i + 1].status # "started" /\ mid[i + 1].turn = mid[i].turn
      <3>1. i \in 1..E /\ mid[i] = events[i]
        BY <1>5, <1>9, <2>1
      <3>2. CASE i = E
        <4>1. Heads(events[i].turn) /\ up
          BY <1>3, <2>1, <3>1, <3>2 DEF SinkInv, Told, E
        <4>2. own(1) /\ head = events[i].turn
          BY <1>2, <4>1 DEF Heads, head, L
        <4> QED
          BY <1>5, <1>9, <3>1, <3>2, <4>2
      <3>3. CASE i # E
        <4>1. i + 1 \in 1..E
          BY <1>3, <3>1, <3>3
        <4>2. events[i + 1].status # "started" /\ events[i + 1].turn = events[i].turn
          BY <1>3, <2>1, <3>1, <3>3 DEF SinkInv, Told, E
        <4> QED
          BY <1>9, <3>1, <4>1, <4>2
      <3> QED
        BY <3>2, <3>3
    <2>2. ASSUME up, active # None
          PROVE  /\ 1 \in 1..Len(mid)
                 /\ mid[1].status # "started" /\ mid[1].turn = active
      <3>1. CASE events = <<>>
        <4>1. Heads(active) /\ E = 0
          BY <2>2, <3>1, EmptySeq DEF SinkInv, Told, E
        <4>2. own(1) /\ head = active
          BY <1>2, <2>2, <4>1 DEF Heads, head, L
        <4> QED
          BY <1>5, <1>9, <4>1, <4>2
      <3>2. CASE events # <<>>
        <4>1. events[1].status # "started" /\ events[1].turn = active
          BY <2>2, <3>2 DEF SinkInv, Told
        <4>2. 1 \in 1..E
          BY <1>3, <3>2, EmptySeq DEF E
        <4> QED
          BY <1>9, <4>1, <4>2
      <3> QED
        BY <3>1, <3>2
    <2> QED
      BY <2>1, <2>2 DEF Closed
  <1>16. /\ \A i \in 1..Len(mid) : mid[i].turn \in 1..nextTurn
         /\ \A i \in 1..Len(mid) : mid[i].status # "started" => mid[i].turn \notin Ids'
         /\ failed' = 0 => \A i \in 1..Len(mid) : mid[i].status # "failed"
    <2>1. /\ \A i \in 1..E : events[i].status # "started" => events[i].turn \notin Ids
          /\ failed = 0 => \A i \in 1..E : events[i].status # "failed"
      BY <1>3 DEF SinkInv, Ended
    <2>2. failed' = 0 => failed = 0 /\ status # "failed"
      BY DEF SinkInv, Typed, TypeOK
    <2> QED
      BY <1>3, <1>4, <1>5, <1>9, <1>10, <2>1, <2>2
  <1>17. \A e \in early : e.turn \notin Ids' /\ (failed' = 0 => e.status # "failed")
    <2>1. failed' = 0 => failed = 0
      BY DEF SinkInv, Typed, TypeOK
    <2> QED
      BY <1>10, <2>1 DEF SinkInv, Ended
  <1>18. CASE ~own(2)
    <2>1. events' = mid
      BY <1>8, <1>18
    <2>2. Told'
      <3>1. \A i \in 1..Len(mid) : mid[i].status = "started" => i # Len(mid)
        <4> SUFFICES ASSUME NEW i \in 1..Len(mid), mid[i].status = "started", i = Len(mid)
                     PROVE  FALSE
          OBVIOUS
        <4>1. i + 1 \in 1..Len(mid)
          BY <1>15 DEF Closed
        <4> QED
          BY <1>9, <4>1
      <3>2. up /\ active # None => events' # <<>> /\ events'[1].status # "started" /\ events'[1].turn = active
        BY <1>9, <1>15, <2>1, EmptySeq DEF Closed
      <3>3. \A i \in DOMAIN events' : events'[i].status = "started" =>
              /\ i # Len(events')
              /\ events'[i + 1].status # "started" /\ events'[i + 1].turn = events'[i].turn
        BY <1>9, <1>15, <2>1, <3>1 DEF Closed
      <3> QED
        BY <1>1, <3>2, <3>3 DEF Told
    <2>3. Ended'
      BY <1>1, <1>9, <1>16, <1>17, <2>1 DEF Ended
    <2>4. ~up => events' = <<>>
      BY <1>3, <1>8, <1>9, <2>1, EmptySeq
    <2>5. \A i \in DOMAIN events' : events'[i].turn <= nextTurn'
      <3>1. nextTurn \in Nat /\ nextTurn' = nextTurn
        BY <1>1, <1>3
      <3>2. \A i \in 1..Len(mid) : mid[i].turn <= nextTurn
        BY <1>16, <3>1
      <3>3. DOMAIN events' = 1..Len(mid)
        BY <1>9, <2>1
      <3> QED
        BY <2>1, <3>1, <3>2, <3>3
    <2>6. events' \in Seq(Event)
      BY <1>8, <2>1
    <2> QED
      BY <1>2, <1>13, <1>14, <2>2, <2>3, <2>4, <2>5, <2>6
  <1>19. CASE own(2)
    <2> DEFINE M == Len(mid)
    <2>1. begun \in Event /\ begun.turn \in 1..nextTurn
      BY <1>6, <1>7, <1>19 DEF begun
    <2>2. /\ events' \in Seq(Event) /\ Len(events') = M + 1 /\ events' # <<>>
          /\ \A i \in 1..M : events'[i] = mid[i]
          /\ events'[M + 1] = begun
      BY <1>8, <1>19, <2>1, AppendProperties
    <2>3. DOMAIN events' = 1..M + 1 /\ M \in Nat
      BY <1>9, <2>2, LenProperties
    <2> HIDE DEF M
    <2>4. turns' # <<>> /\ turns'[1].id = begun.turn /\ turns'[1].conn = conn'
      <3>1. Len(turns') # 0
        BY <1>2, <1>7, <1>19
      <3> QED
        BY <1>1, <1>6, <1>7, <1>19, <3>1, EmptySeq DEF begun
    <2>5. \A i \in DOMAIN events' :
            events'[i].status = "started" =>
              IF i = Len(events')
              THEN turns' # <<>> /\ turns'[1].id = events'[i].turn /\ turns'[1].conn = conn'
              ELSE events'[i + 1].status # "started" /\ events'[i + 1].turn = events'[i].turn
      <3> SUFFICES ASSUME NEW i \in DOMAIN events', events'[i].status = "started"
                   PROVE  IF i = Len(events')
                          THEN turns' # <<>> /\ turns'[1].id = events'[i].turn /\ turns'[1].conn = conn'
                          ELSE events'[i + 1].status # "started" /\ events'[i + 1].turn = events'[i].turn
        OBVIOUS
      <3>1. CASE i = M + 1
        BY <2>2, <2>4, <3>1
      <3>2. CASE i # M + 1
        <4>1. i \in 1..M
          BY <2>3, <3>2
        <4>2. i + 1 \in 1..M /\ mid[i + 1].status # "started" /\ mid[i + 1].turn = mid[i].turn
          BY <1>15, <2>2, <4>1 DEF Closed, M
        <4> QED
          BY <2>2, <2>3, <3>2, <4>1, <4>2
      <3> QED
        BY <3>1, <3>2
    <2>6. up /\ active # None => events'[1].status # "started" /\ events'[1].turn = active
      BY <1>15, <2>2 DEF Closed, M
    <2>7. Told'
      BY <1>1, <2>2, <2>5, <2>6 DEF Told, Heads
    <2>8. Ended'
      <3>1. \A i \in DOMAIN events' : /\ events'[i].status # "started" => events'[i].turn \notin Ids'
                                      /\ failed' = 0 => events'[i].status # "failed"
        BY <1>6, <1>16, <2>2, <2>3 DEF M, begun
      <3> QED
        BY <1>1, <1>17, <3>1 DEF Ended
    <2>9. \A i \in DOMAIN events' : events'[i].turn <= nextTurn'
      <3>1. \A i \in 1..M : events'[i].turn <= nextTurn
        BY <1>3, <1>16, <2>2 DEF M
      <3>2. events'[M + 1].turn <= nextTurn
        BY <1>3, <2>1, <2>2
      <3>3. \A i \in 1..M + 1 : i \in 1..M \/ i = M + 1
        BY <2>3
      <3> QED
        BY <1>1, <2>3, <3>1, <3>2, <3>3
    <2> QED
      BY <1>2, <1>13, <1>14, <1>19, <2>2, <2>7, <2>8, <2>9
  <1> QED
    BY <1>18, <1>19

\* A step of the app-server, which may answer the call in flight: given that its turns
\* and their events fit, and that the rows it accepts are those of the call.
LEMMA ServerStep ==
    ASSUME SinkInv, NEW rows \in SUBSET RowsIn(batch), Grows(rows),
           UNCHANGED <<appview, queue, seen, sending, batch, target, inflight, early, timer,
                       active, up, cursor, conn, drops, crashes>>,
           faults' \in faults..MaxFaults, failed' \in failed..MaxFailed, others' \in 0..MaxOther,
           turns' \in Seq(Turn), events' \in Seq(Event), read' \subseteq Row, again' \subseteq Row,
           ~up => events' = <<>>,
           \A i \in DOMAIN turns' : turns'[i].id <= nextTurn',
           \A i, j \in DOMAIN turns' : i < j => turns'[i].id < turns'[j].id,
           \A i \in DOMAIN events' : events'[i].turn <= nextTurn',
           Told', Ended',
           faults' + failed' + drops + crashes = 0 => again' = {},
           \/ reply' = reply /\ rows = {}
           \/ /\ up /\ sending # "no" /\ reply = Waiting
              /\ \/ reply' = Refused /\ (rows = {} \/ faults' > 0)
                 \/ /\ reply' \in 1..nextTurn' /\ (sending = "steer" => reply' = target)
                    /\ failed' = 0 => \A n \in RowsIn(batch) : Carried(n, reply)'
    PROVE  SinkInv'
  <1> DEFINE carried(n, t) == n \in read' \/ \E i \in DOMAIN turns' : turns'[i].id = t /\ n \in turns'[i].rows
  <1>1. /\ nextTurn \in Nat /\ nextTurn' \in Nat /\ nextTurn <= nextTurn'
        /\ {active, target, inflight.turn} \subseteq 0..nextTurn /\ reply \in Int /\ reply <= nextTurn
        /\ RowsIn(batch) \subseteq seen /\ seen \subseteq Row /\ RowsIn(inflight.rows) \subseteq Row
        /\ reply \notin {Waiting, Refused} => reply \in Nat
    <2>1. nextTurn \in Nat /\ nextTurn' \in Nat /\ nextTurn <= nextTurn'
      BY TheRows DEF Grows
    <2>2. {active, target, inflight.turn} \subseteq 0..nextTurn /\ reply <= nextTurn
      BY DEF SinkInv, Numbered
    <2>3. reply \in Int /\ (reply \notin {Waiting, Refused} => reply \in Nat)
      <3>1. reply \in Nat \cup {Refused}
        BY DEF SinkInv, Typed, TypeOK
      <3> QED
        BY <3>1 DEF Refused
    <2>4. RowsIn(batch) \subseteq seen /\ seen \subseteq Row /\ RowsIn(inflight.rows) \subseteq Row
      BY TheRows
    <2> QED
      BY <2>1, <2>2, <2>3, <2>4
  <1>2. /\ read \subseteq read' /\ Given' \subseteq Given \cup rows
        /\ \A t \in 0..nextTurn : t \notin Ids => t \notin Ids'
        /\ failed' = 0 => \A n \in Row, t \in Nat : Carried(n, t) => carried(n, t)
    BY DEF Grows, Carried
  <1>3. /\ faults \in Nat /\ failed \in Nat /\ drops \in Nat /\ crashes \in Nat
        /\ faults' \in Nat /\ failed' \in Nat /\ faults <= faults' /\ failed <= failed'
        /\ faults' \in 0..MaxFaults /\ failed' \in 0..MaxFailed
    BY CodexAssumption DEF SinkInv, Typed, TypeOK
  <1>4. /\ \/ reply' = reply
           \/ /\ up /\ sending # "no" /\ reply = Waiting
              /\ \/ reply' = Refused
                 \/ reply' \in 1..nextTurn' /\ (sending = "steer" => reply' = target)
        /\ reply' \in Nat \cup {Refused} /\ reply' <= nextTurn'
    <2>1. reply \in Nat \cup {Refused}
      BY DEF SinkInv, Typed, TypeOK
    <2>2. CASE reply' = reply
      BY <1>1, <2>1, <2>2
    <2>3. CASE reply' # reply
      BY <1>1, <2>3 DEF Refused
    <2> QED
      BY <2>2, <2>3
  <1>5. TypeOK'
    <2>1. /\ turns' \in Seq(Turn) /\ events' \in Seq(Event) /\ read' \subseteq Row /\ again' \subseteq Row
          /\ nextTurn' \in Nat /\ faults' \in 0..MaxFaults /\ failed' \in 0..MaxFailed
          /\ others' \in 0..MaxOther /\ reply' \in Nat \cup {Refused}
      BY <1>1, <1>3, <1>4
    <2>2. /\ UNCHANGED <<log, posted, registered, queue, seen, sending, batch, target, inflight, early,
                         timer, active, up, cursor, conn, drops, crashes>>
          /\ TypeOK
      BY DEF appview, SinkInv, Typed
    <2> QED
      BY <2>1, <2>2 DEF TypeOK
  <1>6. Within'
    BY DEF SinkInv, Typed, Within, appview
  <1>7. Held' = Held
    BY DEF Held
  <1>8. Shape'
    BY <1>4, <1>7 DEF SinkInv, Typed, Shape
  <1>9. Numbered'
    <2>1. \A e \in early' : e.turn <= nextTurn'
      <3>1. \A e \in early : e.turn <= nextTurn /\ e.turn \in Nat
        BY TheRows
      <3> QED
        BY <1>1, <3>1
    <2>2. {active', target', inflight'.turn} \subseteq 0..nextTurn'
      BY <1>1
    <2> QED
      BY <1>4, <2>1, <2>2 DEF Numbered
  <1>10. Replaces'
    <2>1. ASSUME sending = "steer"
          PROVE  /\ inflight'.turn \in {None, target'} /\ reply' \in {Waiting, Refused, target'}
                 /\ active' # target' => target' \notin Ids'
      <3>1. /\ inflight.turn \in {None, target} /\ reply \in {Waiting, Refused, target}
            /\ active # target => target \notin Ids
        BY <2>1 DEF SinkInv, Replaces
      <3> QED
        BY <1>1, <1>2, <1>4, <2>1, <3>1
    <2>2. ASSUME sending = "start", inflight.turn # None PROVE inflight'.turn \notin Ids'
      BY <1>1, <1>2, <2>2 DEF SinkInv, Replaces
    <2> QED
      BY <2>1, <2>2 DEF Replaces
  <1>11. Marks' = Marks
    BY DEF Marks, appview
  <1>12. Unbroken'
    BY <1>11 DEF SinkInv, Unbroken
  <1>13. Rides'
    <2> SUFFICES ASSUME failed' = 0
                 PROVE  /\ \A n \in RowsIn(inflight'.rows) : carried(n, inflight'.turn)
                        /\ reply' \notin {Waiting, Refused} => \A n \in RowsIn(batch') : carried(n, reply')
      BY DEF Rides, Carried
    <2>1. failed = 0
      BY <1>3
    <2>2. \A n \in RowsIn(inflight.rows) : carried(n, inflight.turn)
      <3>1. \A n \in RowsIn(inflight.rows) : Carried(n, inflight.turn)
        BY <2>1 DEF SinkInv, Rides
      <3>2. inflight.turn \in Nat
        BY <1>1
      <3> HIDE DEF carried
      <3> QED
        BY <1>1, <1>2, <3>1, <3>2
    <2>3. CASE reply' = reply
      <3>1. reply \notin {Waiting, Refused} => \A n \in RowsIn(batch) : Carried(n, reply)
        BY <2>1 DEF SinkInv, Rides
      <3>2. reply \notin {Waiting, Refused} => \A n \in RowsIn(batch) : carried(n, reply)
        <4> HIDE DEF carried
        <4> QED
          BY <1>1, <1>2, <3>1
      <3> HIDE DEF carried
      <3> QED
        BY <2>2, <2>3, <3>2
    <2>4. CASE reply' # reply
      <3>1. reply' \notin {Waiting, Refused} => \A n \in RowsIn(batch) : Carried(n, reply)'
        BY <2>4
      <3>2. reply' \notin {Waiting, Refused} => \A n \in RowsIn(batch) : carried(n, reply')
        BY <3>1 DEF Carried
      <3> HIDE DEF carried
      <3> QED
        BY <2>2, <3>2
    <2> QED
      BY <2>3, <2>4
  <1>14. Ordered'
    BY DEF SinkInv, Ordered
  <1>15. Once'
    <2> SUFFICES ASSUME faults' + failed' + drops' + crashes' = 0
                 PROVE  /\ again' = {} /\ Given' \subseteq seen'
                        /\ \A n \in RowsIn(queue') : n \notin Given'
                        /\ reply' \in {Waiting, Refused} => \A n \in RowsIn(batch') : n \notin Given'
      BY DEF Once
    <2>1. faults' = 0 /\ faults + failed + drops + crashes = 0 /\ drops = 0
      <3>1. faults' + failed' + drops + crashes = 0
        OBVIOUS
      <3>2. \A k, l \in Nat : faults <= k /\ failed <= l /\ k + l + drops + crashes = 0 =>
              k = 0 /\ drops = 0 /\ faults + failed + drops + crashes = 0
        BY <1>3
      <3> QED
        BY <1>3, <3>1, <3>2
    <2>2. /\ Given \subseteq seen
          /\ \A n \in RowsIn(queue) : n \notin Given
          /\ reply \in {Waiting, Refused} => \A n \in RowsIn(batch) : n \notin Given
      BY <2>1 DEF SinkInv, Once
    <2>3. Before(batch, queue)
      BY <2>1 DEF SinkInv, Ordered
    <2>4. \A n \in RowsIn(queue) : n \notin rows
      <3> SUFFICES ASSUME NEW n \in RowsIn(queue), n \in RowsIn(batch) PROVE FALSE
        OBVIOUS
      <3>1. n < n /\ n \in Int
        BY <2>3, TheRows, RowsAt DEF Before
      <3> QED
        BY <3>1
    <2>5. again' = {}
      BY <2>1
    <2>6. Given' \subseteq seen'
      BY <1>1, <1>2, <2>2
    <2>7. \A n \in RowsIn(queue') : n \notin Given'
      BY <1>2, <2>2, <2>4
    <2>8. reply' \in {Waiting, Refused} => reply \in {Waiting, Refused} /\ rows = {}
      BY <1>1, <2>1 DEF Waiting, Refused
    <2>9. reply' \in {Waiting, Refused} => \A n \in RowsIn(batch') : n \notin Given'
      BY <1>2, <2>2, <2>8
    <2> QED
      BY <2>5, <2>6, <2>7, <2>9
  <1>16. StillHeld'
    BY <1>2, <1>3, <1>7 DEF SinkInv, StillHeld
  <1>17. CommittedWasRead'
    BY <1>2, <1>3 DEF SinkInv, CommittedWasRead, NoLoss
  <1> QED
    BY <1>5, <1>6, <1>8, <1>9, <1>10, <1>12, <1>13, <1>14, <1>15, <1>16, <1>17 DEF SinkInv, Typed

\* A turn ends.
LEMMA EndingStep == SinkInv /\ (Complete \/ Fail) => SinkInv'
  <1> SUFFICES ASSUME SinkInv, NEW status \in Status, EndTurn(status),
                      \/ status = "completed" /\ UNCHANGED bounds
                      \/ /\ status = "failed" /\ failed < MaxFailed /\ failed' = failed + 1
                         /\ UNCHANGED <<faults, others, drops, crashes>>
               PROVE  SinkInv'
    BY DEF Complete, Fail, Status
  <1>1. /\ UNCHANGED <<appview, sink, active, up, nextTurn, again, cursor, conn>>
        /\ UNCHANGED <<faults, others, drops, crashes>>
    BY DEF EndTurn, bounds
  <1>2. /\ faults \in 0..MaxFaults /\ failed \in 0..MaxFailed /\ others \in 0..MaxOther
        /\ again \subseteq Row /\ MaxFaults \in Nat /\ MaxFailed \in Nat
        /\ drops \in Nat /\ crashes \in Nat
    BY CodexAssumption DEF SinkInv, Typed, TypeOK
  <1>3. failed' \in failed..MaxFailed
    BY <1>2 DEF bounds
  <1>4. IF status = "completed" THEN failed' = failed ELSE failed' = failed + 1
    BY DEF bounds
  <1>5. /\ turns' \in Seq(Turn) /\ events' \in Seq(Event) /\ read' \subseteq Row
        /\ (~up => events' = <<>>) /\ Grows({})
        /\ \A i \in DOMAIN turns' : turns'[i].id <= nextTurn'
        /\ \A i, j \in DOMAIN turns' : i < j => turns'[i].id < turns'[j].id
        /\ \A i \in DOMAIN events' : events'[i].turn <= nextTurn'
        /\ Told' /\ Ended'
    BY <1>4, EndedTurnStep
  <1>6. faults' + failed' + drops + crashes = 0 => again' = {}
    <2>1. faults' + failed' + drops + crashes = 0 => faults + failed + drops + crashes = 0
      <3>1. /\ faults \in Nat /\ failed \in Nat /\ faults' \in Nat /\ failed' \in Nat
            /\ faults <= faults' /\ failed <= failed'
        BY <1>1, <1>2, <1>3
      <3> SUFFICES ASSUME faults' + failed' + drops + crashes = 0
                   PROVE  faults + failed + drops + crashes = 0
        OBVIOUS
      <3>2. \A k, l \in Nat : faults <= k /\ failed <= l /\ k + l + drops + crashes = 0 =>
              faults + failed + drops + crashes = 0
        BY <1>2, <3>1
      <3> QED
        BY <3>1, <3>2
    <2> QED
      BY <1>1, <2>1 DEF SinkInv, Once
  <1>7. {} \in SUBSET RowsIn(batch) /\ reply' = reply
    BY <1>1 DEF sink, call
  <1>8. UNCHANGED <<appview, queue, seen, sending, batch, target, inflight, early, timer,
                    active, up, cursor, conn, drops, crashes>>
    BY <1>1 DEF sink, call
  <1>9. faults' \in faults..MaxFaults /\ others' \in 0..MaxOther /\ again' \subseteq Row
    BY <1>1, <1>2
  <1> QED
    BY <1>3, <1>5, <1>6, <1>7, <1>8, <1>9, ServerStep

\* The launcher starts a turn of its own.
LEMMA OtherTurnStep == SinkInv /\ OtherTurn => SinkInv'
  <1> SUFFICES ASSUME SinkInv, OtherTurn PROVE SinkInv'
    OBVIOUS
  <1>1. /\ up /\ UNCHANGED <<appview, queue, seen, sending, batch, target, reply, inflight, early,
                             timer, active, up, read, again, cursor, conn, faults, failed, drops, crashes>>
        /\ others < MaxOther /\ others' = others + 1
    BY DEF OtherTurn, sink, call
  <1>2. NewTurn({})
    BY <1>1 DEF OtherTurn, NewTurn
  <1>3. /\ faults \in 0..MaxFaults /\ failed \in 0..MaxFailed /\ others \in 0..MaxOther
        /\ again \subseteq Row /\ read \subseteq Row /\ MaxFaults \in Nat /\ MaxFailed \in Nat /\ MaxOther \in Nat
    BY CodexAssumption DEF SinkInv, Typed, TypeOK
  <1>4. /\ turns' \in Seq(Turn) /\ events' \in Seq(Event) /\ Grows({})
        /\ \A i \in DOMAIN turns' : turns'[i].id <= nextTurn'
        /\ \A i, j \in DOMAIN turns' : i < j => turns'[i].id < turns'[j].id
        /\ \A i \in DOMAIN events' : events'[i].turn <= nextTurn'
        /\ Told' /\ Ended'
    BY <1>1, <1>2, NewTurnStep
  <1>5. faults' + failed' + drops + crashes = 0 => again' = {}
    BY <1>1 DEF SinkInv, Once
  <1>6. faults' \in faults..MaxFaults /\ failed' \in failed..MaxFailed /\ others' \in 0..MaxOther
    BY <1>1, <1>3
  <1>7. {} \in SUBSET RowsIn(batch) /\ again' \subseteq Row /\ read' \subseteq Row
    BY <1>1, <1>3
  <1> QED
    BY <1>1, <1>4, <1>5, <1>6, <1>7, ServerStep

\* A call that was not handed over before is accepted.
LEMMA InjectedRows ==
    ASSUME SinkInv, Injected, reply = Waiting
    PROVE  again' \subseteq Row /\ (faults + failed + drops + crashes = 0 => again' = {})
  <1>1. again \subseteq Row /\ RowsIn(batch) \subseteq Row
    BY TheRows DEF SinkInv, Typed, TypeOK
  <1>2. again' \subseteq again \cup {n \in RowsIn(batch) : n \in Given}
    BY DEF Injected, Given
  <1> QED
    BY <1>1, <1>2 DEF SinkInv, Once

\* The app-server handles the call.
LEMMA ServeStep == SinkInv /\ Serve => SinkInv'
  <1> SUFFICES ASSUME SinkInv, Serve PROVE SinkInv'
    OBVIOUS
  <1> USE DEF Waiting
  <1>1. /\ up /\ sending # "no" /\ reply = Waiting
        /\ UNCHANGED <<appview, queue, seen, sending, batch, target, inflight, early, timer,
                       active, up, cursor, conn>>
    BY DEF Serve
  <1>2. /\ UNCHANGED <<others, drops, crashes, failed>>
        /\ faults' = faults \/ (faults < MaxFaults /\ faults' = faults + 1)
    BY DEF Serve, Fault, bounds
  <1>3. /\ faults \in 0..MaxFaults /\ failed \in 0..MaxFailed /\ others \in 0..MaxOther
        /\ again \subseteq Row /\ read \subseteq Row /\ MaxFaults \in Nat /\ MaxFailed \in Nat
        /\ drops \in Nat /\ crashes \in Nat
        /\ events \in Seq(Event) /\ turns \in Seq(Turn) /\ RowsIn(batch) \subseteq Row
        /\ nextTurn \in Nat /\ (~up => events = <<>>)
    BY TheRows, CodexAssumption DEF SinkInv, Typed, TypeOK
  <1>4. /\ faults' \in faults..MaxFaults /\ failed' \in failed..MaxFailed /\ others' \in 0..MaxOther
        /\ (faults' = faults \/ faults' > 0)
    BY <1>2, <1>3
  <1>5. faults' + failed' + drops + crashes = 0 => faults + failed + drops + crashes = 0
    <2>1. /\ faults \in Nat /\ failed \in Nat /\ faults' \in Nat /\ failed' \in Nat
          /\ faults <= faults' /\ failed <= failed'
      BY <1>2, <1>3
    <2> SUFFICES ASSUME faults' + failed' + drops + crashes = 0
                 PROVE  faults + failed + drops + crashes = 0
      OBVIOUS
    <2>2. \A k, l \in Nat : faults <= k /\ failed <= l /\ k + l + drops + crashes = 0 =>
            faults + failed + drops + crashes = 0
      BY <1>3, <2>1
    <2> QED
      BY <2>1, <2>2
  <1>6. CASE Turned
    <2>1. UNCHANGED <<turns, nextTurn, read, again, events, early, active, up, conn, failed>> /\ reply' = Refused
      BY <1>1, <1>2, <1>6 DEF Turned, server
    <2>2. Told' /\ Ended'
      BY <2>1, EventsFrame
    <2>3. Grows({})
      BY <1>3, <2>1 DEF Grows, Ids, Carried, Given
    <2>4. /\ \A i \in DOMAIN turns' : turns'[i].id <= nextTurn'
          /\ \A i, j \in DOMAIN turns' : i < j => turns'[i].id < turns'[j].id
          /\ \A i \in DOMAIN events' : events'[i].turn <= nextTurn'
      BY <2>1 DEF SinkInv, Numbered
    <2>5. faults' + failed' + drops + crashes = 0 => again' = {}
      BY <1>5, <2>1 DEF SinkInv, Once
    <2>6. {} \in SUBSET RowsIn(batch) /\ again' \subseteq Row /\ read' \subseteq Row
      BY <1>3, <2>1
    <2>7. turns' \in Seq(Turn) /\ events' \in Seq(Event) /\ (~up => events' = <<>>)
      BY <1>3, <2>1
    <2> QED
      BY <1>1, <1>2, <1>4, <2>1, <2>2, <2>3, <2>4, <2>5, <2>6, <2>7, ServerStep
  <1>7. ASSUME NEW answer \in {nextTurn + 1, Refused}, Start(answer), answer = Refused => faults' > 0
        PROVE  SinkInv'
    <2>1. NewTurn(RowsIn(batch)) /\ Injected /\ UNCHANGED read /\ sending = "start"
      BY <1>1, <1>7 DEF NewTurn, Start
    <2>2. reply' = IF answer = Refused THEN Refused ELSE nextTurn + 1
      BY <1>7 DEF Start
    <2>3. /\ turns' \in Seq(Turn) /\ events' \in Seq(Event) /\ nextTurn' = nextTurn + 1
          /\ Grows(RowsIn(batch)) /\ \A n \in RowsIn(batch) : Carried(n, nextTurn)'
          /\ \A i \in DOMAIN turns' : turns'[i].id <= nextTurn'
          /\ \A i, j \in DOMAIN turns' : i < j => turns'[i].id < turns'[j].id
          /\ \A i \in DOMAIN events' : events'[i].turn <= nextTurn'
          /\ Told' /\ Ended'
      BY <1>1, <1>2, <1>3, <2>1, NewTurnStep
    <2>4. again' \subseteq Row /\ (faults' + failed' + drops + crashes = 0 => again' = {})
      BY <1>1, <1>5, <2>1, InjectedRows
    <2>5. RowsIn(batch) \in SUBSET RowsIn(batch) /\ read' \subseteq Row
      BY <1>3, <2>1
    <2>6. CASE answer = Refused
      <3>1. reply' = Refused /\ faults' > 0
        BY <1>7, <2>2, <2>6
      <3> QED
        BY <1>1, <1>2, <1>4, <2>1, <2>3, <2>4, <2>5, <3>1, ServerStep
    <2>7. CASE answer # Refused
      <3>1. reply' = nextTurn' /\ reply' \in 1..nextTurn'
        BY <1>3, <2>2, <2>3, <2>7
      <3>2. \A n \in RowsIn(batch) : Carried(n, reply)'
        BY <2>3, <3>1 DEF Carried
      <3> QED
        BY <1>1, <1>2, <1>4, <2>1, <2>3, <2>4, <2>5, <3>1, <3>2, ServerStep
    <2> QED
      BY <2>6, <2>7
  <1>8. ASSUME NEW answer \in {target, Refused}, Steer(answer), answer = Refused => faults' > 0
        PROVE  SinkInv'
    <2>1. /\ turns # <<>> /\ turns[1].id = target /\ sending = "steer" /\ Injected
          /\ turns' = [turns EXCEPT ![1].rows = @ \cup RowsIn(batch)]
          /\ reply' = answer /\ UNCHANGED <<nextTurn, read, events>>
      BY <1>8 DEF Steer, Running
    <2>2. /\ turns' \in Seq(Turn)
          /\ Grows(RowsIn(batch)) /\ \A n \in RowsIn(batch) : Carried(n, turns[1].id)'
          /\ turns'[1].id = turns[1].id
          /\ \A i \in DOMAIN turns' : turns'[i].id <= nextTurn'
          /\ \A i, j \in DOMAIN turns' : i < j => turns'[i].id < turns'[j].id
          /\ Told' /\ Ended'
      BY <1>1, <1>2, <1>3, <2>1, SteeredStep
    <2>3. again' \subseteq Row /\ (faults' + failed' + drops + crashes = 0 => again' = {})
      BY <1>1, <1>5, <2>1, InjectedRows
    <2>4. RowsIn(batch) \in SUBSET RowsIn(batch) /\ read' \subseteq Row /\ events' \in Seq(Event)
      BY <1>3, <2>1
    <2>5. \A i \in DOMAIN events' : events'[i].turn <= nextTurn'
      BY <2>1 DEF SinkInv, Numbered
    <2>6. CASE answer = Refused
      <3>1. reply' = Refused /\ faults' > 0
        BY <1>8, <2>1, <2>6
      <3> QED
        BY <1>1, <1>2, <1>4, <2>2, <2>3, <2>4, <2>5, <3>1, ServerStep
    <2>7. CASE answer # Refused
      <3>1. reply' = target /\ reply' = turns'[1].id /\ reply' \in 1..nextTurn'
        <4>1. turns[1].id \in 1..nextTurn
          BY <2>1, TurnsAt
        <4> QED
          BY <2>1, <2>2, <2>7, <4>1
      <3>2. \A n \in RowsIn(batch) : Carried(n, reply)'
        BY <2>2, <3>1 DEF Carried
      <3> QED
        BY <1>1, <1>2, <1>4, <2>2, <2>3, <2>4, <2>5, <3>1, <3>2, ServerStep
    <2> QED
      BY <2>6, <2>7
  <1>9. \/ Turned \/ Start(nextTurn + 1) \/ Steer(target)
        \/ (Start(Refused) \/ Steer(Refused)) /\ faults' > 0
    <2>1. Fault => faults' > 0
      BY <1>3 DEF Fault
    <2> QED
      BY <2>1 DEF Serve
  <1>10. nextTurn + 1 # Refused /\ target # Refused
    BY <1>3 DEF SinkInv, Typed, TypeOK, Refused
  <1> QED
    BY <1>6, <1>7, <1>8, <1>9, <1>10

\* The connection is lost.
LEMMA DropStep == SinkInv /\ Drop => SinkInv'
  <1> SUFFICES ASSUME SinkInv, Drop PROVE SinkInv'
    OBVIOUS
  <1>1. /\ drops < MaxDrops /\ drops' = drops + 1 /\ up' = FALSE /\ events' = <<>>
        /\ reply' = IF sending = "no" THEN Waiting ELSE Refused
        /\ UNCHANGED <<appview, queue, seen, sending, batch, target, inflight, early, timer,
                       active, server, cursor, conn, faults, failed, others, crashes>>
    BY DEF Drop
  <1>2. /\ drops' \in 0..MaxDrops /\ drops' > 0 /\ faults \in Nat /\ failed \in Nat /\ crashes \in Nat
        /\ nextTurn \in Nat
    BY <1>1, CodexAssumption DEF SinkInv, Typed, TypeOK
  <1>3. DOMAIN events' = {} /\ events' \in Seq(Event) /\ events' = <<>>
    BY <1>1
  <1>4. TypeOK'
    <2>1. reply' \in Nat \cup {Refused}
      BY <1>1 DEF Waiting
    <2> QED
      BY <1>1, <1>2, <1>3, <2>1 DEF SinkInv, Typed, TypeOK, appview, server
  <1>5. Held' = Held
    BY <1>1 DEF Held
  <1>6. Within' /\ Shape'
    BY <1>1, <1>2, <1>5 DEF SinkInv, Typed, Within, Shape, appview
  <1>7. Numbered'
    <2>1. reply' <= nextTurn
      BY <1>1, <1>2 DEF Waiting, Refused
    <2> QED
      BY <1>1, <1>3, <2>1 DEF SinkInv, Numbered, server
  <1>8. Told' /\ Ended'
    BY <1>1, <1>3 DEF SinkInv, Told, Ended, Ids, server
  <1>9. Replaces' /\ Rides'
    BY <1>1 DEF SinkInv, Replaces, Rides, Ids, Carried, server
  <1>10. Unbroken' /\ Ordered' /\ CommittedWasRead'
    BY <1>2 DEF Unbroken, Ordered, CommittedWasRead
  <1>11. Once'
    <2>1. faults' + failed' + drops' + crashes' # 0
      BY <1>1, <1>2
    <2> QED
      BY <2>1 DEF Once
  <1>12. StillHeld'
    BY <1>1, <1>5 DEF SinkInv, StillHeld, server
  <1> QED
    BY <1>4, <1>6, <1>7, <1>8, <1>9, <1>10, <1>11, <1>12 DEF SinkInv, Typed

\* A new connection, or a new launcher, has a new sink.
LEMMA FreshStep == SinkInv /\ (Reconnect \/ Crash) => SinkInv'
  <1> SUFFICES ASSUME SinkInv, Reconnect \/ Crash PROVE SinkInv'
    OBVIOUS
  <1> USE DEF None, Waiting
  <1>1. /\ queue' = <<>> /\ sending' = "no" /\ batch' = <<>> /\ target' = None /\ reply' = Waiting
        /\ seen' = {} /\ inflight' = NoBatch /\ early' = {} /\ timer' = FALSE
        /\ active' = None /\ up' = TRUE /\ events' = <<>> /\ conn' = conn + 1
        /\ UNCHANGED <<log, posted, server, cursor, faults, failed, others, drops>>
        /\ registered' \in {registered, FALSE}
    BY DEF Reconnect, Crash, FreshSink, Rest, appview, bounds
  <1>2. /\ crashes' \in 0..MaxCrashes /\ faults \in Nat /\ failed \in Nat /\ drops \in Nat
        /\ crashes' \in Nat /\ (drops # 0 \/ crashes' # 0)
    <2>1. /\ crashes \in 0..MaxCrashes /\ MaxCrashes \in Nat /\ faults \in Nat /\ failed \in Nat
          /\ drops \in Nat /\ (~up => drops > 0)
      BY CodexAssumption DEF SinkInv, Typed, TypeOK, Within
    <2>2. CASE Reconnect
      BY <2>1, <2>2 DEF Reconnect, bounds
    <2>3. CASE Crash
      BY <2>1, <2>3 DEF Crash
    <2> QED
      BY <2>2, <2>3
  <1>3. /\ DOMAIN events' = {} /\ events' \in Seq(Event) /\ queue' \in Seq(Row) /\ batch' \in Seq(Row)
        /\ RowsIn(queue') = {} /\ RowsIn(batch') = {}
        /\ Increasing(queue') /\ Increasing(batch')
    BY <1>1, NoRows
  <1>4. /\ inflight' \in [turn : Nat, rows : Seq(Row)] /\ inflight'.turn = None /\ inflight'.rows = <<>>
        /\ RowsIn(inflight'.rows) = {} /\ Increasing(inflight'.rows)
    BY <1>1, NoRows DEF NoBatch
  <1>5. TypeOK'
    <2>1. conn' \in Nat /\ registered' \in BOOLEAN
      <3>1. conn \in Nat /\ registered \in BOOLEAN
        BY DEF SinkInv, Typed, TypeOK
      <3>2. registered' = registered \/ registered' = FALSE
        BY <1>1
      <3>3. registered' \in BOOLEAN
        BY <3>1, <3>2, Zenon
      <3>4. conn' \in Nat
        BY <1>1, <3>1
      <3> QED
        BY <3>3, <3>4
    <2>2. /\ log' \in 0..MaxRow /\ posted' \in 0..log' /\ turns' \in Seq(Turn) /\ nextTurn' \in Nat
          /\ read' \subseteq Row /\ again' \subseteq Row /\ cursor' \in 0..MaxRow
          /\ faults' \in 0..MaxFaults /\ failed' \in 0..MaxFailed /\ others' \in 0..MaxOther
          /\ drops' \in 0..MaxDrops
      BY <1>1 DEF SinkInv, Typed, TypeOK, server
    <2>3. /\ seen' \subseteq Row /\ sending' \in {"no", "start", "steer"} /\ target' \in Nat
          /\ reply' \in Nat \cup {Refused} /\ early' \subseteq [turn : Nat \ {0}, status : Status]
          /\ timer' \in BOOLEAN /\ active' \in Nat /\ up' \in BOOLEAN
      BY <1>1
    <2> QED
      BY <1>2, <1>3, <1>4, <2>1, <2>2, <2>3 DEF TypeOK
  <1>6. Within' /\ Shape'
    <2>1. Held' = {}
      BY <1>3, <1>4 DEF Held
    <2>2. Within'
      BY <1>1 DEF SinkInv, Typed, Within
    <2>3. Shape'
      BY <1>1, <1>4, <2>1 DEF Shape
    <2> QED
      BY <2>2, <2>3
  <1>7. Numbered'
    <2>1. nextTurn \in Nat
      BY TheRows
    <2> QED
      BY <1>1, <1>3, <1>4, <2>1 DEF SinkInv, Numbered, server
  <1>8. Told' /\ Ended' /\ Replaces'
    BY <1>1, <1>3 DEF Told, Ended, Replaces
  <1>9. Rides' /\ Ordered'
    BY <1>1, <1>3, <1>4 DEF Rides, Ordered, Before
  <1>10. Unbroken' /\ CommittedWasRead'
    <2>2. CommittedWasRead'
      BY <1>1 DEF SinkInv, CommittedWasRead, NoLoss, server
    <2>3. Unbroken'
      <3> SUFFICES ASSUME drops = 0, NEW x \in Marks', NEW y \in Marks', NEW m \in (x + 1)..y PROVE FALSE
        BY <1>1 DEF Unbroken
      <3>1. Marks' \subseteq {cursor} \cup (IF registered' THEN {posted} ELSE {})
        BY <1>1 DEF Marks
      <3>2. ~registered'
        BY <1>2 DEF Reconnect, Crash, SinkInv, Typed, Within
      <3>3. x = cursor /\ y = cursor /\ cursor \in Nat
        BY <3>1, <3>2 DEF SinkInv, Typed, TypeOK
      <3> QED
        BY <3>3
    <2> QED
      BY <2>2, <2>3
  <1>11. Once'
    <2>1. \A k \in Nat : drops # 0 \/ k # 0 => faults + failed + drops + k # 0
      BY <1>2
    <2>2. faults + failed + drops + crashes' # 0
      BY <1>2, <2>1
    <2> QED
      BY <1>1, <2>2 DEF Once
  <1>12. StillHeld'
    BY <1>1 DEF StillHeld
  <1> QED
    BY <1>5, <1>6, <1>7, <1>8, <1>9, <1>10, <1>11, <1>12 DEF SinkInv, Typed

\* What the AppView does, and a step of no part.
LEMMA AppViewStep == SinkInv /\ (Publish \/ Register \/ UNCHANGED vars) => SinkInv'
  <1> SUFFICES ASSUME SinkInv, Publish \/ Register \/ UNCHANGED vars PROVE SinkInv'
    OBVIOUS
  <1>1. UNCHANGED <<sink, active, up, events, server, cursor, conn, bounds>>
    BY DEF Publish, Register, vars
  <1>2. /\ log \in 0..MaxRow /\ posted \in 0..log /\ registered \in BOOLEAN
        /\ cursor \in 0..MaxRow /\ cursor <= log /\ MaxRow \in Nat
    BY CodexAssumption DEF SinkInv, Typed, TypeOK, Within
  <1>3. /\ log' \in 0..MaxRow /\ log <= log' /\ posted' \in 0..log' /\ registered' \in BOOLEAN
    <2>1. CASE Publish
      BY <1>2, <2>1 DEF Publish
    <2>2. CASE Register
      BY <1>2, <2>2 DEF Register
    <2>3. CASE UNCHANGED vars
      BY <1>2, <2>3 DEF vars, appview
    <2> QED
      BY <2>1, <2>2, <2>3
  <1>4. Marks' \subseteq Marks
    <2>1. CASE Publish
      BY <1>1, <2>1 DEF Publish, Marks, sink
    <2>2. CASE Register
      BY <1>1, <2>2 DEF Register, Marks, sink
    <2>3. CASE UNCHANGED vars
      BY <1>1, <2>3 DEF vars, appview, Marks, sink
    <2> QED
      BY <2>1, <2>2, <2>3
  <1>5. Shape' /\ Replaces' /\ Rides' /\ Ordered' /\ Once' /\ StillHeld'
    BY <1>1, CallFrame DEF sink, server, bounds
  <1>6. Told' /\ Ended'
    BY <1>1, EventsFrame DEF sink, server, bounds
  <1>7. Numbered'
    BY <1>1 DEF SinkInv, Numbered, sink, call, server
  <1>8. Unbroken' /\ CommittedWasRead'
    BY <1>1, <1>4, CursorFrame DEF sink, server, bounds
  <1>9. TypeOK'
    BY <1>1, <1>3 DEF SinkInv, Typed, TypeOK, sink, call, server, bounds
  <1>10. Within'
    <2>1. \A n \in seen : n <= log'
      BY <1>2, <1>3, TheRows DEF SinkInv, Typed, Within, Row
    <2> QED
      BY <1>1, <1>2, <1>3, <2>1 DEF SinkInv, Typed, Within, sink, bounds
  <1> QED
    BY <1>5, <1>6, <1>7, <1>8, <1>9, <1>10 DEF SinkInv, Typed

\* send() ends: its turn was accepted, or the call was refused.
LEMMA SendDoneStep == SinkInv /\ SendDone => SinkInv'
  <1> SUFFICES ASSUME SinkInv, SendDone PROVE SinkInv'
    OBVIOUS
  <1>1. /\ sending # "no"
        /\ UNCHANGED <<appview, seen, active, up, events, server, conn, bounds>>
    BY DEF SendDone
  <1>2. CASE Accepted
    BY <1>1, <1>2, AcceptedStep
  <1>3. CASE SteerRefused \/ StartRefused
    BY <1>1, <1>3, RefusedStep
  <1> QED
    BY <1>2, <1>3 DEF SendDone

-----------------------------------------------------------------------------
(* The theorems *)

LEMMA SinkInit == Init => SinkInv
  <1> SUFFICES ASSUME Init PROVE SinkInv
    OBVIOUS
  <1> USE DEF Init, None, Waiting
  <1>1. /\ RowsIn(queue) = {} /\ RowsIn(batch) = {} /\ Increasing(queue) /\ Increasing(batch)
        /\ queue \in Seq(Row) /\ batch \in Seq(Row)
        /\ RowsIn(inflight.rows) = {} /\ Increasing(inflight.rows)
        /\ inflight \in [turn : Nat, rows : Seq(Row)] /\ inflight.turn = None /\ inflight.rows = <<>>
    BY NoRows DEF NoBatch
  <1>2. /\ DOMAIN events = {} /\ DOMAIN turns = {}
        /\ events \in Seq(Event) /\ turns \in Seq(Turn) /\ events = <<>> /\ turns = <<>>
    OBVIOUS
  <1>3. TypeOK
    <2>1. /\ log \in 0..MaxRow /\ posted \in 0..log /\ cursor \in 0..MaxRow
          /\ faults \in 0..MaxFaults /\ failed \in 0..MaxFailed /\ others \in 0..MaxOther
          /\ drops \in 0..MaxDrops /\ crashes \in 0..MaxCrashes
      BY CodexAssumption
    <2>2. /\ seen \subseteq Row /\ sending \in {"no", "start", "steer"} /\ target \in Nat
          /\ reply \in Nat \cup {Refused} /\ early \subseteq [turn : Nat \ {0}, status : Status]
          /\ timer \in BOOLEAN /\ registered \in BOOLEAN /\ active \in Nat /\ up \in BOOLEAN /\ nextTurn \in Nat
          /\ read \subseteq Row /\ again \subseteq Row /\ conn \in Nat
      OBVIOUS
    <2> QED
      BY <1>1, <1>2, <2>1, <2>2 DEF TypeOK
  <1>4. Held = {} /\ Given = {}
    BY <1>1, <1>2 DEF Held, Given
  <1>5. Within /\ Shape
    BY <1>1, <1>4 DEF Within, Shape
  <1>6. Numbered /\ Told /\ Ended /\ Replaces
    BY <1>1, <1>2 DEF Numbered, Told, Ended, Replaces
  <1>7. Rides /\ Ordered /\ Once /\ StillHeld
    BY <1>1, <1>4 DEF Rides, Ordered, Before, Once, StillHeld
  <1>8. CommittedWasRead
    BY DEF CommittedWasRead, NoLoss
  <1>9. Unbroken
    <2>1. Marks = {0}
      BY DEF Marks
    <2> QED
      BY <2>1 DEF Unbroken
  <1> QED
    BY <1>3, <1>5, <1>6, <1>7, <1>8, <1>9 DEF SinkInv, Typed

\* Every step keeps the sink in order.
LEMMA SinkStep == SinkInv /\ [Next]_vars => SinkInv'
  BY DeliverStep, SendDoneStep, RetryStep, ReceiveStep, DropStep, FreshStep, OtherTurnStep,
     AppViewStep, ServeStep, EndingStep DEF Next

\* The sink's rows, calls, turns and events keep to each other, whatever is refused,
\* fails, is lost or restarts.
THEOREM SinkInvariant == Spec => []SinkInv
  BY SinkInit, SinkStep, PTL DEF Spec

\* Every call, batch and event names rows and turns that exist.
THEOREM SinkTypeCorrect == Spec => []TypeOK
  <1>1. SinkInv => TypeOK
    BY DEF SinkInv, Typed
  <1> QED
    BY <1>1, SinkInvariant, PTL

\* The cursor on disk passes no row that a completed turn did not carry, until a turn
\* fails or a connection is lost.
THEOREM SinkCommitsWhatWasRead == Spec => []CommittedWasRead
  <1>1. SinkInv => CommittedWasRead
    BY DEF SinkInv
  <1> QED
    BY <1>1, SinkInvariant, PTL

\* A row whose repeats the sink suppresses was read or is still held, until a turn fails.
THEOREM SinkHoldsWhatItSuppresses == Spec => []StillHeld
  <1>1. SinkInv => StillHeld
    BY DEF SinkInv
  <1> QED
    BY <1>1, SinkInvariant, PTL

\* Until a connection is lost the rows held are in order, from the turn in flight to the
\* queue.
THEOREM SinkKeepsOrder == Spec => []InOrder
  <1>1. SinkInv => InOrder
    <2> SUFFICES ASSUME SinkInv, drops = 0 PROVE Increasing(inflight.rows \o batch \o queue)
      BY DEF InOrder, Increasing
    <2>1. /\ inflight.rows \in Seq(Row) /\ batch \in Seq(Row) /\ queue \in Seq(Row)
      BY TheRows
    <2>2. /\ Increasing(inflight.rows) /\ Increasing(batch) /\ Increasing(queue)
          /\ Before(inflight.rows, batch) /\ Before(batch, queue) /\ Before(inflight.rows, queue)
      BY DEF SinkInv, Ordered
    <2>3. /\ inflight.rows \o batch \in Seq(Row) /\ Increasing(inflight.rows \o batch)
          /\ RowsIn(inflight.rows \o batch) = RowsIn(inflight.rows) \cup RowsIn(batch)
      BY <2>1, <2>2, Behind
    <2>4. Before(inflight.rows \o batch, queue)
      BY <2>2, <2>3 DEF Before
    <2> QED
      BY <2>1, <2>2, <2>3, <2>4, Behind
  <1> QED
    BY <1>1, SinkInvariant, PTL

\* While nothing goes wrong no row is given to codex twice, however often it is posted.
THEOREM SinkGivesOnce == Spec => []NoDoubleInjection
  <1>1. SinkInv => NoDoubleInjection
    BY DEF SinkInv, Once, NoDoubleInjection
  <1> QED
    BY <1>1, SinkInvariant, PTL

=============================================================================
