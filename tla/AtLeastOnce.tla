---------------------------- MODULE AtLeastOnce -----------------------------
(***************************************************************************)
(* What notification delivery promises to one recipient                    *)
(* (specs/notification-cursor-delivery.md, "Decision"): rows are numbered  *)
(* in the order they are written, a row is handed over only when every     *)
(* smaller one has been or is excused, repeats are allowed, and the        *)
(* position a restart continues from is the row last handed over, or one   *)
(* before which nothing is missing.  A record that is deleted and created  *)
(* again has several rows; the session that was handed one of them need    *)
(* not be handed the next.                                                 *)
(***************************************************************************)
EXTENDS Integers

VARIABLES
    rows,       \* rows 1..rows exist
    record,     \* the record of each row
    excused,    \* rows that need not be handed over
    delivered,  \* rows handed over, themselves or by another row of their record
    position    \* where a restart continues; -1 before the first registration

vars == <<rows, record, excused, delivered, position>>

Init ==
    /\ rows = 0
    /\ excused = {} /\ delivered = {}
    /\ position = -1

Settled(n) == 1..n \subseteq delivered \cup excused

SameRecord(n) == {m \in 1..rows : record[m] = record[n]}

Publish ==
    /\ rows' = rows + 1
    /\ \A n \in 1..rows : record'[n] = record[n]
    /\ UNCHANGED <<excused, delivered, position>>

\* Rows are deleted or hidden from the recipient, or passed by a row of a record
\* that was re-created.
Excuse ==
    /\ \E S \in SUBSET (1..rows) : excused' = excused \cup S
    /\ UNCHANGED <<rows, record, delivered, position>>

\* A row is handed over, and with it later rows of its record.
Deliver(n) ==
    /\ Settled(n - 1)
    /\ \E S \in SUBSET SameRecord(n) : delivered' = delivered \cup {n} \cup S
    /\ position' = n
    /\ UNCHANGED <<rows, record, excused>>

\* A row is acknowledged because its record was handed over before.
Repeat(n) ==
    /\ SameRecord(n) \cap delivered # {}
    /\ delivered' = delivered \cup {n}
    /\ UNCHANGED <<rows, record, excused, position>>

\* The position a registration was made with is written down.
Restore(n) ==
    /\ Settled(n)
    /\ position' = n
    /\ UNCHANGED <<rows, record, excused, delivered>>

Next ==
    \/ Publish \/ Excuse
    \/ \E n \in 1..rows : Deliver(n) \/ Repeat(n)
    \/ \E n \in 0..rows : Restore(n)

Spec == Init /\ [][Next]_vars

=============================================================================
