----------------------------- MODULE FollowGraph -----------------------------
(***************************************************************************)
(* What the follow index promises about one author's follow records, the   *)
(* table of specs/reliable-follow-indexing.md: several records may name    *)
(* the same subject, one of them represents the relationship and goes on   *)
(* doing so while it lasts, another one takes over without a new alert     *)
(* when it goes, and only the first record of a relationship alerts.       *)
(***************************************************************************)
CONSTANTS
    Uri,      \* record URIs
    Subject,  \* DIDs that are followed
    Self      \* the author, who is not alerted of a follow of itself

VARIABLES
    record,          \* <<uri, subject>>: the records known
    representative,  \* <<uri, subject>>: the record shown for each subject
    alert            \* <<uri, subject>>: the follow notifications that stand

vars == <<record, representative, alert>>

Init == record = {} /\ representative = {} /\ alert = {}

Of(u, pairs) == {p \in pairs : p[1] = u}

Subjects(pairs) == {p[2] : p \in pairs}

\* One record represents each subject; a representative stays while it lasts.
Represent ==
    /\ representative' \subseteq record'
    /\ Subjects(representative') = Subjects(record')
    /\ \A p, q \in representative' : p[2] = q[2] => p = q
    /\ representative \cap record' \subseteq representative'

\* The record at u is created, moved to another subject, or repeated.
Put(u, s) ==
    /\ record' = (record \ Of(u, record)) \cup {<<u, s>>}
    /\ Represent
    /\ alert' = IF Of(u, record) = {} /\ s \notin Subjects(record) /\ s # Self
                THEN alert \cup {<<u, s>>}
                ELSE alert \cap record'

Remove(u) ==
    /\ record' = record \ Of(u, record)
    /\ Represent
    /\ alert' = alert \cap record'

Next == \E u \in Uri : Remove(u) \/ \E s \in Subject : Put(u, s)

Spec == Init /\ [][Next]_vars

=============================================================================
