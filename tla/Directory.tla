------------------------------- MODULE Directory -------------------------------
\* The AppView's directory of actors: the rows the indexer keeps, retirement, and
\* the searches over them (indexer.ts, setRetired.ts, searchActors.ts). A search
\* reads the rows at once and then waits for the identity layer, so that its
\* answer speaks of two moments.
EXTENDS Naturals, Sequences, SequencesExt

CONSTANTS
    Actor,
    ByHandle,     \* all actors, in the order of their handles
    Operator,     \* the actor named by APPVIEW_OPERATOR, or one that is none
    Query,        \* a query stands for the actors whose handle begins with it
    Limit,        \* the answers a client asks for
    MaxSearch,    \* bound: searches on their way at once
    MaxChange     \* bound: calls of setRetired, each at a later time

ASSUME DirectoryAssumption ==
    /\ ByHandle \in Seq(Actor)
    /\ IsInjective(ByHandle)
    /\ \A a \in Actor : \E i \in DOMAIN ByHandle : ByHandle[i] = a
    /\ Query \subseteq SUBSET Actor
    /\ {Limit, MaxSearch} \subseteq Nat \ {0}
    /\ MaxChange \in Nat

VARIABLES
    actors,       \* table: actors; retiredAt 0 is null
    resolves,     \* external: the actors whose DID resolves to a valid handle
    live,         \* the actors with a recent registration (see PushDelivery)
    searches,     \* searches on their way, by slot
    calls,        \* setRetired calls so far: the clock of retirement
    retiredSince  \* history: by the calls alone, since when an actor is retired

directoryVars == <<actors, resolves, live, searches, calls, retiredSince>>

Slot == 1..MaxSearch

Row == [known: BOOLEAN, active: BOOLEAN, retiredAt: 0..MaxChange]

Search == [stage: {"none", "sent", "read"}, query: Query \cup {{}},
           retiredOnly: BOOLEAN, rows: SUBSET Actor]

NoSearch == [stage |-> "none", query |-> {}, retiredOnly |-> FALSE, rows |-> {}]

DirectoryTypes ==
    /\ actors \in [Actor -> Row]
    /\ resolves \subseteq Actor
    /\ live \subseteq Actor
    /\ searches \in [Slot -> Search]
    /\ calls \in 0..MaxChange
    /\ retiredSince \in [Actor -> 0..MaxChange]

DirectoryInit ==
    /\ \E known \in BOOLEAN :
           actors = [a \in Actor |-> [known |-> known, active |-> TRUE, retiredAt |-> 0]]
    /\ resolves = Actor
    /\ live = {}
    /\ searches = [i \in Slot |-> NoSearch]
    /\ calls = 0
    /\ retiredSince = [a \in Actor |-> 0]

-----------------------------------------------------------------------------
\* The indexer. An event may be one that is read again after a restart, so any
\* event may come at any time.

\* ensureActor: ON CONFLICT(did) DO NOTHING.
Ensured(row) == [row EXCEPT !.known = TRUE]

\* An account event: the upsert of active and status.
Upserted(row, active) == [row EXCEPT !.known = TRUE, !.active = active]

\* A record of the account is indexed.
IndexRecord(a) ==
    /\ actors' = [actors EXCEPT ![a] = Ensured(@)]
    /\ UNCHANGED <<resolves, live, searches, calls, retiredSince>>

\* An account event is indexed.
IndexAccount(a, active) ==
    /\ actors' = [actors EXCEPT ![a] = Upserted(@, active)]
    /\ UNCHANGED <<resolves, live, searches, calls, retiredSince>>

\* The identity layer loses an actor, or finds it again (an unreachable directory
\* of DIDs, an invalid handle; an identity event drops the cached document).
IdentityChanges(a) ==
    /\ resolves' = IF a \in resolves THEN resolves \ {a} ELSE resolves \cup {a}
    /\ UNCHANGED <<actors, live, searches, calls, retiredSince>>

\* A session of the actor registers, or its registration ages or is dropped.
LiveChanges(a) ==
    /\ live' = IF a \in live THEN live \ {a} ELSE live \cup {a}
    /\ UNCHANGED <<actors, resolves, searches, calls, retiredSince>>

-----------------------------------------------------------------------------
\* Retirement.

\* Anyone on itself, the operator on anyone.
MayRetire(viewer, subject) == viewer = subject \/ viewer = Operator

RetiredAtBug(row, retired, now) == IF retired THEN now ELSE 0

\* The column setRetired writes: a second retirement keeps the first time.
RetiredAt(row, retired, now) ==
    IF ~retired THEN 0 ELSE IF row.retiredAt # 0 THEN row.retiredAt ELSE now

\* ait.actor.setRetired, from the retire tool (on itself) and from aitty; an actor
\* that was never indexed is refused.
SetRetired(viewer, subject, retired) ==
    /\ calls < MaxChange
    /\ MayRetire(viewer, subject)
    /\ actors[subject].known
    /\ calls' = calls + 1
    /\ actors' = [actors EXCEPT ![subject].retiredAt = RetiredAt(actors[subject], retired, calls')]
    /\ retiredSince' = [retiredSince EXCEPT ![subject] =
            IF ~retired THEN 0 ELSE IF @ # 0 THEN @ ELSE calls']
    /\ UNCHANGED <<resolves, live, searches>>

-----------------------------------------------------------------------------
\* Searches.

\* The rows a search sweeps: listed and retired ones never together.
Rows(retiredOnly) ==
    {a \in Actor : /\ actors[a].known
                   /\ actors[a].active
                   /\ retiredOnly = (actors[a].retiredAt # 0)}

\* What a client sends.
Sent(q, retiredOnly) ==
    [stage |-> "sent", query |-> q, retiredOnly |-> retiredOnly, rows |-> {}]

\* The entries of a sequence that are in a set, in their order.
Chosen(s, set) ==
    LET chosen[n \in 0..Len(s)] ==
            IF n = 0 THEN <<>>
            ELSE IF s[n] \in set THEN Append(chosen[n - 1], s[n]) ELSE chosen[n - 1]
    IN  chosen[Len(s)]

\* The AppView handles it: the sweep is one statement.
ReadRows(i) ==
    /\ searches[i].stage = "sent"
    /\ searches' = [searches EXCEPT ![i].stage = "read", ![i].rows = Rows(searches[i].retiredOnly)]
    /\ UNCHANGED <<actors, resolves, live, calls, retiredSince>>

\* The answer: an actor that does not resolve is dropped, the others that match
\* are sorted by handle and capped.
Answer(i) ==
    LET all == Chosen(ByHandle, searches[i].rows \cap resolves \cap searches[i].query)
    IN  SubSeq(all, 1, IF Len(all) < Limit THEN Len(all) ELSE Limit)

-----------------------------------------------------------------------------
\* An actor is retired exactly since the first call that retired it after the last
\* one that listed it, whatever events are indexed, or indexed again, meanwhile:
\* neither an account event nor a record read again lists a retired actor
\* (setRetired.ts:30-31, "retired since" stays truthful).
RetirementKept == \A a \in Actor : actors[a].retiredAt = retiredSince[a]

=============================================================================
