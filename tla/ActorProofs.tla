----------------------------- MODULE ActorProofs -----------------------------
(***************************************************************************)
(* Proofs about the directory of actors, the prompt and the picker that    *)
(* search it, and profile records, for any actors, handles, queries,       *)
(* sessions, fields and calls, and any number of searches, retirements and *)
(* replays.  The directory changes between two readings of it; each        *)
(* invariant says what an answer on its way still stands for.              *)
(***************************************************************************)
EXTENDS MentionPrompt, SessionPicker, ProfileRecord, WellFoundedInduction, TLAPS

-----------------------------------------------------------------------------
(* The entries of a sequence that are chosen.  A recursive function exists,    *)
(* and has a property at every number, because there is no least number where  *)
(* it fails.                                                                   *)

\* A set of numbers that is not empty has a least element.
LEMMA Least ==
    ASSUME NEW T \in SUBSET Nat, T # {}
    PROVE  \E x \in T : \A y \in T : x <= y
  <1>1. IsWellFoundedOn(OpToRel(<,Nat), Nat)
    BY NatLessThanWellFounded
  <1>2. PICK x \in T : \A y \in T : ~(<<y, x>> \in OpToRel(<,Nat))
    BY <1>1, WFMin
  <1>3. \A y \in T : ~(y < x)
    BY <1>2 DEF OpToRel
  <1> QED
    BY <1>3

\* One more entry.
Extended(t, e, S) == IF e \in S THEN Append(t, e) ELSE t

\* Entry n of g is what is chosen among the first n of s.
Chooses(g, s, S, N) ==
    /\ g[0] = <<>>
    /\ \A n \in 1..N : g[n] = Extended(g[n - 1], s[n], S)

\* What a sequence's entries are chosen by exists.
LEMMA ChoosingExists ==
    ASSUME NEW A, NEW s \in Seq(A), NEW S
    PROVE  \E g \in [0..Len(s) -> Seq(A)] : Chooses(g, s, S, Len(s))
  <1> DEFINE Can(n) == \E g \in [0..n -> Seq(A)] : Chooses(g, s, S, n)
             T == {n \in Nat : n <= Len(s) /\ ~Can(n)}
  <1>1. Can(0)
    <2>1. [n \in 0..0 |-> <<>>] \in [0..0 -> Seq(A)]
      OBVIOUS
    <2>2. Chooses([n \in 0..0 |-> <<>>], s, S, 0)
      BY DEF Chooses
    <2> QED
      BY <2>1, <2>2
  <1>2. ASSUME NEW n \in Nat, n + 1 <= Len(s), Can(n)
        PROVE  Can(n + 1)
    <2>1. PICK g \in [0..n -> Seq(A)] : Chooses(g, s, S, n)
      BY <1>2
    <2> DEFINE h == [m \in 0..n + 1 |-> IF m = n + 1 THEN Extended(g[n], s[n + 1], S) ELSE g[m]]
    <2>2. s[n + 1] \in A
      BY <1>2
    <2>3. g[n] \in Seq(A)
      OBVIOUS
    <2>4. Extended(g[n], s[n + 1], S) \in Seq(A)
      BY <2>2, <2>3 DEF Extended
    <2>5. h \in [0..n + 1 -> Seq(A)]
      BY <2>4
    <2>6. h[0] = <<>>
      BY <2>1 DEF Chooses
    <2>7. ASSUME NEW m \in 1..n + 1
          PROVE  h[m] = Extended(h[m - 1], s[m], S)
      <3>1. CASE m = n + 1
        BY <3>1
      <3>2. CASE m # n + 1
        <4>1. m \in 1..n /\ m \in 0..n + 1 /\ m - 1 \in 0..n + 1 /\ m - 1 # n + 1
          BY <3>2
        <4>2. h[m] = g[m] /\ h[m - 1] = g[m - 1]
          BY <3>2, <4>1
        <4> QED
          BY <2>1, <4>1, <4>2 DEF Chooses
      <3> QED
        BY <3>1, <3>2
    <2>8. Chooses(h, s, S, n + 1)
      BY <2>6, <2>7 DEF Chooses
    <2> QED
      BY <2>5, <2>8
  <1>3. Len(s) \in Nat
    OBVIOUS
  <1>4. ASSUME T # {}
        PROVE  FALSE
    <2> HIDE DEF Can
    <2>1. PICK x \in T : \A y \in T : x <= y
      BY <1>4, Least
    <2>2. x # 0
      BY <1>1
    <2>3. x - 1 \in Nat /\ x - 1 <= Len(s) /\ x = (x - 1) + 1 /\ ~(x <= x - 1)
      BY <1>3, <2>1, <2>2
    <2>4. Can(x - 1)
      BY <2>1, <2>3
    <2>5. Can((x - 1) + 1)
      BY <1>2, <2>3, <2>4
    <2> QED
      BY <2>3, <2>5
  <1> QED
    BY <1>3, <1>4

\* It is what Chosen is defined by.
LEMMA ChosenIs ==
    ASSUME NEW A, NEW s \in Seq(A), NEW S
    PROVE  \E g \in [0..Len(s) -> Seq(A)] : Chooses(g, s, S, Len(s)) /\ Chosen(s, S) = g[Len(s)]
  <1> DEFINE Is(g) == g = [n \in 0..Len(s) |->
                              IF n = 0 THEN <<>>
                              ELSE IF s[n] \in S THEN Append(g[n - 1], s[n]) ELSE g[n - 1]]
             c == CHOOSE g : Is(g)
  <1>1. Chosen(s, S) = c[Len(s)]
    BY DEF Chosen
  <1>2. PICK g \in [0..Len(s) -> Seq(A)] : Chooses(g, s, S, Len(s))
    BY ChoosingExists
  <1>3. Is(g)
    <2>1. ASSUME NEW n \in 0..Len(s)
          PROVE  g[n] = IF n = 0 THEN <<>>
                        ELSE IF s[n] \in S THEN Append(g[n - 1], s[n]) ELSE g[n - 1]
      <3>1. CASE n = 0
        BY <1>2, <3>1 DEF Chooses
      <3>2. CASE n # 0
        <4>1. n \in 1..Len(s)
          BY <3>2
        <4> QED
          BY <1>2, <3>2, <4>1 DEF Chooses, Extended
      <3> QED
        BY <3>1, <3>2
    <2> QED
      BY <2>1
  <1>4. Is(c)
    BY <1>3
  <1>5. Len(s) \in Nat
    OBVIOUS
  <1> HIDE DEF c
  <1>6. \A n \in 0..Len(s) :
            c[n] = IF n = 0 THEN <<>>
                   ELSE IF s[n] \in S THEN Append(c[n - 1], s[n]) ELSE c[n - 1]
    BY <1>4
  <1> HIDE DEF Is
  <1>7. c[0] = <<>>
    BY <1>5, <1>6
  <1>8. \A n \in 1..Len(s) : c[n] = Extended(c[n - 1], s[n], S)
    <2>1. \A n \in 1..Len(s) : n \in 0..Len(s) /\ n # 0
      BY <1>5
    <2> QED
      BY <1>6, <2>1 DEF Extended
  <1> DEFINE T == {n \in 0..Len(s) : c[n] # g[n]}
  <1>9. ASSUME T # {}
        PROVE  FALSE
    <2>1. T \in SUBSET Nat
      OBVIOUS
    <2>2. PICK x \in T : \A y \in T : x <= y
      BY <1>9, <2>1, Least
    <2>3. x # 0
      BY <1>2, <1>7 DEF Chooses
    <2>4. x \in 1..Len(s) /\ x - 1 \in 0..Len(s) /\ ~(x <= x - 1)
      BY <1>5, <2>3
    <2>5. c[x - 1] = g[x - 1]
      BY <2>2, <2>4
    <2>6. c[x] = g[x]
      BY <1>2, <1>8, <2>4, <2>5 DEF Chooses
    <2> QED
      BY <2>6
  <1>10. c[Len(s)] = g[Len(s)]
    BY <1>5, <1>9
  <1> QED
    BY <1>1, <1>2, <1>10

\* What is chosen is a sequence of the entries that are in the set, and of no others.
LEMMA ChosenFacts ==
    ASSUME NEW A, NEW s \in Seq(A), NEW S
    PROVE  /\ Chosen(s, S) \in Seq(A)
           /\ \A i \in DOMAIN Chosen(s, S) :
                 Chosen(s, S)[i] \in S /\ \E j \in DOMAIN s : s[j] = Chosen(s, S)[i]
           /\ \A j \in DOMAIN s : s[j] \in S => \E i \in DOMAIN Chosen(s, S) : Chosen(s, S)[i] = s[j]
  <1>1. PICK g \in [0..Len(s) -> Seq(A)] : Chooses(g, s, S, Len(s)) /\ Chosen(s, S) = g[Len(s)]
    BY ChosenIs
  <1>2. Len(s) \in Nat
    OBVIOUS
  <1> DEFINE Fine(n) == /\ \A i \in 1..Len(g[n]) : g[n][i] \in S /\ \E j \in 1..Len(s) : s[j] = g[n][i]
                        /\ \A j \in 1..n : s[j] \in S => \E i \in 1..Len(g[n]) : g[n][i] = s[j]
             T == {n \in 0..Len(s) : ~Fine(n)}
  <1>3. Fine(0)
    BY <1>1 DEF Chooses
  <1>4. ASSUME NEW n \in 1..Len(s), Fine(n - 1)
        PROVE  Fine(n)
    <2>1. n - 1 \in 0..Len(s) /\ n \in 0..Len(s)
      BY <1>2
    <2>2. g[n - 1] \in Seq(A) /\ s[n] \in A
      BY <2>1
    <2>3. g[n] = Extended(g[n - 1], s[n], S)
      BY <1>1 DEF Chooses
    <2>4. CASE s[n] \notin S
      <3>1. g[n] = g[n - 1]
        BY <2>3, <2>4 DEF Extended
      <3>2. \A j \in 1..n : s[j] \in S => j \in 1..n - 1
        BY <2>4
      <3> QED
        BY <1>4, <3>1, <3>2
    <2>5. CASE s[n] \in S
      <3>1. g[n] = Append(g[n - 1], s[n])
        BY <2>3, <2>5 DEF Extended
      <3>2. Len(g[n - 1]) \in Nat /\ Len(g[n]) = Len(g[n - 1]) + 1
        BY <2>2, <3>1
      <3>3. \A i \in 1..Len(g[n - 1]) : g[n][i] = g[n - 1][i]
        BY <2>2, <3>1
      <3>4. g[n][Len(g[n])] = s[n]
        BY <2>2, <3>1, <3>2
      <3>5. \A i \in 1..Len(g[n]) : i = Len(g[n]) \/ i \in 1..Len(g[n - 1])
        BY <3>2
      <3>6. \A i \in 1..Len(g[n]) : g[n][i] \in S /\ \E j \in 1..Len(s) : s[j] = g[n][i]
        BY <1>4, <2>5, <3>3, <3>4, <3>5
      <3>7. ASSUME NEW j \in 1..n, s[j] \in S
            PROVE  \E i \in 1..Len(g[n]) : g[n][i] = s[j]
        <4>1. CASE j = n
          <5>1. Len(g[n]) \in 1..Len(g[n])
            BY <3>2
          <5> QED
            BY <3>4, <4>1, <5>1
        <4>2. CASE j # n
          <5>1. j \in 1..n - 1
            BY <4>2
          <5>2. PICK i \in 1..Len(g[n - 1]) : g[n - 1][i] = s[j]
            BY <1>4, <3>7, <5>1
          <5>3. i \in 1..Len(g[n]) /\ g[n][i] = s[j]
            BY <3>2, <3>3, <5>2
          <5> QED
            BY <5>3
        <4> QED
          BY <4>1, <4>2
      <3> QED
        BY <3>6, <3>7
    <2> QED
      BY <2>4, <2>5
  <1> HIDE DEF Fine
  <1>5. ASSUME T # {}
        PROVE  FALSE
    <2>1. T \in SUBSET Nat
      OBVIOUS
    <2>2. PICK x \in T : \A y \in T : x <= y
      BY <1>5, <2>1, Least
    <2>3. x # 0
      BY <1>3
    <2>4. x \in 1..Len(s) /\ x - 1 \in 0..Len(s) /\ ~(x <= x - 1)
      BY <1>2, <2>3
    <2>5. Fine(x - 1)
      BY <2>2, <2>4
    <2> QED
      BY <1>4, <2>4, <2>5
  <1>6. Fine(Len(s))
    BY <1>2, <1>5
  <1>7. DOMAIN s = 1..Len(s) /\ DOMAIN g[Len(s)] = 1..Len(g[Len(s)]) /\ g[Len(s)] \in Seq(A)
    BY <1>2
  <1> QED
    BY <1>1, <1>6, <1>7 DEF Fine

-----------------------------------------------------------------------------
(* The directory. *)

\* The directory's own tables are of their types, and retirement is kept.
DirectoryInv == DirectoryTypes /\ RetirementKept

\* A record with a field changed.
LEMMA RowFacts ==
    ASSUME NEW row \in Row
    PROVE  /\ Ensured(row) \in Row /\ Ensured(row).retiredAt = row.retiredAt
           /\ \A a \in BOOLEAN : /\ Upserted(row, a) \in Row
                                 /\ Upserted(row, a).retiredAt = row.retiredAt
           /\ \A t \in 0..MaxChange : [row EXCEPT !.retiredAt = t] \in Row
                                      /\ [row EXCEPT !.retiredAt = t].retiredAt = t
  BY DEF Row, Ensured, Upserted

\* The directory begins so.
LEMMA DirectoryInitial == DirectoryInit => DirectoryInv
  <1> SUFFICES ASSUME DirectoryInit PROVE DirectoryInv
    OBVIOUS
  <1>1. 0 \in 0..MaxChange
    BY DirectoryAssumption
  <1>2. PICK known \in BOOLEAN :
            actors = [a \in Actor |-> [known |-> known, active |-> TRUE, retiredAt |-> 0]]
    BY DEF DirectoryInit
  <1>3. actors \in [Actor -> Row] /\ \A a \in Actor : actors[a].retiredAt = 0
    BY <1>1, <1>2 DEF Row
  <1>4. searches \in [Slot -> Search]
    BY DEF DirectoryInit, Search, NoSearch
  <1> QED
    BY <1>1, <1>3, <1>4 DEF DirectoryInit, DirectoryInv, DirectoryTypes, RetirementKept

\* An event leaves every retirement as it was.
LEMMA RowChanges ==
    ASSUME DirectoryInv, NEW a \in Actor, NEW row \in Row, row.retiredAt = actors[a].retiredAt,
           actors' = [actors EXCEPT ![a] = row],
           UNCHANGED <<resolves, live, searches, calls, retiredSince>>
    PROVE  DirectoryInv'
  <1>1. actors' \in [Actor -> Row]
    BY DEF DirectoryInv, DirectoryTypes
  <1>2. \A b \in Actor : actors'[b].retiredAt = actors[b].retiredAt
    BY DEF DirectoryInv, DirectoryTypes
  <1> QED
    BY <1>1, <1>2 DEF DirectoryInv, DirectoryTypes, RetirementKept

\* A record of the account is indexed.
LEMMA IndexRecordStep ==
    ASSUME DirectoryInv, NEW a \in Actor, IndexRecord(a)
    PROVE  DirectoryInv'
  <1>1. actors[a] \in Row
    BY DEF DirectoryInv, DirectoryTypes
  <1>2. actors' = [actors EXCEPT ![a] = Ensured(actors[a])]
    BY DEF IndexRecord
  <1>3. UNCHANGED <<resolves, live, searches, calls, retiredSince>>
    BY DEF IndexRecord
  <1> QED
    BY <1>1, <1>2, <1>3, RowFacts, RowChanges

\* An account event is indexed.
LEMMA IndexAccountStep ==
    ASSUME DirectoryInv, NEW a \in Actor, NEW status \in BOOLEAN, IndexAccount(a, status)
    PROVE  DirectoryInv'
  <1>1. actors[a] \in Row
    BY DEF DirectoryInv, DirectoryTypes
  <1>2. actors' = [actors EXCEPT ![a] = Upserted(actors[a], status)]
    BY DEF IndexAccount
  <1>3. UNCHANGED <<resolves, live, searches, calls, retiredSince>>
    BY DEF IndexAccount
  <1> QED
    BY <1>1, <1>2, <1>3, RowFacts, RowChanges

\* An actor is retired or listed again: the column and the calls agree.
LEMMA SetRetiredStep ==
    ASSUME DirectoryInv, NEW viewer, NEW subject \in Actor, NEW retired \in BOOLEAN,
           SetRetired(viewer, subject, retired)
    PROVE  DirectoryInv'
  <1> USE DEF DirectoryInv, DirectoryTypes
  <1>1. calls + 1 \in 0..MaxChange /\ 0 \in 0..MaxChange /\ calls' = calls + 1
    BY DirectoryAssumption DEF SetRetired
  <1>2. actors[subject] \in Row /\ actors[subject].retiredAt \in 0..MaxChange
        /\ actors[subject].retiredAt = retiredSince[subject]
    BY DEF Row, RetirementKept
  <1> DEFINE t == RetiredAt(actors[subject], retired, calls + 1)
  <1>3. t \in 0..MaxChange
    BY <1>1, <1>2 DEF RetiredAt
  <1>4. actors' = [actors EXCEPT ![subject] = [actors[subject] EXCEPT !.retiredAt = t]]
    BY <1>1 DEF SetRetired
  <1>5. retiredSince' = [retiredSince EXCEPT ![subject] = t]
    BY <1>1, <1>2 DEF SetRetired, RetiredAt
  <1> HIDE DEF t
  <1>6. [actors[subject] EXCEPT !.retiredAt = t] \in Row /\ [actors[subject] EXCEPT !.retiredAt = t].retiredAt = t
    BY <1>2, <1>3, RowFacts
  <1>7. actors' \in [Actor -> Row] /\ retiredSince' \in [Actor -> 0..MaxChange]
    BY <1>3, <1>4, <1>5, <1>6
  <1>8. RetirementKept'
    BY <1>4, <1>5, <1>6 DEF RetirementKept
  <1> QED
    BY <1>1, <1>7, <1>8 DEF SetRetired

\* A search is sent, read or answered.
LEMMA SearchChanges ==
    ASSUME DirectoryInv, NEW i \in Slot, NEW w \in Search, searches' = [searches EXCEPT ![i] = w],
           UNCHANGED <<actors, resolves, live, calls, retiredSince>>
    PROVE  DirectoryInv'
  BY DEF DirectoryInv, DirectoryTypes, RetirementKept

\* What ReadRows leaves in the slot.
LEMMA ReadIs ==
    ASSUME DirectoryInv, NEW i \in Slot, ReadRows(i)
    PROVE  /\ searches' \in [Slot -> Search]
           /\ searches'[i].stage = "read" /\ searches'[i].rows = Rows(searches[i].retiredOnly)
           /\ searches'[i].query = searches[i].query /\ searches'[i].retiredOnly = searches[i].retiredOnly
           /\ \A j \in Slot \ {i} : searches'[j] = searches[j]
           /\ UNCHANGED <<actors, resolves, live, calls, retiredSince>>
  <1> DEFINE w == [searches[i] EXCEPT !.stage = "read", !.rows = Rows(searches[i].retiredOnly)]
  <1>1. searches[i] \in Search /\ searches \in [Slot -> Search]
    BY DEF DirectoryInv, DirectoryTypes
  <1>2. Rows(searches[i].retiredOnly) \in SUBSET Actor
    BY DEF Rows
  <1>3. w \in Search /\ w.stage = "read" /\ w.rows = Rows(searches[i].retiredOnly)
        /\ w.query = searches[i].query /\ w.retiredOnly = searches[i].retiredOnly
    BY <1>1, <1>2 DEF Search
  <1>4. searches' = [searches EXCEPT ![i] = w] /\ UNCHANGED <<actors, resolves, live, calls, retiredSince>>
    BY DEF ReadRows
  <1> HIDE DEF w
  <1> QED
    BY <1>1, <1>3, <1>4

\* The rows are read.
LEMMA ReadRowsStep ==
    ASSUME DirectoryInv, NEW i \in Slot, ReadRows(i)
    PROVE  DirectoryInv'
  BY ReadIs DEF DirectoryInv, DirectoryTypes, RetirementKept

\* The identity layer or a registration changes.
LEMMA IdentityChangesStep ==
    ASSUME DirectoryInv, NEW a \in Actor, IdentityChanges(a) \/ LiveChanges(a)
    PROVE  DirectoryInv'
  <1>1. resolves' \subseteq Actor /\ live' \subseteq Actor
    BY DEF DirectoryInv, DirectoryTypes, IdentityChanges, LiveChanges
  <1>2. UNCHANGED <<actors, searches, calls, retiredSince>>
    BY DEF IdentityChanges, LiveChanges
  <1> QED
    BY <1>1, <1>2 DEF DirectoryInv, DirectoryTypes, RetirementKept

\* An answer is a sequence of at most Limit actors; an actor whose row was read, who
\* resolves and whose handle was the query is in it.
LEMMA AnswerIs ==
    ASSUME DirectoryInv, NEW i \in Slot
    PROVE  /\ Answer(i) \in Seq(Actor) /\ Len(Answer(i)) <= Limit
           /\ \A a \in Actor : searches[i].query = {a} /\ a \in searches[i].rows \cap resolves
                                   => \E j \in DOMAIN Answer(i) : Answer(i)[j] = a
  <1> DEFINE S == searches[i].rows \cap resolves \cap searches[i].query
             all == Chosen(ByHandle, S)
             n == IF Len(all) < Limit THEN Len(all) ELSE Limit
  <1>1. ByHandle \in Seq(Actor) /\ Limit \in Nat \ {0}
    BY DirectoryAssumption
  <1>2. /\ all \in Seq(Actor)
        /\ \A j \in DOMAIN all : all[j] \in S
        /\ \A j \in DOMAIN ByHandle : ByHandle[j] \in S => \E k \in DOMAIN all : all[k] = ByHandle[j]
    <2> HIDE DEF S
    <2> QED
      BY <1>1, ChosenFacts
  <1>3. Answer(i) = SubSeq(all, 1, n)
    BY DEF Answer
  <1> HIDE DEF all, S
  <1>4. n \in Nat /\ n <= Len(all) /\ n <= Limit
    BY <1>1, <1>2
  <1>5. (Len(all) # 0 => n # 0) /\ Len(all) \in Nat /\ DOMAIN all = 1..Len(all)
    BY <1>1, <1>2
  <1> HIDE DEF n
  <1>6. SubSeq(all, 1, n) \in Seq(Actor) /\ Len(SubSeq(all, 1, n)) = n
        /\ \A j \in 1..n : SubSeq(all, 1, n)[j] = all[j]
    BY <1>2, <1>4
  <1>7. ASSUME NEW a \in Actor, searches[i].query = {a}, a \in searches[i].rows \cap resolves
        PROVE  \E j \in DOMAIN Answer(i) : Answer(i)[j] = a
    <2>1. S = {a}
      BY <1>7 DEF S
    <2>2. PICK j \in DOMAIN ByHandle : ByHandle[j] = a
      BY DirectoryAssumption
    <2>3. PICK k \in DOMAIN all : all[k] = a
      BY <1>2, <2>1, <2>2
    <2>4. n # 0 /\ 1 \in 1..n /\ 1 \in DOMAIN all
      BY <1>4, <1>5, <2>3
    <2>5. all[1] = a
      BY <1>2, <2>1, <2>4
    <2>6. 1 \in DOMAIN Answer(i) /\ Answer(i)[1] = a
      BY <1>3, <1>4, <1>6, <2>4, <2>5
    <2> QED
      BY <2>6
  <1> QED
    BY <1>3, <1>4, <1>6, <1>7

-----------------------------------------------------------------------------
(* The prompt. *)

\* The token a search is for.
TokenOf(i) == [query |-> searches[i].query, retiredOnly |-> searches[i].retiredOnly]

\* The search that counts is the one for the active token, and the open dropdown
\* waits for it.
PromptInv ==
    /\ DirectoryInv
    /\ PromptTypes
    /\ Len(results) <= Limit
    /\ \A i \in Slot : searches[i].stage # "none" => searches[i].query \in Query
    /\ wanted # 0 => /\ open /\ searching
                     /\ searches[wanted].stage # "none"
                     /\ active = TokenOf(wanted)
    /\ OffersWhatIsTyped

\* The prompt begins with a blank line and nothing to offer.
LEMMA PromptInitial == DirectoryInit /\ PromptInit => PromptInv
  <1> SUFFICES ASSUME DirectoryInit, PromptInit PROVE PromptInv
    OBVIOUS
  <1>1. DirectoryInv
    BY DirectoryInitial
  <1>2. \A i \in Slot : searches[i].stage = "none"
    BY DEF DirectoryInit, NoSearch
  <1>3. results \in Seq(Actor) /\ Len(results) = 0 /\ results = <<>>
    BY DEF PromptInit
  <1>4. Limit \in Nat /\ MaxSearch \in Nat
    BY DirectoryAssumption
  <1>5. PromptTypes
    <2>1. 0 \in 0..Limit /\ 0 \in 0..MaxSearch
      BY <1>4
    <2>2. selected \in 0..Limit /\ wanted \in 0..MaxSearch
      BY <2>1 DEF PromptInit
    <2> QED
      BY <1>3, <2>2 DEF PromptInit, PromptTypes, Line
  <1> QED
    BY <1>1, <1>2, <1>3, <1>4, <1>5 DEF PromptInit, PromptInv, OffersWhatIsTyped

\* The dropdown is closed: nothing counts and nothing is offered.
LEMMA Closes ==
    ASSUME PromptInv, ClosePicker, line' \in Line, closed' \in BOOLEAN,
           UNCHANGED <<actors, resolves, live, calls, retiredSince, searches>>
    PROVE  PromptInv'
  <1>1. Limit \in Nat /\ MaxSearch \in Nat
    BY DirectoryAssumption
  <1>2. results' \in Seq(Actor) /\ Len(results') = 0 /\ results' = <<>>
    BY DEF ClosePicker
  <1>3. PromptTypes'
    <2>1. 0 \in 0..Limit /\ 0 \in 0..MaxSearch
      BY <1>1
    <2>2. selected' \in 0..Limit /\ wanted' \in 0..MaxSearch
      BY <2>1 DEF ClosePicker
    <2> QED
      BY <1>2, <2>2 DEF ClosePicker, PromptTypes
  <1>4. DirectoryInv'
    BY DEF PromptInv, DirectoryInv, DirectoryTypes, RetirementKept
  <1>5. wanted' = 0 /\ ~open'
    BY DEF ClosePicker
  <1>6. \A i \in Slot : searches'[i].stage # "none" => searches'[i].query \in Query
    BY DEF PromptInv
  <1>7. OffersWhatIsTyped'
    BY <1>2, <1>5 DEF OffersWhatIsTyped
  <1> QED
    BY <1>1, <1>2, <1>3, <1>4, <1>5, <1>6, <1>7 DEF PromptInv

\* A search is sent in a slot that is free.
LEMMA SearchRuns ==
    ASSUME PromptInv, NEW l \in Token, ~closed, line' = l, RunSearch(l), closed' = closed,
           UNCHANGED <<actors, resolves, live, calls, retiredSince>>
    PROVE  PromptInv'
  <1> USE DEF PromptInv
  <1>1. PICK i \in Slot : /\ searches[i].stage = "none"
                          /\ searches' = [searches EXCEPT ![i] = Sent(l.query, l.retiredOnly)]
                          /\ wanted' = i /\ open' = TRUE /\ searching' = TRUE /\ active' = l
                          /\ UNCHANGED <<results, selected, answered>>
    BY DEF RunSearch
  <1>2. l.query \in Query /\ l.retiredOnly \in BOOLEAN
        /\ l = [query |-> l.query, retiredOnly |-> l.retiredOnly]
    BY DEF Token
  <1>3. Sent(l.query, l.retiredOnly) \in Search
    BY <1>2 DEF Sent, Search
  <1>4. DirectoryInv'
    BY <1>1, <1>3, SearchChanges
  <1>5. searches \in [Slot -> Search]
    BY DEF DirectoryInv, DirectoryTypes
  <1>6. searches'[i] = Sent(l.query, l.retiredOnly) /\ \A j \in Slot \ {i} : searches'[j] = searches[j]
    BY <1>1, <1>5
  <1>7. i \in 1..MaxSearch /\ i # 0 /\ i \in 0..MaxSearch
    BY <1>1, DirectoryAssumption DEF Slot
  <1>8. PromptTypes'
    BY <1>1, <1>7 DEF PromptTypes, Line
  <1>9. \A j \in Slot : searches'[j].stage # "none" => searches'[j].query \in Query
    BY <1>2, <1>6 DEF Sent
  <1>10. searches'[wanted'].stage # "none" /\ active' = TokenOf(wanted)'
    BY <1>1, <1>2, <1>6 DEF Sent, TokenOf
  <1>11. OffersWhatIsTyped'
    BY <1>1 DEF OffersWhatIsTyped
  <1> QED
    BY <1>1, <1>4, <1>8, <1>9, <1>10, <1>11

\* A key edits the line: the dropdown closes, searches again, or stays as it is.
LEMMA EditStep ==
    ASSUME PromptInv, NEW l \in Line, Edit(l), UNCHANGED <<actors, resolves, live, calls, retiredSince>>
    PROVE  PromptInv'
  <1>1. ~closed /\ line' = l /\ closed' = closed /\ closed \in BOOLEAN
    BY DEF Edit, PromptInv, PromptTypes
  <1>2. CASE l \notin Token /\ ClosePicker /\ UNCHANGED searches
    BY <1>1, <1>2, Closes
  <1>3. CASE l \in Token /\ RunSearch(l)
    BY <1>1, <1>3, SearchRuns
  <1>4. CASE /\ l \in Token /\ ~Stale(l) /\ open
             /\ UNCHANGED <<searches, open, searching, active, results, selected, wanted, answered>>
    <2>1. line = active /\ l = active
      BY <1>4 DEF Stale, PromptInv, OffersWhatIsTyped
    <2>2. line' = line
      BY <1>1, <2>1
    <2> QED
      BY <1>1, <1>4, <2>2
         DEF PromptInv, DirectoryInv, DirectoryTypes, RetirementKept, PromptTypes, OffersWhatIsTyped, TokenOf
  <1> QED
    BY <1>2, <1>3, <1>4 DEF Edit

\* An answer comes, the one that counts or one that was overtaken.
LEMMA ReceiveStep ==
    ASSUME PromptInv, NEW i \in Slot, NEW chosen \in Seq(Actor), Len(chosen) <= Limit,
           Receive(i, chosen), UNCHANGED <<actors, resolves, live, calls, retiredSince>>
    PROVE  PromptInv'
  <1> USE DEF PromptInv
  <1>1. searches[i].stage # "none" /\ searches' = [searches EXCEPT ![i] = NoSearch]
        /\ UNCHANGED <<line, open, active, closed>>
    BY DEF Receive
  <1>2. NoSearch \in Search
    BY DEF NoSearch, Search
  <1>3. DirectoryInv'
    BY <1>1, <1>2, SearchChanges
  <1>4. searches \in [Slot -> Search]
    BY DEF DirectoryInv, DirectoryTypes
  <1>5. searches'[i] = NoSearch /\ \A j \in Slot \ {i} : searches'[j] = searches[j]
    BY <1>1, <1>4
  <1>6. \A j \in Slot : searches'[j].stage # "none" => searches'[j].query \in Query
    BY <1>5 DEF NoSearch
  <1>7. wanted \in 0..MaxSearch /\ (wanted # 0 => wanted \in Slot) /\ i # 0
        /\ 0 \in 0..MaxSearch /\ 0 \in 0..Limit
    BY DirectoryAssumption DEF PromptTypes, Slot
  <1>8. CASE i = wanted
    <2>1. /\ searching' = FALSE /\ results' = chosen /\ selected' = 0 /\ wanted' = 0
          /\ answered' = TokenOf(i)
      BY <1>8 DEF Receive, Counts, TokenOf
    <2>2. open /\ active = TokenOf(i)
      BY <1>7, <1>8
    <2>3. searches[i].query \in Query /\ searches[i].retiredOnly \in BOOLEAN
      BY <1>1, <1>4 DEF Search
    <2>4. answered' \in Token
      BY <2>1, <2>3 DEF TokenOf, Token
    <2>5. PromptTypes'
      BY <1>1, <1>7, <2>1, <2>4 DEF PromptTypes
    <2>6. results' # <<>> => 0 < Len(results')
      BY <2>1
    <2>7. line = active
      BY <2>2 DEF OffersWhatIsTyped
    <2>8. OffersWhatIsTyped'
      BY <1>1, <2>1, <2>2, <2>6, <2>7 DEF OffersWhatIsTyped
    <2> QED
      BY <1>3, <1>6, <2>1, <2>5, <2>8
  <1>9. CASE i # wanted
    <2>1. UNCHANGED <<searching, results, selected, wanted, answered>>
      BY <1>9 DEF Receive, Counts
    <2>2. wanted # 0 => searches'[wanted] = searches[wanted]
      BY <1>5, <1>7, <1>9
    <2>3. wanted # 0 => searches'[wanted].stage # "none" /\ TokenOf(wanted)' = TokenOf(wanted)
      BY <2>1, <2>2 DEF TokenOf
    <2>4. PromptTypes' /\ OffersWhatIsTyped'
      BY <1>1, <2>1 DEF PromptTypes, OffersWhatIsTyped
    <2> QED
      BY <1>1, <1>3, <1>6, <2>1, <2>3, <2>4
  <1> QED
    BY <1>8, <1>9

\* Up or down: the selection stays inside the choices.
LEMMA MoveStep ==
    ASSUME PromptInv, NEW delta \in {-1, 1}, Move(delta),
           UNCHANGED <<actors, resolves, live, calls, retiredSince>>
    PROVE  PromptInv'
  <1> USE DEF PromptInv
  <1>1. Limit \in Nat
    BY DirectoryAssumption
  <1>2. /\ selected' = Turned(delta) /\ results # <<>> /\ open
        /\ UNCHANGED <<line, open, searching, active, results, wanted, closed, answered, searches>>
    BY DEF Move
  <1>3. Len(results) \in Nat /\ Len(results) > 0
    BY <1>2 DEF PromptTypes
  <1>4. selected + delta + Len(results) \in Int
    BY <1>1, <1>3 DEF PromptTypes
  <1>5. Turned(delta) \in 0..Len(results) - 1
    BY <1>3, <1>4 DEF Turned
  <1>6. selected' \in 0..Limit /\ selected' < Len(results)
    BY <1>1, <1>2, <1>3, <1>5
  <1>7. PromptTypes' /\ OffersWhatIsTyped'
    BY <1>2, <1>6 DEF PromptTypes, OffersWhatIsTyped
  <1> QED
    BY <1>2, <1>7 DEF DirectoryInv, DirectoryTypes, RetirementKept, TokenOf

\* Every step of the prompt keeps the invariant.
LEMMA PromptStepHolds ==
    ASSUME PromptInv, PromptStep, UNCHANGED <<actors, resolves, live, calls, retiredSince>>
    PROVE  PromptInv'
  <1>1. line \in Line /\ Plain \in Line /\ Blank \in Line /\ closed \in BOOLEAN
    BY DEF PromptInv, PromptTypes, Line
  <1>2. CASE \E l \in Line : Edit(l)
    BY <1>2, EditStep
  <1>3. CASE \E i \in Slot : ReceiveAnswer(i) \/ ReceiveError(i)
    <2>1. PICK i \in Slot : ReceiveAnswer(i) \/ ReceiveError(i)
      BY <1>3
    <2>2. Answer(i) \in Seq(Actor) /\ Len(Answer(i)) <= Limit
      BY AnswerIs DEF PromptInv
    <2>3. <<>> \in Seq(Actor) /\ Len(<<>>) <= Limit
      BY DirectoryAssumption
    <2> QED
      BY <2>1, <2>2, <2>3, ReceiveStep DEF ReceiveAnswer, ReceiveError
  <1>4. CASE \E delta \in {-1, 1} : Move(delta)
    BY <1>4, MoveStep
  <1>5. CASE Accept
    BY <1>1, <1>5, Closes DEF Accept
  <1>6. CASE Submit
    BY <1>1, <1>6, Closes DEF Submit
  <1>7. CASE Dismiss
    BY <1>1, <1>7, Closes DEF Dismiss
  <1>8. CASE Quit
    BY <1>1, <1>8, Closes DEF Quit
  <1> QED
    BY <1>2, <1>3, <1>4, <1>5, <1>6, <1>7, <1>8 DEF PromptStep

\* The directory moves on beside the prompt; every search stays what it was for.
LEMMA BesidePrompt ==
    ASSUME PromptInv, DirectoryInv', UNCHANGED promptVars,
           \A i \in Slot : /\ searches'[i].query = searches[i].query
                           /\ searches'[i].retiredOnly = searches[i].retiredOnly
                           /\ searches'[i].stage = "none" <=> searches[i].stage = "none"
    PROVE  PromptInv'
  <1> USE DEF PromptInv
  <1>1. PromptTypes' /\ OffersWhatIsTyped'
    BY DEF promptVars, PromptTypes, OffersWhatIsTyped
  <1>2. wanted # 0 => wanted \in Slot
    BY DirectoryAssumption DEF PromptTypes, Slot
  <1>3. UNCHANGED <<wanted, open, searching, active, results>>
    BY DEF promptVars
  <1>4. wanted # 0 => searches'[wanted].stage # "none" /\ TokenOf(wanted)' = TokenOf(wanted)
    BY <1>2, <1>3 DEF TokenOf
  <1> QED
    BY <1>1, <1>3, <1>4

\* So does every step of the prompt or of the directory beside it.
LEMMA PromptNextHolds ==
    PromptInv /\ [PromptNext]_<<directoryVars, promptVars>> => PromptInv'
  <1> SUFFICES ASSUME PromptInv, [PromptNext]_<<directoryVars, promptVars>> PROVE PromptInv'
    OBVIOUS
  <1>1. DirectoryInv
    BY DEF PromptInv
  <1>2. CASE PromptStep /\ UNCHANGED <<actors, resolves, live, calls, retiredSince>>
    BY <1>2, PromptStepHolds
  <1>3. CASE (\E i \in Slot : ReadRows(i)) /\ UNCHANGED promptVars
    <2>1. PICK i \in Slot : ReadRows(i)
      BY <1>3
    <2>2. searches[i].stage = "sent"
      BY <2>1 DEF ReadRows
    <2>3. \A j \in Slot : /\ searches'[j].query = searches[j].query
                          /\ searches'[j].retiredOnly = searches[j].retiredOnly
                          /\ searches'[j].stage = "none" <=> searches[j].stage = "none"
      BY <1>1, <2>1, <2>2, ReadIs
    <2> QED
      BY <1>1, <1>3, <2>1, <2>3, ReadRowsStep, BesidePrompt
  <1>4. CASE /\ \E subject \in Actor, retired \in BOOLEAN : SetRetired(Operator, subject, retired)
             /\ UNCHANGED promptVars
    <2>1. DirectoryInv'
      BY <1>1, <1>4, SetRetiredStep
    <2>2. searches' = searches
      BY <1>4 DEF SetRetired
    <2> QED
      BY <1>4, <2>1, <2>2, BesidePrompt
  <1>5. CASE UNCHANGED <<directoryVars, promptVars>>
    <2>1. searches' = searches /\ DirectoryInv'
      BY <1>1, <1>5 DEF directoryVars, DirectoryInv, DirectoryTypes, RetirementKept
    <2> QED
      BY <1>5, <2>1, BesidePrompt
  <1> QED
    BY <1>2, <1>3, <1>4, <1>5 DEF PromptNext

\* PromptInv is an invariant of the prompt.
THEOREM PromptInvariant == PromptSpec => []PromptInv
  BY PromptInitial, PromptNextHolds, PTL DEF PromptSpec

\* What is offered is always the answer for what is typed, one choice of it is
\* selected, and nothing is offered after a quit (picker.ts:78-80).
THEOREM PromptOffersWhatIsTyped == PromptSpec => []OffersWhatIsTyped
  <1>1. PromptInv => OffersWhatIsTyped
    BY DEF PromptInv
  <1> QED
    BY <1>1, PromptInvariant, PTL

-----------------------------------------------------------------------------
(* The picker. *)

\* What is known of the handle being checked, and of the searches for it.
Awaited ==
    /\ checking # NeverJoined <=> step \in {"listed", "retired"}
    /\ checking # NeverJoined =>
           /\ searches[1].stage # "none"
           /\ searches[1].query = {checking}
           /\ searches[1].retiredOnly = (step = "retired")

\* A handle under check that is not excused was live and swept all the time: a search
\* of the listed actors that has missed it saw it retired, and it has stayed retired.
Findable ==
    checking # NeverJoined /\ checking \notin excused =>
        /\ checking \in live \cap resolves
        /\ actors[checking].known /\ actors[checking].active
        /\ step = "listed" /\ searches[1].stage = "read" =>
               checking \in searches[1].rows \/ actors[checking].retiredAt # 0
        /\ step = "retired" =>
               /\ actors[checking].retiredAt # 0
               /\ searches[1].stage = "read" => checking \in searches[1].rows

\* Every handle found is to be checked, under check, live or excused.
Accounted ==
    step \notin {"discover", "over"} =>
        \A s \in found \cap HasJoined : HandleOf[s] \in unchecked \cup {checking} \cup liveFound \cup excused

\* What can be chosen when there is something to choose.
Offering ==
    /\ step # "over" => started = {}
    /\ step \in {"choose", "confirm"} => unchecked = {}
    /\ step = "choose" =>
           /\ asked.exact \cap found = {}
           /\ \A i \in DOMAIN screen : screen[i] \in found \cap HasJoined /\ ~Live(screen[i])
    /\ step = "confirm" => \E s \in Session : asked.exact \cap found = {s}

PickerInv ==
    /\ DirectoryInv
    /\ PickerTypes
    /\ Awaited
    /\ Findable
    /\ Accounted
    /\ Offering
    /\ AsksFirst
    /\ StartsWhatWasNamed

\* The picker begins before it has found anything.
LEMMA PickerInitial == DirectoryInit /\ PickerInit => PickerInv
  <1> SUFFICES ASSUME DirectoryInit, PickerInit PROVE PickerInv
    OBVIOUS
  <1>1. DirectoryInv
    BY DirectoryInitial
  <1>2. screen \in Seq(Session)
    BY DEF PickerInit
  <1>3. PickerTypes
    BY <1>2 DEF PickerInit, PickerTypes
  <1>4. step = "discover" /\ checking = NeverJoined /\ started = {}
    BY DEF PickerInit
  <1> QED
    BY <1>1, <1>3, <1>4 DEF PickerInv, Awaited, Findable, Accounted, Offering, AsksFirst, StartsWhatWasNamed

\* An excuse is kept, and a handle under check that has none can be found.
LEMMA ExcusesKept ==
    ASSUME PickerTypes, NoteExcuses
    PROVE  /\ excused \subseteq excused' /\ excused' \subseteq Actor
           /\ checking' \in Actor \ excused' =>
                  /\ checking' \in live' \cap resolves'
                  /\ actors'[checking'].known /\ actors'[checking'].active
                  /\ actors[checking'].retiredAt # 0 => actors'[checking'].retiredAt # 0
  BY DEF PickerTypes, NoteExcuses, Missable

\* A session that is found and not live has an excuse, once every handle was checked.
LEMMA NotLiveIsExcused ==
    ASSUME PickerInv, step \in {"check", "choose", "confirm"}, unchecked = {},
           NEW s \in found \cap HasJoined, ~Live(s)
    PROVE  HandleOf[s] \in excused
  <1>1. checking = NeverJoined
    BY DEF PickerInv, Awaited
  <1>2. HandleOf[s] # NeverJoined
    BY DEF HasJoined
  <1>3. HandleOf[s] \in unchecked \cup {checking} \cup liveFound \cup excused
    BY DEF PickerInv, Accounted
  <1> QED
    BY <1>1, <1>2, <1>3 DEF Live

\* What is listed: a sequence of the sessions asked for.
LEMMA OrderedIs ==
    ASSUME NEW S
    PROVE  Ordered(S) \in Seq(Session) /\ \A i \in DOMAIN Ordered(S) : Ordered(S)[i] \in S
  BY PickerAssumption, ChosenFacts DEF Ordered

\* No handle is under check before nor after the step, and no search is touched.
Settled ==
    /\ step \notin {"listed", "retired"}
    /\ step' \notin {"listed", "retired"}
    /\ UNCHANGED <<actors, resolves, live, searches, calls, retiredSince, asked, checking, liveFound>>
    /\ NoteExcuses

\* Such a step leaves the directory and the handles as they are.
LEMMA SettledFacts ==
    ASSUME PickerInv, Settled
    PROVE  /\ DirectoryInv' /\ Awaited' /\ Findable'
           /\ excused \subseteq excused' /\ excused' \subseteq Actor
           /\ checking' = NeverJoined
           /\ asked' \in Text /\ liveFound' \subseteq Actor
  <1>1. checking = NeverJoined /\ checking' = NeverJoined
    BY DEF Settled, PickerInv, Awaited
  <1>2. DirectoryInv'
    BY DEF PickerInv, DirectoryInv, DirectoryTypes, RetirementKept, Settled
  <1>3. Awaited' /\ Findable'
    BY <1>1 DEF Settled, Awaited, Findable
  <1>4. excused \subseteq excused' /\ excused' \subseteq Actor
    BY ExcusesKept DEF PickerInv, Settled
  <1> QED
    BY <1>1, <1>2, <1>3, <1>4 DEF PickerInv, PickerTypes, Settled

\* A step of the picker itself.
DirectoryStill == UNCHANGED <<actors, resolves, live, calls, retiredSince>> /\ NoteExcuses

\* The conversations are found: each of their handles is to be checked.
LEMMA DiscoverStep ==
    ASSUME PickerInv, NEW sessions \in SUBSET Session, Discover(sessions), DirectoryStill
    PROVE  PickerInv'
  <1>1. Settled
    BY DEF Settled, Discover, DirectoryStill
  <1>2. /\ DirectoryInv' /\ Awaited' /\ Findable' /\ excused' \subseteq Actor /\ checking' = NeverJoined
        /\ asked' \in Text /\ liveFound' \subseteq Actor
    BY <1>1, SettledFacts
  <1>3. /\ found' = sessions /\ unchecked' = {HandleOf[s] : s \in sessions \cap HasJoined}
        /\ step' = "check" /\ UNCHANGED <<screen, started, confirmed>> /\ step = "discover"
    BY DEF Discover
  <1>4. \A s \in HasJoined : HandleOf[s] \in Actor
    BY PickerAssumption DEF HasJoined
  <1>5. unchecked' \subseteq Actor
    BY <1>3, <1>4
  <1>6. PickerTypes'
    BY <1>2, <1>3, <1>5 DEF PickerInv, PickerTypes
  <1>7. started' = {}
    BY <1>3 DEF PickerInv, Offering
  <1>8. Accounted' /\ Offering' /\ AsksFirst' /\ StartsWhatWasNamed'
    BY <1>3, <1>7 DEF Accounted, Offering, AsksFirst, StartsWhatWasNamed
  <1> QED
    BY <1>2, <1>6, <1>8 DEF PickerInv

\* The first slot holds one search after another.
LEMMA FirstSlot ==
    ASSUME PickerInv, NEW w \in Search, searches' = [searches EXCEPT ![1] = w],
           UNCHANGED <<actors, resolves, live, calls, retiredSince>>
    PROVE  DirectoryInv' /\ searches'[1] = w /\ searches[1] \in Search /\ 1 \in Slot
  <1>1. 1 \in Slot
    BY DirectoryAssumption DEF Slot
  <1>2. DirectoryInv'
    BY <1>1, SearchChanges DEF PickerInv
  <1> QED
    BY <1>1, <1>2 DEF PickerInv, DirectoryInv, DirectoryTypes

\* The search for a handle.
LEMMA SentIs ==
    ASSUME NEW a \in Actor, NEW retiredOnly \in BOOLEAN
    PROVE  /\ Sent({a}, retiredOnly) \in Search
           /\ Sent({a}, retiredOnly).stage = "sent" /\ Sent({a}, retiredOnly).query = {a}
           /\ Sent({a}, retiredOnly).retiredOnly = retiredOnly
  BY PickerAssumption DEF Sent, Search

\* A free slot.
LEMMA NoSearchIs == NoSearch \in Search /\ NoSearch.stage = "none"
  BY DEF NoSearch, Search

\* A handle is under check: excused from the start, or live and swept.
LEMMA CheckStep ==
    ASSUME PickerInv, NEW a \in Actor, Check(a), DirectoryStill
    PROVE  PickerInv'
  <1>1. /\ step = "check" /\ a \in unchecked /\ unchecked' = unchecked \ {a} /\ checking' = a
        /\ searches' = [searches EXCEPT ![1] = Sent({a}, FALSE)] /\ step' = "listed"
        /\ UNCHANGED <<asked, found, liveFound, screen, started, confirmed>>
        /\ UNCHANGED <<actors, resolves, live, calls, retiredSince>>
    BY DEF Check, DirectoryStill
  <1>2. DirectoryInv' /\ searches'[1] = Sent({a}, FALSE)
    BY <1>1, SentIs, FirstSlot
  <1>3. a # NeverJoined /\ checking = NeverJoined
    BY <1>1, PickerAssumption DEF PickerInv, Awaited
  <1>4. excused \subseteq excused' /\ excused' \subseteq Actor
    BY ExcusesKept DEF PickerInv, DirectoryStill
  <1>5. PickerTypes'
    BY <1>1, <1>4 DEF PickerInv, PickerTypes
  <1>6. Awaited'
    BY <1>1, <1>2, <1>3, SentIs DEF Awaited
  <1>7. searches'[1].stage = "sent"
    BY <1>2, SentIs
  <1>8. checking' \notin excused' => /\ checking' \in live' \cap resolves'
                                     /\ actors'[checking'].known /\ actors'[checking'].active
    BY <1>1, ExcusesKept DEF PickerInv, DirectoryStill
  <1>9. Findable'
    BY <1>1, <1>7, <1>8 DEF Findable
  <1>10. Accounted'
    <2>1. \A s \in found \cap HasJoined : HandleOf[s] \in unchecked \cup {checking} \cup liveFound \cup excused
      BY <1>1 DEF PickerInv, Accounted
    <2>2. \A s \in found \cap HasJoined : HandleOf[s] # NeverJoined
      BY DEF HasJoined
    <2>3. \A s \in found \cap HasJoined : HandleOf[s] \in unchecked' \cup {checking'} \cup liveFound' \cup excused'
      BY <1>1, <1>3, <1>4, <2>1, <2>2
    <2> QED
      BY <1>1, <2>3 DEF Accounted
  <1>11. Offering' /\ AsksFirst' /\ StartsWhatWasNamed'
    BY <1>1 DEF PickerInv, Offering, AsksFirst, StartsWhatWasNamed
  <1> QED
    BY <1>2, <1>5, <1>6, <1>9, <1>10, <1>11 DEF PickerInv

\* The check of a handle is over: it is live, or it has an excuse.
LEMMA Checked ==
    ASSUME PickerInv, DirectoryStill, step \in {"listed", "retired"}, step' = "check",
           checking' = NeverJoined, searches' = [searches EXCEPT ![1] = NoSearch],
           liveFound' \subseteq Actor, liveFound \subseteq liveFound',
           checking \in liveFound' \cup excused,
           UNCHANGED <<asked, found, unchecked, screen, started, confirmed>>
    PROVE  PickerInv'
  <1>1. DirectoryInv'
    BY NoSearchIs, FirstSlot DEF DirectoryStill
  <1>2. excused \subseteq excused' /\ excused' \subseteq Actor
    BY ExcusesKept DEF PickerInv, DirectoryStill
  <1>3. PickerTypes'
    BY <1>2 DEF PickerInv, PickerTypes
  <1>4. Awaited' /\ Findable'
    BY DEF Awaited, Findable
  <1>5. \A s \in found \cap HasJoined : HandleOf[s] \in unchecked \cup {checking} \cup liveFound \cup excused
    BY DEF PickerInv, Accounted
  <1>6. Accounted'
    BY <1>2, <1>5 DEF Accounted
  <1>7. Offering' /\ AsksFirst' /\ StartsWhatWasNamed'
    BY DEF PickerInv, Offering, AsksFirst, StartsWhatWasNamed
  <1> QED
    BY <1>1, <1>3, <1>4, <1>6, <1>7 DEF PickerInv

\* A handle without an excuse is live when its answer is put together.
LEMMA NoteLiveIs ==
    ASSUME PickerInv, step \in {"listed", "retired"}, NoteLive
    PROVE  /\ liveFound' \subseteq Actor /\ liveFound \subseteq liveFound'
           /\ checking \in liveFound' \cup excused
  <1>1. checking \in Actor
    BY DEF PickerInv, PickerTypes, Awaited
  <1>2. checking \notin excused => checking \in live
    BY <1>1, PickerAssumption DEF PickerInv, Findable
  <1> QED
    BY <1>1, <1>2 DEF NoteLive, PickerInv, PickerTypes

\* The handle is listed.
LEMMA ListedStep ==
    ASSUME PickerInv, Listed, DirectoryStill
    PROVE  PickerInv'
  <1>1. /\ step = "listed" /\ step' = "check" /\ NoteLive /\ checking' = NeverJoined
        /\ searches' = [searches EXCEPT ![1] = NoSearch]
        /\ UNCHANGED <<asked, found, unchecked, screen, started, confirmed>>
    BY DEF Listed
  <1>2. /\ liveFound' \subseteq Actor /\ liveFound \subseteq liveFound'
        /\ checking \in liveFound' \cup excused
    BY <1>1, NoteLiveIs
  <1> QED
    BY <1>1, <1>2, Checked

\* An answer without the handle: no row was read for it, or it has an excuse.
LEMMA NotInAnswer ==
    ASSUME PickerInv, step \in {"listed", "retired"}, ~Has(Answer(1), checking), checking \notin excused
    PROVE  checking \notin searches[1].rows
  <1>1. checking \in Actor /\ checking # NeverJoined
    BY PickerAssumption DEF PickerInv, PickerTypes, Awaited
  <1>2. searches[1].query = {checking} /\ checking \in resolves
    BY <1>1 DEF PickerInv, Awaited, Findable
  <1>3. 1 \in Slot
    BY DirectoryAssumption DEF Slot
  <1> QED
    BY <1>1, <1>2, <1>3, AnswerIs DEF Has, PickerInv

\* It is not: without an excuse it is retired, and the retired ones are searched.
LEMMA NotListedStep ==
    ASSUME PickerInv, NotListed, DirectoryStill
    PROVE  PickerInv'
  <1>1. /\ step = "listed" /\ searches[1].stage = "read" /\ ~Has(Answer(1), checking)
        /\ searches' = [searches EXCEPT ![1] = Sent({checking}, TRUE)] /\ step' = "retired"
        /\ UNCHANGED <<asked, found, unchecked, checking, liveFound, screen, started, confirmed>>
        /\ UNCHANGED <<actors, resolves, live, calls, retiredSince>>
    BY DEF NotListed, SecondSearch, DirectoryStill
  <1>2. checking \in Actor /\ checking # NeverJoined
    BY <1>1, PickerAssumption DEF PickerInv, PickerTypes, Awaited
  <1>3. DirectoryInv' /\ searches'[1] = Sent({checking}, TRUE)
    BY <1>1, <1>2, SentIs, FirstSlot
  <1>4. excused \subseteq excused' /\ excused' \subseteq Actor
    BY ExcusesKept DEF PickerInv, DirectoryStill
  <1>5. PickerTypes'
    BY <1>1, <1>4 DEF PickerInv, PickerTypes
  <1>6. Awaited'
    BY <1>1, <1>2, <1>3, SentIs DEF Awaited
  <1>7. searches'[1].stage = "sent"
    BY <1>2, <1>3, SentIs
  <1>8. checking \notin excused => actors[checking].retiredAt # 0
    BY <1>1, <1>2, NotInAnswer DEF PickerInv, Findable
  <1>9. checking' \notin excused' => /\ checking' \in live' \cap resolves'
                                     /\ actors'[checking'].known /\ actors'[checking'].active
    BY <1>1, <1>2, ExcusesKept DEF PickerInv, DirectoryStill
  <1>10. Findable'
    BY <1>1, <1>4, <1>7, <1>8, <1>9 DEF Findable
  <1>11. Accounted' /\ Offering' /\ AsksFirst' /\ StartsWhatWasNamed'
    BY <1>1, <1>4 DEF PickerInv, Accounted, Offering, AsksFirst, StartsWhatWasNamed
  <1> QED
    BY <1>3, <1>5, <1>6, <1>10, <1>11 DEF PickerInv

\* The retired ones are searched: it is there, or has an excuse.
LEMMA RetiredStep ==
    ASSUME PickerInv, Retired, DirectoryStill
    PROVE  PickerInv'
  <1>1. /\ step = "retired" /\ searches[1].stage = "read" /\ step' = "check" /\ checking' = NeverJoined
        /\ searches' = [searches EXCEPT ![1] = NoSearch]
        /\ UNCHANGED <<asked, found, unchecked, screen, started, confirmed>>
    BY DEF Retired
  <1>2. CASE Has(Answer(1), checking)
    <2>1. NoteLive
      BY <1>2 DEF Retired
    <2>2. /\ liveFound' \subseteq Actor /\ liveFound \subseteq liveFound'
          /\ checking \in liveFound' \cup excused
      BY <1>1, <2>1, NoteLiveIs
    <2> QED
      BY <1>1, <2>2, Checked
  <1>3. CASE ~Has(Answer(1), checking)
    <2>1. liveFound' = liveFound
      BY <1>3 DEF Retired
    <2>2. checking # NeverJoined
      BY <1>1 DEF PickerInv, Awaited
    <2>3. checking \in excused
      BY <1>1, <1>3, <2>2, NotInAnswer DEF PickerInv, Findable
    <2>4. liveFound' \subseteq Actor /\ liveFound \subseteq liveFound'
      BY <2>1 DEF PickerInv, PickerTypes
    <2> QED
      BY <1>1, <2>3, <2>4, Checked
  <1> QED
    BY <1>2, <1>3

\* The AppView does not answer: the picker is over.
LEMMA SearchFailsStep ==
    ASSUME PickerInv, SearchFails, DirectoryStill
    PROVE  PickerInv'
  <1>1. /\ step \in {"listed", "retired"} /\ step' = "over" /\ checking' = NeverJoined
        /\ searches' = [searches EXCEPT ![1] = NoSearch]
        /\ UNCHANGED <<asked, found, unchecked, liveFound, screen, started, confirmed>>
    BY DEF SearchFails
  <1>2. DirectoryInv'
    BY <1>1, NoSearchIs, FirstSlot DEF DirectoryStill
  <1>3. excused' \subseteq Actor
    BY ExcusesKept DEF PickerInv, DirectoryStill
  <1>4. PickerTypes'
    BY <1>1, <1>3 DEF PickerInv, PickerTypes
  <1>5. started' = {}
    BY <1>1 DEF PickerInv, Offering
  <1>6. Awaited' /\ Findable' /\ Accounted' /\ Offering' /\ AsksFirst' /\ StartsWhatWasNamed'
    BY <1>1, <1>5 DEF Awaited, Findable, Accounted, Offering, AsksFirst, StartsWhatWasNamed
  <1> QED
    BY <1>2, <1>4, <1>6 DEF PickerInv

\* Every handle was checked: what is started has an excuse or the operator's yes.
LEMMA Decides ==
    ASSUME PickerInv, Settled, step' = "over", found' = found, unchecked' = unchecked,
           screen' \in Seq(Session), started' \subseteq Session, confirmed' \in BOOLEAN,
           \A s \in started' \cap HasJoined : confirmed' \/ HandleOf[s] \in excused,
           \A s \in started' :
               /\ started' = {s}
               /\ \/ asked.exact \cap found = {s}
                  \/ /\ asked.exact \cap found = {}
                     /\ s \in HasJoined
                     /\ \E i \in DOMAIN screen' : screen'[i] = s
    PROVE  PickerInv'
  <1>1. /\ DirectoryInv' /\ Awaited' /\ Findable'
        /\ excused \subseteq excused' /\ excused' \subseteq Actor
        /\ checking' = NeverJoined /\ asked' \in Text /\ liveFound' \subseteq Actor
    BY SettledFacts
  <1>2. PickerTypes'
    BY <1>1 DEF PickerInv, PickerTypes
  <1>3. Accounted' /\ Offering'
    BY DEF Accounted, Offering
  <1>4. AsksFirst'
    BY <1>1 DEF AsksFirst
  <1>5. asked' = asked
    BY DEF Settled
  <1>6. StartsWhatWasNamed'
    BY <1>5 DEF StartsWhatWasNamed
  <1> QED
    BY <1>1, <1>2, <1>3, <1>4, <1>6 DEF PickerInv

\* What the list is made of.
LEMMA ScreenIs == PickerInv => screen \in Seq(Session) /\ started \subseteq Session /\ confirmed \in BOOLEAN
  BY DEF PickerInv, PickerTypes

\* Several sessions match exactly.
LEMMA AmbiguousStep ==
    ASSUME PickerInv, Ambiguous, DirectoryStill
    PROVE  PickerInv'
  <1>1. /\ step = "check" /\ step' = "over"
        /\ UNCHANGED <<asked, found, unchecked, checking, liveFound, started, confirmed, searches>>
    BY DEF Ambiguous
  <1>2. screen' \in Seq(Session)
    BY OrderedIs DEF Ambiguous
  <1>3. started' = {}
    BY <1>1 DEF PickerInv, Offering
  <1>4. Settled
    BY <1>1 DEF Settled, DirectoryStill
  <1> QED
    BY <1>1, <1>2, <1>3, <1>4, Decides, ScreenIs

\* One matches exactly.
LEMMA ExactStep ==
    ASSUME PickerInv, NEW s \in Session, Exact(s), DirectoryStill
    PROVE  PickerInv'
  <1>1. /\ step = "check" /\ unchecked = {} /\ asked.exact \cap found = {s}
        /\ UNCHANGED <<asked, found, unchecked, checking, liveFound, screen, confirmed, searches>>
        /\ step' \in {"confirm", "over"}
    BY DEF Exact
  <1>2. Settled
    BY <1>1 DEF Settled, DirectoryStill
  <1>3. started = {}
    BY <1>1 DEF PickerInv, Offering
  <1>4. CASE Live(s)
    <2>1. step' = "confirm" /\ started' = started
      BY <1>4 DEF Exact
    <2>2. /\ DirectoryInv' /\ Awaited' /\ Findable'
          /\ excused \subseteq excused' /\ excused' \subseteq Actor /\ checking' = NeverJoined
          /\ asked' \in Text /\ liveFound' \subseteq Actor
      BY <1>2, SettledFacts
    <2>3. PickerTypes'
      BY <1>1, <2>1, <2>2 DEF PickerInv, PickerTypes
    <2>4. checking' = checking
      BY <1>1
    <2>5. Accounted'
      BY <1>1, <2>2, <2>4 DEF PickerInv, Accounted
    <2>6. Offering' /\ AsksFirst' /\ StartsWhatWasNamed'
      BY <1>1, <1>3, <2>1 DEF Offering, AsksFirst, StartsWhatWasNamed
    <2> QED
      BY <2>2, <2>3, <2>5, <2>6 DEF PickerInv
  <1>5. CASE ~Live(s)
    <2>1. step' = "over" /\ started' = {s}
      BY <1>3, <1>5 DEF Exact
    <2>2. s \in found
      BY <1>1
    <2>3. s \in HasJoined => HandleOf[s] \in excused
      BY <1>1, <1>5, <2>2, NotLiveIsExcused
    <2> QED
      BY <1>1, <1>2, <2>1, <2>3, Decides, ScreenIs
  <1> QED
    BY <1>4, <1>5

\* The list is shown, or shown again, narrowed.
LEMMA Offers ==
    ASSUME PickerInv, Settled, step \in {"check", "choose"}, step' = "choose", unchecked = {},
           asked.exact \cap found = {}, screen' \in Seq(Session),
           \A i \in DOMAIN screen' : screen'[i] \in found \cap HasJoined /\ ~Live(screen'[i]),
           UNCHANGED <<found, unchecked, started, confirmed>>
    PROVE  PickerInv'
  <1>1. /\ DirectoryInv' /\ Awaited' /\ Findable'
        /\ excused \subseteq excused' /\ excused' \subseteq Actor
        /\ checking' = NeverJoined /\ asked' \in Text /\ liveFound' \subseteq Actor
    BY SettledFacts
  <1>2. PickerTypes'
    BY <1>1 DEF PickerInv, PickerTypes
  <1>3. checking' = checking /\ liveFound' = liveFound /\ asked' = asked
    BY DEF Settled
  <1>4. Accounted'
    BY <1>1, <1>3 DEF PickerInv, Accounted
  <1>5. started' = {}
    BY DEF PickerInv, Offering
  <1>6. \A i \in DOMAIN screen' : HandleOf[screen'[i]] \notin liveFound'
    BY <1>3 DEF Live
  <1>7. Offering'
    BY <1>3, <1>5, <1>6 DEF Offering, Live
  <1>8. AsksFirst' /\ StartsWhatWasNamed'
    BY <1>5 DEF AsksFirst, StartsWhatWasNamed
  <1> QED
    BY <1>1, <1>2, <1>4, <1>7, <1>8 DEF PickerInv

\* None matches exactly.
LEMMA ListStep ==
    ASSUME PickerInv, List, DirectoryStill
    PROVE  PickerInv'
  <1>1. /\ step = "check" /\ unchecked = {} /\ asked.exact \cap found = {}
        /\ screen' = Ordered(Listable(found) \cap asked.like) /\ step' \in {"choose", "over"}
        /\ UNCHANGED <<asked, found, unchecked, checking, liveFound, started, confirmed, searches>>
    BY DEF List
  <1>2. Settled
    BY <1>1 DEF Settled, DirectoryStill
  <1>3. screen' \in Seq(Session) /\ \A i \in DOMAIN screen' : screen'[i] \in Listable(found) \cap asked.like
    BY <1>1, OrderedIs
  <1>4. \A i \in DOMAIN screen' : screen'[i] \in found \cap HasJoined /\ ~Live(screen'[i])
    BY <1>3 DEF Listable
  <1>5. started' = {}
    BY <1>1 DEF PickerInv, Offering
  <1>6. CASE step' = "choose"
    BY <1>1, <1>2, <1>3, <1>4, <1>6, Offers
  <1>7. CASE step' = "over"
    BY <1>1, <1>2, <1>3, <1>5, <1>7, Decides, ScreenIs
  <1> QED
    BY <1>1, <1>6, <1>7

\* The operator's yes or no.
LEMMA ConfirmStep ==
    ASSUME PickerInv, NEW yes \in BOOLEAN, Confirm(yes), DirectoryStill
    PROVE  PickerInv'
  <1>1. /\ step = "confirm" /\ step' = "over" /\ confirmed' = yes
        /\ started' = IF yes THEN asked.exact \cap found ELSE started
        /\ UNCHANGED <<asked, found, unchecked, checking, liveFound, screen, searches>>
    BY DEF Confirm
  <1>2. Settled
    BY <1>1 DEF Settled, DirectoryStill
  <1>3. started = {}
    BY <1>1 DEF PickerInv, Offering
  <1>4. PICK s \in Session : asked.exact \cap found = {s}
    BY <1>1 DEF PickerInv, Offering
  <1>5. started' \subseteq Session /\ (started' # {} => yes)
    BY <1>1, <1>3, <1>4
  <1>6. \A t \in started' : started' = {t} /\ asked.exact \cap found = {t}
    BY <1>1, <1>3, <1>4
  <1>7. \A t \in started' \cap HasJoined : confirmed' \/ HandleOf[t] \in excused
    BY <1>1, <1>5
  <1> QED
    BY <1>1, <1>2, <1>5, <1>6, <1>7, Decides, ScreenIs

\* A row of the list is started, and nothing else.
LEMMA StartsRow ==
    ASSUME PickerInv, DirectoryStill, step = "choose", step' = "over", NEW i \in DOMAIN screen,
           started' = started \cup {screen[i]},
           UNCHANGED <<asked, found, unchecked, checking, liveFound, screen, confirmed, searches>>
    PROVE  PickerInv'
  <1>1. Settled
    BY DEF Settled, DirectoryStill
  <1>2. started = {} /\ unchecked = {} /\ asked.exact \cap found = {}
        /\ screen[i] \in found \cap HasJoined /\ ~Live(screen[i])
    BY DEF PickerInv, Offering
  <1>3. HandleOf[screen[i]] \in excused
    BY <1>2, NotLiveIsExcused
  <1>4. started' = {screen[i]} /\ screen[i] \in Session
    BY <1>2 DEF HasJoined
  <1> QED
    BY <1>1, <1>2, <1>3, <1>4, Decides, ScreenIs

\* The list is left, and nothing started.
LEMMA Leaves ==
    ASSUME PickerInv, DirectoryStill, step \in {"choose", "confirm"}, step' = "over",
           UNCHANGED <<asked, found, unchecked, checking, liveFound, screen, started, confirmed, searches>>
    PROVE  PickerInv'
  <1>1. Settled
    BY DEF Settled, DirectoryStill
  <1>2. started' = {}
    BY DEF PickerInv, Offering
  <1> QED
    BY <1>1, <1>2, Decides, ScreenIs

\* A number selects a row of the list.
LEMMA NumberStep ==
    ASSUME PickerInv, NEW n, Number(n), DirectoryStill
    PROVE  PickerInv'
  <1>1. /\ step = "choose" /\ step' = "over"
        /\ UNCHANGED <<asked, found, unchecked, checking, liveFound, screen, confirmed, searches>>
        /\ started' = IF n \in DOMAIN screen THEN started \cup {screen[n]} ELSE started
    BY DEF Number, Offered
  <1> QED
    BY <1>1, StartsRow, Leaves

\* A text narrows the list.
LEMMA NarrowStep ==
    ASSUME PickerInv, NEW like, Narrow(like), DirectoryStill
    PROVE  PickerInv'
  <1> DEFINE narrowed == Chosen(screen, like)
  <1>1. /\ narrowed \in Seq(Session)
        /\ \A i \in DOMAIN narrowed : \E j \in DOMAIN screen : screen[j] = narrowed[i]
    BY ChosenFacts, ScreenIs
  <1>2. /\ step = "choose"
        /\ UNCHANGED <<asked, found, unchecked, checking, liveFound, confirmed, searches>>
        /\ \/ Len(narrowed) = 1 /\ started' = started \cup {narrowed[1]} /\ step' = "over" /\ screen' = screen
           \/ screen' = narrowed /\ UNCHANGED <<started, step>>
           \/ step' = "over" /\ UNCHANGED <<started, screen>>
    BY DEF Narrow, Offered
  <1> HIDE DEF narrowed
  <1>3. CASE Len(narrowed) = 1 /\ started' = started \cup {narrowed[1]} /\ step' = "over" /\ screen' = screen
    <2>1. 1 \in DOMAIN narrowed
      BY <1>1, <1>3
    <2>2. PICK j \in DOMAIN screen : screen[j] = narrowed[1]
      BY <1>1, <2>1
    <2> QED
      BY <1>2, <1>3, <2>2, StartsRow
  <1>4. CASE screen' = narrowed /\ UNCHANGED <<started, step>>
    <2>1. Settled
      BY <1>2, <1>4 DEF Settled, DirectoryStill
    <2>2. unchecked = {} /\ asked.exact \cap found = {}
          /\ \A j \in DOMAIN screen : screen[j] \in found \cap HasJoined /\ ~Live(screen[j])
      BY <1>2 DEF PickerInv, Offering
    <2>3. \A i \in DOMAIN screen' : screen'[i] \in found \cap HasJoined /\ ~Live(screen'[i])
      BY <1>1, <1>4, <2>2
    <2> QED
      BY <1>1, <1>2, <1>4, <2>1, <2>2, <2>3, Offers
  <1>5. CASE step' = "over" /\ UNCHANGED <<started, screen>>
    BY <1>2, <1>5, Leaves
  <1> QED
    BY <1>2, <1>3, <1>4, <1>5

\* Every step of the picker keeps the invariant.
LEMMA PickerStepHolds ==
    ASSUME PickerInv, PickerStep, DirectoryStill
    PROVE  PickerInv'
  <1>1. CASE Cancel
    BY <1>1, Leaves DEF Cancel
  <1>2. CASE \E n \in 1..Len(Recent) + 1 : Number(n)
    BY <1>2, NumberStep
  <1>3. CASE \E like \in SUBSET HasJoined : Narrow(like)
    BY <1>3, NarrowStep
  <1>4. CASE \E yes \in BOOLEAN : Confirm(yes)
    BY <1>4, ConfirmStep
  <1>5. CASE \E s \in Session : Exact(s)
    BY <1>5, ExactStep
  <1>6. CASE \E sessions \in SUBSET Session : Discover(sessions)
    BY <1>6, DiscoverStep
  <1>7. CASE \E a \in Actor : Check(a)
    BY <1>7, CheckStep
  <1>8. CASE Listed \/ NotListed \/ Retired \/ SearchFails \/ Ambiguous \/ List
    BY <1>8, ListedStep, NotListedStep, RetiredStep, SearchFailsStep, AmbiguousStep, ListStep
  <1> QED
    BY <1>1, <1>2, <1>3, <1>4, <1>5, <1>6, <1>7, <1>8 DEF PickerStep

\* The directory moves on beside the picker, and a search may be read.
LEMMA BesidePicker ==
    ASSUME PickerInv, DirectoryInv', NoteExcuses,
           UNCHANGED <<step, asked, found, unchecked, checking, liveFound, screen, started, confirmed>>,
           \/ searches' = searches
           \/ \E i \in Slot : ReadRows(i)
    PROVE  PickerInv'
  <1>1. excused \subseteq excused' /\ excused' \subseteq Actor
    BY ExcusesKept DEF PickerInv
  <1>2. PickerTypes'
    BY <1>1 DEF PickerInv, PickerTypes
  <1>3. 1 \in Slot /\ searches \in [Slot -> Search]
    BY DirectoryAssumption DEF Slot, PickerInv, DirectoryInv, DirectoryTypes
  <1>4. \/ searches'[1] = searches[1]
        \/ /\ searches[1].stage = "sent" /\ searches'[1].stage = "read"
           /\ searches'[1].rows = Rows(searches[1].retiredOnly)
           /\ searches'[1].query = searches[1].query /\ searches'[1].retiredOnly = searches[1].retiredOnly
           /\ UNCHANGED <<actors, resolves, live>>
    <2>1. CASE \E i \in Slot : ReadRows(i)
      <3>1. PICK i \in Slot : ReadRows(i)
        BY <2>1
      <3>2. searches[i].stage = "sent"
        BY <3>1 DEF ReadRows
      <3> QED
        BY <1>3, <3>1, <3>2, ReadIs DEF PickerInv
    <2> QED
      BY <2>1
  <1>5. Awaited'
    BY <1>4 DEF PickerInv, Awaited
  <1>6. ASSUME checking # NeverJoined, checking \notin excused'
        PROVE  /\ checking \in live' \cap resolves'
               /\ actors'[checking].known /\ actors'[checking].active
               /\ actors[checking].retiredAt # 0 => actors'[checking].retiredAt # 0
               /\ checking \notin excused
               /\ checking \in Actor
    BY <1>1, <1>6, ExcusesKept DEF PickerInv, PickerTypes
  <1>7. Findable'
    <2> SUFFICES ASSUME checking # NeverJoined, checking \notin excused'
                 PROVE  /\ step = "listed" /\ searches'[1].stage = "read" =>
                               checking \in searches'[1].rows \/ actors'[checking].retiredAt # 0
                        /\ step = "retired" =>
                               /\ actors'[checking].retiredAt # 0
                               /\ searches'[1].stage = "read" => checking \in searches'[1].rows
      BY <1>6 DEF Findable
    <2>1. CASE searches'[1] = searches[1]
      BY <1>6, <2>1 DEF PickerInv, Findable
    <2>2. CASE /\ searches'[1].rows = Rows(searches[1].retiredOnly)
               /\ UNCHANGED <<actors, resolves, live>>
      <3>1. searches[1].retiredOnly = (step = "retired")
        BY DEF PickerInv, Awaited
      <3>2. actors[checking].known /\ actors[checking].active /\ checking \in Actor
        BY <1>6, <2>2
      <3>3. step = "retired" => actors[checking].retiredAt # 0
        BY <1>6 DEF PickerInv, Findable
      <3>4. CASE step = "retired"
        <4>1. Rows(searches[1].retiredOnly) = Rows(TRUE)
          BY <3>1, <3>4
        <4> QED
          BY <2>2, <3>2, <3>3, <3>4, <4>1 DEF Rows
      <3>5. CASE step # "retired"
        <4>1. Rows(searches[1].retiredOnly) = Rows(FALSE)
          BY <3>1, <3>5
        <4>2. actors[checking].retiredAt = 0 => checking \in Rows(FALSE)
          BY <3>2 DEF Rows
        <4> QED
          BY <2>2, <3>5, <4>1, <4>2
      <3> QED
        BY <3>4, <3>5
    <2> QED
      BY <1>4, <2>1, <2>2
  <1>8. Accounted'
    BY <1>1 DEF PickerInv, Accounted
  <1>9. Offering' /\ AsksFirst' /\ StartsWhatWasNamed'
    BY <1>1 DEF PickerInv, Offering, Live, AsksFirst, StartsWhatWasNamed
  <1> QED
    BY <1>2, <1>5, <1>7, <1>8, <1>9 DEF PickerInv

\* What happens in the directory beside the picker.
LEMMA ElsewhereStep ==
    ASSUME DirectoryInv, Elsewhere
    PROVE  DirectoryInv' /\ (searches' = searches \/ \E i \in Slot : ReadRows(i))
  <1>1. \A s \in HasJoined : HandleOf[s] \in Actor
    BY PickerAssumption DEF HasJoined
  <1>2. CASE \E i \in Slot : ReadRows(i)
    BY <1>2, ReadRowsStep
  <1>3. CASE \E a \in {HandleOf[s] : s \in HasJoined} : IndexRecord(a)
    BY <1>1, <1>3, IndexRecordStep DEF IndexRecord
  <1>4. CASE \E a \in {HandleOf[s] : s \in HasJoined} : IdentityChanges(a) \/ LiveChanges(a)
    BY <1>1, <1>4, IdentityChangesStep DEF IdentityChanges, LiveChanges
  <1>5. CASE \E a \in {HandleOf[s] : s \in HasJoined}, status \in BOOLEAN : IndexAccount(a, status)
    BY <1>1, <1>5, IndexAccountStep DEF IndexAccount
  <1>6. CASE \E a \in {HandleOf[s] : s \in HasJoined}, viewer \in Actor, retired \in BOOLEAN :
                 SetRetired(viewer, a, retired)
    BY <1>1, <1>6, SetRetiredStep DEF SetRetired
  <1> QED
    BY <1>2, <1>3, <1>4, <1>5, <1>6 DEF Elsewhere

\* Every step of the picker, or of the directory beside it, keeps the invariant.
LEMMA PickerNextHolds ==
    PickerInv /\ [PickerNext]_<<directoryVars, pickerVars>> => PickerInv'
  <1> SUFFICES ASSUME PickerInv, [PickerNext]_<<directoryVars, pickerVars>> PROVE PickerInv'
    OBVIOUS
  <1>1. DirectoryInv
    BY DEF PickerInv
  <1>2. CASE PickerStep /\ UNCHANGED <<actors, resolves, live, calls, retiredSince>> /\ NoteExcuses
    BY <1>2, PickerStepHolds DEF DirectoryStill
  <1>3. CASE /\ Elsewhere /\ NoteExcuses
             /\ UNCHANGED <<step, asked, found, unchecked, checking, liveFound, screen, started, confirmed>>
    BY <1>1, <1>3, ElsewhereStep, BesidePicker
  <1>4. CASE UNCHANGED <<directoryVars, pickerVars>>
    BY <1>4 DEF directoryVars, pickerVars, PickerInv, DirectoryInv, DirectoryTypes, RetirementKept, PickerTypes,
                Awaited, Findable, Accounted, Offering, Live, AsksFirst, StartsWhatWasNamed
  <1> QED
    BY <1>2, <1>3, <1>4 DEF PickerNext

\* PickerInv is an invariant of the picker.
THEOREM PickerInvariant == PickerSpec => []PickerInv
  BY PickerInitial, PickerNextHolds, PTL DEF PickerSpec

\* No session whose handle was live all the time it was checked is started without
\* the operator's yes (sessionPicker.ts:222-225).
THEOREM PickerAsksFirst == PickerSpec => []AsksFirst
  <1>1. PickerInv => AsksFirst
    BY DEF PickerInv
  <1> QED
    BY <1>1, PickerInvariant, PTL

\* One session is started at most, and it is the one that was named, exactly or on
\* the last list (sessionPicker.ts:403-404).
THEOREM PickerStartsWhatWasNamed == PickerSpec => []StartsWhatWasNamed
  <1>1. PickerInv => StartsWhatWasNamed
    BY DEF PickerInv
  <1> QED
    BY <1>1, PickerInvariant, PTL

-----------------------------------------------------------------------------
(* Retirement, whoever searches meanwhile. *)

\* A retired actor stays retired since the same call until it is listed again: no
\* event that is indexed, or indexed again, and no second retirement changes that
\* (setRetired.ts:30-31).
THEOREM RetirementStands ==
    /\ PromptSpec => []RetirementKept
    /\ PickerSpec => []RetirementKept
  <1>1. PromptInv => RetirementKept
    BY DEF PromptInv, DirectoryInv
  <1>2. PickerInv => RetirementKept
    BY DEF PickerInv, DirectoryInv
  <1>3. PromptSpec => []RetirementKept
    BY <1>1, PromptInvariant, PTL
  <1>4. PickerSpec => []RetirementKept
    BY <1>2, PickerInvariant, PTL
  <1> QED
    BY <1>3, <1>4

-----------------------------------------------------------------------------
(* Profile records. *)

\* What the AppView shows once it has caught up, what the repository holds, and what
\* was saved are the same; a call that has read the record has what was saved of the
\* fields it does not set; two calls under way spoil their fields.
ProfileInv ==
    /\ ProfileTypes
    /\ repo = IF log = <<>> THEN NoProfile ELSE log[Len(log)]
    /\ handled = Len(log) => profiles = repo
    /\ \A f \in Field \ overlapped : repo[f] = saved[f]
    /\ \A e \in ProfileEdit : edits[e].at \in {"upload", "put"} =>
           \A f \in Field \ (overlapped \cup edits[e].sets) : edits[e].base[f] = saved[f]
    /\ \A d, e \in ProfileEdit : d # e /\ UnderWay(d) /\ UnderWay(e) =>
           edits[d].sets \cup edits[e].sets \subseteq overlapped

\* No record, as a record.
LEMMA NoProfileIs == NoProfile \in Record
  BY DEF NoProfile, Record

\* There is no record at first.
LEMMA ProfileInitial == ProfileInit => ProfileInv
  <1> SUFFICES ASSUME ProfileInit PROVE ProfileInv
    OBVIOUS
  <1>1. NoProfile \in Record
    BY NoProfileIs
  <1>2. \A e \in ProfileEdit : edits[e].at = "idle"
    BY DEF ProfileInit
  <1>3. ProfileTypes
    <2>1. edits \in [ProfileEdit -> EditCall]
      BY <1>1 DEF ProfileInit, EditCall
    <2>2. log \in Seq(Record) /\ Len(log) = 0
      BY DEF ProfileInit
    <2>3. replays \in 0..MaxReplay
      BY ProfileAssumption DEF ProfileInit
    <2> QED
      <3>1. handled \in 0..Len(log)
        BY <2>2 DEF ProfileInit
      <3> QED
        BY <1>1, <2>1, <2>2, <2>3, <3>1 DEF ProfileInit, ProfileTypes
  <1> QED
    BY <1>2, <1>3 DEF ProfileInit, ProfileInv, UnderWay

\* The calls are of the type they have.
LEMMA EditKept ==
    ASSUME edits \in [ProfileEdit -> EditCall], NEW e \in ProfileEdit, NEW c \in EditCall,
           edits' = [edits EXCEPT ![e] = c]
    PROVE  /\ edits' \in [ProfileEdit -> EditCall]
           /\ edits'[e] = c
           /\ \A d \in ProfileEdit \ {e} : edits'[d] = edits[d]
  OBVIOUS

\* A call begins: what it sets overlaps with the calls under way.
LEMMA CallEditStep ==
    ASSUME ProfileInv, NEW e \in ProfileEdit, NEW fields \in SUBSET Field, NEW empty \in SUBSET Field,
           CallEdit(e, fields, empty)
    PROVE  ProfileInv'
  <1> USE DEF ProfileInv
  <1>1. /\ edits' \in [ProfileEdit -> EditCall]
        /\ edits'[e].at = "read" /\ edits'[e].sets = fields
        /\ \A d \in ProfileEdit \ {e} : edits'[d] = edits[d]
    <2> DEFINE c == [edits[e] EXCEPT !.at = "read", !.sets = fields, !.empty = empty]
    <2>1. edits[e] \in EditCall /\ edits \in [ProfileEdit -> EditCall]
      BY DEF ProfileTypes
    <2>2. c \in EditCall /\ c.at = "read" /\ c.sets = fields
      BY <2>1 DEF EditCall
    <2>3. edits' = [edits EXCEPT ![e] = c]
      BY DEF CallEdit
    <2> HIDE DEF c
    <2> QED
      BY <2>1, <2>2, <2>3, EditKept
  <1>2. overlapped \subseteq overlapped' /\ overlapped' \subseteq Field
    BY DEF CallEdit, ProfileTypes, EditCall
  <1>3. \A d \in ProfileEdit \ {e} : UnderWay(d) => edits[d].sets \cup fields \subseteq overlapped'
    BY DEF CallEdit
  <1>4. \A d \in ProfileEdit \ {e} : UnderWay(d)' <=> UnderWay(d)
    BY <1>1 DEF UnderWay
  <1>5. ProfileTypes'
    BY <1>1, <1>2 DEF ProfileTypes, CallEdit
  <1>6. \A d \in ProfileEdit : edits'[d].at \in {"upload", "put"} =>
            \A f \in Field \ (overlapped' \cup edits'[d].sets) : edits'[d].base[f] = saved[f]
    BY <1>1, <1>2
  <1>7. \A c, d \in ProfileEdit : c # d /\ UnderWay(c)' /\ UnderWay(d)' =>
            edits'[c].sets \cup edits'[d].sets \subseteq overlapped'
    BY <1>1, <1>2, <1>3, <1>4
  <1>8. UNCHANGED <<repo, log, handled, profiles, saved>>
    BY DEF CallEdit
  <1> QED
    BY <1>2, <1>5, <1>6, <1>7, <1>8 DEF NoProfile

\* A call that waits, goes on or ends: the repository is as it was, and what the call
\* has read is what was saved.
LEMMA EditGoesOn ==
    ASSUME ProfileInv, NEW e \in ProfileEdit, UnderWay(e), NEW c \in EditCall,
           edits' = [edits EXCEPT ![e] = c], c.sets = edits[e].sets,
           c.at \in {"upload", "put"} => \A f \in Field \ (overlapped \cup c.sets) : c.base[f] = saved[f],
           UNCHANGED <<repo, log, handled, profiles, replays, saved, overlapped>>
    PROVE  ProfileInv'
  <1> USE DEF ProfileInv
  <1>1. /\ edits' \in [ProfileEdit -> EditCall]
        /\ edits'[e] = c
        /\ \A d \in ProfileEdit \ {e} : edits'[d] = edits[d]
    BY EditKept DEF ProfileTypes
  <1>2. \A d \in ProfileEdit : edits'[d].sets = edits[d].sets /\ (UnderWay(d)' => UnderWay(d))
    BY <1>1 DEF UnderWay
  <1>3. ProfileTypes'
    BY <1>1 DEF ProfileTypes
  <1>4. \A d \in ProfileEdit : edits'[d].at \in {"upload", "put"} =>
            \A f \in Field \ (overlapped \cup edits'[d].sets) : edits'[d].base[f] = saved[f]
    BY <1>1
  <1>5. \A a, d \in ProfileEdit : a # d /\ UnderWay(a)' /\ UnderWay(d)' =>
            edits'[a].sets \cup edits'[d].sets \subseteq overlapped
    BY <1>2
  <1> QED
    BY <1>3, <1>4, <1>5 DEF NoProfile

\* The record is read: what is in it was saved.
LEMMA FetchStep ==
    ASSUME ProfileInv, NEW e \in ProfileEdit, Fetch(e)
    PROVE  ProfileInv'
  <1> DEFINE c == [edits[e] EXCEPT !.base = repo, !.at = IF Avatar \in edits[e].sets THEN "upload" ELSE "put"]
  <1>1. edits[e] \in EditCall /\ repo \in Record
    BY DEF ProfileInv, ProfileTypes
  <1>2. c \in EditCall /\ c.sets = edits[e].sets /\ c.base = repo
    BY <1>1 DEF EditCall
  <1>3. edits' = [edits EXCEPT ![e] = c]
    BY DEF Fetch
  <1>4. \A f \in Field \ overlapped : repo[f] = saved[f]
    BY DEF ProfileInv
  <1>5. UnderWay(e)
    BY DEF Fetch, UnderWay
  <1>6. UNCHANGED <<repo, log, handled, profiles, replays, saved, overlapped>>
    BY DEF Fetch
  <1> HIDE DEF c
  <1> QED
    BY <1>2, <1>3, <1>4, <1>5, <1>6, EditGoesOn

\* The avatar is uploaded.
LEMMA UploadStep ==
    ASSUME ProfileInv, NEW e \in ProfileEdit, Upload(e)
    PROVE  ProfileInv'
  <1> DEFINE c == [edits[e] EXCEPT !.at = "put"]
  <1>1. edits[e] \in EditCall
    BY DEF ProfileInv, ProfileTypes
  <1>2. c \in EditCall /\ c.sets = edits[e].sets /\ c.base = edits[e].base
    BY <1>1 DEF EditCall
  <1>3. edits' = [edits EXCEPT ![e] = c]
    BY DEF Upload
  <1>4. \A f \in Field \ (overlapped \cup edits[e].sets) : edits[e].base[f] = saved[f]
    BY DEF ProfileInv, Upload
  <1>5. UnderWay(e)
    BY DEF Upload, UnderWay
  <1>6. UNCHANGED <<repo, log, handled, profiles, replays, saved, overlapped>>
    BY DEF Upload
  <1> HIDE DEF c
  <1> QED
    BY <1>2, <1>3, <1>4, <1>5, <1>6, EditGoesOn

\* A call runs again after a login.
LEMMA AgainStep ==
    ASSUME ProfileInv, NEW e \in ProfileEdit, Again(e)
    PROVE  ProfileInv'
  <1> DEFINE c == [edits[e] EXCEPT !.at = "read", !.again = TRUE]
  <1>1. edits[e] \in EditCall
    BY DEF ProfileInv, ProfileTypes
  <1>2. c \in EditCall /\ c.sets = edits[e].sets /\ c.at = "read"
    BY <1>1 DEF EditCall
  <1>3. edits' = [edits EXCEPT ![e] = c]
    BY DEF Again
  <1>4. UnderWay(e) /\ UNCHANGED <<repo, log, handled, profiles, replays, saved, overlapped>>
    BY DEF Again
  <1> HIDE DEF c
  <1> QED
    BY <1>2, <1>3, <1>4, EditGoesOn

\* A call ends with an error.
LEMMA FailsStep ==
    ASSUME ProfileInv, NEW e \in ProfileEdit, Fails(e)
    PROVE  ProfileInv'
  <1> DEFINE c == [edits[e] EXCEPT !.at = "over"]
  <1>1. edits[e] \in EditCall
    BY DEF ProfileInv, ProfileTypes
  <1>2. c \in EditCall /\ c.sets = edits[e].sets /\ c.at = "over"
    BY <1>1 DEF EditCall
  <1>3. edits' = [edits EXCEPT ![e] = c]
    BY DEF Fails
  <1>4. UnderWay(e) /\ UNCHANGED <<repo, log, handled, profiles, replays, saved, overlapped>>
    BY DEF Fails
  <1> HIDE DEF c
  <1> QED
    BY <1>2, <1>3, <1>4, EditGoesOn

\* A version more in the log: it is the last one, and it is not handled yet.
LEMMA LogGrows ==
    ASSUME log \in Seq(Record), handled \in 0..Len(log), NEW r \in Record, log' = Append(log, r),
           handled' = handled
    PROVE  /\ log' \in Seq(Record) /\ log' # <<>> /\ log'[Len(log')] = r
           /\ handled' \in 0..Len(log') /\ handled' # Len(log')
  OBVIOUS

\* A call puts the record: fields it does not set are as they were saved.
LEMMA PutStep ==
    ASSUME ProfileInv, NEW e \in ProfileEdit, Put(e)
    PROVE  ProfileInv'
  <1> USE DEF ProfileInv
  <1> DEFINE c == [edits[e] EXCEPT !.at = "over"]
  <1>1. edits[e] \in EditCall /\ repo \in Record /\ saved \in Record
    BY DEF ProfileTypes
  <1>2. c \in EditCall /\ c.at = "over"
    BY <1>1 DEF EditCall
  <1>3. edits' = [edits EXCEPT ![e] = c]
    BY DEF Put
  <1> HIDE DEF c
  <1>4. /\ edits' \in [ProfileEdit -> EditCall]
        /\ edits'[e].at = "over"
        /\ \A d \in ProfileEdit \ {e} : edits'[d] = edits[d]
    BY <1>2, <1>3, EditKept DEF ProfileTypes
  <1>5. \A f \in Field : Given(e, f) \in ProfileEdit \cup {Empty, Unset}
    BY DEF Given
  <1>6. repo' \in Record /\ saved' \in Record
    <2>1. \A f \in Field : edits[e].base[f] \in ProfileEdit \cup {Empty, Unset} /\ saved[f] \in ProfileEdit \cup {Empty, Unset}
      BY <1>1 DEF EditCall, Record
    <2> QED
      BY <1>5, <2>1 DEF Put, MergedRecord, Record
  <1>7. /\ log' \in Seq(Record) /\ log' # <<>> /\ log'[Len(log')] = repo'
        /\ handled' \in 0..Len(log') /\ handled' # Len(log')
    BY <1>6, LogGrows DEF Put, ProfileTypes
  <1>8. ProfileTypes'
    BY <1>4, <1>6, <1>7 DEF ProfileTypes, Put
  <1>9. /\ \A f \in edits[e].sets \cap Field : repo'[f] = Given(e, f) /\ saved'[f] = Given(e, f)
        /\ \A f \in Field \ edits[e].sets : repo'[f] = edits[e].base[f] /\ saved'[f] = saved[f]
    BY DEF Put, MergedRecord
  <1>10. UnderWay(e) /\ overlapped' = overlapped
    BY DEF Put, UnderWay
  <1>11. \A f \in Field \ overlapped' : repo'[f] = saved'[f]
    BY <1>9, <1>10 DEF Put
  <1>12. \A d \in ProfileEdit : UnderWay(d)' => d # e /\ UnderWay(d) /\ edits[d].sets \cup edits[e].sets \subseteq overlapped
    BY <1>4, <1>10 DEF UnderWay
  <1>13. ASSUME NEW d \in ProfileEdit, edits'[d].at \in {"upload", "put"}, NEW f \in Field \ (overlapped' \cup edits'[d].sets)
         PROVE  edits'[d].base[f] = saved'[f]
    <2>1. UnderWay(d)'
      BY <1>13 DEF UnderWay
    <2>2. d # e /\ f \notin edits[e].sets /\ f \notin overlapped /\ edits'[d] = edits[d]
      BY <1>4, <1>10, <1>12, <1>13, <2>1
    <2> QED
      BY <1>9, <1>13, <2>2
  <1>14. \A a, d \in ProfileEdit : a # d /\ UnderWay(a)' /\ UnderWay(d)' =>
             edits'[a].sets \cup edits'[d].sets \subseteq overlapped'
    BY <1>4, <1>10, <1>12
  <1> QED
    BY <1>7, <1>8, <1>11, <1>13, <1>14

\* The record is deleted by another client.
LEMMA WithdrawStep ==
    ASSUME ProfileInv, Withdraw
    PROVE  ProfileInv'
  <1> USE DEF ProfileInv
  <1>1. /\ log' \in Seq(Record) /\ log' # <<>> /\ log'[Len(log')] = repo'
        /\ handled' \in 0..Len(log') /\ handled' # Len(log')
    BY NoProfileIs, LogGrows DEF Withdraw, ProfileTypes
  <1>2. edits' = edits /\ repo' = NoProfile /\ saved' = NoProfile /\ overlapped' \subseteq Field
        /\ overlapped \subseteq overlapped'
    BY DEF Withdraw, ProfileTypes
  <1>3. ProfileTypes'
    BY <1>1, <1>2, NoProfileIs DEF ProfileTypes, Withdraw
  <1>4. \A e \in ProfileEdit : edits[e].at \in {"upload", "put"} => overlapped' = Field
    BY DEF Withdraw, UnderWay
  <1> QED
    BY <1>1, <1>2, <1>3, <1>4 DEF UnderWay

\* The AppView indexes the next version.
LEMMA IndexProfileStep ==
    ASSUME ProfileInv, IndexProfile
    PROVE  ProfileInv'
  <1> USE DEF ProfileInv
  <1>1. handled + 1 \in 1..Len(log) /\ log # <<>>
    BY DEF IndexProfile, ProfileTypes
  <1>2. handled' = handled + 1 /\ profiles' = log[handled + 1]
    BY DEF IndexProfile
  <1>3. log[handled + 1] \in Record
    BY <1>1 DEF ProfileTypes
  <1>4. UNCHANGED <<repo, log, replays, edits, saved, overlapped>>
    BY DEF IndexProfile
  <1>5. ProfileTypes'
    BY <1>1, <1>2, <1>3, <1>4 DEF ProfileTypes
  <1>6. handled' = Len(log) => profiles' = repo
    BY <1>1, <1>2
  <1> QED
    BY <1>4, <1>5, <1>6 DEF UnderWay, NoProfile

\* The AppView reads its log again.
LEMMA RereadStep ==
    ASSUME ProfileInv, NEW n \in 0..Len(log), Reread(n)
    PROVE  ProfileInv'
  <1> USE DEF ProfileInv
  <1>1. n # Len(log) /\ replays + 1 \in 0..MaxReplay
    BY ProfileAssumption DEF Reread, ProfileTypes
  <1>2. handled' = n /\ replays' = replays + 1 /\ UNCHANGED <<repo, log, profiles, edits, saved, overlapped>>
    BY DEF Reread
  <1>3. ProfileTypes'
    BY <1>1, <1>2 DEF ProfileTypes
  <1> QED
    BY <1>1, <1>2, <1>3 DEF UnderWay, NoProfile

\* Every step keeps the invariant.
LEMMA ProfileStep == ProfileInv /\ [ProfileNext]_profileVars => ProfileInv'
  <1> SUFFICES ASSUME ProfileInv, [ProfileNext]_profileVars PROVE ProfileInv'
    OBVIOUS
  <1>1. CASE \E e \in ProfileEdit, fields, empty \in SUBSET Field : CallEdit(e, fields, empty)
    BY <1>1, CallEditStep
  <1>2. CASE \E e \in ProfileEdit : Fetch(e) \/ Upload(e) \/ Put(e) \/ Again(e) \/ Fails(e)
    BY <1>2, FetchStep, UploadStep, PutStep, AgainStep, FailsStep
  <1>3. CASE Withdraw
    BY <1>3, WithdrawStep
  <1>4. CASE IndexProfile
    BY <1>4, IndexProfileStep
  <1>5. CASE \E n \in 0..Len(log) : Reread(n)
    BY <1>5, RereadStep
  <1>6. CASE UNCHANGED profileVars
    BY <1>6 DEF profileVars, ProfileInv, ProfileTypes, UnderWay, NoProfile
  <1> QED
    BY <1>1, <1>2, <1>3, <1>4, <1>5, <1>6 DEF ProfileNext

\* ProfileInv is an invariant of the profile records.
THEOREM ProfileInvariant == ProfileSpec => []ProfileInv
  BY ProfileInitial, ProfileStep, PTL DEF ProfileSpec

\* The tables and the calls are always of their types.
THEOREM ProfileTypeCorrect == ProfileSpec => []ProfileTypes
  <1>1. ProfileInv => ProfileTypes
    BY DEF ProfileInv
  <1> QED
    BY <1>1, ProfileInvariant, PTL

\* A profile that has caught up shows of every field what was saved last for it,
\* however calls fail, run again after a login, or the log is read again
\* (editProfile.ts:43-46).
THEOREM ProfileShowsWhatWasSaved == ProfileSpec => []SavedIsShown
  <1>1. ProfileInv => SavedIsShown
    BY DEF ProfileInv, SavedIsShown, Shown
  <1> QED
    BY <1>1, ProfileInvariant, PTL

=============================================================================
