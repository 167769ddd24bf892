----------------------------- MODULE PostsProofs -----------------------------
(***************************************************************************)
(* Proofs about the AppView's index of posts (PostIndex, PostThread),      *)
(* aitty's live feed (AittyFeed) and the calls that write posts            *)
(* (Conversation), for every value of their constants.                     *)
(*                                                                         *)
(*   - Pages: PagesInv.  A walk has served exactly what is above its       *)
(*     cursor of what stood all the time, and nothing at or below it.      *)
(*   - Convergence: of every event that nothing still to be handled undoes *)
(*     the tables hold what the log says, wherever the subscription is.    *)
(*   - Threads: a table is a forest of references and cycles of them; the  *)
(*     levels of a tree are disjoint, so that there are fewer than posts.  *)
(*   - The feed: FeedInv.  What it remembers is the end of what it         *)
(*     printed, and its numbers are the newest.                            *)
(*   - Calls: CallsInv.  A post belongs to a call that is past its write.  *)
(*   - Whole threads: RepliesInv.  A reply answers an earlier post and has *)
(*     its root.  A walk keeps what it has shown apart from what it is to  *)
(*     visit, all below the post it began with (VisitOK).                  *)
(*                                                                         *)
(* Induction is by the least number of a set (Least); functions that are   *)
(* defined by recursion are shown to be what their definition says         *)
(* (Iterates).                                                             *)
(***************************************************************************)
EXTENDS PostIndex, AittyFeed, Conversation, FiniteSetTheorems, SequenceTheorems,
        WellFoundedInduction, TLAPS

-----------------------------------------------------------------------------
(* Finite sets of entries *)

\* A set of numbers that is not empty has a least one.
LEMMA Least ==
    ASSUME NEW S \in SUBSET Nat, S # {}
    PROVE  \E n \in S : \A m \in S : n <= m
  <1> DEFINE R == OpToRel(<, Nat)
  <1>1. IsWellFoundedOn(R, Nat)
    BY NatLessThanWellFounded
  <1>2. \A x, y \in S : y < x => <<y, x>> \in R
    BY DEF OpToRel
  <1> HIDE DEF R
  <1>3. PICK x \in S : \A y \in S : ~(<<y, x>> \in R)
    BY <1>1, WFMin
  <1>4. \A m \in S : ~(m < x)
    BY <1>2, <1>3
  <1> QED
    BY <1>4

\* The keys that entries have.
Entry == [at : Nat \ {0}, uri : Uri]

\* Cursors order them.
LEMMA Linear ==
    /\ \A e \in Entry : ~Above(e, e)
    /\ \A e, f \in Entry : e = f \/ Above(e, f) \/ Above(f, e)
    /\ \A e, f, g \in Entry : Above(e, f) /\ Above(f, g) => Above(e, g)
  <1>1. ASSUME NEW e \in Entry, NEW f \in Entry, e.at = f.at, e.uri = f.uri
        PROVE  e = f
    BY <1>1 DEF Entry
  <1>2. \A e \in Entry : e.at \in Nat /\ e.uri \in Nat
    BY PostAssumption DEF Entry
  <1>3. \A e, f \in Entry : e = f \/ Above(e, f) \/ Above(f, e)
    BY <1>1, <1>2 DEF Above
  <1> QED
    BY <1>2, <1>3 DEF Above

\* What is above an entry in a set, and the entries with fewer than n above them.
Higher(L, e) == {f \in L : Above(f, e)}
First(L, n) == {e \in L : Cardinality(Higher(L, e)) < n}

\* The higher of two entries has fewer above it.
LEMMA OverIs ==
    ASSUME NEW L \in SUBSET Entry, IsFiniteSet(L)
    PROVE  /\ \A e \in L : /\ Higher(L, e) \subseteq L /\ IsFiniteSet(Higher(L, e))
                           /\ Cardinality(Higher(L, e)) \in Nat
                           /\ Cardinality(Higher(L, e)) < Cardinality(L)
           /\ \A e, f \in L : Above(e, f) => Cardinality(Higher(L, e)) < Cardinality(Higher(L, f))
  <1>1. ASSUME NEW e \in L
        PROVE  /\ Higher(L, e) \in SUBSET L /\ IsFiniteSet(Higher(L, e))
               /\ Cardinality(Higher(L, e)) \in Nat
    <2>1. Higher(L, e) \in SUBSET L
      BY DEF Higher
    <2> QED
      BY <2>1, FS_Subset, FS_CardinalityType
  <1>2. Cardinality(L) \in Nat
    BY FS_CardinalityType
  <1>3. ASSUME NEW e \in L
        PROVE  Cardinality(Higher(L, e)) < Cardinality(L)
    <2>1. e \notin Higher(L, e)
      BY Linear DEF Higher
    <2>2. Cardinality(Higher(L, e)) <= Cardinality(L) /\ Cardinality(Higher(L, e)) # Cardinality(L)
      BY <1>1, <2>1, FS_Subset
    <2> QED
      BY <1>1, <1>2, <2>2
  <1>4. ASSUME NEW e \in L, NEW f \in L, Above(e, f)
        PROVE  Cardinality(Higher(L, e)) < Cardinality(Higher(L, f))
    <2>1. Higher(L, e) \in SUBSET Higher(L, f)
      BY <1>4, Linear DEF Higher
    <2>2. e \in Higher(L, f) /\ e \notin Higher(L, e)
      BY <1>4, Linear DEF Higher
    <2>3. Cardinality(Higher(L, e)) <= Cardinality(Higher(L, f)) /\ Cardinality(Higher(L, e)) # Cardinality(Higher(L, f))
      BY <1>1, <2>1, <2>2, FS_Subset
    <2> QED
      BY <1>1, <2>3
  <1> QED
    BY <1>1, <1>3, <1>4

\* The first n are n, if there are as many.
LEMMA FirstAre ==
    ASSUME NEW L \in SUBSET Entry, IsFiniteSet(L), NEW n \in Nat, n <= Cardinality(L)
    PROVE  Cardinality(First(L, n)) = n
  <1>0. Cardinality(L) \in Nat
    BY FS_CardinalityType
  <1> DEFINE Wrong == {m \in 0..n : Cardinality(First(L, m)) # m}
  <1>1. ASSUME Wrong # {} PROVE FALSE
    <2>1. Wrong \in SUBSET Nat
      OBVIOUS
    <2>2. PICK m \in Wrong : \A k \in Wrong : m <= k
      BY <1>1, <2>1, Least
    <2>3. m # 0
      <3>1. First(L, 0) = {}
        BY OverIs DEF First
      <3> QED
        BY <2>2, <3>1, FS_EmptySet
    <2>4. m \in Nat /\ m - 1 \in 0..n /\ m - 1 < m /\ m <= n
      BY <2>2, <2>3
    <2> DEFINE A == First(L, m - 1)
    <2>5. Cardinality(A) = m - 1
      BY <2>2, <2>4
    <2>6. A \in SUBSET L /\ IsFiniteSet(A)
      <3>1. A \in SUBSET L
        BY DEF First
      <3> QED
        BY <3>1, FS_Subset
    <2> DEFINE rank(e) == Cardinality(Higher(L, e))
               B == L \ A
               Ranks == {rank(e) : e \in B}
    <2>7. B # {}
      <3>1. A # L
        BY <1>0, <2>4, <2>5
      <3> QED
        BY <2>6, <3>1
    <2>8. Ranks \in SUBSET Nat /\ Ranks # {}
      BY <2>7, OverIs
    <2>9. PICK r \in Ranks : \A s \in Ranks : r <= s
      BY <2>8, Least
    <2>10. PICK x \in B : rank(x) = r
      BY <2>9
    <2>11. \A e \in L : rank(e) \in Nat
      BY OverIs
    <2>12. \A e \in L : e \in A <=> rank(e) < m - 1
      BY DEF First
    <2>13. \A e \in A : Above(e, x)
      <3> SUFFICES ASSUME NEW e \in A PROVE Above(e, x)
        OBVIOUS
      <3>1. e \in L /\ x \in L /\ x \notin A
        BY <2>6
      <3>2. rank(e) \in Nat /\ rank(x) \in Nat /\ rank(e) < m - 1 /\ ~(rank(x) < m - 1)
        BY <2>11, <2>12, <3>1
      <3>3. ~(rank(x) < rank(e))
        BY <2>4, <3>2
      <3>4. ~Above(x, e)
        BY <3>1, <3>3, OverIs
      <3> QED
        BY <3>1, <3>4, Linear
    <2>14. \A e \in B : ~Above(e, x)
      BY <2>9, <2>10, <2>11, OverIs
    <2>15. Higher(L, x) = A
      BY <2>6, <2>13, <2>14 DEF Higher
    <2>16. rank(x) = m - 1
      BY <2>5, <2>15
    <2>17. \A e \in B : e # x => rank(e) > m - 1
      BY <2>11, <2>14, <2>16, Linear, OverIs
    <2>18. First(L, m) = A \cup {x}
      BY <2>4, <2>10, <2>11, <2>12, <2>16, <2>17 DEF First
    <2>19. Cardinality(First(L, m)) = m
      BY <2>4, <2>5, <2>6, <2>10, <2>18, FS_AddElement
    <2> QED
      BY <2>2, <2>19
  <1> QED
    BY <1>1

\* A page that is not full has everything that is left; a full one has a last entry, which
\* is above whatever is left after it.
LEMMA PageIs ==
    ASSUME NEW L \in SUBSET Entry, IsFiniteSet(L), NEW n \in Nat \ {0}
    PROVE  /\ First(L, n) \subseteq L
           /\ Cardinality(First(L, n)) # n => First(L, n) = L
           /\ Cardinality(First(L, n)) = n =>
                  \E e \in First(L, n) : \A f \in First(L, n) : f = e \/ Above(f, e)
           /\ \A e \in First(L, n), f \in L \ First(L, n) : Above(e, f)
  <1>0. Cardinality(L) \in Nat /\ n \in Nat
    BY FS_CardinalityType
  <1>1. First(L, n) \in SUBSET L
    BY DEF First
  <1>2. ASSUME Cardinality(First(L, n)) # n PROVE First(L, n) = L
    <2>1. Cardinality(L) < n
      BY <1>0, <1>2, FirstAre
    <2>2. \A e \in L : Cardinality(Higher(L, e)) < n
      BY <1>0, <2>1, OverIs
    <2> QED
      BY <2>2 DEF First
  <1>3. ASSUME NEW e \in First(L, n), NEW f \in L \ First(L, n)
        PROVE  Above(e, f)
    <2>1. Cardinality(Higher(L, e)) < n /\ ~(Cardinality(Higher(L, f)) < n) /\ e \in L /\ f \in L
      BY DEF First
    <2>2. Cardinality(Higher(L, e)) \in Nat /\ Cardinality(Higher(L, f)) \in Nat
      BY <2>1, OverIs
    <2>3. ~Above(f, e) /\ f # e
      BY <1>0, <2>1, <2>2, OverIs
    <2> QED
      BY <2>1, <2>3, Linear
  <1>4. ASSUME Cardinality(First(L, n)) = n
        PROVE  \E e \in First(L, n) : \A f \in First(L, n) : f = e \/ Above(f, e)
    <2> DEFINE P == First(L, n)
               rank(e) == Cardinality(Higher(L, e))
               Gaps == {n - rank(e) : e \in P}
    <2>1. P # {}
      BY <1>4, FS_EmptySet
    <2>2. \A e \in P : rank(e) \in Nat /\ rank(e) < n
      BY <1>1, OverIs DEF First
    <2>3. Gaps \in SUBSET Nat /\ Gaps # {}
      BY <1>0, <2>1, <2>2
    <2>4. PICK g \in Gaps : \A h \in Gaps : g <= h
      BY <2>3, Least
    <2>5. PICK e \in P : g = n - rank(e)
      BY <2>4
    <2>6. \A f \in P : rank(f) <= rank(e)
      <3> SUFFICES ASSUME NEW f \in P PROVE rank(f) <= rank(e)
        OBVIOUS
      <3>1. n - rank(e) <= n - rank(f)
        BY <2>4, <2>5
      <3>2. rank(e) \in Nat /\ rank(f) \in Nat
        BY <2>2
      <3> HIDE DEF rank
      <3> QED
        BY <1>0, <3>1, <3>2
    <2>7. \A f \in P : f = e \/ Above(f, e)
      BY <1>1, <2>2, <2>6, Linear, OverIs
    <2> QED
      BY <2>7
  <1> QED
    BY <1>1, <1>2, <1>3, <1>4

-----------------------------------------------------------------------------
(* The index: its tables are finite and sound. *)

IndexOK ==
    /\ TypeOK
    /\ log \in Seq(Event)
    /\ lastSeq \in Nat
    /\ IsFiniteSet(posts) /\ IsFiniteSet(notifications)

\* What an event holds, by its kind.
LEMMA EventIs ==
    ASSUME NEW e \in Event
    PROVE  /\ e.op \in {"put", "delete", "account"}
           /\ e.op = "put" => e.record \in Record
           /\ e.op = "delete" => e.uri \in Uri
           /\ e.op = "account" => e.did = Other /\ e.active \in BOOLEAN
  BY DEF Event

\* Who hears of a post: finitely many, and never its author.
LEMMA RecipientsAre ==
    ASSUME NEW r \in Record
    PROVE  /\ r.uri \in Uri /\ r.parent \in Uri \cup {None} /\ r.root \in Uri \cup {None}
           /\ r.createdAt \in Time \cup {0}
           /\ Recipients(r) \subseteq Author /\ IsFiniteSet(Recipients(r))
           /\ AuthorOf[r.uri] \notin Recipients(r)
           /\ NewRecipients(r) \subseteq Recipients(r) /\ IsFiniteSet(NewRecipients(r))
           /\ Cardinality(NewRecipients(r)) \in Nat
  <1>1. /\ r.uri \in Uri /\ r.parent \in Uri \cup {None} /\ r.root \in Uri \cup {None}
        /\ r.createdAt \in Time \cup {0} /\ r.mentions \subseteq Author /\ IsFiniteSet(r.mentions)
    BY PostAssumption
  <1> DEFINE P == IF r.parent = None THEN {} ELSE {AuthorOf[r.parent]}
  <1>2. IsFiniteSet(P)
    BY FS_EmptySet, FS_Singleton
  <1>3. P \subseteq Author
    BY <1>1 DEF Author
  <1>4. Recipients(r) = (P \cup r.mentions) \ {AuthorOf[r.uri]}
    BY DEF Recipients
  <1> HIDE DEF P
  <1>5. IsFiniteSet(P \cup r.mentions)
    BY <1>1, <1>2, FS_Union
  <1>6. IsFiniteSet(Recipients(r))
    BY <1>4, <1>5, FS_Difference
  <1>7. NewRecipients(r) \in SUBSET Recipients(r)
    BY DEF NewRecipients
  <1>8. IsFiniteSet(NewRecipients(r))
    BY <1>6, <1>7, FS_Subset
  <1> QED
    BY <1>1, <1>3, <1>4, <1>6, <1>7, <1>8, FS_CardinalityType

\* The rows a post adds: one for each new recipient, numbered above all there ever were.
LEMMA Added ==
    ASSUME IndexOK, NEW r \in Record, NEW now \in Time, IndexPost(r, now)
    PROVE  \E new : /\ notifications' = notifications \cup new /\ IsFiniteSet(new)
                    /\ new \subseteq Notification
                    /\ \A n \in new : /\ n.seq > lastSeq /\ n.seq <= lastSeq' /\ n.uri = r.uri
                                      /\ n.recipient \in NewRecipients(r) /\ n.indexedAt = now
                    /\ \A a \in NewRecipients(r) : \E n \in new : n.recipient = a
                    /\ \A m, n \in new : m.seq = n.seq \/ m.recipient = n.recipient => m = n
                    /\ lastSeq' \in Nat /\ lastSeq' >= lastSeq
  <1> DEFINE N == NewRecipients(r)
  <1>1. PICK seq \in [N -> Base + 1 .. Base + Cardinality(N)] :
          /\ \A a, b \in N : a # b => seq[a] # seq[b]
          /\ notifications' = notifications \cup
               {[seq |-> seq[a], uri |-> r.uri, recipient |-> a, indexedAt |-> now] : a \in N}
          /\ lastSeq' = Base + Cardinality(N)
    BY DEF IndexPost
  <1>2. lastSeq \in Nat /\ Base = lastSeq /\ Cardinality(N) \in Nat
    BY RecipientsAre DEF IndexOK, Base
  <1>3. N \subseteq Author /\ IsFiniteSet(N) /\ r.uri \in Uri
    BY RecipientsAre
  <1> HIDE DEF N
  <1> DEFINE row(a) == [seq |-> seq[a], uri |-> r.uri, recipient |-> a, indexedAt |-> now]
             new == {row(a) : a \in N}
             f == [a \in N |-> row(a)]
  <1>4. \A a \in N : /\ seq[a] \in Nat \ {0} /\ seq[a] > lastSeq /\ seq[a] <= lastSeq'
    BY <1>1, <1>2
  <1>5. IsFiniteSet(new)
    <2>1. f \in Surjection(N, new)
      BY DEF Surjection
    <2> QED
      BY <1>3, <2>1, FS_Surjection
  <1>6. new \subseteq Notification
    BY <1>3, <1>4 DEF Notification
  <1>7. \A n \in new : /\ n.seq > lastSeq /\ n.seq <= lastSeq' /\ n.uri = r.uri
                       /\ n.recipient \in N /\ n.indexedAt = now
    BY <1>4
  <1>8. ASSUME NEW a \in N PROVE \E n \in new : n.recipient = a
    <2>1. row(a) \in new /\ row(a).recipient = a
      OBVIOUS
    <2> QED
      BY <2>1
  <1>9. \A m, n \in new : m.seq = n.seq \/ m.recipient = n.recipient => m = n
    BY <1>1
  <1>10. notifications' = notifications \cup new
    BY <1>1
  <1>11. lastSeq' \in Nat /\ lastSeq' >= lastSeq
    BY <1>1, <1>2
  <1> HIDE DEF new
  <1> QED
    BY <1>5, <1>6, <1>7, <1>8, <1>9, <1>10, <1>11 DEF N

\* Handling an event, new or again, keeps the tables sound.
LEMMA TablesOK ==
    ASSUME IndexOK, NEW now \in Time, Handle(now)
    PROVE  IndexOK'
  <1> USE DEF IndexOK
  <1>1. PICK e : e = log[pos + 1]
    OBVIOUS
  <1>2. /\ pos \in Nat /\ pos' \in 0..Len(log') /\ log' = log /\ Len(log') <= MaxLog
        /\ replays' = replays /\ query' = query /\ e \in Event
    BY <1>1 DEF Handle, TypeOK
  <1>3. posts \subseteq Row /\ notifications \subseteq Notification
    BY DEF TypeOK
  <1>4. /\ e.op \in {"put", "delete", "account"}
        /\ e.op = "put" => e.record \in Record
        /\ e.op = "delete" => e.uri \in Uri
        /\ e.op = "account" => e.did = Other /\ e.active \in BOOLEAN
    BY <1>2, EventIs
  <1>5. CASE e.op = "put"
    <2>1. PICK r \in Record : r = e.record
      BY <1>4, <1>5
    <2>2. IndexPost(r, now)
      BY <1>1, <1>5, <2>1 DEF Handle
    <2>3. PICK new :
            /\ notifications' = notifications \cup new /\ IsFiniteSet(new)
            /\ new \subseteq Notification
            /\ \A n \in new : /\ n.seq > lastSeq /\ n.seq <= lastSeq' /\ n.uri = r.uri
                              /\ n.recipient \in NewRecipients(r) /\ n.indexedAt = now
            /\ \A a \in NewRecipients(r) : \E n \in new : n.recipient = a
            /\ \A m, n \in new : m.seq = n.seq \/ m.recipient = n.recipient => m = n
            /\ lastSeq' \in Nat /\ lastSeq' >= lastSeq
      BY <2>2, Added
    <2> DEFINE row == [uri |-> r.uri, parent |-> r.parent, root |-> r.root,
                       createdAt |-> IF r.createdAt = 0 THEN now ELSE r.createdAt]
               old == {p \in posts : p.uri # r.uri}
    <2>4. posts' = old \cup {row} /\ hidden' = hidden
      BY <2>2 DEF IndexPost
    <2>5. row \in Row /\ row.uri = r.uri
      BY RecipientsAre DEF Row
    <2> HIDE DEF row
    <2>6. IsFiniteSet(posts')
      <3>1. old \in SUBSET posts
        OBVIOUS
      <3>2. IsFiniteSet(old)
        BY <3>1, FS_Subset
      <3> QED
        BY <2>4, <3>2, FS_AddElement
    <2>7. IsFiniteSet(notifications')
      BY <2>3, FS_Union
    <2>8. posts' \subseteq Row /\ \A p, q \in posts' : p.uri = q.uri => p = q
      BY <1>3, <2>4, <2>5 DEF TypeOK
    <2>9. notifications' \subseteq Notification
      BY <1>3, <2>3
    <2>10. \A n \in notifications : n.seq \in Nat /\ n.seq <= lastSeq /\ n.recipient # AuthorOf[n.uri]
      BY <1>3 DEF TypeOK, Notification
    <2>11. \A n \in new : n.seq \in Nat /\ n.recipient # AuthorOf[n.uri]
      BY <2>3, RecipientsAre DEF Notification
    <2>12. \A n \in new : ~\E m \in notifications : m.uri = n.uri /\ m.recipient = n.recipient
      BY <2>3 DEF NewRecipients
    <2>13. \A m, n \in notifications' :
             m.seq = n.seq \/ (m.uri = n.uri /\ m.recipient = n.recipient) => m = n
      <3>1. \A m \in notifications, n \in new : m.seq # n.seq
        BY <2>3, <2>10, <2>11
      <3>2. \A m, n \in notifications :
              m.seq = n.seq \/ (m.uri = n.uri /\ m.recipient = n.recipient) => m = n
        BY DEF TypeOK
      <3> QED
        BY <2>3, <2>12, <3>1, <3>2
    <2>14. \A n \in notifications' : n.seq <= lastSeq' /\ n.recipient # AuthorOf[n.uri]
      <3>1. \A n \in notifications : n.seq <= lastSeq'
        BY <2>3, <2>10
      <3> QED
        BY <2>3, <2>10, <2>11, <3>1
    <2> QED
      BY <1>2, <2>3, <2>4, <2>6, <2>7, <2>8, <2>9, <2>13, <2>14 DEF TypeOK
  <1>6. CASE e.op = "delete"
    <2>1. DeletePost(e.uri)
      BY <1>1, <1>6 DEF Handle
    <2>2. posts' \in SUBSET posts /\ notifications' \in SUBSET notifications /\ UNCHANGED <<lastSeq, hidden>>
      BY <2>1 DEF DeletePost, Removed
    <2>3. IsFiniteSet(posts') /\ IsFiniteSet(notifications')
      BY <2>2, FS_Subset
    <2> QED
      BY <1>2, <2>2, <2>3 DEF TypeOK
  <1>7. CASE e.op = "account"
    <2>1. SetActive(Other, e.active)
      BY <1>1, <1>4, <1>7 DEF Handle
    <2> QED
      BY <1>2, <2>1 DEF SetActive, TypeOK, Author
  <1> QED
    BY <1>4, <1>5, <1>6, <1>7

\* Every step does.
LEMMA IndexStep ==
    ASSUME IndexOK, Next
    PROVE  IndexOK'
  <1> USE DEF IndexOK
  <1>1. CASE \E e \in Event : Commit(e)
    <2>1. PICK e \in Event : Commit(e)
      BY <1>1
    <2>2. log \in Seq(Event) /\ log' = Append(log, e) /\ Len(log) < MaxLog /\ pos' = pos
          /\ UNCHANGED <<posts, notifications, lastSeq, hidden, replays, query>>
      BY <2>1 DEF Commit, tables, walk
    <2>3. log' \in Seq(Event) /\ Len(log') = Len(log) + 1 /\ Len(log) \in Nat
      BY <2>2
    <2>4. pos' \in 0..Len(log') /\ Len(log') <= MaxLog
      BY <2>2, <2>3, PostAssumption DEF TypeOK
    <2> QED
      BY <2>2, <2>3, <2>4 DEF TypeOK
  <1>2. CASE \E now \in Time : Handle(now)
    BY <1>2, TablesOK
  <1>3. CASE Replay
    <2>1. UNCHANGED <<log, posts, notifications, lastSeq, hidden, query>> /\ replays' \in 0..MaxReplay /\ pos' \in 0..Len(log)
      BY <1>3, PostAssumption DEF Replay, tables, walk, TypeOK
    <2> QED
      BY <2>1 DEF TypeOK
  <1>4. CASE \E q \in Query : Begin(q)
    BY <1>4 DEF Begin, tables, TypeOK
  <1>5. CASE NextPage
    BY <1>5 DEF NextPage, tables, TypeOK
  <1> QED
    BY <1>1, <1>2, <1>3, <1>4, <1>5 DEF Next

-----------------------------------------------------------------------------
(* Pages *)

LEMMA VisibleIs ==
    ASSUME IndexOK, NEW q
    PROVE  Visible(q) \subseteq Entry /\ IsFiniteSet(Visible(q))
  <1>1. posts \subseteq Row /\ notifications \subseteq Notification
        /\ IsFiniteSet(posts) /\ IsFiniteSet(notifications)
    BY DEF IndexOK, TypeOK
  <1>2. \A p \in posts : PostEntry(p) \in Entry
    BY <1>1, PostAssumption DEF PostEntry, Entry, Row
  <1>3. ASSUME NEW P \in SUBSET posts
        PROVE  IsFiniteSet({PostEntry(p) : p \in P})
    <2> DEFINE f == [p \in P |-> PostEntry(p)]
    <2>1. f \in Surjection(P, {PostEntry(p) : p \in P})
      BY DEF Surjection
    <2>2. IsFiniteSet(P)
      BY <1>1, FS_Subset
    <2> QED
      BY <2>1, <2>2, FS_Surjection
  <1>4. Timeline \subseteq Entry /\ IsFiniteSet(Timeline)
    BY <1>2, <1>3 DEF Timeline
  <1>5. AuthorFeed \subseteq Entry /\ IsFiniteSet(AuthorFeed)
    BY <1>2, <1>3 DEF AuthorFeed
  <1>6. Alerts \subseteq Entry /\ IsFiniteSet(Alerts)
    <2> DEFINE N == {n \in Mine : AuthorOf[n.uri] \notin hidden}
               f == [n \in N |-> SeqEntry(n)]
    <2>1. N \in SUBSET notifications
      BY DEF Mine
    <2>2. IsFiniteSet(N)
      BY <1>1, <2>1, FS_Subset
    <2>3. f \in Surjection(N, {SeqEntry(n) : n \in N})
      BY DEF Surjection
    <2>4. \A n \in N : SeqEntry(n) \in Entry
      BY <1>1, <2>1 DEF SeqEntry, Entry, Notification
    <2>5. Alerts = {SeqEntry(n) : n \in N}
      BY DEF Alerts
    <2> QED
      BY <2>2, <2>3, <2>4, <2>5, FS_Surjection
  <1> QED
    BY <1>4, <1>5, <1>6, FS_EmptySet DEF Visible

\* Where a walk is: what was served is above the cursor or at it, and what stood all the
\* time and was not served is below it.
WalkOK ==
    /\ cursor \in Entry \cup {Top}
    /\ served \subseteq Entry
    /\ query = "none" => cursor = Top /\ standing = {}
    /\ cursor = Top => served = {}
    /\ \A e \in served : e = cursor \/ Above(e, cursor)
    /\ standing \subseteq Visible(query)
    /\ \A e \in standing : e \in served \/ cursor = Top \/ Above(cursor, e)
    /\ ~twice /\ ~missed

PagesInv == IndexOK /\ WalkOK

\* The next page keeps a walk exact: it takes the highest of what is left.
LEMMA NextPageStep ==
    ASSUME PagesInv, NextPage
    PROVE  WalkOK'
  <1> USE DEF PagesInv, WalkOK
  <1> DEFINE L == Left(query, cursor)
             page == First(L, Limit)
  <1>1. L \in SUBSET Entry /\ IsFiniteSet(L) /\ L \in SUBSET Visible(query)
    <2>1. L \in SUBSET Visible(query)
      BY DEF Left
    <2> QED
      BY <2>1, VisibleIs, FS_Subset
  <1>2. Page(query, cursor) = page
    BY DEF Page, First, Higher
  <1>3. Top \notin Entry /\ End \notin Entry /\ \A e \in L : cursor = Top \/ Above(cursor, e)
    BY DEF Top, End, Entry, Left
  <1>4. /\ page \subseteq L
        /\ Cardinality(page) # Limit => page = L
        /\ Cardinality(page) = Limit =>
               \E e \in page : \A f \in page : f = e \/ Above(f, e)
        /\ \A e \in page, f \in L \ page : Above(e, f)
    BY <1>1, PageIs, PostAssumption
  <1>5. PICK next : next = NextCursor(page)
    OBVIOUS
  <1>6. /\ twice' = (twice \/ page \cap served # {})
        /\ missed' = (missed \/ (next = End /\ ~(standing \subseteq served \cup page)))
        /\ query' = IF next = End THEN "none" ELSE query
        /\ cursor' = IF next = End THEN Top ELSE next
        /\ served' = IF next = End THEN {} ELSE served \cup page
        /\ standing' = IF next = End THEN {} ELSE standing
        /\ UNCHANGED <<posts, notifications, hidden>>
    BY <1>2, <1>5, Zenon DEF NextPage, tables
  <1> HIDE DEF page
  <1>7. page \cap served = {}
    <2> SUFFICES ASSUME NEW e \in page, e \in served
                 PROVE  FALSE
      OBVIOUS
    <2>1. e \in Entry /\ e \in L
      BY <1>1, <1>4
    <2>2. cursor # Top /\ cursor \in Entry /\ Above(cursor, e)
      BY <1>3, <2>1
    <2>3. e = cursor \/ Above(e, cursor)
      OBVIOUS
    <2> QED
      BY <2>1, <2>2, <2>3, Linear
  <1>8. ~twice'
    BY <1>6, <1>7
  <1>9. \A e \in standing : e \in served \/ e \in L
    BY DEF Left
  <1>10. \A q : Visible(q)' = Visible(q)
    BY <1>6 DEF Visible, Timeline, AuthorFeed, Alerts, Mine, PostEntry, SeqEntry
  <1>11. CASE next = End
    <2>1. Cardinality(page) # Limit
      BY <1>1, <1>3, <1>4, <1>5, <1>11 DEF NextCursor
    <2>2. standing \subseteq served \cup page
      BY <1>4, <1>9, <2>1
    <2> QED
      BY <1>6, <1>8, <1>11, <2>2
  <1>12. CASE next # End
    <2>1. Cardinality(page) = Limit
      BY <1>5, <1>12 DEF NextCursor
    <2>2. next \in page /\ \A f \in page : f = next \/ Above(f, next)
      BY <1>4, <1>5, <2>1 DEF NextCursor
    <2>3. next \in Entry /\ next \in L /\ page \subseteq Entry
      BY <1>1, <1>4, <2>2
    <2>4. \A e \in served : Above(e, next)
      <3> SUFFICES ASSUME NEW e \in served PROVE Above(e, next)
        OBVIOUS
      <3>1. cursor # Top /\ cursor \in Entry /\ Above(cursor, next) /\ e \in Entry
        BY <1>3, <2>3
      <3>2. e = cursor \/ Above(e, cursor)
        OBVIOUS
      <3> QED
        BY <2>3, <3>1, <3>2, Linear
    <2>5. \A e \in standing : e \in served \cup page \/ Above(next, e)
      BY <1>4, <1>9, <2>2
    <2>6. cursor' = next /\ served' = served \cup page /\ standing' = standing /\ query' = query
          /\ twice' = FALSE /\ missed' = FALSE
      BY <1>6, <1>7, <1>12
    <2>7. cursor' # Top
      BY <1>3, <2>3, <2>6
    <2>8. standing' \subseteq Visible(query)'
      BY <1>10, <2>6
    <2>9. query # "none"
      BY DEF NextPage
    <2> QED
      BY <2>2, <2>3, <2>4, <2>5, <2>6, <2>7, <2>8, <2>9
  <1> QED
    BY <1>11, <1>12

\* So does every step, whatever it does to the rows between two pages.
LEMMA WalkStep ==
    ASSUME PagesInv, [Next]_vars
    PROVE  WalkOK'
  <1> USE DEF PagesInv
  <1>1. ASSUME UNCHANGED <<tables, walk>> PROVE WalkOK'
    BY <1>1 DEF WalkOK, tables, walk, Visible, Timeline, AuthorFeed, Alerts, Mine, PostEntry, SeqEntry
  <1>2. CASE \E e \in Event : Commit(e)
    BY <1>1, <1>2 DEF Commit
  <1>3. CASE \E now \in Time : Handle(now)
    BY <1>3 DEF Handle, Watch, WalkOK
  <1>4. CASE Replay
    BY <1>1, <1>4 DEF Replay
  <1>5. CASE \E q \in Query : Begin(q)
    <2>1. PICK q \in Query : Begin(q)
      BY <1>5
    <2>2. /\ query = "none" /\ query' = q /\ standing' = Visible(q)
          /\ UNCHANGED <<tables, cursor, served, twice, missed>>
      BY <2>1 DEF Begin
    <2>3. Visible(q)' = Visible(q)
      BY <2>2 DEF tables, Visible, Timeline, AuthorFeed, Alerts, Mine, PostEntry, SeqEntry
    <2> QED
      BY <2>2, <2>3 DEF WalkOK, Query
  <1>6. CASE NextPage
    BY <1>6, NextPageStep
  <1>7. CASE UNCHANGED vars
    BY <1>1, <1>7 DEF vars
  <1> QED
    BY <1>2, <1>3, <1>4, <1>5, <1>6, <1>7 DEF Next

\* An index starts empty, and nobody walks.
LEMMA IndexInit ==
    ASSUME Init
    PROVE  PagesInv
  <1>1. IndexOK
    BY FS_EmptySet, PostAssumption DEF Init, IndexOK, TypeOK
  <1>2. WalkOK
    BY DEF Init, WalkOK
  <1> QED
    BY <1>1, <1>2 DEF PagesInv

\* Every reachable index is sound, and every walk through it exact so far.
THEOREM PagesInvariant == Spec => []PagesInv
  <1>1. PagesInv /\ [Next]_vars => PagesInv'
    <2>1. ASSUME PagesInv, UNCHANGED vars PROVE IndexOK'
      BY <2>1 DEF PagesInv, IndexOK, TypeOK, vars, tables, walk
    <2> QED
      BY <2>1, IndexStep, WalkStep DEF PagesInv
  <1> QED
    BY <1>1, IndexInit, PTL DEF Spec

\* The tables of the index have their types and unique keys (appview/src/db.ts).
THEOREM IndexTypeCorrect == Spec => []TypeOK
  <1>1. PagesInv => TypeOK
    BY DEF PagesInv, IndexOK
  <1> QED
    BY <1>1, PagesInvariant, PTL

\* No page shows an entry again, and no walk ends without one that stood all the time (cursor.ts),
\* whatever is indexed, removed, hidden or read again meanwhile.
THEOREM PagesAreExact == Spec => []PagesExact
  <1>1. PagesInv => PagesExact
    BY DEF PagesInv, WalkOK, PagesExact
  <1> QED
    BY <1>1, PagesInvariant, PTL

-----------------------------------------------------------------------------
(* What a consumer of notifications relies on. *)

LEMMA SinceIs ==
    ASSUME IndexOK
    PROVE  SinceCovers
  <1> SUFFICES ASSUME NEW since \in Time
               PROVE  LET after == {n \in Mine : n.seq > SeqBefore(since)}
                          later == {n \in Mine : n.indexedAt >= since}
                      IN  later \subseteq after /\ \A n \in after : \E m \in later : m.seq <= n.seq
    BY DEF SinceCovers
  <1> DEFINE later  == {n.seq : n \in {m \in Mine : m.indexedAt >= since}}
             before == {0} \cup {n.seq : n \in {m \in Mine : \A x \in later : m.seq < x}}
             gaps   == {lastSeq - s : s \in before}
  <1>1. \A n \in Mine : n.seq \in Nat \ {0} /\ n.seq <= lastSeq
    BY DEF Mine, IndexOK, TypeOK, Notification
  <1>2. lastSeq \in Nat
    BY DEF IndexOK
  <1>3. gaps \in SUBSET Nat /\ gaps # {}
    BY <1>1, <1>2
  <1>4. PICK g \in gaps : \A h \in gaps : g <= h
    BY <1>3, Least
  <1>5. PICK s \in before : g = lastSeq - s
    BY <1>4
  <1>6. \A x \in before : x \in Nat
    BY <1>1
  <1>7. \A x \in before : x <= s
    <2> SUFFICES ASSUME NEW x \in before PROVE x <= s
      OBVIOUS
    <2>1. lastSeq - s <= lastSeq - x
      BY <1>4, <1>5
    <2>2. x \in Nat /\ s \in Nat
      BY <1>6
    <2> HIDE DEF before, gaps
    <2> QED
      BY <1>2, <2>1, <2>2
  <1>8. SeqBefore(since) \in before /\ \A x \in before : x <= SeqBefore(since)
    <2>1. SeqBefore(since) = CHOOSE y \in before : \A x \in before : x <= y
      BY DEF SeqBefore
    <2> HIDE DEF before
    <2> QED
      BY <1>7, <2>1
  <1>9. PICK b : b = SeqBefore(since)
    OBVIOUS
  <1>10. b \in Nat /\ b \in before /\ \A x \in before : x <= b
    BY <1>6, <1>8, <1>9
  <1>11. ASSUME NEW m \in Mine, m.indexedAt >= since
         PROVE  m.seq > b
    <2>1. m.seq \in later /\ m.seq \in Nat \ {0}
      BY <1>1, <1>11
    <2>2. CASE b = 0
      BY <2>1, <2>2
    <2>3. CASE b # 0
      BY <1>10, <2>1, <2>3
    <2> QED
      BY <2>2, <2>3
  <1>12. ASSUME NEW n \in Mine, n.seq > b
         PROVE  \E m \in Mine : m.indexedAt >= since /\ m.seq <= n.seq
    <2>1. n.seq \notin before
      BY <1>1, <1>10, <1>12
    <2>2. PICK x \in later : ~(n.seq < x)
      BY <2>1
    <2>3. PICK m \in Mine : m.indexedAt >= since /\ m.seq = x
      BY <2>2
    <2> QED
      BY <1>1, <2>2, <2>3
  <1> QED
    BY <1>9, <1>11, <1>12

\* The cursor a timestamp is translated to (seqBeforeTimestamp, listNotifications.ts) is before every
\* row at or after that time, and before no others than the rows that follow one of those.
THEOREM SinceAlwaysCovers == Spec => []SinceCovers
  <1>1. PagesInv => SinceCovers
    BY SinceIs DEF PagesInv
  <1> QED
    BY <1>1, PagesInvariant, PTL

\* A row of notifications is given a number above all that were ever given, also when rows were
\* deleted (AUTOINCREMENT, db.ts): none appears behind a cursor.
THEOREM RowsAreAhead == Spec => RowsAhead
  <1>1. ASSUME PagesInv, [Next]_vars
        PROVE  \A n \in notifications' \ notifications : n.seq > lastSeq
    <2>1. ASSUME NEW now \in Time, Handle(now)
          PROVE  \A n \in notifications' \ notifications : n.seq > lastSeq
      <3>1. PICK e : e = log[pos + 1]
        OBVIOUS
      <3>2. e \in Event
        BY <1>1, <2>1, <3>1 DEF PagesInv, IndexOK, TypeOK, Handle
      <3>3. CASE e.op = "put"
        <4>1. IndexPost(e.record, now) /\ e.record \in Record
          BY <2>1, <3>1, <3>2, <3>3, EventIs DEF Handle
        <4> QED
          BY <1>1, <4>1, Added DEF PagesInv
      <3>4. CASE e.op = "delete"
        BY <2>1, <3>1, <3>4 DEF Handle, DeletePost, Removed
      <3>5. CASE e.op = "account"
        BY <2>1, <3>1, <3>5 DEF Handle, SetActive
      <3> QED
        BY <3>2, <3>3, <3>4, <3>5, EventIs
    <2>2. CASE UNCHANGED notifications
      BY <2>2
    <2> QED
      BY <1>1, <2>1, <2>2 DEF Next, Commit, Replay, Begin, NextPage, vars, tables
  <1> QED
    BY <1>1, PagesInvariant, PTL DEF Spec, RowsAhead

-----------------------------------------------------------------------------
(* Convergence *)

PutOf(e, u)     == e.op = "put" /\ e.record.uri = u
DeleteOf(e, u)  == e.op = "delete" /\ e.uri = u
Touch(e, u)     == PutOf(e, u) \/ DeleteOf(e, u)
AccountOf(e, a) == e.op = "account" /\ e.did = a

RowOf(u) == {[uri |-> p.uri, parent |-> p.parent, root |-> p.root] : p \in {r \in posts : r.uri = u}}
Heard(u) == {n.recipient : n \in {m \in notifications : m.uri = u}}

\* What a commit leaves of a post.
LeftBy(e, u) == IF e.op = "put" THEN {[uri |-> u, parent |-> e.record.parent, root |-> e.record.root]} ELSE {}

\* A post that nothing still to be handled touches is as the last commit left it.
RowsConverge ==
    \A u \in Uri :
        (\A j \in pos + 1..Len(log) : ~Touch(log[j], u)) =>
            \/ RowOf(u) = {} /\ \A j \in 1..Len(log) : ~Touch(log[j], u)
            \/ \E i \in 1..pos : /\ Touch(log[i], u) /\ \A j \in i + 1..Len(log) : ~Touch(log[j], u)
                                 /\ RowOf(u) = LeftBy(log[i], u)

\* So is an account.
AccountsConverge ==
    \A a \in Author :
        (\A j \in pos + 1..Len(log) : ~AccountOf(log[j], a)) =>
            (a \in hidden <=> \E i \in 1..pos : /\ AccountOf(log[i], a) /\ ~log[i].active
                                               /\ \A j \in i + 1..Len(log) : ~AccountOf(log[j], a))

\* The last removal of a post is at d; or, for 0, there is none.
LastRemoval(u, d) ==
    /\ d = 0 \/ DeleteOf(log[d], u)
    /\ \A j \in d + 1..Len(log) : ~DeleteOf(log[j], u)

\* Who heard of a post whose last removal has been handled: whom a later version names;
\* and all of those, of the versions handled.
HeardConverge ==
    \A u \in Uri, d \in 0..pos :
        LastRemoval(u, d) =>
            /\ \A a \in Heard(u) : \E j \in d + 1..Len(log) : PutOf(log[j], u) /\ a \in Recipients(log[j].record)
            /\ \A j \in d + 1..pos : PutOf(log[j], u) => Recipients(log[j].record) \subseteq Heard(u)

Convergence == RowsConverge /\ AccountsConverge /\ HeardConverge

\* A commit that nobody has handled yet takes nothing away from what converged.
LEMMA CommitConverges ==
    ASSUME IndexOK, Convergence, NEW e \in Event, Commit(e)
    PROVE  Convergence'
  <1>1. /\ log \in Seq(Event) /\ Len(log) \in Nat /\ pos = Len(log) /\ pos' = pos
        /\ Len(log') = Len(log) + 1 /\ log'[Len(log) + 1] = e
        /\ \A j \in 1..Len(log) : log'[j] = log[j]
        /\ UNCHANGED <<posts, notifications, hidden>>
    BY DEF IndexOK, Commit, tables
  <1>2. \A u : RowOf(u)' = RowOf(u) /\ Heard(u)' = Heard(u)
    BY <1>1 DEF RowOf, Heard
  <1>3. ASSUME NEW u \in Uri, \A j \in pos' + 1..Len(log') : ~Touch(log'[j], u)
        PROVE  \/ RowOf(u)' = {} /\ \A j \in 1..Len(log') : ~Touch(log'[j], u)
               \/ \E i \in 1..pos' : /\ Touch(log'[i], u) /\ \A j \in i + 1..Len(log') : ~Touch(log'[j], u)
                                     /\ RowOf(u)' = LeftBy(log'[i], u)
    <2>1. ~Touch(e, u)
      BY <1>1, <1>3
    <2>2. CASE RowOf(u) = {} /\ \A j \in 1..Len(log) : ~Touch(log[j], u)
      BY <1>1, <1>2, <2>1, <2>2
    <2>3. ASSUME NEW i \in 1..pos, Touch(log[i], u), \A j \in i + 1..Len(log) : ~Touch(log[j], u),
                 RowOf(u) = LeftBy(log[i], u)
          PROVE  /\ i \in 1..pos' /\ Touch(log'[i], u) /\ \A j \in i + 1..Len(log') : ~Touch(log'[j], u)
                 /\ RowOf(u)' = LeftBy(log'[i], u)
      BY <1>1, <1>2, <2>1, <2>3
    <2> QED
      BY <1>1, <2>2, <2>3 DEF Convergence, RowsConverge
  <1>4. RowsConverge'
    BY <1>3 DEF RowsConverge
  <1>5. ASSUME NEW a \in Author, \A j \in pos' + 1..Len(log') : ~AccountOf(log'[j], a)
        PROVE  a \in hidden' <=> \E i \in 1..pos' : /\ AccountOf(log'[i], a) /\ ~log'[i].active
                                               /\ \A j \in i + 1..Len(log') : ~AccountOf(log'[j], a)
    <2>1. ~AccountOf(e, a)
      BY <1>1, <1>5
    <2>2. a \in hidden <=> \E i \in 1..pos : /\ AccountOf(log[i], a) /\ ~log[i].active
                                            /\ \A j \in i + 1..Len(log) : ~AccountOf(log[j], a)
      BY <1>1 DEF Convergence, AccountsConverge
    <2>3. ASSUME NEW i \in 1..pos
          PROVE  /\ log'[i] = log[i]
                 /\ (\A j \in i + 1..Len(log') : ~AccountOf(log'[j], a))
                    <=> (\A j \in i + 1..Len(log) : ~AccountOf(log[j], a))
      BY <1>1, <2>1
    <2> QED
      BY <1>1, <2>2, <2>3
  <1>6. AccountsConverge'
    BY <1>5 DEF AccountsConverge
  <1>7. ASSUME NEW u \in Uri, NEW d \in 0..pos', LastRemoval(u, d)'
        PROVE  /\ \A a \in Heard(u)' : \E j \in d + 1..Len(log') : PutOf(log'[j], u) /\ a \in Recipients(log'[j].record)
               /\ \A j \in d + 1..pos' : PutOf(log'[j], u) => Recipients(log'[j].record) \subseteq Heard(u)'
    <2>1. LastRemoval(u, d)
      BY <1>1, <1>7 DEF LastRemoval
    <2>2. /\ \A a \in Heard(u) : \E j \in d + 1..Len(log) : PutOf(log[j], u) /\ a \in Recipients(log[j].record)
          /\ \A j \in d + 1..pos : PutOf(log[j], u) => Recipients(log[j].record) \subseteq Heard(u)
      BY <1>1, <2>1 DEF Convergence, HeardConverge
    <2>3. \A j \in d + 1..Len(log) : j \in d + 1..Len(log') /\ log'[j] = log[j]
      BY <1>1
    <2> QED
      BY <1>1, <1>2, <2>2, <2>3
  <1>8. HeardConverge'
    BY <1>7 DEF HeardConverge
  <1> QED
    BY <1>4, <1>6, <1>8 DEF Convergence

\* A subscription that starts again, from q.
LEMMA Spans ==
    ASSUME NEW n \in Nat, NEW p \in Nat, NEW q \in Nat, p <= n, q < p
    PROVE  /\ \A j \in p + 1..n : j \in q + 1..n
           /\ \A i \in 1..p : i \in 1..q \/ i \in q + 1..n
           /\ \A i \in 1..q : i \in 1..p
  OBVIOUS

\* Nor does a subscription that starts again earlier.
LEMMA ReplayConverges ==
    ASSUME IndexOK, Convergence, Replay
    PROVE  Convergence'
  <1>1. /\ pos \in 0..Len(log) /\ Len(log) \in Nat /\ pos' \in 0..pos - 1 /\ log' = log
        /\ UNCHANGED <<posts, notifications, hidden>>
    BY DEF IndexOK, TypeOK, Replay, tables
  <1>2. \A u : RowOf(u)' = RowOf(u) /\ Heard(u)' = Heard(u)
    BY <1>1 DEF RowOf, Heard
  <1>0. pos \in Nat /\ pos' \in Nat /\ Len(log) \in Nat /\ pos <= Len(log) /\ pos' < pos
    <2>1. pos \in Nat /\ pos <= Len(log)
      BY <1>1
    <2>2. pos' \in Nat /\ pos' <= pos - 1
      BY <1>1, <2>1
    <2>3. pos' < pos
      BY <2>1, <2>2
    <2> QED
      BY <1>1, <2>1, <2>2, <2>3
  <1>3. /\ \A j \in pos + 1..Len(log) : j \in pos' + 1..Len(log)
        /\ \A i \in 1..pos : i \in 1..pos' \/ i \in pos' + 1..Len(log)
        /\ \A i \in 1..pos' : i \in 1..pos
    BY <1>0, Spans
  <1>6. RowsConverge'
    <2> SUFFICES ASSUME NEW u \in Uri, \A j \in pos' + 1..Len(log) : ~Touch(log[j], u)
                 PROVE  \/ RowOf(u) = {} /\ \A j \in 1..Len(log) : ~Touch(log[j], u)
                        \/ \E i \in 1..pos' : /\ Touch(log[i], u) /\ \A j \in i + 1..Len(log) : ~Touch(log[j], u)
                                              /\ RowOf(u) = LeftBy(log[i], u)
      BY <1>1, <1>2 DEF RowsConverge
    <2> QED
      BY <1>3 DEF Convergence, RowsConverge
  <1>7. AccountsConverge'
    <2> SUFFICES ASSUME NEW a \in Author, \A j \in pos' + 1..Len(log) : ~AccountOf(log[j], a)
                 PROVE  a \in hidden <=> \E i \in 1..pos' : /\ AccountOf(log[i], a) /\ ~log[i].active
                                               /\ \A j \in i + 1..Len(log) : ~AccountOf(log[j], a)
      BY <1>1 DEF AccountsConverge
    <2>1. a \in hidden <=> \E i \in 1..pos : /\ AccountOf(log[i], a) /\ ~log[i].active
                                            /\ \A j \in i + 1..Len(log) : ~AccountOf(log[j], a)
      BY <1>3 DEF Convergence, AccountsConverge
    <2> QED
      BY <1>3, <2>1
  <1>8. HeardConverge'
    <2> SUFFICES ASSUME NEW u \in Uri, NEW d \in 0..pos', LastRemoval(u, d)
                 PROVE  /\ \A a \in Heard(u) : \E j \in d + 1..Len(log) : PutOf(log[j], u) /\ a \in Recipients(log[j].record)
                        /\ \A j \in d + 1..pos' : PutOf(log[j], u) => Recipients(log[j].record) \subseteq Heard(u)
      BY <1>1, <1>2 DEF HeardConverge, LastRemoval
    <2>1. d \in 0..pos /\ \A j \in d + 1..pos' : j \in d + 1..pos
      BY <1>1
    <2> QED
      BY <2>1 DEF Convergence, HeardConverge
  <1> QED
    BY <1>6, <1>7, <1>8 DEF Convergence

\* Handling the next event settles what it touches and leaves the rest.
LEMMA HandleConverges ==
    ASSUME IndexOK, Convergence, NEW now \in Time, Handle(now)
    PROVE  Convergence'
  <1>1. PICK e : e = log[pos + 1]
    OBVIOUS
  <1>2. /\ log \in Seq(Event) /\ Len(log) \in Nat /\ pos \in Nat /\ pos < Len(log) /\ pos' = pos + 1
        /\ log' = log /\ e \in Event /\ pos + 1 \in 1..Len(log)
    BY <1>1 DEF IndexOK, TypeOK, Handle
  <1>3. /\ e.op \in {"put", "delete", "account"}
        /\ e.op = "put" => e.record \in Record
        /\ e.op = "delete" => e.uri \in Uri
        /\ e.op = "account" => e.did = Other /\ e.active \in BOOLEAN
    BY <1>2, EventIs
  <1>4. /\ e.op = "put" => IndexPost(e.record, now)
        /\ e.op = "delete" => DeletePost(e.uri)
        /\ e.op = "account" => SetActive(e.did, e.active)
    BY <1>1 DEF Handle
  \* The row of a post.
  <1>5. ASSUME NEW u \in Uri
        PROVE  RowOf(u)' = IF Touch(e, u) THEN LeftBy(e, u) ELSE RowOf(u)
    <2>1. CASE e.op = "put"
      <3>1. PICK r \in Record : r = e.record
        BY <1>3, <2>1
      <3> DEFINE row == [uri |-> r.uri, parent |-> r.parent, root |-> r.root,
                         createdAt |-> IF r.createdAt = 0 THEN now ELSE r.createdAt]
      <3>2. posts' = {p \in posts : p.uri # r.uri} \cup {row}
        BY <1>4, <2>1, <3>1 DEF IndexPost
      <3>3. row.uri = r.uri /\ row.parent = r.parent /\ row.root = r.root
        OBVIOUS
      <3> HIDE DEF row
      <3>4. CASE u = r.uri
        <4>1. {p \in posts' : p.uri = u} = {row}
          BY <3>2, <3>3, <3>4
        <4>2. RowOf(u)' = {[uri |-> u, parent |-> r.parent, root |-> r.root]}
          BY <3>3, <3>4, <4>1 DEF RowOf
        <4> QED
          BY <2>1, <3>1, <3>4, <4>2 DEF Touch, PutOf, LeftBy
      <3>5. CASE u # r.uri
        <4>1. {p \in posts' : p.uri = u} = {p \in posts : p.uri = u}
          BY <3>2, <3>3, <3>5
        <4> QED
          BY <2>1, <3>1, <3>5, <4>1 DEF RowOf, Touch, PutOf, DeleteOf
      <3> QED
        BY <3>4, <3>5
    <2>2. CASE e.op = "delete"
      <3>1. posts' = {p \in posts : p.uri # e.uri}
        BY <1>4, <2>2 DEF DeletePost
      <3>2. CASE u = e.uri
        <4>1. {p \in posts' : p.uri = u} = {}
          BY <3>1, <3>2
        <4>2. RowOf(u)' = {}
          BY <4>1 DEF RowOf
        <4> QED
          BY <2>2, <3>2, <4>2 DEF Touch, DeleteOf, LeftBy
      <3>3. CASE u # e.uri
        <4>1. {p \in posts' : p.uri = u} = {p \in posts : p.uri = u}
          BY <3>1, <3>3
        <4> QED
          BY <2>2, <3>3, <4>1 DEF RowOf, Touch, PutOf, DeleteOf
      <3> QED
        BY <3>2, <3>3
    <2>3. CASE e.op = "account"
      BY <1>4, <2>3 DEF SetActive, RowOf, Touch, PutOf, DeleteOf
    <2> QED
      BY <1>3, <2>1, <2>2, <2>3
  \* Who heard of it.
  <1>6. ASSUME NEW u \in Uri
        PROVE  /\ DeleteOf(e, u) => Heard(u)' = {}
               /\ PutOf(e, u) => Heard(u)' = Heard(u) \cup Recipients(e.record)
               /\ ~Touch(e, u) => Heard(u)' = Heard(u)
    <2>1. CASE e.op = "put"
      <3>1. PICK r \in Record : r = e.record
        BY <1>3, <2>1
      <3>2. PICK new :
              /\ notifications' = notifications \cup new
              /\ \A n \in new : n.uri = r.uri /\ n.recipient \in NewRecipients(r)
              /\ \A a \in NewRecipients(r) : \E n \in new : n.recipient = a
        BY <1>4, <2>1, <3>1, Added
      <3>3. CASE u = r.uri
        <4>1. NewRecipients(r) = Recipients(r) \ Heard(u)
          BY <3>3 DEF NewRecipients, Heard
        <4>2. Heard(u)' = Heard(u) \cup NewRecipients(r)
          BY <3>2, <3>3 DEF Heard
        <4> QED
          BY <2>1, <3>1, <3>3, <4>1, <4>2 DEF Touch, PutOf, DeleteOf
      <3>4. CASE u # r.uri
        <4>1. {n \in notifications' : n.uri = u} = {n \in notifications : n.uri = u}
          BY <3>2, <3>4
        <4> QED
          BY <2>1, <3>1, <3>4, <4>1 DEF Heard, Touch, PutOf, DeleteOf
      <3> QED
        BY <3>3, <3>4
    <2>2. CASE e.op = "delete"
      <3>1. notifications' = {n \in notifications : n.uri # e.uri}
        BY <1>4, <2>2 DEF DeletePost, Removed
      <3> QED
        BY <2>2, <3>1 DEF Heard, Touch, PutOf, DeleteOf
    <2>3. CASE e.op = "account"
      BY <1>4, <2>3 DEF SetActive, Heard, Touch, PutOf, DeleteOf
    <2> QED
      BY <1>3, <2>1, <2>2, <2>3
  <1>7. ASSUME NEW u \in Uri, \A j \in pos + 2..Len(log) : ~Touch(log[j], u)
        PROVE  \/ RowOf(u)' = {} /\ \A j \in 1..Len(log) : ~Touch(log[j], u)
               \/ \E i \in 1..pos + 1 : /\ Touch(log[i], u) /\ \A j \in i + 1..Len(log) : ~Touch(log[j], u)
                                        /\ RowOf(u)' = LeftBy(log[i], u)
    <2>1. CASE Touch(e, u)
      <3>1. /\ pos + 1 \in 1..pos + 1 /\ Touch(log[pos + 1], u)
            /\ \A j \in pos + 1 + 1..Len(log) : ~Touch(log[j], u)
            /\ RowOf(u)' = LeftBy(log[pos + 1], u)
        BY <1>1, <1>2, <1>5, <1>7, <2>1
      <3> QED
        BY <3>1
    <2>2. CASE ~Touch(e, u)
      <3>1. \A j \in pos + 1..Len(log) : ~Touch(log[j], u)
        BY <1>1, <1>2, <1>7, <2>2
      <3>2. RowOf(u)' = RowOf(u)
        BY <1>5, <2>2
      <3>3. \A i \in 1..pos : i \in 1..pos + 1
        BY <1>2
      <3> QED
        BY <3>1, <3>2, <3>3 DEF Convergence, RowsConverge
    <2> QED
      BY <2>1, <2>2
  <1>8. RowsConverge'
    BY <1>2, <1>7 DEF RowsConverge
  <1>9. ASSUME NEW a \in Author, \A j \in pos + 2..Len(log) : ~AccountOf(log[j], a)
        PROVE  a \in hidden' <=> \E i \in 1..pos + 1 : /\ AccountOf(log[i], a) /\ ~log[i].active
                                                       /\ \A j \in i + 1..Len(log) : ~AccountOf(log[j], a)
    <2>1. CASE AccountOf(e, a)
      <3>1. a \in hidden' <=> ~e.active
        BY <1>3, <1>4, <2>1 DEF SetActive, AccountOf
      <3>2. pos + 1 \in 1..pos + 1 /\ \A j \in pos + 1 + 1..Len(log) : ~AccountOf(log[j], a)
        BY <1>2, <1>9
      <3>3. ASSUME NEW i \in 1..pos + 1, \A j \in i + 1..Len(log) : ~AccountOf(log[j], a)
            PROVE  i = pos + 1
        <4>1. i < pos + 1 => pos + 1 \in i + 1..Len(log)
          BY <1>2
        <4> QED
          BY <1>1, <1>2, <2>1, <3>3, <4>1
      <3> QED
        BY <1>1, <2>1, <3>1, <3>2, <3>3
    <2>2. CASE ~AccountOf(e, a)
      <3>1. \A j \in pos + 1..Len(log) : ~AccountOf(log[j], a)
        BY <1>1, <1>2, <1>9, <2>2
      <3>2. a \in hidden' <=> a \in hidden
        BY <1>3, <1>4, <2>2 DEF SetActive, AccountOf, IndexPost, DeletePost
      <3>3. \A i \in 1..pos + 1 : AccountOf(log[i], a) => i \in 1..pos
        BY <1>1, <1>2, <2>2
      <3>4. \A i \in 1..pos : i \in 1..pos + 1
        BY <1>2
      <3> QED
        BY <3>1, <3>2, <3>3, <3>4 DEF Convergence, AccountsConverge
    <2> QED
      BY <2>1, <2>2
  <1>10. AccountsConverge'
    BY <1>2, <1>9 DEF AccountsConverge
  <1>11. ASSUME NEW u \in Uri, NEW d \in 0..pos + 1, LastRemoval(u, d)
         PROVE  /\ \A a \in Heard(u)' : \E j \in d + 1..Len(log) : PutOf(log[j], u) /\ a \in Recipients(log[j].record)
                /\ \A j \in d + 1..pos + 1 : PutOf(log[j], u) => Recipients(log[j].record) \subseteq Heard(u)'
    <2>1. CASE DeleteOf(e, u)
      <3>1. d = pos + 1
        <4>1. d < pos + 1 => pos + 1 \in d + 1..Len(log)
          BY <1>2
        <4> QED
          BY <1>1, <1>2, <1>11, <2>1, <4>1 DEF LastRemoval
      <3>2. \A j : j \notin d + 1..pos + 1
        BY <1>2, <3>1
      <3> QED
        BY <1>6, <2>1, <3>2
    <2>2. CASE ~DeleteOf(e, u)
      <3>1. d \in 0..pos
        <4>1. d = pos + 1 => d # 0 /\ log[d] = e
          BY <1>1, <1>2
        <4> QED
          BY <1>2, <1>11, <2>2, <4>1 DEF LastRemoval
      <3>2. /\ \A a \in Heard(u) : \E j \in d + 1..Len(log) : PutOf(log[j], u) /\ a \in Recipients(log[j].record)
            /\ \A j \in d + 1..pos : PutOf(log[j], u) => Recipients(log[j].record) \subseteq Heard(u)
        BY <1>11, <3>1 DEF Convergence, HeardConverge
      <3>3. /\ pos + 1 \in d + 1..Len(log)
            /\ \A j \in d + 1..pos + 1 : j = pos + 1 \/ j \in d + 1..pos
        BY <1>2, <3>1
      <3>4. Heard(u) \subseteq Heard(u)'
        BY <1>6, <2>2 DEF Touch
      <3> QED
        BY <1>1, <1>6, <2>2, <3>2, <3>3, <3>4 DEF Touch
    <2> QED
      BY <2>1, <2>2
  <1>12. HeardConverge'
    BY <1>2, <1>11 DEF HeardConverge, LastRemoval
  <1> QED
    BY <1>8, <1>10, <1>12 DEF Convergence

\* The last removal of a post, or none.
LEMMA LastRemovalExists ==
    ASSUME IndexOK, NEW u \in Uri
    PROVE  \E d \in 0..Len(log) : LastRemoval(u, d)
  <1>1. Len(log) \in Nat
    BY DEF IndexOK
  <1>2. PICK n \in Nat : n = Len(log)
    BY <1>1
  <1> DEFINE D == {i \in Nat : i < n /\ DeleteOf(log[n - i], u)}
  <1>3. CASE \A j \in 1..n : ~DeleteOf(log[j], u)
    BY <1>2, <1>3 DEF LastRemoval
  <1>4. CASE \E j \in 1..n : DeleteOf(log[j], u)
    <2>1. PICK j \in 1..n : DeleteOf(log[j], u)
      BY <1>4
    <2>2. n - j \in D
      <3>1. n - (n - j) = j
        OBVIOUS
      <3> QED
        BY <2>1, <3>1
    <2>3. PICK i \in D : \A k \in D : i <= k
      <3>1. D \in SUBSET Nat /\ D # {}
        BY <2>2
      <3> QED
        BY <3>1, Least
    <2>4. ASSUME NEW k \in n - i + 1..n PROVE ~DeleteOf(log[k], u)
      <3>1. n - (n - k) = k /\ n - k \in Nat /\ n - k < i /\ i \in Nat /\ i < n
        BY <2>3
      <3>2. n - k \notin D
        BY <2>3, <3>1
      <3> QED
        BY <3>1, <3>2
    <2>5. n - i \in 0..n /\ DeleteOf(log[n - i], u)
      BY <2>3
    <2> QED
      BY <1>2, <2>4, <2>5 DEF LastRemoval
  <1> QED
    BY <1>3, <1>4

\* Where nothing is left to be handled, all of the tables have converged.
LEMMA ConvergesAtTheEnd ==
    ASSUME IndexOK, Convergence
    PROVE  Converged
  <1> SUFFICES ASSUME pos = Len(log) PROVE Converged
    BY DEF Converged
  <1>1. Len(log) \in Nat /\ log \in Seq(Event) /\ \A j : j \notin pos + 1..Len(log)
    BY DEF IndexOK
  <1>2. ASSUME NEW u \in Uri
        PROVE  {[uri |-> p.uri, parent |-> p.parent, root |-> p.root] :
                  p \in {r \in posts : r.uri = u}} =
               {[uri |-> u, parent |-> log[i].record.parent, root |-> log[i].record.root] :
                  i \in {j \in {l \in 1..Len(log) : /\ Touch(log[l], u)
                                                    /\ \A k \in (l + 1)..Len(log) : ~Touch(log[k], u)} :
                           log[j].op = "put"}}
    <2> DEFINE L == {l \in 1..Len(log) : Touch(log[l], u) /\ \A k \in (l + 1)..Len(log) : ~Touch(log[k], u)}
    <2>1. CASE RowOf(u) = {} /\ \A j \in 1..Len(log) : ~Touch(log[j], u)
      <3>1. L = {}
        BY <2>1
      <3> QED
        BY <2>1, <3>1 DEF RowOf
    <2>2. ASSUME NEW i \in 1..Len(log), Touch(log[i], u), \A j \in i + 1..Len(log) : ~Touch(log[j], u),
                 RowOf(u) = LeftBy(log[i], u)
          PROVE  RowOf(u) = {[uri |-> u, parent |-> log[l].record.parent, root |-> log[l].record.root] :
                               l \in {j \in L : log[j].op = "put"}}
      <3>1. L = {i}
        <4>1. i \in L
          BY <2>2
        <4>2. ASSUME NEW l \in L PROVE l = i
          <5>1. l \in 1..Len(log) /\ Touch(log[l], u) /\ \A k \in l + 1..Len(log) : ~Touch(log[k], u)
            OBVIOUS
          <5> HIDE DEF L
          <5>2. l < i => i \in l + 1..Len(log)
            BY <1>1, <5>1
          <5>3. i < l => l \in i + 1..Len(log)
            BY <1>1, <5>1
          <5> QED
            BY <1>1, <2>2, <5>1, <5>2, <5>3
        <4> QED
          BY <4>1, <4>2
      <3> HIDE DEF L
      <3>2. CASE log[i].op = "put"
        <4>1. {j \in L : log[j].op = "put"} = {i}
          BY <3>1, <3>2
        <4> QED
          BY <2>2, <3>2, <4>1 DEF LeftBy
      <3>3. CASE log[i].op # "put"
        <4>1. {j \in L : log[j].op = "put"} = {}
          BY <3>1, <3>3
        <4> QED
          BY <2>2, <3>3, <4>1 DEF LeftBy
      <3> QED
        BY <3>2, <3>3
    <2>3. \/ RowOf(u) = {} /\ \A j \in 1..Len(log) : ~Touch(log[j], u)
          \/ \E i \in 1..pos : /\ Touch(log[i], u) /\ \A j \in i + 1..Len(log) : ~Touch(log[j], u)
                               /\ RowOf(u) = LeftBy(log[i], u)
      BY <1>1 DEF Convergence, RowsConverge
    <2>4. RowOf(u) = {[uri |-> u, parent |-> log[l].record.parent, root |-> log[l].record.root] :
                        l \in {j \in L : log[j].op = "put"}}
      <3>1. CASE RowOf(u) = {} /\ \A j \in 1..Len(log) : ~Touch(log[j], u)
        BY <2>1, <3>1 DEF RowOf
      <3> QED
        BY <2>2, <2>3, <3>1
    <2> QED
      BY <2>4 DEF RowOf
  <1>3. ASSUME NEW u \in Uri
        PROVE  {n.recipient : n \in {m \in notifications : m.uri = u}} =
                 UNION {Recipients(r) : r \in
                    {log[i].record : i \in {j \in 1..Len(log) :
                       /\ PutOf(log[j], u)
                       /\ \A d \in {l \in 1..Len(log) : /\ DeleteOf(log[l], u)
                                                        /\ \A k \in (l + 1)..Len(log) : ~DeleteOf(log[k], u)} : d < j}}}
    <2> DEFINE L == {l \in 1..Len(log) : DeleteOf(log[l], u) /\ \A k \in (l + 1)..Len(log) : ~DeleteOf(log[k], u)}
               V == {log[i].record : i \in {j \in 1..Len(log) : PutOf(log[j], u) /\ \A d \in L : d < j}}
    <2>1. PICK d \in 0..Len(log) : LastRemoval(u, d)
      BY LastRemovalExists
    <2>2. \A l \in L : l = d
      <3> SUFFICES ASSUME NEW l \in 1..Len(log), DeleteOf(log[l], u), \A k \in (l + 1)..Len(log) : ~DeleteOf(log[k], u)
                   PROVE  l = d
        OBVIOUS
      <3>1. /\ l < d => d \in l + 1..Len(log)
            /\ d < l => l \in d + 1..Len(log)
            /\ d # 0 \/ d < l
        BY <1>1, <2>1
      <3> QED
        BY <1>1, <2>1, <3>1 DEF LastRemoval
    <2>3. d = 0 \/ d \in L
      BY <1>1, <2>1 DEF LastRemoval
    <2>4. \A j \in 1..Len(log) : (\A l \in L : l < j) <=> j \in d + 1..Len(log)
      <3> HIDE DEF L
      <3> QED
        BY <1>1, <2>1, <2>2, <2>3
    <2>5. /\ \A a \in Heard(u) : \E j \in d + 1..Len(log) : PutOf(log[j], u) /\ a \in Recipients(log[j].record)
          /\ \A j \in d + 1..Len(log) : PutOf(log[j], u) => Recipients(log[j].record) \subseteq Heard(u)
      BY <1>1, <2>1 DEF Convergence, HeardConverge
    <2> HIDE DEF L
    <2>6. \A j \in d + 1..Len(log) : j \in 1..Len(log)
      BY <1>1, <2>1
    <2>7. Heard(u) \subseteq UNION {Recipients(r) : r \in V}
      <3> SUFFICES ASSUME NEW a \in Heard(u) PROVE \E r \in V : a \in Recipients(r)
        OBVIOUS
      <3>1. PICK j \in d + 1..Len(log) : PutOf(log[j], u) /\ a \in Recipients(log[j].record)
        BY <2>5
      <3>2. log[j].record \in V
        BY <2>4, <2>6, <3>1
      <3> QED
        BY <3>1, <3>2
    <2>8. ASSUME NEW r \in V PROVE Recipients(r) \subseteq Heard(u)
      <3>1. PICK j \in 1..Len(log) : PutOf(log[j], u) /\ (\A l \in L : l < j) /\ r = log[j].record
        OBVIOUS
      <3>2. j \in d + 1..Len(log)
        BY <2>4, <3>1
      <3> QED
        BY <2>5, <3>1, <3>2
    <2> HIDE DEF V
    <2>9. Heard(u) = UNION {Recipients(r) : r \in V}
      BY <2>7, <2>8
    <2> QED
      BY <2>9 DEF Heard, V, L
  <1>4. ASSUME NEW a \in Author
        PROVE  a \in hidden <=>
                 \E i \in {l \in 1..Len(log) : /\ AccountOf(log[l], a)
                                               /\ \A j \in (l + 1)..Len(log) : ~AccountOf(log[j], a)} : ~log[i].active
    <2>1. a \in hidden <=> \E i \in 1..Len(log) : /\ AccountOf(log[i], a) /\ ~log[i].active
                                                 /\ \A j \in i + 1..Len(log) : ~AccountOf(log[j], a)
      BY <1>1 DEF Convergence, AccountsConverge
    <2> QED
      BY <2>1
  <1> QED
    BY <1>2, <1>3, <1>4 DEF Converged, LastOf, PutOf, DeleteOf, Touch, AccountOf

\* Nothing has happened yet.
LEMMA ConvergenceInit == Init => Convergence
  <1> SUFFICES ASSUME Init PROVE Convergence
    OBVIOUS
  <1>1. log = <<>> /\ Len(log) = 0 /\ pos = 0 /\ posts = {} /\ notifications = {} /\ hidden = {}
    BY DEF Init
  <1>2. \A j : j \notin 1..0
    OBVIOUS
  <1>3. \A u : RowOf(u) = {} /\ Heard(u) = {}
    BY <1>1 DEF RowOf, Heard
  <1> QED
    BY <1>1, <1>2, <1>3 DEF Convergence, RowsConverge, AccountsConverge, HeardConverge

\* Every step keeps what converged.
LEMMA ConvergenceStep ==
    ASSUME IndexOK, Convergence, [Next]_vars
    PROVE  Convergence'
  <1>1. ASSUME UNCHANGED <<log, pos, posts, notifications, hidden>>
        PROVE  Convergence'
    BY <1>1 DEF Convergence, RowsConverge, AccountsConverge, HeardConverge, RowOf, Heard, LastRemoval
  <1>2. CASE \E e \in Event : Commit(e)
    BY <1>2, CommitConverges
  <1>3. CASE \E now \in Time : Handle(now)
    BY <1>3, HandleConverges
  <1>4. CASE Replay
    BY <1>4, ReplayConverges
  <1>5. CASE \E q \in Query : Begin(q)
    BY <1>1, <1>5 DEF Begin, tables
  <1>6. CASE NextPage
    BY <1>1, <1>6 DEF NextPage, tables
  <1>7. CASE UNCHANGED vars
    BY <1>1, <1>7 DEF vars, tables
  <1> QED
    BY <1>2, <1>3, <1>4, <1>5, <1>6, <1>7 DEF Next

\* Whatever is committed, removed and read again from an earlier place, once all of it is handled the
\* tables are what the log says.
THEOREM TablesConverge == Spec => []Converged
  <1>1. Init => Convergence
    BY ConvergenceInit
  <1>2. IndexOK /\ Convergence /\ [Next]_vars => Convergence'
    BY ConvergenceStep
  <1>3. IndexOK /\ Convergence => Converged
    BY ConvergesAtTheEnd
  <1>4. PagesInv => IndexOK
    BY DEF PagesInv
  <1> QED
    BY <1>1, <1>2, <1>3, <1>4, PagesInvariant, PTL DEF Spec

-----------------------------------------------------------------------------
(* Threads *)

\* Induction up to a bound, for a set of numbers.
LEMMA Induct ==
    ASSUME NEW N \in Nat, NEW T, 0 \in T, \A n \in 1..N : n - 1 \in T => n \in T
    PROVE  0..N \subseteq T
  <1> DEFINE S == {n \in Nat : n <= N /\ n \notin T}
  <1>1. ASSUME S # {} PROVE FALSE
    <2>1. PICK n \in S : \A m \in S : n <= m
      BY <1>1, Least
    <2>2. n # 0 /\ n \in Nat /\ n <= N /\ n \notin T
      BY <2>1
    <2>3. n \in 1..N /\ n - 1 \in Nat /\ n - 1 <= N /\ ~(n <= n - 1)
      BY <2>2
    <2>4. n - 1 \in T
      BY <2>1, <2>3
    <2> QED
      BY <2>2, <2>3, <2>4
  <1> QED
    BY <1>1

\* A function that is applied again and again.
Repeats(g, N, S, F, e) == g \in [0..N -> S] /\ g[0] = e /\ \A n \in 1..N : g[n] = F[g[n - 1]]

\* It exists.
LEMMA Iterates ==
    ASSUME NEW N \in Nat, NEW S, NEW F \in [S -> S], NEW e \in S
    PROVE  \E g : Repeats(g, N, S, F, e)
  <1> DEFINE Can(m) == \E g : Repeats(g, m, S, F, e)
             T == {m \in 0..N : Can(m)}
  <1>1. Can(0)
    <2>1. [n \in 0..0 |-> e] \in [0..0 -> S] /\ [n \in 0..0 |-> e][0] = e /\ \A n : n \notin 1..0
      OBVIOUS
    <2> QED
      BY <2>1 DEF Repeats
  <1>2. ASSUME NEW m \in 1..N, Can(m - 1)
        PROVE  Can(m)
    <2>0. PICK g : Repeats(g, m - 1, S, F, e)
      BY <1>2
    <2>1. g \in [0..m - 1 -> S] /\ g[0] = e /\ \A n \in 1..m - 1 : g[n] = F[g[n - 1]]
      BY <2>0 DEF Repeats
    <2> DEFINE h == [n \in 0..m |-> IF n = m THEN F[g[m - 1]] ELSE g[n]]
    <2>2. h \in [0..m -> S]
      BY <2>1
    <2>3. h[0] = e
      BY <2>1
    <2>4. ASSUME NEW n \in 1..m PROVE h[n] = F[h[n - 1]]
      <3>1. n - 1 \in 0..m /\ n - 1 # m /\ h[n - 1] = g[n - 1]
        OBVIOUS
      <3>2. CASE n = m
        BY <3>1, <3>2
      <3>3. CASE n # m
        <4>1. n \in 1..m - 1 /\ h[n] = g[n]
          BY <3>3
        <4> QED
          BY <2>1, <3>1, <4>1
      <3> QED
        BY <3>2, <3>3
    <2> QED
      BY <2>2, <2>3, <2>4 DEF Repeats
  <1> HIDE DEF Can
  <1>3. 0..N \subseteq T
    <2>1. 0 \in T
      BY <1>1
    <2>2. \A n \in 1..N : n - 1 \in T => n \in T
      BY <1>2
    <2> HIDE DEF T
    <2> QED
      BY <2>1, <2>2, Induct
  <1> QED
    BY <1>3 DEF Can

\* A table of posts.
TableOK(P) ==
    /\ IsFiniteSet(P)
    /\ \A p, q \in P : p.uri = q.uri => p = q
    /\ None \notin Standing(P)

\* Posts and their URIs go together.
LEMMA StandingIs ==
    ASSUME NEW P, TableOK(P)
    PROVE  /\ Cardinality(P) \in Nat
           /\ IsFiniteSet(Standing(P)) /\ Cardinality(Standing(P)) <= Cardinality(P)
           /\ \A x \in Standing(P) : PostAt(P, x) \in P /\ PostAt(P, x).uri = x
           /\ \A p \in P : p.uri \in Standing(P) /\ PostAt(P, p.uri) = p
  <1> DEFINE f == [p \in P |-> p.uri]
  <1>1. f \in Surjection(P, Standing(P))
    BY DEF Surjection, Standing
  <1>2. IsFiniteSet(Standing(P)) /\ Cardinality(Standing(P)) <= Cardinality(P)
    BY <1>1, FS_Surjection DEF TableOK
  <1>3. \A x \in Standing(P) : PostAt(P, x) \in P /\ PostAt(P, x).uri = x
    BY DEF Standing, PostAt
  <1>4. \A p \in P : p.uri \in Standing(P)
    BY DEF Standing
  <1> QED
    BY <1>2, <1>3, <1>4, FS_CardinalityType DEF TableOK

\* The children of a post are what the references say.
LEMMA ChildrenAre ==
    ASSUME NEW P, TableOK(P), NEW u \in Standing(P), NEW v \in Standing(P)
    PROVE  Children(P, u, v) =
             {r \in Standing(P) : r # u /\ PostAt(P, r).root = u /\ Over(P, r) = v}
  <1>1. v # None
    BY DEF TableOK
  <1>2. ASSUME NEW r \in Children(P, u, v)
        PROVE  r \in Standing(P) /\ r # u /\ PostAt(P, r).root = u /\ Over(P, r) = v
    <2>1. PICK p \in P : /\ p.uri = u \/ p.root = u
                         /\ p.uri # u /\ (p.parent = v \/ (p.parent = None /\ v = u)) /\ r = p.uri
      BY <1>2 DEF Children, Rows
    <2>2. r \in Standing(P) /\ PostAt(P, r) = p
      BY <2>1, StandingIs
    <2> QED
      BY <1>1, <2>1, <2>2 DEF Over, ParentOf
  <1>3. ASSUME NEW r \in Standing(P), r # u, PostAt(P, r).root = u, Over(P, r) = v
        PROVE  r \in Children(P, u, v)
    <2>1. PICK p \in P : p = PostAt(P, r) /\ p.uri = r
      BY StandingIs
    <2> QED
      BY <1>3, <2>1 DEF Children, Rows, Over, ParentOf
  <1> QED
    BY <1>2, <1>3

\* The levels of a tree are what they are defined by.
LEMMA LevelsAre ==
    ASSUME NEW P, TableOK(P), NEW u \in Standing(P)
    PROVE  LET N == Cardinality(P)  level == Levels(P, u) IN
           /\ level \in [0..N -> SUBSET Standing(P)]
           /\ level[0] = {u}
           /\ \A n \in 1..N : level[n] = UNION {Children(P, u, v) : v \in level[n - 1]}
  <1>1. PICK N \in Nat : N = Cardinality(P)
    BY StandingIs
  <1> DEFINE S == SUBSET Standing(P)
             F == [L \in S |-> UNION {Children(P, u, v) : v \in L}]
             Is(g) == g = [n \in 0..N |-> IF n = 0 THEN {u} ELSE UNION {Children(P, u, v) : v \in g[n - 1]}]
             c == CHOOSE g : Is(g)
  <1>2. Levels(P, u) = c
    BY <1>1 DEF Levels
  <1>3. F \in [S -> S]
    <2>1. \A L \in S : UNION {Children(P, u, v) : v \in L} \in S
      BY ChildrenAre
    <2> QED
      BY <2>1
  <1>4. {u} \in S
    OBVIOUS
  <1> HIDE DEF F
  <1>9. PICK g : Repeats(g, N, S, F, {u})
    <2> HIDE DEF S
    <2> QED
      BY <1>3, <1>4, Iterates
  <1>5. g \in [0..N -> S] /\ g[0] = {u} /\ \A n \in 1..N : g[n] = F[g[n - 1]]
    BY <1>9 DEF Repeats
  <1>6. Is(g)
    <2>1. ASSUME NEW n \in 0..N
          PROVE  g[n] = IF n = 0 THEN {u} ELSE UNION {Children(P, u, v) : v \in g[n - 1]}
      <3>1. CASE n = 0
        BY <1>5, <3>1
      <3>2. CASE n # 0
        <4>1. n \in 1..N /\ n - 1 \in 0..N
          BY <3>2
        <4>2. g[n - 1] \in S
          BY <1>5, <4>1
        <4> QED
          BY <1>5, <3>2, <4>1, <4>2 DEF F
      <3> QED
        BY <3>1, <3>2
    <2> DEFINE h == [n \in 0..N |-> IF n = 0 THEN {u} ELSE UNION {Children(P, u, v) : v \in g[n - 1]}]
    <2>2. \A n \in 0..N : g[n] = h[n]
      BY <2>1
    <2>3. DOMAIN g = 0..N /\ DOMAIN h = 0..N /\ g = [n \in DOMAIN g |-> g[n]] /\ h = [n \in DOMAIN h |-> h[n]]
      BY <1>5
    <2> HIDE DEF h
    <2>4. g = h
      BY <2>2, <2>3
    <2> QED
      BY <2>4 DEF h
  <1>7. Is(c)
    <2> HIDE DEF Is
    <2> QED
      BY <1>6
  <1> HIDE DEF c
  <1>8. DOMAIN c = 0..N /\ c[0] = {u} /\ \A n \in 1..N : c[n] = UNION {Children(P, u, v) : v \in c[n - 1]}
    <2>1. \A n \in 0..N : c[n] = IF n = 0 THEN {u} ELSE UNION {Children(P, u, v) : v \in c[n - 1]}
      BY <1>7
    <2>2. DOMAIN c = 0..N
      BY <1>7
    <2>3. 0 \in 0..N /\ \A n \in 1..N : n \in 0..N /\ n # 0
      OBVIOUS
    <2> HIDE DEF Is
    <2> QED
      BY <2>1, <2>2, <2>3
  <1>11. \A n \in 0..N : c[n] \in S
    <2> DEFINE T == {n \in 0..N : c[n] \in S}
    <2>1. 0 \in T
      BY <1>4, <1>8
    <2>2. \A n \in 1..N : n - 1 \in T => n \in T
      <3> SUFFICES ASSUME NEW n \in 1..N, c[n - 1] \in S PROVE c[n] \in S
        OBVIOUS
      <3>1. c[n] = F[c[n - 1]]
        BY <1>8 DEF F
      <3> QED
        BY <1>3, <3>1
    <2> HIDE DEF T
    <2>3. 0..N \subseteq T
      BY <2>1, <2>2, Induct
    <2> QED
      BY <2>3 DEF T
  <1>10. c \in [0..N -> S]
    <2>1. c = [n \in 0..N |-> c[n]]
      <3> HIDE DEF S
      <3> QED
        BY <1>7, <1>8
    <2> QED
      BY <1>11, <2>1
  <1> QED
    BY <1>1, <1>2, <1>8, <1>10

\* No level of a tree is as deep as the table is large.
LEMMA LevelsEnd ==
    ASSUME NEW P, TableOK(P), NEW u \in Standing(P)
    PROVE  LET N == Cardinality(P)  level == Levels(P, u) IN
           /\ \A n \in 1..N : level[n] = {r \in Standing(P) : /\ r # u /\ PostAt(P, r).root = u
                                                              /\ Over(P, r) \in level[n - 1]}
           /\ \A m, n \in 0..N : m # n => level[m] \cap level[n] = {}
           /\ level[N] = {}
  <1>1. PICK N \in Nat : N = Cardinality(P)
    BY StandingIs
  <1>2. PICK level : level = Levels(P, u)
    OBVIOUS
  <1>3. /\ level \in [0..N -> SUBSET Standing(P)] /\ level[0] = {u}
        /\ \A n \in 1..N : level[n] = UNION {Children(P, u, v) : v \in level[n - 1]}
    BY <1>1, <1>2, LevelsAre
  <1>4. ASSUME NEW n \in 1..N
        PROVE  level[n] = {r \in Standing(P) : r # u /\ PostAt(P, r).root = u /\ Over(P, r) \in level[n - 1]}
    <2>1. level[n - 1] \in SUBSET Standing(P) /\ level[n] = UNION {Children(P, u, v) : v \in level[n - 1]}
      BY <1>3
    <2>2. \A v \in level[n - 1] :
            Children(P, u, v) = {r \in Standing(P) : r # u /\ PostAt(P, r).root = u /\ Over(P, r) = v}
      BY <2>1, ChildrenAre
    <2> QED
      BY <2>1, <2>2
  <1>5. \A m, n \in 0..N : m < n => level[m] \cap level[n] = {}
    <2> DEFINE T == {m \in 0..N : \A n \in 0..N : m < n => level[m] \cap level[n] = {}}
    <2>1. 0 \in T
      <3>1. ASSUME NEW n \in 0..N, 0 < n PROVE u \notin level[n]
        BY <1>4, <3>1
      <3> QED
        BY <1>3, <3>1
    <2>2. ASSUME NEW m \in 1..N, m - 1 \in T PROVE m \in T
      <3> SUFFICES ASSUME NEW n \in 0..N, m < n, NEW x \in level[m] \cap level[n] PROVE FALSE
        OBVIOUS
      <3>1. n \in 1..N /\ n - 1 \in 0..N /\ m - 1 < n - 1
        OBVIOUS
      <3>2. Over(P, x) \in level[m - 1] \cap level[n - 1]
        BY <1>4, <3>1
      <3> QED
        BY <2>2, <3>1, <3>2
    <2> HIDE DEF T
    <2>3. 0..N \subseteq T
      BY <2>1, <2>2, Induct
    <2> QED
      BY <2>3 DEF T
  <1>6. \A m, n \in 0..N : m # n => level[m] \cap level[n] = {}
    <2> SUFFICES ASSUME NEW m \in 0..N, NEW n \in 0..N, m # n PROVE level[m] \cap level[n] = {}
      OBVIOUS
    <2>1. m < n \/ n < m
      OBVIOUS
    <2> QED
      BY <1>5, <2>1
  <1>7. ASSUME level[N] # {} PROVE FALSE
    <2> DEFINE T == {k \in 0..N : level[N - k] # {}}
    <2>1. 0 \in T
      BY <1>7
    <2>2. ASSUME NEW k \in 1..N, k - 1 \in T PROVE k \in T
      <3>1. N - k + 1 \in 1..N /\ N - (k - 1) = N - k + 1 /\ (N - k + 1) - 1 = N - k
        OBVIOUS
      <3>2. PICK x : x \in level[N - k + 1]
        BY <2>2, <3>1
      <3>3. Over(P, x) \in level[N - k]
        BY <1>4, <3>1, <3>2
      <3> QED
        BY <3>3
    <2> HIDE DEF T
    <2>3. 0..N \subseteq T
      BY <2>1, <2>2, Induct
    <2>4. \A n \in 0..N : level[n] # {}
      <3> SUFFICES ASSUME NEW n \in 0..N PROVE level[n] # {}
        OBVIOUS
      <3>1. N - n \in T /\ N - (N - n) = n
        BY <2>3
      <3> QED
        BY <3>1 DEF T
    <2> DEFINE f == [n \in 0..N |-> CHOOSE x : x \in level[n]]
    <2>5. \A n \in 0..N : f[n] \in level[n]
      BY <2>4
    <2>6. f \in [0..N -> Standing(P)]
      BY <1>3, <2>5
    <2> HIDE DEF f
    <2>7. IsFiniteSet(0..N) /\ Cardinality(0..N) = N + 1
      BY FS_Interval
    <2>8. Cardinality(Standing(P)) < Cardinality(0..N)
      <3>1. Cardinality(Standing(P)) \in Nat
        BY StandingIs, FS_CardinalityType
      <3> QED
        BY <1>1, <2>7, <3>1, StandingIs
    <2>9. PICK m, n \in 0..N : m # n /\ f[m] = f[n]
      BY <2>6, <2>7, <2>8, StandingIs, FS_PigeonHole
    <2> QED
      BY <1>6, <2>5, <2>9
  <1> QED
    BY <1>1, <1>2, <1>4, <1>6, <1>7

\* The rows that a tree is made of are a table, of which the references are the same.
LEMMA RowsAre ==
    ASSUME NEW P, TableOK(P), NEW u \in Standing(P), NEW Q, Q = Rows(P, u)
    PROVE  /\ TableOK(Q)
           /\ Standing(Q) = {x \in Standing(P) : x = u \/ PostAt(P, x).root = u}
           /\ \A x \in Standing(Q) : PostAt(Q, x) = PostAt(P, x) /\ Over(Q, x) = Over(P, x)
  <1>1. Q \in SUBSET P /\ \A p \in P : p \in Q <=> p.uri = u \/ p.root = u
    BY DEF Rows
  <1>2. IsFiniteSet(Q)
    BY <1>1, FS_Subset DEF TableOK
  <1>3. Standing(Q) = {x \in Standing(P) : x = u \/ PostAt(P, x).root = u}
    <2>1. ASSUME NEW x \in Standing(Q) PROVE x \in Standing(P) /\ (x = u \/ PostAt(P, x).root = u)
      <3>1. PICK p \in Q : p.uri = x
        BY DEF Standing
      <3>2. p \in P /\ PostAt(P, x) = p /\ x \in Standing(P)
        BY <1>1, <3>1, StandingIs
      <3> QED
        BY <1>1, <3>1, <3>2
    <2>2. ASSUME NEW x \in Standing(P), x = u \/ PostAt(P, x).root = u PROVE x \in Standing(Q)
      <3>1. PostAt(P, x) \in P /\ PostAt(P, x).uri = x
        BY StandingIs
      <3>2. PostAt(P, x) \in Q
        BY <1>1, <2>2, <3>1
      <3> QED
        BY <3>1, <3>2 DEF Standing
    <2> QED
      BY <2>1, <2>2
  <1>4. TableOK(Q)
    BY <1>1, <1>2, <1>3 DEF TableOK
  <1>5. ASSUME NEW x \in Standing(Q) PROVE PostAt(Q, x) = PostAt(P, x)
    <2>1. PICK p \in Q : p.uri = x
      BY DEF Standing
    <2>2. p \in P
      BY <1>1
    <2> QED
      BY <1>4, <2>1, <2>2, StandingIs
  <1> QED
    BY <1>3, <1>4, <1>5 DEF Over, ParentOf

\* What is below a post by some of the posts is below it by all of them.
LEMMA BelowByRows ==
    ASSUME NEW P, TableOK(P), NEW u \in Standing(P), NEW Q, Q = Rows(P, u)
    PROVE  /\ AllBelow(Q, u) \subseteq AllBelow(P, u)
           /\ (\A r \in AllBelow(P, u) : PostAt(P, r).root = u) => AllBelow(P, u) \subseteq AllBelow(Q, u)
  <1>1. /\ Standing(Q) = {x \in Standing(P) : x = u \/ PostAt(P, x).root = u}
        /\ \A x \in Standing(Q) : Over(Q, x) = Over(P, x)
    BY RowsAre
  <1>2. ASSUME NEW r \in AllBelow(Q, u) PROVE r \in AllBelow(P, u)
    <2>1. r \in Standing(Q) /\ r # u /\ Below(Q, r, u)
      BY DEF AllBelow, Below
    <2>2. ASSUME NEW above \in SUBSET Standing(P), r \in above,
                 \A x \in above \ {u} : Over(P, x) \in Standing(P) => Over(P, x) \in above
          PROVE  u \in above
      <3> DEFINE A == above \cap Standing(Q)
      <3>1. A \in SUBSET Standing(Q) /\ r \in A
        BY <2>1, <2>2
      <3>2. \A x \in A \ {u} : Over(Q, x) \in Standing(Q) => Over(Q, x) \in A
        BY <1>1, <2>2
      <3> HIDE DEF A
      <3>3. u \in A
        BY <2>1, <3>1, <3>2 DEF Below
      <3> QED
        BY <3>3 DEF A
    <2> QED
      BY <1>1, <2>1, <2>2 DEF AllBelow, Below
  <1>3. ASSUME \A r \in AllBelow(P, u) : PostAt(P, r).root = u, NEW r \in AllBelow(P, u)
        PROVE  r \in AllBelow(Q, u)
    <2>1. r \in Standing(Q) /\ r # u /\ Below(P, r, u)
      BY <1>1, <1>3 DEF AllBelow, Below
    <2>2. ASSUME NEW above \in SUBSET Standing(Q), r \in above, u \notin above,
                 \A x \in above \ {u} : Over(Q, x) \in Standing(Q) => Over(Q, x) \in above
          PROVE  FALSE
      \* With the posts that are not below u, what is above r never comes to u.
      <3> DEFINE A == above \cup {x \in Standing(P) \ {u} : ~Below(P, x, u)}
      <3>1. A \in SUBSET Standing(P) /\ r \in A /\ u \notin A
        BY <1>1, <2>2
      <3>2. ASSUME NEW x \in A, Over(P, x) \in Standing(P) PROVE Over(P, x) \in A
        <4>1. x \in Standing(P) /\ x # u
          BY <3>1
        <4>2. CASE Over(P, x) # u /\ ~Below(P, Over(P, x), u)
          BY <3>2, <4>2
        <4>3. CASE Over(P, x) = u \/ Below(P, Over(P, x), u)
          <5>1. Below(P, x, u)
            BY <3>2, <4>1, <4>3 DEF Below
          <5>2. x \in above
            BY <5>1
          <5>3. Over(P, x) \in Standing(Q)
            BY <1>1, <1>3, <3>2, <4>3 DEF AllBelow
          <5>4. Over(Q, x) \in above
            BY <1>1, <2>2, <4>1, <5>2, <5>3
          <5> QED
            BY <1>1, <2>2, <5>2, <5>4
        <4> QED
          BY <4>2, <4>3
      <3> HIDE DEF A
      <3> QED
        BY <2>1, <3>1, <3>2 DEF Below
    <2> QED
      BY <2>1, <2>2 DEF AllBelow, Below
  <1> QED
    BY <1>2, <1>3

\* A tree is what is below its post by the posts that name it as root: what is in a level comes to it
\* by its references, and those that are in no level lead to one another only.
LEMMA TreeIs ==
    ASSUME NEW P, TableOK(P), NEW u \in Standing(P)
    PROVE  Descendants(P, u) = AllBelow(Rows(P, u), u)
  <1>1. PICK N \in Nat : N = Cardinality(P)
    BY StandingIs
  <1>2. PICK level : level = Levels(P, u)
    OBVIOUS
  <1>3. level \in [0..N -> SUBSET Standing(P)] /\ level[0] = {u}
    BY <1>1, <1>2, LevelsAre
  <1>4. /\ \A n \in 1..N : level[n] = {r \in Standing(P) : r # u /\ PostAt(P, r).root = u /\ Over(P, r) \in level[n - 1]}
        /\ level[N] = {}
    BY <1>1, <1>2, LevelsEnd
  <1>5. Descendants(P, u) = UNION {level[n] : n \in 1..N}
    BY <1>1, <1>2 DEF Descendants
  <1>6. PICK Q : Q = Rows(P, u)
    OBVIOUS
  <1>7. /\ Standing(Q) = {x \in Standing(P) : x = u \/ PostAt(P, x).root = u}
        /\ \A x \in Standing(Q) : Over(Q, x) = Over(P, x)
    BY <1>6, RowsAre
  <1>8. \A n \in 0..N : level[n] \subseteq Standing(Q)
    <2>1. \A n \in 0..N : n = 0 \/ n \in 1..N
      OBVIOUS
    <2> QED
      BY <1>3, <1>4, <1>7, <2>1
  <1>9. ASSUME NEW k \in 1..N, NEW r \in level[k]
        PROVE  r \in AllBelow(Q, u)
    <2>1. r \in Standing(Q) /\ r # u
      BY <1>4, <1>7
    <2>2. ASSUME NEW above \in SUBSET Standing(Q), r \in above,
                 \A x \in above \ {u} : Over(Q, x) \in Standing(Q) => Over(Q, x) \in above
          PROVE  u \in above
      <3> DEFINE T == {n \in 0..N : \A x \in level[n] : x \in above => u \in above}
      <3>1. 0 \in T
        BY <1>3
      <3>2. ASSUME NEW n \in 1..N, n - 1 \in T PROVE n \in T
        <4> SUFFICES ASSUME NEW x \in level[n], x \in above PROVE u \in above
          OBVIOUS
        <4>1. x # u /\ Over(P, x) \in level[n - 1] /\ n - 1 \in 0..N
          BY <1>4
        <4>2. Over(Q, x) = Over(P, x) /\ Over(P, x) \in Standing(Q)
          BY <1>7, <1>8, <2>2, <4>1
        <4>3. Over(P, x) \in above
          BY <2>2, <4>1, <4>2
        <4> QED
          BY <3>2, <4>1, <4>3
      <3> HIDE DEF T
      <3>3. 0..N \subseteq T
        BY <3>1, <3>2, Induct
      <3>4. k \in T
        BY <3>3
      <3> QED
        BY <2>2, <3>4 DEF T
    <2> QED
      BY <2>1, <2>2 DEF AllBelow, Below
  <1>10. ASSUME NEW r \in AllBelow(Q, u), r \notin UNION {level[n] : n \in 1..N}
         PROVE  FALSE
    <2> DEFINE above == {x \in Standing(Q) : \A n \in 0..N : x \notin level[n]}
    <2>1. r \in above
      <3>1. r \in Standing(Q) /\ r \notin level[0]
        BY <1>3, <1>10 DEF AllBelow, Below
      <3>2. \A n \in 0..N : n = 0 \/ n \in 1..N
        OBVIOUS
      <3> QED
        BY <1>10, <3>1, <3>2
    <2>2. ASSUME NEW x \in above \ {u}, Over(Q, x) \in Standing(Q)
          PROVE  Over(Q, x) \in above
      <3> SUFFICES ASSUME NEW n \in 0..N, Over(Q, x) \in level[n] PROVE FALSE
        BY <2>2
      <3>1. n # N
        BY <1>4
      <3>2. n + 1 \in 1..N /\ n + 1 \in 0..N /\ (n + 1) - 1 = n
        BY <3>1
      <3>3. x \in level[n + 1]
        BY <1>4, <1>7, <2>2, <3>2
      <3> QED
        BY <3>2, <3>3
    <2>3. u \notin above
      <3>1. 0 \in 0..N
        OBVIOUS
      <3> QED
        BY <1>3, <3>1
    <2>4. above \in SUBSET Standing(Q)
      OBVIOUS
    <2> HIDE DEF above
    <2> QED
      BY <1>10, <2>1, <2>2, <2>3, <2>4 DEF AllBelow, Below
  <1> QED
    BY <1>5, <1>6, <1>9, <1>10

\* The trees of a table are exact.
LEMMA TreesAreExact ==
    ASSUME NEW P, TableOK(P)
    PROVE  TreeExact(P)
  <1> SUFFICES ASSUME NEW u \in Standing(P)
               PROVE  /\ (\A r \in AllBelow(P, u) : PostAt(P, r).root = u)
                            => Descendants(P, u) = AllBelow(P, u)
                      /\ Descendants(P, u) = AllBelow(P, u) \cap AllBelow(Rows(P, u), u)
                      /\ \A m, n \in DOMAIN Levels(P, u) : m # n => Levels(P, u)[m] \cap Levels(P, u)[n] = {}
    BY DEF TreeExact
  <1>1. PICK N \in Nat : N = Cardinality(P)
    BY StandingIs
  <1>2. PICK level : level = Levels(P, u)
    OBVIOUS
  <1>3. DOMAIN level = 0..N
    BY <1>1, <1>2, LevelsAre
  <1>4. \A m, n \in 0..N : m # n => level[m] \cap level[n] = {}
    BY <1>1, <1>2, LevelsEnd
  <1> QED
    BY <1>2, <1>3, <1>4, TreeIs, BelowByRows

\* A step up the chain above a post.
Upwards(P, u, chain) == ParentOf(P, IF chain = <<>> THEN u ELSE chain[Len(chain)])

Goes(P, u, chain) ==
    /\ Upwards(P, u, chain) \in Standing(P)
    /\ \A i \in 1..Len(chain) : chain[i] # Upwards(P, u, chain)

Longer(P, u, chain) == IF Goes(P, u, chain) THEN Append(chain, Upwards(P, u, chain)) ELSE chain

\* A chain follows the references and repeats no post.
ChainOK(P, u, chain) ==
    /\ chain \in Seq(Standing(P))
    /\ \A i \in 1..Len(chain) : chain[i] = ParentOf(P, IF i = 1 THEN u ELSE chain[i - 1])
    /\ \A i, j \in 1..Len(chain) : i # j => chain[i] # chain[j]

\* A step up leads to another chain, by one longer.
LEMMA LongerIs ==
    ASSUME NEW P, NEW u, NEW chain, ChainOK(P, u, chain), Goes(P, u, chain)
    PROVE  /\ ChainOK(P, u, Longer(P, u, chain)) /\ Len(Longer(P, u, chain)) = Len(chain) + 1
  <1>1. PICK c : c = Longer(P, u, chain)
    OBVIOUS
  <1>2. PICK n : n = Upwards(P, u, chain)
    OBVIOUS
  <1>3. chain \in Seq(Standing(P)) /\ n \in Standing(P) /\ Len(chain) \in Nat
    BY <1>2 DEF ChainOK, Goes
  <1>4. c = Append(chain, n)
    BY <1>1, <1>2 DEF Longer
  <1>5. /\ c \in Seq(Standing(P)) /\ Len(c) = Len(chain) + 1 /\ c[Len(chain) + 1] = n
        /\ \A i \in 1..Len(chain) : c[i] = chain[i]
    BY <1>3, <1>4
  <1>6. ASSUME NEW i \in 1..Len(c)
        PROVE  c[i] = ParentOf(P, IF i = 1 THEN u ELSE c[i - 1])
    <2>1. CASE i \in 1..Len(chain)
      <3>1. i # 1 => i - 1 \in 1..Len(chain)
        BY <1>3, <2>1
      <3> QED
        BY <1>5, <2>1, <3>1 DEF ChainOK
    <2>2. CASE i = Len(chain) + 1
      <3>1. CASE i = 1
        <4>1. chain = <<>>
          BY <1>3, <2>2, <3>1
        <4> QED
          BY <1>2, <1>5, <2>2, <3>1, <4>1 DEF Upwards
      <3>2. CASE i # 1
        <4>1. chain # <<>> /\ i - 1 = Len(chain) /\ i - 1 \in 1..Len(chain)
          BY <1>3, <2>2, <3>2
        <4> QED
          BY <1>2, <1>5, <2>2, <3>2, <4>1 DEF Upwards
      <3> QED
        BY <3>1, <3>2
    <2> QED
      BY <1>3, <1>5, <2>1, <2>2
  <1>7. \A i, j \in 1..Len(c) : i # j => c[i] # c[j]
    <2>1. \A i \in 1..Len(chain) : chain[i] # n
      BY <1>2 DEF Goes
    <2>2. \A i \in 1..Len(c) : i \in 1..Len(chain) \/ i = Len(chain) + 1
      BY <1>3, <1>5
    <2> QED
      BY <1>5, <2>1, <2>2 DEF ChainOK
  <1> QED
    BY <1>1, <1>5, <1>6, <1>7 DEF ChainOK

\* A sequence of posts that stand and repeats none is no longer than the table.
LEMMA Fits ==
    ASSUME NEW P, TableOK(P), NEW s \in Seq(Standing(P)), \A i, j \in 1..Len(s) : i # j => s[i] # s[j]
    PROVE  Len(s) <= Cardinality(P)
  <1>1. PICK n \in Nat : n = Len(s)
    OBVIOUS
  <1>2. /\ IsFiniteSet(Standing(P)) /\ Cardinality(Standing(P)) \in Nat
        /\ Cardinality(P) \in Nat /\ Cardinality(Standing(P)) <= Cardinality(P)
    BY StandingIs, FS_CardinalityType
  <1>3. ASSUME n > Cardinality(P) PROVE FALSE
    <2>1. IsFiniteSet(1..n) /\ Cardinality(1..n) = n
      BY <1>2, <1>3, FS_Interval
    <2>2. s \in [1..n -> Standing(P)]
      BY <1>1
    <2>3. Cardinality(Standing(P)) < Cardinality(1..n)
      BY <1>2, <1>3, <2>1
    <2>4. PICK i, j \in 1..n : i # j /\ s[i] = s[j]
      BY <1>2, <2>1, <2>2, <2>3, FS_PigeonHole
    <2> QED
      BY <1>1, <2>4
  <1> QED
    BY <1>1, <1>2, <1>3

\* So is a chain.
LEMMA ChainsEnd ==
    ASSUME NEW P, TableOK(P), NEW u, NEW chain, ChainOK(P, u, chain)
    PROVE  Len(chain) <= Cardinality(P)
  BY Fits DEF ChainOK

\* What Ancestors is: a chain that goes no further.
LEMMA AncestorsAre ==
    ASSUME NEW P, TableOK(P), NEW u \in Standing(P)
    PROVE  ChainOK(P, u, Ancestors(P, u)) /\ ~Goes(P, u, Ancestors(P, u))
  <1>1. PICK N \in Nat : N = Cardinality(P)
    BY StandingIs
  <1> DEFINE S == {chain \in Seq(Standing(P)) : ChainOK(P, u, chain)}
             F == [chain \in S |-> Longer(P, u, chain)]
             Is(g) == g = [n \in 0..N |-> IF n = 0 THEN <<>> ELSE Longer(P, u, g[n - 1])]
             c == CHOOSE g : Is(g)
  <1>2. Ancestors(P, u) = c[N]
    BY <1>1 DEF Ancestors, Longer, Goes, Upwards
  <1>3. F \in [S -> S]
    <2>1. ASSUME NEW chain \in S PROVE Longer(P, u, chain) \in S
      <3>1. CASE Goes(P, u, chain)
        BY <3>1, LongerIs DEF ChainOK
      <3>2. CASE ~Goes(P, u, chain)
        BY <3>2 DEF Longer
      <3> QED
        BY <3>1, <3>2
    <2> QED
      BY <2>1
  <1>4. <<>> \in S
    BY DEF ChainOK
  <1>5. PICK g : Repeats(g, N, S, F, <<>>)
    <2> HIDE DEF S, F
    <2> QED
      BY <1>3, <1>4, Iterates
  <1>6. g \in [0..N -> S] /\ g[0] = <<>> /\ \A n \in 1..N : g[n] = Longer(P, u, g[n - 1])
    <2>1. g \in [0..N -> S] /\ g[0] = <<>> /\ \A n \in 1..N : g[n] = F[g[n - 1]]
      BY <1>5 DEF Repeats
    <2>2. \A n \in 1..N : g[n - 1] \in S
      BY <2>1
    <2> QED
      BY <2>1, <2>2
  <1>7. Is(g)
    <2>1. \A n \in 0..N : g[n] = IF n = 0 THEN <<>> ELSE Longer(P, u, g[n - 1])
      BY <1>6
    <2> DEFINE h == [n \in 0..N |-> IF n = 0 THEN <<>> ELSE Longer(P, u, g[n - 1])]
    <2>2. \A n \in 0..N : g[n] = h[n]
      BY <2>1
    <2>3. DOMAIN g = 0..N /\ DOMAIN h = 0..N /\ g = [n \in DOMAIN g |-> g[n]] /\ h = [n \in DOMAIN h |-> h[n]]
      BY <1>6
    <2> HIDE DEF h
    <2>4. g = h
      BY <2>2, <2>3
    <2> QED
      BY <2>4 DEF h
  <1>8. Is(c)
    <2> HIDE DEF Is
    <2> QED
      BY <1>7
  <1> HIDE DEF c
  <1>9. c[0] = <<>> /\ \A n \in 1..N : c[n] = Longer(P, u, c[n - 1])
    <2>1. \A n \in 0..N : c[n] = IF n = 0 THEN <<>> ELSE Longer(P, u, c[n - 1])
      BY <1>8
    <2>2. 0 \in 0..N /\ \A n \in 1..N : n \in 0..N /\ n # 0
      OBVIOUS
    <2> HIDE DEF Is
    <2> QED
      BY <2>1, <2>2
  <1> HIDE DEF S, F, Is
  <1> DEFINE T == {n \in 0..N : ChainOK(P, u, c[n]) /\ (Len(c[n]) = n \/ ~Goes(P, u, c[n]))}
  <1>10. 0 \in T
    BY <1>4, <1>9 DEF S
  <1>11. ASSUME NEW n \in 1..N, n - 1 \in T PROVE n \in T
    <2>1. ChainOK(P, u, c[n - 1]) /\ (Len(c[n - 1]) = n - 1 \/ ~Goes(P, u, c[n - 1])) /\ c[n] = Longer(P, u, c[n - 1])
      BY <1>9, <1>11
    <2>2. CASE Goes(P, u, c[n - 1])
      <3>1. ChainOK(P, u, c[n]) /\ Len(c[n]) = n
        BY <2>1, <2>2, LongerIs
      <3> QED
        BY <3>1
    <2>3. CASE ~Goes(P, u, c[n - 1])
      BY <2>1, <2>3 DEF Longer
    <2> QED
      BY <2>2, <2>3
  <1>12. N \in T
    <2> HIDE DEF T
    <2>1. 0..N \subseteq T
      BY <1>10, <1>11, Induct
    <2> QED
      BY <2>1
  <1>13. ChainOK(P, u, c[N]) /\ (Len(c[N]) = N \/ ~Goes(P, u, c[N]))
    BY <1>12
  <1>14. ~Goes(P, u, c[N])
    <2> SUFFICES ASSUME Goes(P, u, c[N]) PROVE FALSE
      OBVIOUS
    <2>1. ChainOK(P, u, Longer(P, u, c[N])) /\ Len(Longer(P, u, c[N])) = N + 1
      BY <1>13, LongerIs
    <2>2. N + 1 <= N
      BY <1>1, <2>1, ChainsEnd
    <2> QED
      BY <2>2
  <1> QED
    BY <1>2, <1>13, <1>14

\* The chain above a post is what ChainExact says.
LEMMA ChainsAreExact ==
    ASSUME NEW P, TableOK(P)
    PROVE  ChainExact(P)
  <1> SUFFICES ASSUME NEW u \in Standing(P), NEW chain, chain = Ancestors(P, u)
               PROVE  LET after(i) == ParentOf(P, IF i = 0 THEN u ELSE chain[i]) IN
                      /\ \A i \in 1..Len(chain) : chain[i] = after(i - 1)
                      /\ \A i, j \in 1..Len(chain) : i # j => chain[i] # chain[j]
                      /\ \/ after(Len(chain)) \in {None} \cup {chain[i] : i \in 1..Len(chain)}
                         \/ after(Len(chain)) \notin Standing(P)
    BY DEF ChainExact
  <1>1. ChainOK(P, u, chain) /\ ~Goes(P, u, chain)
    BY AncestorsAre
  <1>2. chain \in Seq(Standing(P)) /\ Len(chain) \in Nat
    BY <1>1 DEF ChainOK
  <1>3. \A i \in 1..Len(chain) : chain[i] = ParentOf(P, IF i - 1 = 0 THEN u ELSE chain[i - 1])
    BY <1>1, <1>2 DEF ChainOK
  <1>4. ParentOf(P, IF Len(chain) = 0 THEN u ELSE chain[Len(chain)]) = Upwards(P, u, chain)
    BY <1>2 DEF Upwards
  <1> QED
    BY <1>1, <1>3, <1>4 DEF ChainOK, Goes

\* Whatever is committed, removed and read again: every thread of the index is exact.
THEOREM ThreadsAreExact == Spec => []ThreadExact
  <1>1. IndexOK => ThreadExact
    <2> SUFFICES ASSUME IndexOK PROVE TableOK(posts)
      BY TreesAreExact, ChainsAreExact DEF ThreadExact
    <2> QED
      BY PostAssumption DEF IndexOK, TypeOK, TableOK, Standing, Row
  <1>2. PagesInv => IndexOK
    BY DEF PagesInv
  <1> QED
    BY <1>1, <1>2, PagesInvariant, PTL

-----------------------------------------------------------------------------
(* Calls and posts *)

\* What a call knows is of posts that were made.
CallsOK ==
    /\ ConversationTypes
    /\ \A c \in DOMAIN writes :
         /\ writes[c].parent \in Made \cup {None} /\ writes[c].root \in Made \cup {None}
         /\ writes[c].at = "parent" => writes[c].parent \in Made

\* A post is of a call that is past its write, of one call, and a call past it has one
\* unless it failed.
MadeBy ==
    /\ \A u \in Made : made[u].by \in DOMAIN writes
                       /\ writes[made[u].by].at \in {"written", "failed", "done"}
    /\ \A u, v \in Made : made[u].by = made[v].by => u = v
    /\ \A c \in DOMAIN writes :
         writes[c].at \in {"written", "done"} => \E u \in Made : made[u].by = c

CallsInv == CallsOK /\ MadeBy

\* What a call does besides writing a post leaves what is known of posts.
LEMMA CallMoves ==
    ASSUME CallsInv, UNCHANGED made,
           NEW c \in DOMAIN writes, NEW x \in PostCall, writes' = [writes EXCEPT ![c] = x],
           commits' = commits, handled' = handled,
           x.parent \in Made \cup {None}, x.root \in Made \cup {None},
           x.at = "parent" => x.parent \in Made,
           writes[c].at \in {"written", "failed", "done"} => x.at \in {"written", "failed", "done"},
           x.at \in {"written", "done"} => writes[c].at \in {"written", "done"}
    PROVE  CallsInv'
  <1>1. /\ writes \in Seq(PostCall) /\ DOMAIN writes = 1..Len(writes) /\ Len(writes) \in Nat
        /\ made \in Seq([parent : Made \cup {None}, root : Made \cup {None}, by : 1..MaxCall])
        /\ Len(writes) <= MaxCall
    BY DEF CallsInv, CallsOK, ConversationTypes
  <1>2. /\ writes' \in Seq(PostCall) /\ Len(writes') = Len(writes) /\ DOMAIN writes' = DOMAIN writes
        /\ writes'[c] = x /\ \A d \in DOMAIN writes : d # c => writes'[d] = writes[d]
    BY <1>1
  <1>3. Made' = Made
    BY DEF Made
  <1>4. ConversationTypes'
    BY <1>1, <1>2, <1>3 DEF CallsInv, CallsOK, ConversationTypes
  <1>5. \A d \in DOMAIN writes' :
           /\ writes'[d].parent \in Made \cup {None} /\ writes'[d].root \in Made \cup {None}
           /\ writes'[d].at = "parent" => writes'[d].parent \in Made
    BY <1>2 DEF CallsInv, CallsOK
  <1>6. CallsOK'
    BY <1>3, <1>4, <1>5 DEF CallsOK
  <1>7. \A d \in DOMAIN writes :
          /\ writes[d].at \in {"written", "failed", "done"} => writes'[d].at \in {"written", "failed", "done"}
          /\ writes'[d].at \in {"written", "done"} => writes[d].at \in {"written", "done"}
    BY <1>2
  <1>8. MadeBy'
    BY <1>2, <1>3, <1>7 DEF CallsInv, MadeBy
  <1> QED
    BY <1>6, <1>8 DEF CallsInv

\* Every step of a call, of the firehose and of other clients.
LEMMA CallStep ==
    ASSUME CallsInv, ConversationNext
    PROVE  CallsInv'
  <1>1. /\ writes \in Seq(PostCall) /\ DOMAIN writes = 1..Len(writes) /\ Len(writes) \in Nat
        /\ made \in Seq([parent : Made \cup {None}, root : Made \cup {None}, by : 1..MaxCall])
        /\ commits \in Seq(Made) /\ handled \in 0..Len(commits)
        /\ Len(writes) <= MaxCall /\ Made = 1..Len(made) /\ Len(made) \in Nat /\ Made \in SUBSET Nat
    BY DEF CallsInv, CallsOK, ConversationTypes, Made
  <1>2. \A c \in DOMAIN writes :
          /\ writes[c] \in PostCall /\ writes[c].parent \in Made \cup {None} /\ writes[c].root \in Made \cup {None}
          /\ writes[c].at = "parent" => writes[c].parent \in Made
    BY <1>1 DEF CallsInv, CallsOK
  <1>3. ASSUME NEW again \in 0..1, NEW parent \in Made \cup {None}, CallPost(again, parent)
        PROVE  CallsInv'
    <2>1. PICK x : x = [at |-> IF parent = None THEN "mentions" ELSE "parent",
                        parent |-> parent, root |-> None, replays |-> again]
      OBVIOUS
    <2>2. /\ x \in PostCall /\ x.at \in {"mentions", "parent"} /\ x.parent = parent /\ x.root = None
          /\ x.at = "parent" => parent \in Made
      BY <1>1, <2>1 DEF PostCall
    <2>3. writes' = Append(writes, x) /\ UNCHANGED <<made, commits, handled>> /\ Len(writes) < MaxCall
      BY <1>3, <2>1 DEF CallPost
    <2>4. /\ writes' \in Seq(PostCall) /\ Len(writes') = Len(writes) + 1 /\ writes'[Len(writes) + 1] = x
          /\ DOMAIN writes' = DOMAIN writes \cup {Len(writes) + 1}
          /\ \A d \in DOMAIN writes : writes'[d] = writes[d] /\ d # Len(writes) + 1
      BY <1>1, <2>2, <2>3
    <2>5. Made' = Made
      BY <2>3 DEF Made
    <2>6. Len(writes') <= MaxCall
      BY <1>1, <2>3, <2>4, ConversationAssumption
    <2>7. ConversationTypes'
      BY <1>1, <2>3, <2>4, <2>5, <2>6 DEF ConversationTypes
    <2>8. CallsOK'
      BY <1>2, <2>2, <2>4, <2>5, <2>7 DEF CallsOK
    <2>9. MadeBy'
      BY <2>2, <2>3, <2>4, <2>5 DEF CallsInv, MadeBy
    <2> QED
      BY <2>8, <2>9 DEF CallsInv
  <1>4. ASSUME NEW c \in DOMAIN writes, ReadParent(c)
        PROVE  CallsInv'
    <2>1. PICK x : x = [writes[c] EXCEPT !.at = "mentions", !.root = Root(writes[c].parent)]
      OBVIOUS
    <2>2. writes[c].parent \in Made
      BY <1>4 DEF ReadParent, Present
    <2>3. Root(writes[c].parent) \in Made \cup {None}
      <3> DEFINE R == [parent : Made \cup {None}, root : Made \cup {None}, by : 1..MaxCall]
      <3>1. \A u \in Made : made[u] \in R
        <4> HIDE DEF R
        <4>1. made \in Seq(R)
          BY <1>1 DEF R
        <4> QED
          BY <1>1, <4>1
      <3>2. made[writes[c].parent].root \in Made \cup {None}
        BY <2>2, <3>1
      <3> QED
        BY <2>2, <3>2 DEF Root
    <2>4. /\ x \in PostCall /\ x.at = "mentions" /\ x.parent = writes[c].parent
          /\ x.root = Root(writes[c].parent)
      BY <1>1, <1>2, <2>1, <2>3 DEF PostCall
    <2>5. /\ writes' = [writes EXCEPT ![c] = x] /\ UNCHANGED <<made, commits, handled>> /\ writes[c].at = "parent"
      BY <1>4, <2>1 DEF ReadParent
    <2> QED
      BY <1>2, <2>3, <2>4, <2>5, CallMoves
  <1>5. ASSUME NEW c \in DOMAIN writes, Mentioned(c)
        PROVE  CallsInv'
    <2>1. PICK x : x = [writes[c] EXCEPT !.at = "create"]
      OBVIOUS
    <2>2. x \in PostCall /\ x.at = "create" /\ x.parent = writes[c].parent /\ x.root = writes[c].root
      BY <1>2, <2>1 DEF PostCall
    <2>3. /\ writes' = [writes EXCEPT ![c] = x] /\ UNCHANGED <<made, commits, handled>> /\ writes[c].at = "mentions"
      BY <1>5, <2>1 DEF Mentioned
    <2> QED
      BY <1>2, <2>2, <2>3, CallMoves
  <1>6. ASSUME NEW c \in DOMAIN writes, Write(c)
        PROVE  CallsInv'
    <2>1. PICK x : x = [writes[c] EXCEPT !.at = "written"]
      OBVIOUS
    <2>2. x \in PostCall /\ x.at = "written" /\ x.parent = writes[c].parent /\ x.root = writes[c].root
      BY <1>2, <2>1 DEF PostCall
    <2>3. PICK y : y = [parent |-> writes[c].parent, root |-> writes[c].root, by |-> c]
      OBVIOUS
    <2>4. y.parent \in Made \cup {None} /\ y.root \in Made \cup {None} /\ y.by = c
      BY <1>2, <2>3
    <2>5. /\ writes' = [writes EXCEPT ![c] = x] /\ writes[c].at = "create" /\ handled' = handled
          /\ made' = Append(made, y) /\ commits' = Append(commits, Len(made'))
      BY <1>6, <2>1, <2>3 DEF Write
    <2>6. /\ writes' \in Seq(PostCall) /\ Len(writes') = Len(writes) /\ DOMAIN writes' = DOMAIN writes
          /\ writes'[c] = x /\ \A d \in DOMAIN writes : d # c => writes'[d] = writes[d]
      BY <1>1, <2>2, <2>5
    <2>7. /\ Len(made') = Len(made) + 1 /\ made'[Len(made) + 1] = y
          /\ \A u \in Made : made'[u] = made[u] /\ u # Len(made) + 1
          /\ Made' = Made \cup {Len(made) + 1} /\ Len(made) + 1 \in Made'
      BY <1>1, <2>5 DEF Made
    <2>8. ConversationTypes'
      <3> DEFINE R == [parent : Made \cup {None}, root : Made \cup {None}, by : 1..MaxCall]
                 S == [parent : Made' \cup {None}, root : Made' \cup {None}, by : 1..MaxCall]
      <3>0. Made \subseteq Made' /\ c \in 1..MaxCall
        BY <1>1, <2>7, ConversationAssumption
      <3>1. y \in S /\ R \subseteq S
        <4>1. y \in S
          BY <2>3, <2>4, <3>0
        <4> QED
          BY <3>0, <4>1
      <3>2. made \in Seq(R)
        BY <1>1
      <3>3. ASSUME NEW A, NEW B, A \subseteq B, NEW s \in Seq(A) PROVE s \in Seq(B)
        <4>1. Len(s) \in Nat /\ s \in [1..Len(s) -> A]
          BY <3>3
        <4> QED
          BY <3>3, <4>1
      <3> HIDE DEF R, S
      <3>4. made \in Seq(S)
        BY <3>1, <3>2, <3>3
      <3>5. made' \in Seq(S)
        BY <2>5, <3>1, <3>4
      <3>6. commits \in Seq(Made') /\ Len(made') \in Made'
        BY <1>1, <2>7, <3>3
      <3>7. commits' \in Seq(Made') /\ Len(commits') = Len(commits) + 1
        BY <2>5, <3>6
      <3>8. handled' \in 0..Len(commits')
        BY <1>1, <2>5, <3>7
      <3> QED
        BY <1>1, <2>6, <3>5, <3>7, <3>8 DEF ConversationTypes, S
    <2>9. CallsOK'
      BY <1>2, <2>2, <2>6, <2>7, <2>8 DEF CallsOK
    <2>10. MadeBy'
      <3>1. \A u \in Made : made[u].by # c
        BY <2>5 DEF CallsInv, MadeBy
      <3>2. \A u \in Made' : made'[u].by \in DOMAIN writes' /\ writes'[made'[u].by].at \in {"written", "failed", "done"}
        BY <2>2, <2>4, <2>6, <2>7, <3>1 DEF CallsInv, MadeBy
      <3>3. \A u, v \in Made' : made'[u].by = made'[v].by => u = v
        BY <2>4, <2>7, <3>1 DEF CallsInv, MadeBy
      <3>4. ASSUME NEW d \in DOMAIN writes', writes'[d].at \in {"written", "done"}
            PROVE  \E u \in Made' : made'[u].by = d
        <4>1. CASE d = c
          BY <2>4, <2>7, <4>1
        <4>2. CASE d # c
          <5>1. PICK u \in Made : made[u].by = d
            BY <2>6, <3>4, <4>2 DEF CallsInv, MadeBy
          <5> QED
            BY <2>7, <5>1
        <4> QED
          BY <4>1, <4>2
      <3> QED
        BY <3>2, <3>3, <3>4 DEF MadeBy
    <2> QED
      BY <2>9, <2>10 DEF CallsInv
  <1>7. ASSUME NEW c \in DOMAIN writes, NEW at \in {"failed", "done"}, writes' = [writes EXCEPT ![c] = Ended(at)],
               at = "done" => writes[c].at = "written", UNCHANGED <<made, commits, handled>>
        PROVE  CallsInv'
    <2>1. Ended(at) \in PostCall /\ Ended(at).at = at /\ Ended(at).parent = None /\ Ended(at).root = None
      BY DEF Ended, PostCall
    <2> QED
      BY <1>7, <2>1, CallMoves
  <1>8. ASSUME NEW c \in DOMAIN writes, NEW auth \in BOOLEAN, CallFails(c, auth)
        PROVE  CallsInv'
    <2>1. CASE Replays(c, auth)
      <3>1. PICK at : at = IF writes[c].parent = None THEN "mentions" ELSE "parent"
        OBVIOUS
      <3>4. at \in {"mentions", "parent"} /\ (at = "parent" => writes[c].parent # None)
        BY <3>1
      <3>5. PICK x : x = [writes[c] EXCEPT !.at = at, !.replays = 0]
        OBVIOUS
      <3>2. x \in PostCall /\ x.at = at /\ x.parent = writes[c].parent /\ x.root = writes[c].root
        <4>1. PICK y : y = writes[c]
          OBVIOUS
        <4>2. y \in PostCall
          BY <1>2, <4>1
        <4>3. x = [at |-> at, parent |-> y.parent, root |-> y.root, replays |-> 0]
          BY <3>5, <4>1, <4>2 DEF PostCall
        <4>4. /\ y.parent \in Nat \cup {None} /\ y.root \in Nat \cup {None} /\ 0 \in 0..1
              /\ at \in {"parent", "mentions", "create", "written", "failed", "done"}
          BY <3>4, <4>2 DEF PostCall
        <4> QED
          BY <4>1, <4>3, <4>4 DEF PostCall
      <3>3. /\ writes' = [writes EXCEPT ![c] = x] /\ UNCHANGED <<made, commits, handled>>
            /\ writes[c].at \in {"parent", "create"}
        BY <1>8, <2>1, <3>1, <3>5 DEF CallFails, Replays
      <3> QED
        BY <1>2, <3>2, <3>3, <3>4, CallMoves
    <2>2. CASE ~Replays(c, auth)
      <3>1. writes' = [writes EXCEPT ![c] = Ended("failed")] /\ UNCHANGED <<made, commits, handled>>
        BY <1>8, <2>2 DEF CallFails
      <3> QED
        BY <1>7, <3>1
    <2> QED
      BY <2>1, <2>2
  <1>9. ASSUME UNCHANGED <<made, writes>>, commits' \in Seq(Made), handled' \in 0..Len(commits')
        PROVE  CallsInv'
    BY <1>9 DEF CallsInv, CallsOK, MadeBy, ConversationTypes, Made
  <1>10. ASSUME NEW u \in Made, RemovePost(u) PROVE CallsInv'
    <2>1. commits' = Append(commits, u) /\ UNCHANGED <<made, handled, writes>>
      BY <1>10 DEF RemovePost
    <2>2. commits' \in Seq(Made) /\ handled' \in 0..Len(commits')
      BY <1>1, <2>1
    <2> QED
      BY <1>9, <2>1, <2>2
  <1>11. CASE IndexCommit
    BY <1>1, <1>9, <1>11 DEF IndexCommit
  <1>12. ASSUME NEW c \in DOMAIN writes, Report(c) PROVE CallsInv'
    BY <1>7, <1>12 DEF Report
  <1> QED
    BY <1>3, <1>4, <1>5, <1>6, <1>8, <1>10, <1>11, <1>12 DEF ConversationNext

\* No call was made.
LEMMA CallsInit == ConversationInit => CallsInv
  <1> SUFFICES ASSUME ConversationInit PROVE CallsInv
    OBVIOUS
  <1>1. made = <<>> /\ commits = <<>> /\ handled = 0 /\ writes = <<>> /\ MaxCall \in Nat
    BY ConversationAssumption DEF ConversationInit
  <1>2. Made = {} /\ DOMAIN writes = {} /\ Len(writes) = 0 /\ Len(commits) = 0
    BY <1>1 DEF Made
  <1> QED
    BY <1>1, <1>2 DEF CallsInv, CallsOK, MadeBy, ConversationTypes

\* Whatever fails, is refused, is lost or is run again, what posts and calls know of each other holds.
THEOREM CallsInvariant == ConversationSpec => []CallsInv
  <1>1. CallsInv /\ [ConversationNext]_conversationVars => CallsInv'
    <2>1. ASSUME CallsInv, UNCHANGED conversationVars PROVE CallsInv'
      BY <2>1 DEF CallsInv, CallsOK, MadeBy, ConversationTypes, Made, conversationVars
    <2> QED
      BY <2>1, CallStep
  <1> QED
    BY <1>1, CallsInit, PTL DEF ConversationSpec

\* Calls, posts and commits have their types; a post answers one that was made before.
THEOREM ConversationTypeCorrect == ConversationSpec => []ConversationTypes
  <1>1. CallsInv => ConversationTypes
    BY DEF CallsInv, CallsOK
  <1> QED
    BY <1>1, CallsInvariant, PTL

\* No call makes two posts, and one that reports success has made one (pdsClient.ts:179-188),
\* however often it fails or is run again.
THEOREM OneCallOnePost == ConversationSpec => []OnePostPerCall
  <1>1. CallsInv => OnePostPerCall
    <2> SUFFICES ASSUME CallsInv, NEW c \in DOMAIN writes
                 PROVE  /\ Cardinality({u \in Made : made[u].by = c}) <= 1
                        /\ writes[c].at = "done" => {u \in Made : made[u].by = c} # {}
      BY DEF OnePostPerCall
    <2> DEFINE P == {u \in Made : made[u].by = c}
    <2>1. P = {} \/ \E u : P = {u}
      BY DEF CallsInv, MadeBy
    <2>2. Cardinality(P) <= 1
      <3> HIDE DEF P
      <3>1. ASSUME NEW u, P = {u} PROVE Cardinality(P) = 1
        BY <3>1, FS_Singleton
      <3>2. P = {} => Cardinality(P) = 0
        BY FS_EmptySet
      <3> QED
        BY <2>1, <3>1, <3>2
    <2> QED
      BY <2>2 DEF CallsInv, MadeBy
  <1> QED
    BY <1>1, CallsInvariant, PTL

-----------------------------------------------------------------------------
(* aitty's live feed *)

\* Rising sequences repeat nothing.
Rising(s) == \A i, j \in DOMAIN s : i < j => s[i] < s[j]

\* A set of posts can be listed oldest first.
LEMMA Listed ==
    ASSUME NEW N \in Nat, NEW S \in SUBSET 1..N
    PROVE  \E s \in [1..Cardinality(S) -> S] : Rising(s)
  <1>1. N \in Nat
    OBVIOUS
  <1>2. ASSUME NEW A \in SUBSET 1..N PROVE IsFiniteSet(A) /\ Cardinality(A) \in 0..N
    <2>1. IsFiniteSet(1..N) /\ Cardinality(1..N) = N
      BY <1>1, FS_Interval
    <2>2. IsFiniteSet(A) /\ Cardinality(A) <= N
      BY <2>1, FS_Subset
    <2> QED
      BY <1>1, <2>2, FS_CardinalityType
  <1> DEFINE Can(A) == \E s \in [1..Cardinality(A) -> A] : Rising(s)
             T == {n \in 0..N : \A A \in SUBSET 1..N : Cardinality(A) = n => Can(A)}
  <1>3. 0 \in T
    <2> SUFFICES ASSUME NEW A \in SUBSET 1..N, Cardinality(A) = 0 PROVE Can(A)
      BY <1>1
    <2>1. <<>> \in [1..0 -> A] /\ Rising(<<>>)
      BY DEF Rising
    <2> QED
      BY <2>1
  <1>4. ASSUME NEW n \in 1..N, n - 1 \in T PROVE n \in T
    <2> SUFFICES ASSUME NEW A \in SUBSET 1..N, Cardinality(A) = n PROVE Can(A)
      OBVIOUS
    <2>1. PICK g \in A : \A a \in A : a <= g
      <3> DEFINE D == {d \in Nat : d < N /\ N - d \in A}
      <3>1. A # {}
        BY FS_EmptySet
      <3>2. PICK a \in A : TRUE
        BY <3>1
      <3>3. N - a \in D
        <4>1. N - (N - a) = a
          BY <1>1
        <4> QED
          BY <1>1, <4>1
      <3>4. PICK d \in D : \A e \in D : d <= e
        <4>1. D \in SUBSET Nat /\ D # {}
          BY <3>3
        <4> QED
          BY <4>1, Least
      <3>5. \A b \in A : b <= N - d
        <4> SUFFICES ASSUME NEW b \in A PROVE b <= N - d
          OBVIOUS
        <4>1. b \in Nat /\ N - (N - b) = b /\ N - b \in Nat /\ N - b < N
          BY <1>1
        <4>2. N - b \in D
          BY <4>1
        <4>3. d \in Nat /\ d <= N - b
          BY <3>4, <4>2
        <4> QED
          BY <1>1, <4>1, <4>3
      <3> QED
        BY <3>4, <3>5
    <2>2. Cardinality(A \ {g}) = n - 1 /\ A \ {g} \in SUBSET 1..N
      BY <1>2, FS_RemoveElement
    <2>3. PICK s \in [1..n - 1 -> A \ {g}] : Rising(s)
      BY <1>4, <2>2
    <2> DEFINE t == [i \in 1..n |-> IF i = n THEN g ELSE s[i]]
    <2>4. \A i \in 1..n : i # n => i \in 1..n - 1 /\ s[i] \in A \ {g}
      OBVIOUS
    <2>5. t \in [1..n -> A]
      BY <2>4
    <2>6. \A i \in 1..n - 1 : s[i] \in Nat /\ s[i] < g
      <3> SUFFICES ASSUME NEW i \in 1..n - 1 PROVE s[i] \in Nat /\ s[i] < g
        OBVIOUS
      <3>1. s[i] \in A /\ s[i] # g /\ g \in 1..N /\ s[i] \in 1..N
        OBVIOUS
      <3> QED
        BY <1>1, <2>1, <3>1
    <2>7. ASSUME NEW i \in 1..n, NEW j \in 1..n, i < j PROVE t[i] < t[j]
      <3>1. i \in 1..n - 1 /\ t[i] = s[i]
        BY <2>7
      <3>2. CASE j = n
        BY <2>6, <3>1, <3>2
      <3>3. CASE j # n
        BY <2>3, <2>4, <2>7, <3>1, <3>3 DEF Rising
      <3> QED
        BY <3>2, <3>3
    <2>8. Rising(t)
      BY <2>7 DEF Rising
    <2> HIDE DEF t
    <2> QED
      BY <2>5, <2>8
  <1>5. 0..N \subseteq T
    <2> HIDE DEF T
    <2> QED
      BY <1>1, <1>3, <1>4, Induct
  <1> QED
    BY <1>2, <1>5

\* What a poll prints: nothing twice, and nothing that is remembered as printed.
LEMMA FreshIs ==
    ASSUME FeedTypes, NEW limit
    PROVE  /\ Fresh(limit) \in Seq(Post)
           /\ \A i, j \in 1..Len(Fresh(limit)) : i # j => Fresh(limit)[i] # Fresh(limit)[j]
           /\ \A i \in 1..Len(Fresh(limit)) : \A j \in 1..Len(seen) : Fresh(limit)[i] # seen[j]
  <1> DEFINE A == (Newest(limit) \ ToSet(seen)) \cap filter
  <1>1. PICK n : n = Cardinality(A)
    OBVIOUS
  <1>2. A \in SUBSET Post
    BY DEF FeedTypes
  <1>3. n \in Nat
    <2>1. IsFiniteSet(Post)
      BY FeedAssumption, FS_Interval DEF Post
    <2> HIDE DEF A
    <2> QED
      BY <1>1, <1>2, <2>1, FS_Subset, FS_CardinalityType
  <1>4. A \cap {seen[j] : j \in 1..Len(seen)} = {}
    BY DEF ToSet, FeedTypes
  <1>5. Fresh(limit) = CHOOSE s \in [1..n -> A] : Rising(s)
    BY <1>1 DEF Fresh, Rising
  <1> HIDE DEF A
  <1>6. Fresh(limit) \in [1..n -> A] /\ Rising(Fresh(limit))
    BY <1>1, <1>2, <1>5, FeedAssumption, Listed DEF Post
  <1>7. PICK s \in [1..n -> A] : s = Fresh(limit)
    BY <1>6
  <1>8. s \in Seq(Post) /\ Len(s) = n
    BY <1>2, <1>3
  <1>9. ASSUME NEW i \in 1..n, NEW j \in 1..n, i # j PROVE s[i] # s[j]
    <2>1. s[i] \in Nat /\ s[j] \in Nat
      <3>1. s[i] \in Post /\ s[j] \in Post
        BY <1>2, <1>9
      <3> QED
        BY <3>1 DEF Post
    <2>2. i < j \/ j < i
      BY <1>3, <1>9
    <2> QED
      BY <1>6, <1>7, <2>1, <2>2 DEF Rising
  <1> QED
    BY <1>4, <1>7, <1>8, <1>9

\* What is still to be printed is not remembered as printed, and comes once.
BatchOK ==
    /\ \A i, j \in 1..Len(batch) : i # j => batch[i] # batch[j]
    /\ \A i \in 1..Len(batch) : \A j \in 1..Len(seen) : batch[i] # seen[j]
    /\ stage = "render" => batch # <<>>

\* What is remembered is the end of what was printed: all of it, or enough.
SeenOK ==
    /\ Len(seen) <= Len(printed)
    /\ \A i \in 1..Len(seen) : seen[i] = printed[Len(printed) - Len(seen) + i].post
    /\ Len(seen) >= SeenCap \/ Len(seen) = Len(printed)

\* The newest numbers are kept, with their posts.
NumbersOK ==
    /\ DOMAIN index = {m \in 1..counter : m > counter - IndexCap}
    /\ \A i \in 1..Len(printed) : printed[i].n \in DOMAIN index => index[printed[i].n] = printed[i].post
    /\ stage = "render" => counter >= 1 /\ index[counter] = Head(batch)

FeedInv == FeedTypes /\ BatchOK /\ SeenOK /\ NumbersOK /\ NoRepeat

PrintedPost == [n : 1..counter, post : Post]

\* What the types say.
LEMMA FeedIs ==
    ASSUME FeedTypes
    PROVE  /\ batch \in Seq(Post) /\ seen \in Seq(Post) /\ printed \in Seq(PrintedPost) /\ counter \in Nat
           /\ Len(batch) \in Nat /\ Len(seen) \in Nat /\ Len(printed) \in Nat
           /\ DOMAIN printed = 1..Len(printed)
           /\ \A i \in 1..Len(printed) : printed[i].n \in 1..counter /\ printed[i].post \in Post
           /\ SeenCap \in Nat \ {0} /\ IndexCap \in Nat \ {0}
           /\ \A i \in 1..Len(seen) : seen[i] \in Post
  <1>1. batch \in Seq(Post) /\ seen \in Seq(Post) /\ printed \in Seq(PrintedPost) /\ counter \in Nat
    BY DEF FeedTypes, PrintedPost
  <1>2. \A i \in 1..Len(printed) : printed[i] \in PrintedPost
    BY <1>1
  <1> QED
    BY <1>1, <1>2, FeedAssumption DEF PrintedPost

\* A number is given, and the oldest that is kept is dropped when there are too many.
LEMMA NumberKeeps ==
    ASSUME FeedInv, Number
    PROVE  FeedInv'
  <1> USE FeedIs DEF FeedInv
  <1>1. /\ batch # <<>> /\ counter' = counter + 1 /\ seen' = seen /\ stage' = "render" /\ counter' \in Nat
        /\ UNCHANGED <<timeline, filter, batch, printed, moves, failures>>
    BY DEF Number, Marked
  <1>2. Head(batch) \in Post
    BY <1>1
  <1> DEFINE D == DOMAIN index \cup {counter + 1}
             full == [n \in D |-> IF n = counter + 1 THEN Head(batch) ELSE index[n]]
  <1>3. index' = Trimmed(full, counter + 1)
    BY <1>1 DEF Number
  <1>4. DOMAIN index' = {m \in 1..counter + 1 : m > counter + 1 - IndexCap}
    <2>1. CASE counter + 1 <= IndexCap
      <3>1. D = 1..counter + 1
        BY <2>1 DEF NumbersOK
      <3>2. Cardinality(D) = counter + 1
        <4> HIDE DEF D
        <4> QED
          BY <3>1, FS_Interval
      <3>3. index' = full
        BY <1>3, <2>1, <3>2 DEF Trimmed
      <3> QED
        BY <2>1, <3>1, <3>3
    <2>2. CASE counter + 1 > IndexCap
      <3>1. D = counter + 1 - IndexCap..counter + 1
        BY <2>2 DEF NumbersOK
      <3>2. Cardinality(D) = IndexCap + 1
        <4>1. counter + 1 - IndexCap \in Int /\ counter + 1 \in Int /\ counter + 1 - IndexCap <= counter + 1
              /\ counter + 1 - (counter + 1 - IndexCap) + 1 = IndexCap + 1
          OBVIOUS
        <4>2. PICK a \in Int, b \in Int : a = counter + 1 - IndexCap /\ b = counter + 1
          BY <4>1
        <4>3. Cardinality(a..b) = b - a + 1
          BY <4>1, <4>2, FS_Interval
        <4> HIDE DEF D
        <4> QED
          BY <3>1, <4>1, <4>2, <4>3
      <3>3. DOMAIN index' = D \ {counter + 1 - IndexCap}
        BY <1>3, <3>2 DEF Trimmed
      <3> QED
        BY <2>2, <3>1, <3>3
    <2> QED
      BY <2>1, <2>2
  <1>5. \A m \in DOMAIN index' : index'[m] = IF m = counter + 1 THEN Head(batch) ELSE index[m]
    <2>1. \A m \in DOMAIN index' : m \in D
      BY <1>4 DEF NumbersOK
    <2>2. \A m \in DOMAIN index' : index'[m] = full[m]
      BY <1>3 DEF Trimmed
    <2> QED
      BY <2>1, <2>2
  <1>6. NumbersOK'
    <2>1. \A i \in 1..Len(printed) : printed[i].n \in DOMAIN index' => index'[printed[i].n] = printed[i].post
      <3> SUFFICES ASSUME NEW i \in 1..Len(printed), printed[i].n \in DOMAIN index'
                   PROVE  index'[printed[i].n] = printed[i].post
        OBVIOUS
      <3>1. printed[i].n \in 1..counter
        OBVIOUS
      <3>2. printed[i].n \in DOMAIN index /\ printed[i].n # counter + 1
        BY <1>4, <3>1 DEF NumbersOK
      <3> QED
        BY <1>5, <3>2 DEF NumbersOK
    <2>2. counter + 1 \in DOMAIN index'
      BY <1>4
    <2>3. index'[counter + 1] = Head(batch)
      BY <1>5, <2>2
    <2> QED
      BY <1>1, <1>4, <2>1, <2>3 DEF NumbersOK
  <1>7. FeedTypes'
    <2>1. PrintedPost \subseteq [n : 1..counter + 1, post : Post]
      BY DEF PrintedPost
    <2>2. printed \in Seq([n : 1..counter + 1, post : Post])
      <3> DEFINE R == [n : 1..counter + 1, post : Post]
      <3> HIDE DEF R
      <3>1. PrintedPost \subseteq R
        BY <2>1 DEF R
      <3>2. printed \in Seq(R)
        BY <3>1, SeqMonotonic
      <3> QED
        BY <3>2 DEF R
    <2> QED
      BY <1>1, <1>4, <2>2 DEF FeedTypes
  <1> QED
    BY <1>1, <1>6, <1>7 DEF BatchOK, SeenOK, NoRepeat

\* A post is printed and remembered.
LEMMA PrintKeeps ==
    ASSUME FeedInv, PrintPost
    PROVE  FeedInv'
  <1> USE FeedIs DEF FeedInv
  <1>1. PICK p : p = Head(batch)
    OBVIOUS
  <1>2. /\ stage = "render" /\ printed' = Append(printed, [n |-> counter, post |-> p])
        /\ batch' = Tail(batch) /\ stage' = "emit"
        /\ UNCHANGED <<timeline, filter, counter, index, moves, failures>>
    BY <1>1 DEF PrintPost
  <1>3. /\ batch # <<>> /\ p \in Post /\ 1 \in 1..Len(batch) /\ p = batch[1]
        /\ batch' \in Seq(Post) /\ Len(batch') = Len(batch) - 1
        /\ \A i \in 1..Len(batch') : batch'[i] = batch[i + 1] /\ i + 1 \in 1..Len(batch)
    BY <1>1, <1>2 DEF BatchOK
  <1>4. seen' = Append(seen, p)
    <2>1. \A j \in 1..Len(seen) : seen[j] # p
      BY <1>3 DEF BatchOK
    <2> QED
      BY <1>1, <2>1 DEF PrintPost, Contains
  <1>5. /\ seen' \in Seq(Post) /\ Len(seen') = Len(seen) + 1 /\ seen'[Len(seen) + 1] = p
        /\ \A j \in 1..Len(seen) : seen'[j] = seen[j]
    BY <1>3, <1>4
  <1>6. counter \in 1..counter /\ index[counter] = p
    BY <1>1, <1>2 DEF NumbersOK
  <1> DEFINE row == [n |-> counter, post |-> p]
  <1>7. row \in PrintedPost /\ row.n = counter /\ row.post = p
    BY <1>3, <1>6 DEF PrintedPost
  <1> HIDE DEF row
  <1>8. /\ printed' \in Seq(PrintedPost) /\ Len(printed') = Len(printed) + 1 /\ printed'[Len(printed) + 1] = row
        /\ \A i \in 1..Len(printed) : printed'[i] = printed[i]
    BY <1>2, <1>7 DEF row
  <1>9. FeedTypes'
    BY <1>2, <1>3, <1>5, <1>8 DEF FeedTypes, PrintedPost
  <1>10. BatchOK'
    <2>1. ASSUME NEW i \in 1..Len(batch'), NEW j \in 1..Len(batch'), i # j PROVE batch'[i] # batch'[j]
      <3>1. i + 1 \in 1..Len(batch) /\ j + 1 \in 1..Len(batch) /\ batch'[i] = batch[i + 1] /\ batch'[j] = batch[j + 1]
        BY <1>3
      <3>2. i + 1 # j + 1
        BY <1>3, <2>1
      <3> QED
        BY <3>1, <3>2 DEF BatchOK
    <2>2. ASSUME NEW i \in 1..Len(batch'), NEW j \in 1..Len(seen') PROVE batch'[i] # seen'[j]
      <3>1. i + 1 \in 1..Len(batch) /\ i + 1 # 1 /\ batch'[i] = batch[i + 1]
        BY <1>3
      <3>2. j \in 1..Len(seen) \/ j = Len(seen) + 1
        BY <1>5
      <3> QED
        BY <1>3, <1>5, <3>1, <3>2 DEF BatchOK
    <2> QED
      BY <1>2, <2>1, <2>2 DEF BatchOK
  <1>11. SeenOK'
    <2>1. ASSUME NEW i \in 1..Len(seen')
          PROVE  seen'[i] = printed'[Len(printed') - Len(seen') + i].post
      <3>1. CASE i \in 1..Len(seen)
        <4>1. Len(printed) - Len(seen) + i \in 1..Len(printed)
          BY <3>1 DEF SeenOK
        <4>2. Len(printed') - Len(seen') + i = Len(printed) - Len(seen) + i
          BY <1>5, <1>8, <3>1
        <4> QED
          BY <1>5, <1>8, <3>1, <4>1, <4>2 DEF SeenOK
      <3>2. CASE i = Len(seen) + 1
        <4>1. Len(printed') - Len(seen') + i = Len(printed) + 1
          BY <1>5, <1>8, <3>2
        <4> QED
          BY <1>5, <1>7, <1>8, <3>2, <4>1
      <3> QED
        BY <1>5, <3>1, <3>2
    <2> QED
      BY <1>5, <1>8, <2>1 DEF SeenOK
  <1>12. NumbersOK'
    <2>1. \A i \in 1..Len(printed') : i \in 1..Len(printed) \/ i = Len(printed) + 1
      BY <1>8
    <2> QED
      BY <1>2, <1>6, <1>7, <1>8, <2>1 DEF NumbersOK
  <1>13. NoRepeat'
    <2> SUFFICES ASSUME NEW i \in 1..Len(printed'), NEW j \in 1..Len(printed'), i < j,
                        printed'[i].post = printed'[j].post
                 PROVE  j - i > SeenCap
      BY <1>8, <1>9 DEF NoRepeat
    <2>1. i \in 1..Len(printed) /\ printed'[i] = printed[i]
      BY <1>8
    <2>2. CASE j \in 1..Len(printed)
      BY <1>8, <2>1, <2>2 DEF NoRepeat
    <2>3. CASE j = Len(printed) + 1
      <3>1. printed[i].post = p
        BY <1>7, <1>8, <2>1, <2>3
      <3>2. i <= Len(printed) - Len(seen)
        <4> SUFFICES ASSUME i > Len(printed) - Len(seen) PROVE FALSE
          BY <2>1
        <4>1. PICK k : k = i - (Len(printed) - Len(seen))
          OBVIOUS
        <4>2. k \in 1..Len(seen) /\ Len(printed) - Len(seen) + k = i
          BY <2>1, <4>1 DEF SeenOK
        <4>3. seen[k] = p
          BY <3>1, <4>2 DEF SeenOK
        <4> QED
          BY <1>3, <4>2, <4>3 DEF BatchOK
      <3> QED
        BY <2>1, <2>3, <3>2 DEF SeenOK
    <2> QED
      BY <1>8, <2>2, <2>3
  <1> QED
    BY <1>9, <1>10, <1>11, <1>12, <1>13

\* The memory is cut at its older end.
LEMMA FinishKeeps ==
    ASSUME FeedInv, Finish
    PROVE  FeedInv'
  <1> USE FeedIs DEF FeedInv
  <1>1. /\ batch = <<>> /\ seen' = Evicted /\ stage' = "asleep"
        /\ UNCHANGED <<timeline, filter, batch, counter, index, printed, moves, failures>>
    BY DEF Finish
  <1>2. CASE Len(seen) <= SeenCap
    <2>1. seen' = seen
      BY <1>1, <1>2 DEF Evicted
    <2>2. FeedTypes'
      BY <1>1, <2>1 DEF FeedTypes
    <2>3. NumbersOK' /\ NoRepeat'
      BY <1>1 DEF NumbersOK, NoRepeat
    <2> QED
      BY <1>1, <2>1, <2>2, <2>3 DEF BatchOK, SeenOK
  <1>3. CASE Len(seen) > SeenCap
    <2>1. PICK d \in Nat : d = Len(seen) - SeenCap
      BY <1>3
    <2>2. seen' = SubSeq(seen, d + 1, Len(seen))
      BY <1>1, <1>3, <2>1 DEF Evicted
    <2>3. d + 1 \in Int /\ Len(seen) \in Int /\ \A i \in d + 1..Len(seen) : seen[i] \in Post
      OBVIOUS
    <2>4. /\ seen' \in Seq(Post)
          /\ Len(seen') = IF d + 1 <= Len(seen) THEN Len(seen) - (d + 1) + 1 ELSE 0
          /\ \A i \in 1..Len(seen) - (d + 1) + 1 : seen'[i] = seen[(d + 1) + i - 1]
      BY <2>2, <2>3, SubSeqProperties
    <2>5. /\ Len(seen') = SeenCap
          /\ \A i \in 1..SeenCap : seen'[i] = seen[d + i] /\ d + i \in 1..Len(seen)
      <3>2. PICK n \in Nat, c \in Nat \ {0} : n = Len(seen) /\ c = SeenCap
        OBVIOUS
      <3>3. n > c /\ d = n - c
        BY <1>3, <2>1, <3>2
      <3>4. d + 1 <= n /\ n - (d + 1) + 1 = c /\ \A i \in 1..c : (d + 1) + i - 1 = d + i /\ d + i \in 1..n
        BY <3>3
      <3>1. /\ d + 1 <= Len(seen) /\ Len(seen) - (d + 1) + 1 = SeenCap
            /\ \A i \in 1..SeenCap : (d + 1) + i - 1 = d + i /\ d + i \in 1..Len(seen)
        BY <3>2, <3>4
      <3> QED
        BY <2>4, <3>1
    <2>6. SeenOK'
      <3>1. \A i \in 1..SeenCap : Len(printed) - Len(seen) + (d + i) = Len(printed) - SeenCap + i
        BY <2>1
      <3>2. \A i \in 1..SeenCap : seen'[i] = printed[Len(printed) - SeenCap + i].post
        BY <2>5, <3>1 DEF SeenOK
      <3>3. SeenCap <= Len(printed) /\ SeenCap >= SeenCap
        BY <1>3 DEF SeenOK
      <3> QED
        BY <1>1, <2>5, <3>2, <3>3 DEF SeenOK
    <2> QED
      BY <1>1, <2>4, <2>6 DEF FeedTypes, BatchOK, NumbersOK, NoRepeat
  <1> QED
    BY <1>2, <1>3

\* Every step of the feed and of the timeline.
LEMMA FeedStepKeeps ==
    ASSUME FeedInv, [FeedNext]_feedVars
    PROVE  FeedInv'
  <1> USE DEF FeedInv
  <1>1. CASE Fetch
    <2>1. PICK limit : batch' = Fresh(limit) /\ stage' = "emit"
                       /\ UNCHANGED <<timeline, filter, seen, counter, index, printed, moves, failures>>
      BY <1>1 DEF Fetch
    <2>2. /\ batch' \in Seq(Post)
          /\ \A i, j \in 1..Len(batch') : i # j => batch'[i] # batch'[j]
          /\ \A i \in 1..Len(batch') : \A j \in 1..Len(seen) : batch'[i] # seen[j]
      BY <2>1, FreshIs
    <2> QED
      BY <2>1, <2>2 DEF FeedTypes, BatchOK, SeenOK, NumbersOK, NoRepeat
  <1>2. CASE PollFails
    <2>1. /\ batch' = <<>> /\ stage' = "asleep" /\ failures' \in 0..MaxFailure
          /\ UNCHANGED <<timeline, filter, seen, counter, index, printed, moves>>
      BY <1>2, FeedAssumption DEF PollFails, FeedTypes
    <2> QED
      BY <2>1 DEF FeedTypes, BatchOK, SeenOK, NumbersOK, NoRepeat
  <1>3. CASE Wake
    BY <1>3 DEF Wake, FeedTypes, BatchOK, SeenOK, NumbersOK, NoRepeat
  <1>4. ASSUME NEW p \in Post, Shift(p) PROVE FeedInv'
    <2>1. /\ timeline' \in SUBSET Post /\ moves' \in 0..MaxMove
          /\ UNCHANGED <<filter, stage, batch, seen, counter, index, printed, failures>>
      BY <1>4, FeedAssumption DEF Shift, FeedTypes
    <2> QED
      BY <2>1 DEF FeedTypes, BatchOK, SeenOK, NumbersOK, NoRepeat
  <1>5. CASE UNCHANGED feedVars
    BY <1>5 DEF feedVars, FeedTypes, BatchOK, SeenOK, NumbersOK, NoRepeat
  <1> QED
    BY <1>1, <1>2, <1>3, <1>4, <1>5, NumberKeeps, PrintKeeps, FinishKeeps DEF FeedNext, FeedStep

\* Nothing was printed.
LEMMA FeedStarts == FeedInit => FeedInv
  <1> SUFFICES ASSUME FeedInit PROVE FeedInv
    OBVIOUS
  <1>1. /\ batch = <<>> /\ seen = <<>> /\ printed = <<>> /\ counter = 0 /\ stage = "backlog"
        /\ DOMAIN index = {} /\ moves = 0 /\ failures = 0 /\ timeline \subseteq Post /\ filter \subseteq Post
    BY DEF FeedInit
  <1>2. 1..0 = {}
    OBVIOUS
  <1> QED
    BY <1>1, <1>2, FeedAssumption DEF FeedInv, FeedTypes, BatchOK, SeenOK, NumbersOK, NoRepeat

\* Whatever comes, goes and fails, the feed's memory is the end of what was printed.
THEOREM FeedInvariant == FeedSpec => []FeedInv
  BY FeedStarts, FeedStepKeeps, PTL DEF FeedSpec

\* The feed has its types.
THEOREM FeedTypeCorrect == FeedSpec => []FeedTypes
  BY FeedInvariant, PTL DEF FeedInv

\* No post is printed again while the feed remembers it, and every number that can be typed means
\* the post it was printed with (stream.ts, interactive.ts).
THEOREM ScreensAreExact == FeedSpec => []ScreenExact
  <1>1. FeedInv => ScreenExact
    <2> SUFFICES ASSUME FeedInv PROVE Numbered
      BY DEF FeedInv, ScreenExact
    <2>1. FeedTypes /\ NumbersOK
      BY DEF FeedInv
    <2> QED
      BY <2>1, FeedIs DEF NumbersOK, Numbered
  <1> QED
    BY <1>1, FeedInvariant, PTL

-----------------------------------------------------------------------------
(* Threads of posts that were made *)

\* The root that a reply to p names.
Onto(p) == IF p = None THEN None ELSE Root(p)

\* A post answers one that was made before it, and names the root that one names, or else it; so does
\* a call that is about to make one.
RepliesInv ==
    /\ \A u \in Made : made[u].parent \in (1..u - 1) \cup {None} /\ made[u].root = Onto(made[u].parent)
    /\ \A c \in DOMAIN writes :
         writes[c].at \in {"mentions", "create"} => writes[c].root = Onto(writes[c].parent)

\* There are no more posts than calls, so that none is None.
LEMMA MadeAre ==
    ASSUME CallsInv
    PROVE  None \notin Made /\ Made = 1..Len(made) /\ Len(made) \in Nat /\ IsFiniteSet(Made)
  <1>1. /\ Made = 1..Len(made) /\ Len(made) \in Nat /\ DOMAIN writes = 1..Len(writes)
        /\ Len(writes) \in Nat /\ Len(writes) <= MaxCall
    BY DEF CallsInv, CallsOK, ConversationTypes, Made
  <1>2. PICK m, n \in Nat : m = Len(made) /\ n = Len(writes)
    BY <1>1
  <1> DEFINE f == [u \in Made |-> made[u].by]
  <1>3. f \in Injection(1..m, 1..n)
    BY <1>1, <1>2 DEF CallsInv, MadeBy, Injection, IsInjective
  <1>4. /\ IsFiniteSet(1..m) /\ Cardinality(1..m) = m /\ IsFiniteSet(1..n) /\ Cardinality(1..n) = n
    BY FS_Interval
  <1> HIDE DEF f
  <1>5. m <= n
    BY <1>3, <1>4, FS_Injection
  <1>6. MaxCall \in Nat /\ None \notin 1..MaxCall /\ m <= MaxCall
    BY <1>1, <1>2, <1>5, ConversationAssumption
  <1>7. None \notin 1..m
    BY <1>6
  <1> QED
    BY <1>1, <1>2, <1>4, <1>7

\* Every step keeps it.
LEMMA RepliesStep ==
    ASSUME CallsInv, RepliesInv, ConversationNext
    PROVE  RepliesInv'
  <1>1. /\ writes \in Seq(PostCall) /\ DOMAIN writes = 1..Len(writes) /\ Len(writes) \in Nat
        /\ \A c \in DOMAIN writes : /\ writes[c] \in PostCall
                                    /\ writes[c].parent \in Made \cup {None}
                                    /\ writes[c].at = "parent" => writes[c].parent \in Made
    BY DEF CallsInv, CallsOK, ConversationTypes
  <1>2. None \notin Made /\ Made = 1..Len(made) /\ Len(made) \in Nat
    BY MadeAre
  <1>3. ASSUME UNCHANGED made, NEW c \in DOMAIN writes, NEW x \in PostCall, writes' = [writes EXCEPT ![c] = x],
               x.at \in {"mentions", "create"} => x.root = Onto(x.parent)
        PROVE  RepliesInv'
    <2>1. /\ DOMAIN writes' = DOMAIN writes /\ writes'[c] = x
          /\ \A d \in DOMAIN writes : d # c => writes'[d] = writes[d]
      BY <1>1, <1>3
    <2>2. Made' = Made /\ made' = made
      BY <1>3 DEF Made
    <2> QED
      BY <1>3, <2>1, <2>2 DEF RepliesInv, Onto, Root
  <1>4. ASSUME NEW again \in 0..1, NEW parent \in Made \cup {None}, CallPost(again, parent)
        PROVE  RepliesInv'
    <2>1. PICK x : x = [at |-> IF parent = None THEN "mentions" ELSE "parent",
                        parent |-> parent, root |-> None, replays |-> again]
      OBVIOUS
    <2>2. x.at = "parent" \/ (x.at = "mentions" /\ x.parent = None /\ x.root = None)
      BY <2>1
    <2>3. writes' = Append(writes, x) /\ UNCHANGED made
      BY <1>4, <2>1 DEF CallPost
    <2>4. /\ writes'[Len(writes) + 1] = x /\ DOMAIN writes' = DOMAIN writes \cup {Len(writes) + 1}
          /\ \A d \in DOMAIN writes : writes'[d] = writes[d] /\ d # Len(writes) + 1
      BY <1>1, <2>3
    <2>5. Made' = Made /\ made' = made
      BY <2>3 DEF Made
    <2> QED
      BY <2>2, <2>4, <2>5 DEF RepliesInv, Onto, Root
  <1>5. ASSUME NEW c \in DOMAIN writes, ReadParent(c)
        PROVE  RepliesInv'
    <2>1. PICK r : r = Root(writes[c].parent)
      OBVIOUS
    <2>2. PICK x : x = [at |-> "mentions", parent |-> writes[c].parent, root |-> r, replays |-> writes[c].replays]
      OBVIOUS
    <2>3. writes[c].parent \in Made
      BY <1>5 DEF ReadParent, Present
    <2>4. x.at = "mentions" /\ x.root = Onto(x.parent)
      BY <1>2, <2>1, <2>2, <2>3 DEF Onto
    <2>5. UNCHANGED made /\ writes' = [writes EXCEPT ![c] = [writes[c] EXCEPT !.at = "mentions", !.root = r]]
      BY <1>1, <1>5, <2>1 DEF ReadParent, PostCall
    <2>6. [writes[c] EXCEPT !.at = "mentions", !.root = r] = x
      <3>1. PICK y \in PostCall : y = writes[c]
        BY <1>1
      <3>2. PICK z : z = [writes[c] EXCEPT !.at = "mentions", !.root = r]
        OBVIOUS
      <3>3. z = [at |-> "mentions", parent |-> y.parent, root |-> r, replays |-> y.replays]
        BY <3>1, <3>2 DEF PostCall
      <3> QED
        BY <2>2, <3>1, <3>2, <3>3
    <2>7. r \in Nat \cup {None}
      <3>1. made \in Seq([parent : Made \cup {None}, root : Made \cup {None}, by : 1..MaxCall])
        BY DEF CallsInv, CallsOK, ConversationTypes
      <3>2. made[writes[c].parent].root \in Made \cup {None} /\ Made \in SUBSET Nat
        <4> DEFINE R == [parent : Made \cup {None}, root : Made \cup {None}, by : 1..MaxCall]
        <4>1. \A u \in Made : made[u] \in R
          <5> HIDE DEF R
          <5>1. made \in Seq(R)
            BY <3>1 DEF R
          <5> QED
            BY <1>2, <5>1
        <4> QED
          BY <1>2, <2>3, <4>1
      <3> QED
        BY <2>1, <2>3, <3>2 DEF Root
    <2>8. x \in PostCall
      BY <1>1, <2>2, <2>7 DEF PostCall
    <2> QED
      BY <1>3, <2>4, <2>5, <2>6, <2>8
  <1>6. ASSUME NEW c \in DOMAIN writes, Mentioned(c)
        PROVE  RepliesInv'
    <2>1. PICK x : x = [writes[c] EXCEPT !.at = "create"]
      OBVIOUS
    <2>2. x \in PostCall /\ x.at = "create" /\ x.parent = writes[c].parent /\ x.root = writes[c].root
      BY <1>1, <2>1 DEF PostCall
    <2>3. writes' = [writes EXCEPT ![c] = x] /\ UNCHANGED made /\ writes[c].at = "mentions"
      BY <1>6, <2>1 DEF Mentioned
    <2> QED
      BY <1>3, <2>2, <2>3 DEF RepliesInv
  <1>7. ASSUME NEW c \in DOMAIN writes, Write(c)
        PROVE  RepliesInv'
    <2>1. PICK x : x = [writes[c] EXCEPT !.at = "written"]
      OBVIOUS
    <2>2. x.at = "written"
      BY <1>1, <2>1 DEF PostCall
    <2>3. PICK y : y = [parent |-> writes[c].parent, root |-> writes[c].root, by |-> c]
      OBVIOUS
    <2>4. /\ writes' = [writes EXCEPT ![c] = x] /\ writes[c].at = "create" /\ made' = Append(made, y)
      BY <1>7, <2>1, <2>3 DEF Write
    <2>5. y.parent \in Made \cup {None} /\ y.root = Onto(y.parent)
      BY <1>1, <2>3, <2>4 DEF RepliesInv
    <2>6. PICK n \in Nat : n = Len(made) + 1
      BY <1>2
    <2>7. made'[n] = y /\ (\A u \in Made : made'[u] = made[u] /\ u # n) /\ Made' = Made \cup {n}
      <3>1. made \in Seq([parent : Made \cup {None}, root : Made \cup {None}, by : 1..MaxCall])
        BY DEF CallsInv, CallsOK, ConversationTypes
      <3> QED
        BY <1>2, <2>4, <2>6, <3>1 DEF Made
    <2>8. \A p \in Made \cup {None} : Onto(p)' = Onto(p)
      BY <2>7 DEF Onto, Root
    <2>9. (1..n - 1) = Made
      BY <1>2, <2>6
    <2>10. ASSUME NEW u \in Made'
           PROVE  made'[u].parent \in (1..u - 1) \cup {None} /\ made'[u].root = (Onto(made[u].parent))'
      <3>1. CASE u = n
        <4>1. y.root = Onto(y.parent)'
          BY <2>5, <2>8
        <4> QED
          BY <2>5, <2>7, <2>9, <3>1, <4>1
      <3>2. CASE u \in Made
        <4>1. made[u].parent \in (1..u - 1) \cup {None} /\ made[u].root = Onto(made[u].parent)
          BY <3>2 DEF RepliesInv
        <4>2. made[u].parent \in Made \cup {None}
          BY <1>2, <3>2, <4>1
        <4>3. made'[u] = made[u]
          BY <2>7, <3>2
        <4> QED
          BY <2>8, <4>1, <4>2, <4>3
      <3> QED
        BY <2>7, <3>1, <3>2
    <2>11. /\ DOMAIN writes' = DOMAIN writes /\ writes'[c] = x
           /\ \A d \in DOMAIN writes : d # c => writes'[d] = writes[d]
      BY <1>1, <2>4
    <2>12. ASSUME NEW d \in DOMAIN writes', writes'[d].at \in {"mentions", "create"}
           PROVE  writes'[d].root = (Onto(writes[d].parent))'
      <3>1. d \in DOMAIN writes /\ writes'[d] = writes[d]
        BY <2>2, <2>11, <2>12
      <3>2. writes[d].root = Onto(writes[d].parent) /\ writes[d].parent \in Made \cup {None}
        BY <1>1, <2>12, <3>1 DEF RepliesInv
      <3> QED
        BY <2>8, <3>1, <3>2
    <2> QED
      BY <2>10, <2>12 DEF RepliesInv
  <1>8. ASSUME NEW c \in DOMAIN writes, NEW at \in {"failed", "done"}, writes' = [writes EXCEPT ![c] = Ended(at)],
               UNCHANGED made
        PROVE  RepliesInv'
    <2>1. Ended(at) \in PostCall /\ Ended(at).at = at
      BY DEF Ended, PostCall
    <2> QED
      BY <1>3, <1>8, <2>1
  <1>9. ASSUME NEW c \in DOMAIN writes, NEW auth \in BOOLEAN, CallFails(c, auth)
        PROVE  RepliesInv'
    <2>1. CASE Replays(c, auth)
      <3>1. PICK at : at = IF writes[c].parent = None THEN "mentions" ELSE "parent"
        OBVIOUS
      <3>2. PICK x : x = [at |-> at, parent |-> writes[c].parent, root |-> writes[c].root, replays |-> 0]
        OBVIOUS
      <3>3. [writes[c] EXCEPT !.at = at, !.replays = 0] = x
        <4>1. PICK y \in PostCall : y = writes[c]
          BY <1>1
        <4>2. PICK z : z = [writes[c] EXCEPT !.at = at, !.replays = 0]
          OBVIOUS
        <4>3. z = [at |-> at, parent |-> y.parent, root |-> y.root, replays |-> 0]
          BY <4>1, <4>2 DEF PostCall
        <4> QED
          BY <3>2, <4>1, <4>2, <4>3
      <3>4. x \in PostCall
        <4>1. writes[c].parent \in Nat \cup {None} /\ writes[c].root \in Nat \cup {None} /\ 0 \in 0..1
          BY <1>1 DEF PostCall
        <4>2. at \in {"parent", "mentions", "create", "written", "failed", "done"}
          BY <3>1
        <4> QED
          BY <3>2, <4>1, <4>2 DEF PostCall
      <3>5. writes' = [writes EXCEPT ![c] = x] /\ UNCHANGED made /\ writes[c].at \in {"parent", "create"}
        BY <1>9, <2>1, <3>1, <3>3 DEF CallFails, Replays
      <3>6. x.at \in {"mentions", "create"} => x.root = Onto(x.parent)
        <4> SUFFICES ASSUME x.at \in {"mentions", "create"} PROVE x.root = Onto(x.parent)
          OBVIOUS
        <4>1. x.at = at /\ x.parent = writes[c].parent /\ x.root = writes[c].root
          BY <3>2
        <4>2. writes[c].parent = None
          BY <3>1, <4>1
        <4>3. writes[c].at = "create"
          BY <1>1, <1>2, <3>5, <4>2
        <4> QED
          BY <4>1, <4>3 DEF RepliesInv
      <3> QED
        BY <1>3, <3>4, <3>5, <3>6
    <2>2. CASE ~Replays(c, auth)
      BY <1>8, <1>9, <2>2 DEF CallFails
    <2> QED
      BY <2>1, <2>2
  <1>10. ASSUME UNCHANGED <<made, writes>> PROVE RepliesInv'
    BY <1>10 DEF RepliesInv, Onto, Root, Made
  <1>11. ASSUME NEW u \in Made, RemovePost(u) PROVE RepliesInv'
    BY <1>10, <1>11 DEF RemovePost
  <1>12. CASE IndexCommit
    BY <1>10, <1>12 DEF IndexCommit
  <1>13. ASSUME NEW c \in DOMAIN writes, Report(c) PROVE RepliesInv'
    BY <1>8, <1>13 DEF Report
  <1> QED
    BY <1>4, <1>5, <1>6, <1>7, <1>9, <1>11, <1>12, <1>13 DEF ConversationNext

\* Whoever replied to whom meanwhile: every post names the root of the one it answers.
THEOREM RepliesInvariant == ConversationSpec => []RepliesInv
  <1>1. ConversationInit => RepliesInv
    <2> SUFFICES ASSUME ConversationInit PROVE RepliesInv
      OBVIOUS
    <2>1. Made = {} /\ DOMAIN writes = {}
      BY DEF ConversationInit, Made
    <2> QED
      BY <2>1 DEF RepliesInv
  <1>2. CallsInv /\ RepliesInv /\ [ConversationNext]_conversationVars => RepliesInv'
    <2>1. ASSUME RepliesInv, UNCHANGED conversationVars PROVE RepliesInv'
      BY <2>1 DEF RepliesInv, Onto, Root, Made, conversationVars
    <2> QED
      BY <2>1, RepliesStep
  <1> QED
    BY <1>1, <1>2, CallsInvariant, PTL DEF ConversationSpec

\* The table is that of posts that were made, and says of them what they are.
LEMMA TableIs ==
    ASSUME CallsInv
    PROVE  /\ TableOK(Table) /\ Standing(Table) \in SUBSET Made
           /\ \A u \in Standing(Table) : /\ ParentOf(Table, u) = made[u].parent
                                         /\ PostAt(Table, u).root = made[u].root
  <1>1. PICK S \in SUBSET Made : S = Present(handled)
    BY DEF Present
  <1>2. PICK P : P = Table
    OBVIOUS
  <1> DEFINE post == [u \in S |-> [uri |-> u, parent |-> made[u].parent, root |-> made[u].root]]
  <1>3. P = {post[u] : u \in S}
    BY <1>1, <1>2 DEF Table
  <1>4. \A u \in S : post[u].uri = u /\ post[u].parent = made[u].parent /\ post[u].root = made[u].root
    OBVIOUS
  <1>5. IsFiniteSet(S)
    BY MadeAre, FS_Subset
  <1>6. post \in Surjection(S, P)
    BY <1>3 DEF Surjection
  <1> HIDE DEF post
  <1>7. IsFiniteSet(P)
    BY <1>5, <1>6, FS_Surjection
  <1>8. Standing(P) = S
    BY <1>3, <1>4 DEF Standing
  <1>9. \A p, q \in P : p.uri = q.uri => p = q
    BY <1>3, <1>4
  <1>10. TableOK(P)
    BY <1>7, <1>8, <1>9, MadeAre DEF TableOK
  <1>11. \A u \in S : PostAt(P, u) = post[u]
    BY <1>3, <1>4, <1>10, StandingIs
  <1> QED
    BY <1>2, <1>4, <1>8, <1>10, <1>11 DEF ParentOf

\* URIs are numbers, in the order the posts were made.
Ordinal(P) == TableOK(P) /\ \E M \in Nat : Standing(P) \in SUBSET (1..M)

\* The replies to a post, in a row: all of them, and each once.
LEMMA SiblingsAre ==
    ASSUME NEW P, Ordinal(P), NEW u \in Standing(P), NEW v \in Standing(P)
    PROVE  LET s == Siblings(P, u, v) IN
           /\ s \in Seq(Standing(P))
           /\ \A r : r \in Children(P, u, v) <=> \E i \in 1..Len(s) : s[i] = r
           /\ \A i, j \in 1..Len(s) : i # j => s[i] # s[j]
  <1>1. PICK K : K = Children(P, u, v)
    OBVIOUS
  <1>12. PICK M \in Nat : Standing(P) \in SUBSET (1..M) /\ TableOK(P)
    BY DEF Ordinal
  <1>2. K \in SUBSET Standing(P) /\ K \in SUBSET (1..M)
    BY <1>1, <1>12, ChildrenAre
  <1>3. IsFiniteSet(K)
    <2>1. IsFiniteSet(1..M)
      BY FS_Interval
    <2> QED
      BY <1>2, <2>1, FS_Subset
  <1>4. PICK n \in Nat : n = Cardinality(K)
    BY <1>3, FS_CardinalityType
  <1>5. \E s \in [1..n -> K] : Rising(s)
    BY <1>2, <1>4, Listed
  <1>6. Siblings(P, u, v) = CHOOSE s \in [1..n -> K] : Rising(s)
    BY <1>1, <1>4 DEF Siblings, Rising
  <1>7. PICK s \in [1..n -> K] : s = Siblings(P, u, v) /\ Rising(s)
    BY <1>5, <1>6
  <1>8. ASSUME NEW i \in 1..n, NEW j \in 1..n, i # j PROVE s[i] # s[j]
    <2>1. s[i] \in 1..M /\ s[j] \in 1..M
      BY <1>2
    <2>2. i < j \/ j < i
      BY <1>8
    <2> QED
      BY <1>7, <2>1, <2>2 DEF Rising
  <1>9. s \in Surjection(1..n, K)
    <2>1. s \in Injection(1..n, K)
      BY <1>8 DEF Injection, IsInjective
    <2>2. Cardinality(1..n) = n
      BY FS_Interval
    <2> QED
      BY <1>3, <1>4, <2>1, <2>2, FS_Injection
  <1>10. s \in Seq(Standing(P)) /\ Len(s) = n
    <2>1. DOMAIN s = 1..n /\ s \in [1..n -> Standing(P)]
      BY <1>2, <1>7
    <2> QED
      BY <2>1
  <1>11. \A r : r \in K <=> \E i \in 1..n : s[i] = r
    BY <1>7, <1>9 DEF Surjection
  <1> QED
    BY <1>1, <1>7, <1>8, <1>10, <1>11

\* A post that hangs under v in the thread of u.
Under(P, u, r, v) == r \in Standing(P) /\ r # u /\ PostAt(P, r).root = u /\ Over(P, r) = v

\* What walk has visited and what it is to visit: no post twice, every post but the first after the
\* one it hangs under, and whatever hangs under a post that was visited.
VisitOK(P, u, a, b) ==
    /\ a \in Seq(Standing(P)) /\ b \in Seq(Standing(P))
    /\ \A i, j \in 1..Len(a) : i # j => a[i] # a[j]
    /\ \A i, j \in 1..Len(b) : i # j => b[i] # b[j]
    /\ \A i \in 1..Len(a) : \A j \in 1..Len(b) : a[i] # b[j]
    /\ \A i \in 1..Len(a) : IF i = 1 THEN a[i] = u ELSE \E k \in 1..i - 1 : Under(P, u, a[i], a[k])
    /\ IF Len(a) = 0 THEN b = <<u>> ELSE \A j \in 1..Len(b) : \E k \in 1..Len(a) : Under(P, u, b[j], a[k])
    /\ \A r : \A k \in 1..Len(a) : Under(P, u, r, a[k]) => (\E i \in 1..Len(a) : a[i] = r) \/ (\E j \in 1..Len(b) : b[j] = r)

\* A visit.
LEMMA VisitKeeps ==
    ASSUME NEW P, Ordinal(P), NEW u \in Standing(P),
           NEW a, NEW b, VisitOK(P, u, a, b), b # <<>>
    PROVE  /\ VisitOK(P, u, Append(a, Head(b)), Siblings(P, u, Head(b)) \o Tail(b))
           /\ Len(Append(a, Head(b))) = Len(a) + 1
  <1>1. a \in Seq(Standing(P)) /\ b \in Seq(Standing(P))
    BY DEF VisitOK
  <1>2. PICK n \in Nat, m \in Nat : n = Len(a) /\ m + 1 = Len(b)
    <2>1. Len(a) \in Nat /\ Len(b) \in Nat /\ Len(b) # 0
      BY <1>1
    <2>2. Len(b) - 1 \in Nat /\ (Len(b) - 1) + 1 = Len(b)
      BY <2>1
    <2> QED
      BY <2>1, <2>2
  <1>3. PICK v \in Standing(P) : v = Head(b) /\ v = b[1]
    BY <1>1
  <1>4. PICK t : t = Tail(b)
    OBVIOUS
  <1>5. t \in Seq(Standing(P)) /\ Len(t) = m /\ \A j \in 1..m : t[j] = b[j + 1] /\ j + 1 \in 1..m + 1 /\ j + 1 # 1
    BY <1>1, <1>2, <1>4
  <1>6. PICK s : s = Siblings(P, u, v)
    OBVIOUS
  <1>7. PICK q \in Nat : q = Len(s)
    BY <1>6, SiblingsAre
  <1>8. /\ s \in Seq(Standing(P))
        /\ \A r : Under(P, u, r, v) <=> \E i \in 1..q : s[i] = r
        /\ \A i, j \in 1..q : i # j => s[i] # s[j]
    <2>1. /\ s \in Seq(Standing(P))
          /\ \A r : r \in Children(P, u, v) <=> \E i \in 1..Len(s) : s[i] = r
          /\ \A i, j \in 1..Len(s) : i # j => s[i] # s[j]
      <3>1. LET x == Siblings(P, u, v) IN
            /\ x \in Seq(Standing(P))
            /\ \A r : r \in Children(P, u, v) <=> \E i \in 1..Len(x) : x[i] = r
            /\ \A i, j \in 1..Len(x) : i # j => x[i] # x[j]
        BY SiblingsAre
      <3> QED
        BY <1>6, <3>1
    <2>2. \A r : r \in Children(P, u, v) <=> Under(P, u, r, v)
      BY ChildrenAre DEF Under, Ordinal
    <2> QED
      BY <1>7, <2>1, <2>2
  <1>9. PICK c : c = Append(a, v)
    OBVIOUS
  <1>10. c \in Seq(Standing(P)) /\ Len(c) = n + 1 /\ c[n + 1] = v /\ \A i \in 1..n : c[i] = a[i]
    BY <1>1, <1>2, <1>9
  <1>11. PICK d : d = s \o t
    OBVIOUS
  <1>12. /\ d \in Seq(Standing(P)) /\ Len(d) = q + m /\ \A i \in 1..q : d[i] = s[i]
         /\ \A j \in 1..m : d[q + j] = t[j]
    <2>1. Len(t) = m /\ t \in Seq(Standing(P)) /\ s \in Seq(Standing(P)) /\ Len(s) = q
      BY <1>5, <1>7, <1>8
    <2>2. d \in Seq(Standing(P)) /\ Len(d) = q + m
      BY <1>11, <2>1, ConcatProperties
    <2>5. \A i \in 1..q + m : d[i] = IF i <= q THEN s[i] ELSE t[i - q]
      BY <1>11, <2>1, ConcatProperties
    <2>3. \A i \in 1..q : d[i] = s[i]
      BY <2>5
    <2>4. ASSUME NEW j \in 1..m PROVE d[q + j] = t[j]
      <3>1. q + j \in 1..q + m /\ ~(q + j <= q) /\ (q + j) - q = j
        OBVIOUS
      <3> QED
        BY <2>5, <3>1
    <2> QED
      BY <2>2, <2>3, <2>4
  <1>29. /\ \A i, j \in 1..n : i # j => a[i] # a[j]
         /\ \A i, j \in 1..m + 1 : i # j => b[i] # b[j]
         /\ \A i \in 1..n : \A j \in 1..m + 1 : a[i] # b[j]
    BY <1>2 DEF VisitOK
  <1>30. n # 0 => \A j \in 1..m + 1 : \E k \in 1..n : Under(P, u, b[j], a[k])
    BY <1>2 DEF VisitOK
  <1>31. 1 \in 1..m + 1
    OBVIOUS
  <1> DEFINE InA(x) == \E i \in 1..n : a[i] = x
             InT(x) == \E j \in 1..m : t[j] = x
  <1>13. ~InA(v) /\ ~InT(v)
    <2>1. ~InA(v)
      BY <1>3, <1>29, <1>31
    <2>2. \A j \in 1..m : b[j + 1] # b[1]
      BY <1>5, <1>29, <1>31
    <2> QED
      BY <1>3, <1>5, <2>1, <2>2
  <1>14. \A x : ~(InA(x) /\ InT(x))
    BY <1>5, <1>29
  <1>15. ASSUME NEW i \in 1..m, NEW j \in 1..m, i # j PROVE t[i] # t[j]
    <2>1. i + 1 # j + 1
      BY <1>15
    <2> QED
      BY <1>5, <1>29, <2>1
  <1>16. \A x : InA(x) => x = u \/ \E y : InA(y) /\ Under(P, u, x, y)
    BY <1>2 DEF VisitOK
  <1>17. \A x : InT(x) => \E y : InA(y) /\ Under(P, u, x, y)
    <2> SUFFICES ASSUME NEW j \in 1..m PROVE \E y : InA(y) /\ Under(P, u, t[j], y)
      OBVIOUS
    <2>1. n # 0
      <3>1. ASSUME n = 0 PROVE FALSE
        <4>1. b = <<u>>
          BY <1>2, <3>1 DEF VisitOK
        <4> QED
          BY <1>2, <4>1
      <3> QED
        BY <3>1
    <2> QED
      BY <1>5, <1>30, <2>1
  <1>18. v = u \/ \E y : InA(y) /\ Under(P, u, v, y)
    <2>1. CASE n = 0
      <3>1. b = <<u>>
        BY <1>2, <2>1 DEF VisitOK
      <3> QED
        BY <1>3, <3>1
    <2>2. CASE n # 0
      BY <1>3, <1>30, <1>31, <2>2
    <2> QED
      BY <2>1, <2>2
  <1>19. n = 0 => v = u
    <2> SUFFICES ASSUME n = 0 PROVE v = u
      OBVIOUS
    <2>1. b = <<u>>
      BY <1>2 DEF VisitOK
    <2> QED
      BY <1>3, <2>1
  <1>20. ASSUME NEW i \in 1..q PROVE ~InA(s[i]) /\ ~InT(s[i]) /\ s[i] # v
    <2>1. PICK x : x = s[i]
      OBVIOUS
    <2>2. Under(P, u, x, v)
      BY <1>8, <2>1
    <2>3. \A y : InA(y) => ~Under(P, u, x, y)
      BY <1>13, <2>2 DEF Under
    <2>4. x # u
      BY <2>2 DEF Under
    <2> HIDE DEF InA, InT
    <2> QED
      BY <1>16, <1>17, <1>18, <2>1, <2>3, <2>4
  <1>21. \A i, j \in 1..n + 1 : i # j => c[i] # c[j]
    <2>1. \A i, j \in 1..n : i # j => c[i] # c[j]
      BY <1>2, <1>10 DEF VisitOK
    <2>2. \A i \in 1..n : c[i] # v
      BY <1>10, <1>13
    <2>3. \A i \in 1..n + 1 : i \in 1..n \/ i = n + 1
      OBVIOUS
    <2> QED
      BY <1>10, <2>1, <2>2, <2>3
  <1>22. \A i \in 1..q + m : i \in 1..q \/ \E j \in 1..m : i = q + j
    <2> SUFFICES ASSUME NEW i \in 1..q + m, i \notin 1..q PROVE \E j \in 1..m : i = q + j
      OBVIOUS
    <2>1. i - q \in 1..m /\ i = q + (i - q)
      OBVIOUS
    <2> QED
      BY <2>1
  <1>23. ASSUME NEW i \in 1..q + m, NEW j \in 1..q + m, i # j PROVE d[i] # d[j]
    <2>1. CASE i \in 1..q /\ j \in 1..q
      BY <1>8, <1>12, <1>23, <2>1
    <2>2. ASSUME NEW k \in 1..q, NEW l \in 1..m PROVE d[k] # d[q + l]
      BY <1>12, <1>20
    <2>3. ASSUME NEW k \in 1..m, NEW l \in 1..m, i = q + k, j = q + l PROVE d[i] # d[j]
      <3>1. k # l
        BY <1>23, <2>3
      <3> QED
        BY <1>12, <1>15, <2>3, <3>1
    <2> QED
      BY <1>22, <2>1, <2>2, <2>3
  <1>24. \A i \in 1..n + 1 : \A j \in 1..q + m : c[i] # d[j]
    <2> SUFFICES ASSUME NEW i \in 1..n + 1, NEW j \in 1..q + m PROVE c[i] # d[j]
      OBVIOUS
    <2>1. InA(c[i]) \/ c[i] = v
      <3>1. i \in 1..n \/ i = n + 1
        OBVIOUS
      <3> QED
        BY <1>10, <3>1
    <2>2. \/ InT(d[j])
          \/ \E k \in 1..q : d[j] = s[k]
      <3>1. j \in 1..q \/ \E k \in 1..m : j = q + k
        BY <1>22
      <3> QED
        BY <1>12, <3>1
    <2> HIDE DEF InA, InT
    <2> QED
      BY <1>13, <1>14, <1>20, <2>1, <2>2
  <1>25. ASSUME NEW i \in 1..n + 1
         PROVE  IF i = 1 THEN c[i] = u ELSE \E k \in 1..i - 1 : Under(P, u, c[i], c[k])
    <2>1. CASE i \in 1..n
      <3>1. IF i = 1 THEN a[i] = u ELSE \E k \in 1..i - 1 : Under(P, u, a[i], a[k])
        BY <1>2, <2>1 DEF VisitOK
      <3>2. \A k \in 1..i - 1 : k \in 1..n
        BY <2>1
      <3> QED
        BY <1>10, <2>1, <3>1, <3>2
    <2>2. CASE i = n + 1 /\ n = 0
      BY <1>10, <1>19, <2>2
    <2>3. CASE i = n + 1 /\ n # 0
      <3>1. \E k \in 1..n : Under(P, u, b[1], a[k])
        BY <1>30, <1>31, <2>3
      <3>2. i # 1 /\ i - 1 = n
        BY <2>3
      <3> QED
        BY <1>3, <1>10, <2>3, <3>1, <3>2
    <2> QED
      BY <2>1, <2>2, <2>3
  <1>26. ASSUME NEW j \in 1..q + m
         PROVE  \E k \in 1..n + 1 : Under(P, u, d[j], c[k])
    <2>1. CASE j \in 1..q
      <3>1. Under(P, u, d[j], v) /\ n + 1 \in 1..n + 1
        <4>1. Under(P, u, s[j], v) /\ d[j] = s[j]
          BY <1>8, <1>12, <2>1
        <4> QED
          BY <4>1
      <3> QED
        BY <1>10, <3>1
    <2>2. ASSUME NEW l \in 1..m, j = q + l PROVE \E k \in 1..n + 1 : Under(P, u, d[j], c[k])
      <3>1. InT(d[j])
        BY <1>12, <2>2
      <3>2. PICK k \in 1..n : Under(P, u, d[j], a[k])
        BY <1>17, <3>1
      <3>3. k \in 1..n + 1
        OBVIOUS
      <3> QED
        BY <1>10, <3>2, <3>3
    <2> QED
      BY <1>22, <2>1, <2>2
  <1>27. ASSUME NEW k \in 1..n + 1, NEW r, Under(P, u, r, c[k])
         PROVE  (\E i \in 1..n + 1 : c[i] = r) \/ (\E j \in 1..q + m : d[j] = r)
    <2>1. CASE k = n + 1
      <3>1. PICK i \in 1..q : s[i] = r
        BY <1>8, <1>10, <1>27, <2>1
      <3>2. i \in 1..q + m
        OBVIOUS
      <3> QED
        BY <1>12, <3>1, <3>2
    <2>2. CASE k \in 1..n
      <3>1. (\E i \in 1..n : a[i] = r) \/ (\E j \in 1..m + 1 : b[j] = r)
        BY <1>2, <1>10, <1>27, <2>2 DEF VisitOK
      <3>2. ASSUME NEW i \in 1..n, a[i] = r PROVE \E l \in 1..n + 1 : c[l] = r
        <4>1. i \in 1..n + 1
          OBVIOUS
        <4> QED
          BY <1>10, <3>2, <4>1
      <3>3. ASSUME b[1] = r PROVE \E l \in 1..n + 1 : c[l] = r
        <4>1. n + 1 \in 1..n + 1
          OBVIOUS
        <4> QED
          BY <1>3, <1>10, <3>3, <4>1
      <3>4. ASSUME NEW j \in 1..m + 1, j # 1, b[j] = r PROVE \E l \in 1..q + m : d[l] = r
        <4>1. PICK l \in 1..m : j = l + 1
          <5>1. j - 1 \in 1..m /\ j = (j - 1) + 1
            BY <3>4
          <5> QED
            BY <5>1
        <4>2. q + l \in 1..q + m /\ d[q + l] = r
          <5>1. t[l] = b[l + 1] /\ d[q + l] = t[l]
            BY <1>5, <1>12
          <5>2. q + l \in 1..q + m
            OBVIOUS
          <5> QED
            BY <3>4, <4>1, <5>1, <5>2
        <4> QED
          BY <4>2
      <3> QED
        BY <3>1, <3>2, <3>3, <3>4
    <2> QED
      BY <2>1, <2>2
  <1>28. VisitOK(P, u, c, d)
    <2> HIDE DEF InA, InT
    <2>1. Len(c) # 0 /\ c \in Seq(Standing(P)) /\ d \in Seq(Standing(P))
      BY <1>10, <1>12
    <2>2. /\ \A i, j \in 1..Len(c) : i # j => c[i] # c[j]
          /\ \A i, j \in 1..Len(d) : i # j => d[i] # d[j]
          /\ \A i \in 1..Len(c) : \A j \in 1..Len(d) : c[i] # d[j]
      BY <1>10, <1>12, <1>21, <1>23, <1>24
    <2>3. \A i \in 1..Len(c) : IF i = 1 THEN c[i] = u ELSE \E k \in 1..i - 1 : Under(P, u, c[i], c[k])
      BY <1>10, <1>25
    <2>4. \A j \in 1..Len(d) : \E k \in 1..Len(c) : Under(P, u, d[j], c[k])
      BY <1>10, <1>12, <1>26
    <2>5. \A r : \A k \in 1..Len(c) : Under(P, u, r, c[k]) =>
            (\E i \in 1..Len(c) : c[i] = r) \/ (\E j \in 1..Len(d) : d[j] = r)
      BY <1>10, <1>12, <1>27
    <2> QED
      BY <2>1, <2>2, <2>3, <2>4, <2>5 DEF VisitOK
  <1> QED
    BY <1>2, <1>3, <1>4, <1>6, <1>9, <1>10, <1>11, <1>28

\* A step of walk.
Visited(P, u, w) ==
    IF w.next = <<>> THEN w
    ELSE [shown |-> Append(w.shown, Head(w.next)), next |-> Siblings(P, u, Head(w.next)) \o Tail(w.next)]

\* What Walked is: what was visited when nothing is left to visit.
LEMMA WalkedIs ==
    ASSUME NEW P, Ordinal(P), NEW u \in Standing(P)
    PROVE  VisitOK(P, u, Walked(P, u), <<>>)
  <1>1. TableOK(P)
    BY DEF Ordinal
  <1>2. PICK N \in Nat : N = Cardinality(P)
    BY <1>1, StandingIs
  <1>3. PICK e : e = [shown |-> <<>>, next |-> <<u>>]
    OBVIOUS
  <1> DEFINE R == [shown : Seq(Standing(P)), next : Seq(Standing(P))]
             S == {w \in R : VisitOK(P, u, w.shown, w.next)}
             F == [w \in S |-> Visited(P, u, w)]
             Is(g) == g = [n \in 0..N |-> IF n = 0 THEN e ELSE Visited(P, u, g[n - 1])]
             c == CHOOSE g : Is(g)
  <1>4. Walked(P, u) = c[N].shown
    BY <1>2, <1>3 DEF Walked, Visited
  <1>5. ASSUME NEW w \in S
        PROVE  /\ Visited(P, u, w) \in S
               /\ w.next # <<>> => Len(Visited(P, u, w).shown) = Len(w.shown) + 1
    <2>1. PICK a \in Seq(Standing(P)), b \in Seq(Standing(P)) : a = w.shown /\ b = w.next /\ VisitOK(P, u, a, b)
      OBVIOUS
    <2>2. CASE b = <<>>
      BY <2>1, <2>2 DEF Visited
    <2>3. CASE b # <<>>
      <3>1. PICK x, y : x = Append(a, Head(b)) /\ y = Siblings(P, u, Head(b)) \o Tail(b)
        OBVIOUS
      <3>2. VisitOK(P, u, x, y) /\ Len(x) = Len(a) + 1
        BY <2>1, <2>3, <3>1, VisitKeeps
      <3>3. x \in Seq(Standing(P)) /\ y \in Seq(Standing(P))
        BY <3>2 DEF VisitOK
      <3>4. Visited(P, u, w) = [shown |-> x, next |-> y]
        BY <2>1, <2>3, <3>1 DEF Visited
      <3> QED
        BY <2>1, <3>2, <3>3, <3>4
    <2> QED
      BY <2>2, <2>3
  <1>6. e \in S
    <2>1. <<>> \in Seq(Standing(P)) /\ Len(<<>>) = 0 /\ <<u>> \in Seq(Standing(P)) /\ Len(<<u>>) = 1
      OBVIOUS
    <2>2. VisitOK(P, u, <<>>, <<u>>)
      BY <2>1 DEF VisitOK
    <2> QED
      BY <1>3, <2>1, <2>2
  <1> HIDE DEF S
  <1>7. F \in [S -> S]
    BY <1>5
  <1>8. PICK g : Repeats(g, N, S, F, e)
    <2> HIDE DEF F
    <2> QED
      BY <1>6, <1>7, Iterates
  <1>9. g \in [0..N -> S] /\ g[0] = e /\ \A n \in 1..N : g[n] = Visited(P, u, g[n - 1])
    <2>1. g \in [0..N -> S] /\ g[0] = e /\ \A n \in 1..N : g[n] = F[g[n - 1]]
      BY <1>8 DEF Repeats
    <2>2. \A n \in 1..N : g[n - 1] \in S
      BY <2>1
    <2> QED
      BY <2>1, <2>2
  <1>10. Is(g)
    <2>1. \A n \in 0..N : g[n] = IF n = 0 THEN e ELSE Visited(P, u, g[n - 1])
      BY <1>9
    <2> DEFINE h == [n \in 0..N |-> IF n = 0 THEN e ELSE Visited(P, u, g[n - 1])]
    <2>2. \A n \in 0..N : g[n] = h[n]
      BY <2>1
    <2>3. DOMAIN g = 0..N /\ DOMAIN h = 0..N /\ g = [n \in DOMAIN g |-> g[n]] /\ h = [n \in DOMAIN h |-> h[n]]
      BY <1>9
    <2> HIDE DEF h
    <2>4. g = h
      BY <2>2, <2>3
    <2> QED
      BY <2>4 DEF h
  <1>11. Is(c)
    <2> HIDE DEF Is
    <2> QED
      BY <1>10
  <1> HIDE DEF c
  <1>12. c[0] = e /\ \A n \in 1..N : c[n] = Visited(P, u, c[n - 1])
    <2>1. \A n \in 0..N : c[n] = IF n = 0 THEN e ELSE Visited(P, u, c[n - 1])
      BY <1>11
    <2>2. 0 \in 0..N /\ \A n \in 1..N : n \in 0..N /\ n # 0
      OBVIOUS
    <2> HIDE DEF Is
    <2> QED
      BY <2>1, <2>2
  <1> HIDE DEF F, Is
  <1> DEFINE T == {n \in 0..N : c[n] \in S /\ (c[n].next = <<>> \/ Len(c[n].shown) = n)}
  <1>13. 0 \in T
    <2>1. Len(e.shown) = 0
      BY <1>3
    <2> QED
      BY <1>6, <1>12, <2>1
  <1>14. ASSUME NEW n \in 1..N, n - 1 \in T PROVE n \in T
    <2>1. c[n - 1] \in S /\ (c[n - 1].next = <<>> \/ Len(c[n - 1].shown) = n - 1) /\ c[n] = Visited(P, u, c[n - 1])
      BY <1>12, <1>14
    <2>2. c[n] \in S /\ (c[n - 1].next # <<>> => Len(c[n].shown) = n)
      BY <1>5, <2>1
    <2>3. c[n - 1].next = <<>> => c[n].next = <<>>
      BY <2>1 DEF Visited
    <2> QED
      BY <2>2, <2>3
  <1>15. N \in T
    <2> HIDE DEF T
    <2>1. 0..N \subseteq T
      BY <1>13, <1>14, Induct
    <2> QED
      BY <2>1
  <1>16. c[N].next = <<>>
    <2> SUFFICES ASSUME c[N].next # <<>> PROVE FALSE
      OBVIOUS
    <2>1. c[N] \in S /\ Len(c[N].shown) = N
      BY <1>15
    <2>2. PICK w : w = Visited(P, u, c[N])
      OBVIOUS
    <2>3. w \in S /\ Len(w.shown) = N + 1
      BY <1>5, <2>1, <2>2
    <2>4. /\ w.shown \in Seq(Standing(P))
          /\ \A i, j \in 1..Len(w.shown) : i # j => w.shown[i] # w.shown[j]
      BY <2>3 DEF S, VisitOK
    <2>5. N + 1 <= N
      BY <1>1, <1>2, <2>3, <2>4, Fits
    <2> QED
      BY <2>5
  <1>17. VisitOK(P, u, c[N].shown, c[N].next)
    BY <1>15 DEF S
  <1> QED
    BY <1>4, <1>16, <1>17

\* A post and whatever hangs under what is shown, each once, and after the one it hangs under.
WholeTree(P, u, s) ==
    /\ s \in Seq(Standing(P)) /\ Len(s) >= 1 /\ s[1] = u
    /\ \A i, j \in 1..Len(s) : i # j => s[i] # s[j]
    /\ \A i \in 2..Len(s) : \E k \in 1..i - 1 : Under(P, u, s[i], s[k])
    /\ \A r : \A k \in 1..Len(s) : Under(P, u, r, s[k]) => \E i \in 1..Len(s) : s[i] = r

\* So is what a walk shows.
LEMMA WalkedAre ==
    ASSUME NEW P, Ordinal(P), NEW u \in Standing(P)
    PROVE  WholeTree(P, u, Walked(P, u))
  <1>7. PICK s : s = Walked(P, u)
    OBVIOUS
  <1>1. VisitOK(P, u, s, <<>>)
    BY <1>7, WalkedIs
  <1>2. PICK n \in Nat : n = Len(s)
    BY <1>1 DEF VisitOK
  <1>3. n # 0
    <2> SUFFICES ASSUME n = 0 PROVE FALSE
      OBVIOUS
    <2>1. <<>> = <<u>>
      BY <1>1, <1>2 DEF VisitOK
    <2> QED
      BY <2>1
  <1>4. \A i \in 1..n : IF i = 1 THEN s[i] = u ELSE \E k \in 1..i - 1 : Under(P, u, s[i], s[k])
    BY <1>1, <1>2 DEF VisitOK
  <1>5. 1 \in 1..n /\ \A i \in 2..n : i \in 1..n /\ i # 1
    BY <1>3
  <1>6. /\ s \in Seq(Standing(P))
        /\ \A i, j \in 1..n : i # j => s[i] # s[j]
        /\ \A r : \A k \in 1..n : Under(P, u, r, s[k]) => \E i \in 1..n : s[i] = r
    <2>1. \A j : j \notin 1..Len(<<>>)
      OBVIOUS
    <2> QED
      BY <1>1, <1>2, <2>1 DEF VisitOK
  <1> QED
    BY <1>2, <1>3, <1>4, <1>5, <1>6, <1>7 DEF WholeTree

\* Where a conversation began is what a reply in it names as its root.
LEMMA BeginningIs ==
    ASSUME CallsInv, RepliesInv, NEW v \in Made
    PROVE  IF made[v].parent = None THEN Beginning(v) = v
           ELSE /\ made[v].parent \in Made /\ made[v].parent < v
                /\ made[v].root = Beginning(v) /\ Beginning(made[v].parent) = Beginning(v)
  <1>1. None \notin Made /\ Made = 1..Len(made) /\ Len(made) \in Nat
    BY MadeAre
  <1>2. PICK M \in SUBSET Nat : M = Made
    BY <1>1
  <1>3. \A x \in M : /\ x \in Nat /\ made[x].parent # None => made[x].parent \in M /\ made[x].parent < x
                     /\ made[x].root = Onto(made[x].parent)
    BY <1>1, <1>2 DEF RepliesInv
  <1>4. \A x \in M : made[x].root = None <=> made[x].parent = None
    <2>1. \A x \in M : Root(x) # None \/ made[x].root = None
      BY DEF Root
    <2>2. \A x \in M : Root(x) # None
      BY <1>1, <1>2 DEF Root
    <2> QED
      BY <1>3, <2>2 DEF Onto
  <1> DEFINE first(x) == IF made[x].parent = None THEN x ELSE made[x].root
             Is(g) == g = [x \in M |-> IF made[x].parent = None THEN x ELSE g[made[x].parent]]
             c == CHOOSE g : Is(g)
  <1>5. Beginning(v) = c[v] /\ Beginning(made[v].parent) = c[made[v].parent]
    BY <1>2 DEF Beginning
  <1>6. \A x \in M : made[x].parent # None => made[x].root = first(made[x].parent)
    <2> SUFFICES ASSUME NEW x \in M, made[x].parent # None PROVE made[x].root = first(made[x].parent)
      OBVIOUS
    <2>1. PICK p \in M : p = made[x].parent
      BY <1>3
    <2>2. made[x].root = Root(p)
      BY <1>3, <2>1 DEF Onto
    <2>3. Root(p) = first(p)
      BY <1>4 DEF Root
    <2> QED
      BY <2>1, <2>2, <2>3
  <1>7. Is([x \in M |-> first(x)])
    <2> DEFINE h == [x \in M |-> first(x)]
               k == [x \in M |-> IF made[x].parent = None THEN x ELSE h[made[x].parent]]
    <2>1. ASSUME NEW x \in M PROVE h[x] = k[x]
      <3>1. CASE made[x].parent = None
        BY <3>1
      <3>2. CASE made[x].parent # None
        <4>1. h[x] = made[x].root /\ h[made[x].parent] = first(made[x].parent)
          BY <1>3, <3>2
        <4> QED
          BY <1>6, <3>2, <4>1
      <3> QED
        BY <3>1, <3>2
    <2>2. DOMAIN h = M /\ DOMAIN k = M /\ h = [x \in DOMAIN h |-> h[x]] /\ k = [x \in DOMAIN k |-> k[x]]
      OBVIOUS
    <2> HIDE DEF h, k
    <2>3. h = k
      BY <2>1, <2>2
    <2> QED
      BY <2>3 DEF h, k
  <1>8. Is(c)
    <2> HIDE DEF Is
    <2> QED
      BY <1>7
  <1> HIDE DEF c
  <1>9. \A x \in M : c[x] = IF made[x].parent = None THEN x ELSE c[made[x].parent]
    BY <1>8
  <1> HIDE DEF Is
  <1>10. \A x \in M : c[x] = first(x)
    <2> DEFINE D == {x \in M : c[x] # first(x)}
    <2> SUFFICES ASSUME D # {} PROVE FALSE
      OBVIOUS
    <2>1. PICK x \in D : \A y \in D : x <= y
      <3>1. D \in SUBSET Nat
        BY <1>2
      <3> QED
        BY <3>1, Least
    <2>2. made[x].parent # None
      BY <1>9
    <2>3. PICK p \in M : p = made[x].parent /\ p < x /\ p \in Nat /\ x \in Nat
      BY <1>3, <2>2
    <2>4. c[p] = first(p)
      BY <2>1, <2>3
    <2> QED
      BY <1>6, <1>9, <2>2, <2>3, <2>4
  <1>11. CASE made[v].parent = None
    BY <1>2, <1>5, <1>10, <1>11
  <1>12. CASE made[v].parent # None
    BY <1>2, <1>3, <1>5, <1>9, <1>10, <1>12
  <1> QED
    BY <1>11, <1>12

\* The table of the posts that were made.
LEMMA TableOrdinal ==
    ASSUME CallsInv
    PROVE  Ordinal(Table)
  BY TableIs, MadeAre DEF Ordinal

\* What hangs under a post in a thread answers it, and is newer.
LEMMA UnderIs ==
    ASSUME CallsInv, RepliesInv, NEW u \in Standing(Table), NEW v \in Standing(Table), NEW r, Under(Table, u, r, v)
    PROVE  r \in Made /\ made[r].parent = v /\ v < r
  <1>1. PICK P : P = Table
    OBVIOUS
  <1>2. r \in Standing(P) /\ PostAt(P, r).root = u /\ Over(P, r) = v
    BY <1>1 DEF Under
  <1>3. r \in Made /\ u \in Made /\ ParentOf(P, r) = made[r].parent /\ made[r].root = u
    BY <1>1, <1>2, TableIs
  <1>4. made[r].parent # None
    <2>1. made[r].root = Onto(made[r].parent)
      BY <1>3 DEF RepliesInv
    <2> QED
      BY <1>3, <2>1, MadeAre DEF Onto
  <1>5. made[r].parent = v
    BY <1>2, <1>3, <1>4 DEF Over
  <1>6. made[r].parent < r
    BY <1>3, <1>4, BeginningIs
  <1> QED
    BY <1>3, <1>5, <1>6

\* The chain above a post: older and older posts of its conversation.
LEMMA ChainIs ==
    ASSUME CallsInv, RepliesInv, NEW u \in Standing(Table), NEW a, a = Ancestors(Table, u)
    PROVE  /\ a \in Seq(Standing(Table))
           /\ \A i \in 1..Len(a) : /\ a[i] < u /\ Beginning(a[i]) = Beginning(u)
                                   /\ a[i] = made[IF i = 1 THEN u ELSE a[i - 1]].parent
           /\ \A i, j \in 1..Len(a) : i < j => a[j] < a[i]
  <1>1. PICK P : P = Table
    OBVIOUS
  <1>2. /\ a \in Seq(Standing(P))
        /\ \A i \in 1..Len(a) : a[i] = ParentOf(P, IF i = 1 THEN u ELSE a[i - 1])
    BY <1>1, TableIs, AncestorsAre DEF ChainOK
  <1>3. PICK n \in Nat : n = Len(a)
    BY <1>2
  <1>4. /\ Standing(P) \in SUBSET Made /\ Made \in SUBSET Nat /\ None \notin Made
        /\ \A x \in Standing(P) : ParentOf(P, x) = made[x].parent
    BY <1>1, MadeAre, TableIs
  <1>5. \A i \in 1..n : a[i] \in Standing(P) /\ a[i] \in Nat
    <2>1. \A i \in 1..n : a[i] \in Standing(P)
      BY <1>2, <1>3
    <2> QED
      BY <1>4, <2>1
  <1>6. ASSUME NEW i \in 1..n, NEW x, x = IF i = 1 THEN u ELSE a[i - 1]
        PROVE  x \in Standing(P) /\ x \in Nat /\ a[i] = made[x].parent /\ a[i] < x /\ Beginning(a[i]) = Beginning(x)
    <2>1. i # 1 => i - 1 \in 1..n
      OBVIOUS
    <2>2. x \in Standing(P) /\ x \in Made /\ x \in Nat
      BY <1>1, <1>4, <1>5, <1>6, <2>1
    <2>3. a[i] = made[x].parent /\ a[i] # None
      BY <1>2, <1>3, <1>4, <1>5, <1>6, <2>2
    <2> QED
      BY <2>2, <2>3, BeginningIs
  <1>7. \A i \in 1..n : a[i] < u /\ Beginning(a[i]) = Beginning(u)
    <2> DEFINE T == {i \in 0..n : i = 0 \/ (a[i] < u /\ Beginning(a[i]) = Beginning(u))}
    <2>1. ASSUME NEW i \in 1..n, i - 1 \in T PROVE i \in T
      <3>1. CASE i = 1
        BY <1>6, <3>1
      <3>2. CASE i # 1
        <4>1. i - 1 \in 1..n /\ i - 1 # 0
          BY <3>2
        <4>2. a[i - 1] < u /\ Beginning(a[i - 1]) = Beginning(u)
          BY <2>1, <4>1
        <4>3. a[i] < a[i - 1] /\ Beginning(a[i]) = Beginning(a[i - 1])
          BY <1>6, <3>2
        <4>4. a[i] \in Nat /\ a[i - 1] \in Nat /\ u \in Nat
          BY <1>1, <1>4, <1>5, <4>1
        <4> QED
          BY <4>2, <4>3, <4>4
      <3> QED
        BY <3>1, <3>2
    <2>2. 0 \in T
      OBVIOUS
    <2> HIDE DEF T
    <2>3. 0..n \subseteq T
      BY <2>1, <2>2, Induct
    <2>4. \A i \in 1..n : i \in 0..n /\ i # 0
      OBVIOUS
    <2> QED
      BY <2>3, <2>4 DEF T
  <1>8. \A i, j \in 1..n : i < j => a[j] < a[i]
    <2> SUFFICES ASSUME NEW i \in 1..n PROVE \A j \in 1..n : i < j => a[j] < a[i]
      OBVIOUS
    <2> DEFINE T == {j \in 0..n : i < j => a[j] < a[i]}
    <2>1. ASSUME NEW j \in 1..n, j - 1 \in T PROVE j \in T
      <3> SUFFICES ASSUME i < j PROVE a[j] < a[i]
        OBVIOUS
      <3>1. j # 1 /\ j - 1 \in 1..n /\ (i = j - 1 \/ i < j - 1)
        OBVIOUS
      <3>2. a[j] < a[j - 1] /\ a[j] \in Nat /\ a[j - 1] \in Nat /\ a[i] \in Nat
        BY <1>5, <1>6, <3>1
      <3> QED
        BY <2>1, <3>1, <3>2
    <2>2. 0 \in T
      OBVIOUS
    <2> HIDE DEF T
    <2>3. 0..n \subseteq T
      BY <2>1, <2>2, Induct
    <2>4. \A j \in 1..n : j \in 0..n
      OBVIOUS
    <2> QED
      BY <2>3, <2>4 DEF T
  <1> QED
    BY <1>1, <1>2, <1>3, <1>6, <1>7, <1>8

\* What is printed above a post, from the top, and then what is printed below it.
Printing(t, a, s) ==
    /\ Len(a) \in Nat /\ Len(s) \in Nat /\ Len(t) = Len(a) + Len(s)
    /\ DOMAIN t = 1..Len(t)
    /\ \A i \in 1..Len(a) : t[i] = a[(Len(a) - i) + 1]
    /\ \A i \in 1..Len(s) : t[Len(a) + i] = s[i]

LEMMA ThreadIs ==
    ASSUME CallsInv, NEW u \in Standing(Table)
    PROVE  Printing(Thread(Table, u), Ancestors(Table, u), Walked(Table, u))
  <1>1. PICK S, a, s : S = Standing(Table) /\ a = Ancestors(Table, u) /\ s = Walked(Table, u)
    OBVIOUS
  <1>2. a \in Seq(S) /\ s \in Seq(S)
    BY <1>1, TableIs, TableOrdinal, AncestorsAre, WalkedAre DEF ChainOK, WholeTree
  <1>3. PICK n \in Nat, m \in Nat : n = Len(a) /\ m = Len(s)
    BY <1>2
  <1>4. PICK r : r = Reverse(a)
    OBVIOUS
  <1>5. r = [i \in 1..n |-> a[(n - i) + 1]]
    BY <1>3, <1>4 DEF Reverse
  <1>6. \A i \in 1..n : (n - i) + 1 \in 1..n
    OBVIOUS
  <1>7. r \in [1..n -> S]
    BY <1>2, <1>3, <1>5, <1>6
  <1>8. r \in Seq(S) /\ Len(r) = n
    BY <1>7
  <1>9. PICK t : t = Thread(Table, u)
    OBVIOUS
  <1>10. t = r \o s
    BY <1>1, <1>4, <1>9 DEF Thread
  <1>11. Len(t) = n + m /\ \A i \in 1..n + m : t[i] = IF i <= n THEN r[i] ELSE s[i - n]
    <2>1. Len(r \o s) = Len(r) + Len(s)
          /\ \A i \in 1..Len(r) + Len(s) : (r \o s)[i] = IF i <= Len(r) THEN r[i] ELSE s[i - Len(r)]
      BY <1>2, <1>8, ConcatProperties
    <2> QED
      BY <1>3, <1>8, <1>10, <2>1
  <1>12. \A i \in 1..n : t[i] = a[(n - i) + 1]
    BY <1>5, <1>11
  <1>13. \A i \in 1..m : n + i \in 1..n + m /\ ~(n + i <= n) /\ (n + i) - n = i
    OBVIOUS
  <1>14. \A i \in 1..m : t[n + i] = s[i]
    BY <1>11, <1>13
  <1>15. DOMAIN t = 1..Len(t)
    <2>1. r \o s \in Seq(S)
      BY <1>2, <1>8, ConcatProperties
    <2> QED
      BY <1>10, <2>1
  <1> QED
    BY <1>1, <1>3, <1>9, <1>11, <1>12, <1>14, <1>15 DEF Printing

\* Down the chain from where the conversation began: each post hangs under one that is shown.
LEMMA Shown ==
    ASSUME CallsInv, RepliesInv, NEW u \in Standing(Table), NEW first, first = Beginning(u),
           Contains(<<u>> \o Ancestors(Table, u), first)
    PROVE  Contains(Thread(Table, first), u)
  <1>1. PICK P : P = Table
    OBVIOUS
  <1>2. PICK a : a = Ancestors(P, u)
    OBVIOUS
  <1>3. /\ a \in Seq(Standing(P))
        /\ \A i \in 1..Len(a) : /\ a[i] < u /\ Beginning(a[i]) = Beginning(u)
                                /\ a[i] = made[IF i = 1 THEN u ELSE a[i - 1]].parent
        /\ \A i, j \in 1..Len(a) : i < j => a[j] < a[i]
    BY <1>1, <1>2, ChainIs
  <1>4. PICK n \in Nat : n = Len(a)
    BY <1>3
  <1>5. /\ Standing(P) \in SUBSET Made /\ Made \in SUBSET Nat /\ None \notin Made
        /\ \A x \in Standing(P) : ParentOf(P, x) = made[x].parent /\ PostAt(P, x).root = made[x].root
    BY <1>1, MadeAre, TableIs
  <1>6. first = u \/ \E m \in 1..n : a[m] = first
    <2>1. <<u>> \in Seq(Standing(P)) /\ Len(<<u>>) = 1 /\ <<u>>[1] = u
      BY <1>1
    <2>2. PICK t : t = <<u>> \o a
      OBVIOUS
    <2>3. Len(t) = 1 + n /\ \A i \in 1..1 + n : t[i] = IF i <= 1 THEN u ELSE a[i - 1]
      BY <1>3, <1>4, <2>1, <2>2, ConcatProperties
    <2>4. PICK i \in 1..1 + n : t[i] = first
      BY <1>1, <1>2, <2>2, <2>3 DEF Contains
    <2>5. i <= 1 \/ i - 1 \in 1..n
      OBVIOUS
    <2> QED
      BY <2>3, <2>4, <2>5
  <1>7. \A i \in 1..n : a[i] \in Standing(P)
    BY <1>3, <1>4
  <1>8. first \in Standing(P)
    BY <1>1, <1>6, <1>7
  <1>9. PICK s : s = Walked(P, first)
    OBVIOUS
  <1>10. /\ s \in Seq(Standing(P)) /\ Len(s) >= 1 /\ s[1] = first
         /\ \A r : \A k \in 1..Len(s) : Under(P, first, r, s[k]) => \E i \in 1..Len(s) : s[i] = r
    <2>1. Ordinal(P)
      BY <1>1, TableOrdinal
    <2>2. WholeTree(P, first, s)
      BY <1>8, <1>9, <2>1, WalkedAre
    <2> QED
      BY <2>2 DEF WholeTree
  <1>11. PICK l \in Nat : l = Len(s) /\ 1 \in 1..l
    BY <1>10
  <1>12. \E i \in 1..l : s[i] = u
    <2>1. CASE first = u
      BY <1>10, <1>11, <2>1
    <2>2. CASE first # u
      <3>1. PICK m \in 1..n : a[m] = first
        BY <1>6, <2>2
      <3> DEFINE at(i) == IF i = 0 THEN u ELSE a[i]
                 T == {k \in 0..m : \E i \in 1..l : s[i] = at(m - k)}
      <3>2. 0 \in T
        <4>1. m - 0 = m /\ m # 0
          OBVIOUS
        <4> QED
          BY <1>10, <1>11, <3>1, <4>1
      <3>3. ASSUME NEW k \in 1..m, k - 1 \in T PROVE k \in T
        <4>1. PICK d \in 0..n : d = m - k /\ d < m /\ d + 1 \in 1..n /\ m - (k - 1) = d + 1
          <5>1. m - k \in 0..n /\ m - k < m /\ (m - k) + 1 \in 1..n /\ m - (k - 1) = (m - k) + 1
            OBVIOUS
          <5> QED
            BY <5>1
        <4>2. PICK i \in 1..l : s[i] = a[d + 1]
          <5>1. d + 1 # 0
            OBVIOUS
          <5> QED
            BY <3>3, <4>1, <5>1
        <4>3. PICK y : y = at(d)
          OBVIOUS
        <4>4. y \in Standing(P) /\ made[y].parent = a[d + 1] /\ Beginning(y) = Beginning(u) /\ first < y
          <5>1. CASE d = 0
            BY <1>1, <1>3, <1>4, <3>1, <4>1, <4>3, <5>1
          <5>2. CASE d # 0
            <6>1. d \in 1..n /\ (d + 1) - 1 = d /\ d + 1 # 1
              BY <5>2
            <6> QED
              BY <1>3, <1>4, <1>7, <3>1, <4>1, <4>3, <5>2, <6>1
          <5> QED
            BY <5>1, <5>2
        <4>5. y \in Made /\ a[d + 1] \in Made /\ a[d + 1] # None
          BY <1>5, <1>7, <4>1, <4>4
        <4>6. made[y].root = first
          BY <4>4, <4>5, BeginningIs
        <4>7. y # first
          <5>1. y \in Nat /\ first \in Nat
            BY <1>5, <1>8, <4>5
          <5> QED
            BY <4>4, <5>1
        <4>8. Under(P, first, y, s[i])
          BY <1>5, <4>2, <4>4, <4>5, <4>6, <4>7 DEF Under, Over
        <4>9. \E j \in 1..l : s[j] = y
          BY <1>10, <1>11, <4>8
        <4> QED
          BY <4>1, <4>3, <4>9
      <3> HIDE DEF T
      <3>4. m \in T
        <4>1. 0..m \subseteq T
          BY <3>2, <3>3, Induct
        <4> QED
          BY <4>1
      <3>5. m - m = 0
        OBVIOUS
      <3> QED
        BY <3>4, <3>5 DEF T
    <2> QED
      BY <2>1, <2>2
  <1>13. PICK b : b = Ancestors(P, first)
    OBVIOUS
  <1>14. PICK t : t = Thread(P, first)
    OBVIOUS
  <1>15. Len(b) \in Nat /\ Len(t) = Len(b) + l /\ \A i \in 1..l : t[Len(b) + i] = s[i]
    <2>1. Printing(t, b, s)
      BY <1>1, <1>8, <1>9, <1>13, <1>14, ThreadIs
    <2> QED
      BY <1>11, <2>1 DEF Printing
  <1>16. PICK i \in 1..l : s[i] = u
    BY <1>12
  <1>17. Len(b) + i \in 1..Len(t) /\ t[Len(b) + i] = u
    BY <1>15, <1>16
  <1> QED
    BY <1>1, <1>14, <1>17 DEF Contains

\* No thread prints a post twice, or before the one it answers: above the post are older ones, oldest
\* first, and below it newer ones, each after the one it hangs under.
LEMMA Ordered ==
    ASSUME CallsInv, RepliesInv, NEW u \in Standing(Table), NEW t, t = Thread(Table, u),
           NEW i \in 1..Len(t), NEW j \in 1..Len(t), i < j
    PROVE  t[i] # t[j] /\ made[t[i]].parent # t[j]
  <1>1. PICK P : P = Table
    OBVIOUS
  <1>2. PICK a, s : a = Ancestors(P, u) /\ s = Walked(P, u)
    OBVIOUS
  <1>3. /\ Standing(P) \in SUBSET Made /\ Made \in SUBSET Nat /\ None \notin Made
        /\ \A x \in Made : made[x].parent = None \/ (made[x].parent \in Nat /\ made[x].parent < x)
    <2>1. /\ Standing(P) \in SUBSET Made /\ Made \in SUBSET Nat /\ None \notin Made
          /\ \A x \in Made : x \in Nat
      BY <1>1, MadeAre, TableIs
    <2>2. ASSUME NEW x \in Made PROVE made[x].parent = None \/ (made[x].parent \in Nat /\ made[x].parent < x)
      <3>1. made[x].parent \in (1..x - 1) \cup {None} /\ x \in Nat
        BY <2>1 DEF RepliesInv
      <3> QED
        BY <3>1
    <2> QED
      BY <2>1, <2>2
  <1>4. /\ a \in Seq(Standing(P))
        /\ \A k \in 1..Len(a) : a[k] < u
        /\ \A k, l \in 1..Len(a) : k < l => a[l] < a[k]
    BY <1>1, <1>2, ChainIs
  <1>5. /\ s \in Seq(Standing(P)) /\ Len(s) >= 1 /\ s[1] = u
        /\ \A k, l \in 1..Len(s) : k # l => s[k] # s[l]
        /\ \A l \in 2..Len(s) : \E k \in 1..l - 1 : Under(P, u, s[l], s[k])
    <2>1. Ordinal(P)
      BY <1>1, TableOrdinal
    <2>2. WholeTree(P, u, s)
      BY <1>1, <1>2, <2>1, WalkedAre
    <2> QED
      BY <2>2 DEF WholeTree
  <1>6. PICK n \in Nat, m \in Nat : n = Len(a) /\ m = Len(s)
    BY <1>4, <1>5
  <1>7. /\ Len(t) = n + m /\ \A k \in 1..n : t[k] = a[(n - k) + 1]
        /\ \A k \in 1..m : t[n + k] = s[k]
    <2>1. Printing(t, a, s)
      BY <1>1, <1>2, ThreadIs
    <2> QED
      BY <1>6, <2>1 DEF Printing
  <1>8. u \in Nat /\ (\A k \in 1..n : a[k] \in Made /\ a[k] \in Nat) /\ \A k \in 1..m : s[k] \in Made /\ s[k] \in Nat
    <2>1. (\A k \in 1..n : a[k] \in Standing(P)) /\ \A k \in 1..m : s[k] \in Standing(P)
      BY <1>4, <1>5, <1>6
    <2> QED
      BY <1>1, <1>3, <2>1
  <1>9. ASSUME NEW l \in 2..m
        PROVE  \E k \in 1..l - 1 : k \in 1..m /\ made[s[l]].parent = s[k] /\ s[k] < s[l]
    <2>1. PICK k \in 1..l - 1 : Under(P, u, s[l], s[k])
      BY <1>5, <1>6
    <2>2. k \in 1..m
      OBVIOUS
    <2>3. s[k] \in Standing(P)
      BY <1>5, <1>6, <2>2
    <2> QED
      BY <1>1, <2>1, <2>2, <2>3, UnderIs
  <1>10. \A l \in 1..m : u <= s[l]
    <2> DEFINE D == {l \in 1..m : ~(u <= s[l])}
    <2> SUFFICES ASSUME D # {} PROVE FALSE
      OBVIOUS
    <2>1. PICK l \in D : \A k \in D : l <= k
      <3>1. D \in SUBSET Nat
        OBVIOUS
      <3> QED
        BY <3>1, Least
    <2>2. l # 1
      BY <1>5, <1>8
    <2>3. l \in 2..m
      BY <2>2
    <2>4. PICK k \in 1..l - 1 : k \in 1..m /\ s[k] < s[l]
      BY <1>9, <2>3
    <2>5. u <= s[k]
      BY <2>1, <2>4
    <2>6. s[k] \in Nat /\ s[l] \in Nat
      BY <1>8, <2>4
    <2> QED
      BY <1>8, <2>1, <2>4, <2>5, <2>6
  <1>11. ASSUME NEW x \in Made, NEW y \in Made, x < y PROVE x # y /\ made[x].parent # y
    <2>1. x \in Nat /\ y \in Nat /\ y # None
      BY <1>3
    <2>2. made[x].parent = None \/ (made[x].parent \in Nat /\ made[x].parent < x)
      BY <1>3
    <2> QED
      BY <1>11, <2>1, <2>2
  <1>12. \A k \in 1..n + m : k \in 1..n \/ \E l \in 1..m : k = n + l
    <2> SUFFICES ASSUME NEW k \in 1..n + m, k \notin 1..n PROVE \E l \in 1..m : k = n + l
      OBVIOUS
    <2>1. k - n \in 1..m /\ k = n + (k - n)
      OBVIOUS
    <2> QED
      BY <2>1
  <1>13. ASSUME NEW k \in 1..n
         PROVE  (n - k) + 1 \in 1..n /\ t[k] \in Made /\ t[k] \in Nat /\ t[k] < u
    <2>1. (n - k) + 1 \in 1..n
      OBVIOUS
    <2> QED
      BY <1>4, <1>6, <1>7, <1>8, <2>1
  <1>14. i \in 1..n + m /\ j \in 1..n + m
    BY <1>7
  <1>15. CASE i \in 1..n /\ j \in 1..n
    <2>1. PICK k \in 1..n, l \in 1..n : k = (n - i) + 1 /\ l = (n - j) + 1 /\ l < k
      <3>1. (n - i) + 1 \in 1..n /\ (n - j) + 1 \in 1..n /\ (n - j) + 1 < (n - i) + 1
        BY <1>15
      <3> QED
        BY <3>1
    <2>2. t[i] = a[k] /\ t[j] = a[l] /\ a[k] < a[l]
      BY <1>4, <1>6, <1>7, <1>15, <2>1
    <2> QED
      BY <1>11, <1>13, <1>15, <2>2
  <1>16. ASSUME i \in 1..n, NEW l \in 1..m, j = n + l
         PROVE  t[i] # t[j] /\ made[t[i]].parent # t[j]
    <2>1. t[j] = s[l] /\ s[l] \in Made /\ u <= s[l] /\ s[l] \in Nat
      BY <1>7, <1>8, <1>10, <1>16
    <2>2. t[i] \in Made /\ t[i] \in Nat /\ t[i] < u
      BY <1>13, <1>16
    <2>3. t[i] < t[j]
      BY <1>8, <2>1, <2>2
    <2> QED
      BY <1>11, <2>1, <2>2, <2>3
  <1>17. ASSUME NEW k \in 1..m, NEW l \in 1..m, i = n + k, j = n + l
         PROVE  t[i] # t[j] /\ made[t[i]].parent # t[j]
    <2>1. k < l /\ t[i] = s[k] /\ t[j] = s[l]
      BY <1>7, <1>17
    <2>2. s[k] # s[l]
      BY <1>5, <1>6, <2>1
    <2>3. CASE k = 1
      <3>1. s[k] < s[l]
        BY <1>5, <1>8, <1>10, <2>2, <2>3
      <3> QED
        BY <1>8, <1>11, <2>1, <3>1
    <2>4. CASE k # 1
      <3>1. k \in 2..m
        BY <2>4
      <3>2. PICK p \in 1..k - 1 : p \in 1..m /\ made[s[k]].parent = s[p]
        BY <1>9, <3>1
      <3>3. p # l
        BY <2>1
      <3>4. s[p] # s[l]
        BY <1>5, <1>6, <3>2, <3>3
      <3> QED
        BY <2>1, <2>2, <3>2, <3>4
    <2> QED
      BY <2>3, <2>4
  <1>18. ASSUME NEW k \in 1..m, i = n + k, j \in 1..n PROVE FALSE
    BY <1>18
  <1> QED
    BY <1>12, <1>14, <1>15, <1>16, <1>17, <1>18

\* The thread of the post a conversation began with shows all of it that leads back there, and no
\* thread shows a post twice or before the one it answers: whoever replied meanwhile, and whatever was
\* deleted (aitClient.ts:83-86, commands.ts:227-229).
THEOREM ThreadsAreWhole == ConversationSpec => []ThreadWhole
  <1>1. CallsInv /\ RepliesInv => ThreadWhole
    <2> SUFFICES ASSUME CallsInv, RepliesInv, NEW u \in Standing(Table)
                 PROVE  /\ Contains(<<u>> \o Ancestors(Table, u), Beginning(u)) =>
                             Contains(Thread(Table, Beginning(u)), u)
                        /\ \A i, j \in DOMAIN Thread(Table, u) :
                             i < j => /\ Thread(Table, u)[i] # Thread(Table, u)[j]
                                      /\ made[Thread(Table, u)[i]].parent # Thread(Table, u)[j]
      BY DEF ThreadWhole
    <2>1. Contains(<<u>> \o Ancestors(Table, u), Beginning(u)) => Contains(Thread(Table, Beginning(u)), u)
      BY Shown
    <2>2. PICK t : t = Thread(Table, u)
      OBVIOUS
    <2>3. DOMAIN t = 1..Len(t)
      BY <2>2, ThreadIs DEF Printing
    <2>4. \A i, j \in DOMAIN t : i < j => t[i] # t[j] /\ made[t[i]].parent # t[j]
      BY <2>2, <2>3, Ordered
    <2> QED
      BY <2>1, <2>2, <2>4
  <1> QED
    BY <1>1, CallsInvariant, RepliesInvariant, PTL

=============================================================================
