---------------------------- MODULE FollowsProofs ----------------------------
(***************************************************************************)
(* Proofs about both sides of a follow.  FollowIndex, for every set of     *)
(* URIs, subjects and clock readings and every number of commits and       *)
(* replays: the tables' keys are never violated, the index converges       *)
(* however often the log is read again, a notification stands only with    *)
(* its record, and the index implements FollowGraph.  AittyIdentity, for   *)
(* any number of accounts, keys, runs and commands: an account is kept,    *)
(* and the file knows every record that can be undone.                     *)
(***************************************************************************)
EXTENDS FollowIndex, AittyIdentity, SequenceTheorems, WellFoundedInduction, TLAPS

-----------------------------------------------------------------------------
(* The survivor: the earliest duplicate exists and is unique. *)

LEMMA Least ==
    ASSUME NEW S, S \subseteq Nat, S # {}
    PROVE  \E n \in S : \A m \in S : n <= m
<1>. DEFINE R == OpToRel(<, Nat)
<1>1. IsWellFoundedOn(R, Nat)
  BY NatLessThanWellFounded
<1>2. \A x, y \in S : y < x => <<y, x>> \in R
  BY DEF OpToRel
<1>. HIDE DEF R
<1>3. PICK x \in S : \A y \in S : ~(<<y, x>> \in R)
  BY <1>1, WFMin
<1>4. \A m \in S : ~(m < x)
  BY <1>2, <1>3
<1>. QED
  BY <1>4

TableTypes ==
    /\ follows \subseteq Follow /\ duplicates \subseteq Duplicate
    /\ notifications \subseteq Alert /\ actorRows \subseteq Subject

\* Ordered by the time they were indexed, then by URI, some duplicate comes first.
LEMMA EarliestExists ==
    ASSUME NEW D, D \subseteq Duplicate, D # {}
    PROVE  \E d \in D : \A e \in D : e.uri = d.uri \/ Earlier(d, e)
<1>1. \A d \in D : d.indexedAt \in Nat /\ d.uri \in Nat
  BY FollowAssumption DEF Duplicate
<1>. DEFINE S == {d.indexedAt : d \in D}
<1>2. S \subseteq Nat /\ S # {}
  BY <1>1
<1>3. PICK t \in S : \A m \in S : t <= m
  BY <1>2, Least
<1>. DEFINE U == {d.uri : d \in {d \in D : d.indexedAt = t}}
<1>4. U \subseteq Nat /\ U # {}
  BY <1>1
<1>5. PICK u \in U : \A m \in U : u <= m
  BY <1>4, Least
<1>6. PICK d \in D : d.indexedAt = t /\ d.uri = u
  OBVIOUS
<1>7. ASSUME NEW e \in D PROVE e.uri = d.uri \/ Earlier(d, e)
  <2>1. t <= e.indexedAt
    BY <1>3
  <2>2. CASE e.indexedAt = t
    <3>1. u <= e.uri
      BY <1>5, <2>2
    <3>. QED
      BY <1>1, <1>6, <2>2, <3>1 DEF Earlier
  <2>3. CASE e.indexedAt # t
    BY <1>1, <1>6, <2>1, <2>3 DEF Earlier
  <2>. QED
    BY <2>2, <2>3
<1>. QED
  BY <1>7

RowKeys(F, D) ==
    /\ OneEach(F) /\ OneEach(D)
    /\ \A f \in F, d \in D : f.uri # d.uri
    /\ \A f, g \in F : f.subject = g.subject => f = g
    /\ \A d \in D : \E f \in F : f.subject = d.subject

LEMMA SurvivorFacts ==
    ASSUME TableTypes, Keys, NEW u \in Uri
    PROVE  /\ Survivor(u) \subseteq duplicates
           /\ \A d \in Survivor(u) : /\ d.uri # u
                                     /\ \E f \in follows : f.uri = u /\ f.subject = d.subject
           /\ \A d, e \in Survivor(u) : d = e
           /\ \A d \in duplicates, f \in follows :
                 d.uri # u /\ f.uri = u /\ d.subject = f.subject => Survivor(u) # {}
<1>. DEFINE left == {d \in duplicates :
                        d.uri # u /\ \E f \in At(u, follows) : f.subject = d.subject}
<1>1. Survivor(u) = {d \in left : \A e \in left : e = d \/ Earlier(d, e)}
  BY DEF Survivor
<1>2. \A d \in left : d \in duplicates /\ d.uri # u
                      /\ \E f \in follows : f.uri = u /\ f.subject = d.subject
  BY DEF At
<1>3. \A d \in duplicates : d.uri \in Nat /\ d.indexedAt \in Nat
  BY FollowAssumption DEF TableTypes, Duplicate
<1>4. ASSUME NEW d \in duplicates, NEW f \in follows,
             d.uri # u, f.uri = u, d.subject = f.subject
      PROVE  Survivor(u) # {}
  <2>1. d \in left /\ left \subseteq Duplicate
    BY <1>4 DEF At, TableTypes
  <2>. HIDE DEF left
  <2>2. PICK m \in left : \A e \in left : e.uri = m.uri \/ Earlier(m, e)
    BY <2>1, EarliestExists
  <2>3. \A e \in left : e = m \/ Earlier(m, e)
    BY <1>2, <2>2 DEF Keys, OneEach
  <2>. QED
    BY <1>1, <2>3
<1>. HIDE DEF left
<1>5. ASSUME NEW d \in Survivor(u), NEW e \in Survivor(u) PROVE d = e
  <2>1. d \in left /\ e \in left /\ (e = d \/ Earlier(d, e)) /\ (d = e \/ Earlier(e, d))
    BY <1>1, <1>5
  <2>. QED
    BY <1>2, <1>3, <2>1 DEF Earlier
<1>. QED
  BY <1>1, <1>2, <1>4, <1>5

\* removeFollow leaves the keys in order and takes exactly the record at u away.
LEMMA Removal ==
    ASSUME TableTypes, Keys, NEW u \in Uri
    PROVE  /\ FollowsWithout(u) \subseteq Follow /\ DuplicatesWithout(u) \subseteq Duplicate
           /\ RowKeys(FollowsWithout(u), DuplicatesWithout(u))
           /\ \A f \in FollowsWithout(u) : f.uri # u /\ {Self, f.subject} \subseteq actorRows
           /\ \A d \in DuplicatesWithout(u) : d.uri # u
           /\ Pairs(FollowsWithout(u)) \cup Pairs(DuplicatesWithout(u)) =
                 {p \in FollowRecords : p[1] # u}
           /\ \A f \in follows : f.uri # u => f \in FollowsWithout(u)
<1>. DEFINE F == FollowsWithout(u)
            D == DuplicatesWithout(u)
            S == Survivor(u)
<1>1. /\ S \subseteq duplicates
      /\ \A d \in S : d.uri # u /\ \E f \in follows : f.uri = u /\ f.subject = d.subject
      /\ \A d, e \in S : d = e
      /\ \A d \in duplicates, f \in follows :
            d.uri # u /\ f.uri = u /\ d.subject = f.subject => S # {}
  BY SurvivorFacts
<1>. HIDE DEF S
<1>2. /\ \A f \in F : (f \in follows /\ f.uri # u) \/ \E d \in S : f = ShownFollow(d)
      /\ \A f \in follows : f.uri # u => f \in F
      /\ \A d \in S : ShownFollow(d) \in F
      /\ \A d \in D : d \in duplicates /\ d.uri # u /\ d \notin S
      /\ \A d \in duplicates : d.uri # u /\ d \notin S => d \in D
  BY DEF FollowsWithout, DuplicatesWithout, At, S
<1>. HIDE DEF F, D
<1>3. \A d \in S : /\ ShownFollow(d) \in Follow /\ ShownFollow(d).uri = d.uri
                   /\ ShownFollow(d).subject = d.subject
  BY <1>1 DEF TableTypes, ShownFollow, Follow, Duplicate
<1>4. F \subseteq Follow /\ D \subseteq Duplicate
  BY <1>2, <1>3 DEF TableTypes
<1>5. (\A f \in F : f.uri # u) /\ (\A d \in D : d.uri # u)
  BY <1>1, <1>2, <1>3
<1>6. ASSUME NEW f \in F PROVE {Self, f.subject} \subseteq actorRows
  BY <1>1, <1>2, <1>3 DEF Keys
<1>7. OneEach(F)
  BY <1>1, <1>2, <1>3 DEF OneEach, Keys
<1>8. OneEach(D)
  BY <1>2 DEF OneEach, Keys
<1>9. \A f \in F, d \in D : f.uri # d.uri
  BY <1>1, <1>2, <1>3 DEF OneEach, Keys
<1>10. \A f, g \in F : f.subject = g.subject => f = g
  BY <1>1, <1>2, <1>3 DEF Keys
<1>11. ASSUME NEW d \in D PROVE \E f \in F : f.subject = d.subject
  <2>1. PICK f \in follows : f.subject = d.subject
    BY <1>2 DEF Keys
  <2>2. CASE f.uri # u
    BY <1>2, <2>1, <2>2
  <2>3. CASE f.uri = u
    <3>1. PICK e \in S : TRUE
      BY <1>1, <1>2, <2>1, <2>3
    <3>2. e.subject = f.subject
      BY <1>1, <2>3, <3>1 DEF Keys, OneEach
    <3>. QED
      BY <1>2, <1>3, <2>1, <3>1, <3>2
  <2>. QED
    BY <2>2, <2>3
<1>12. Pairs(F) \cup Pairs(D) = {p \in FollowRecords : p[1] # u}
  <2>1. ASSUME NEW f \in F PROVE <<f.uri, f.subject>> \in FollowRecords /\ f.uri # u
    BY <1>1, <1>2, <1>3, <1>5 DEF FollowRecords, Pairs
  <2>2. ASSUME NEW d \in D PROVE <<d.uri, d.subject>> \in FollowRecords /\ d.uri # u
    BY <1>2 DEF FollowRecords, Pairs
  <2>3. ASSUME NEW f \in follows, f.uri # u PROVE <<f.uri, f.subject>> \in Pairs(F)
    BY <1>2, <2>3 DEF Pairs
  <2>4. ASSUME NEW d \in duplicates, d.uri # u
        PROVE  <<d.uri, d.subject>> \in Pairs(F) \cup Pairs(D)
    <3>1. CASE d \in S
      BY <1>2, <1>3, <3>1 DEF Pairs
    <3>2. CASE d \notin S
      BY <1>2, <2>4, <3>2 DEF Pairs
    <3>. QED
      BY <3>1, <3>2
  <2>. QED
    BY <2>1, <2>2, <2>3, <2>4 DEF FollowRecords, Pairs
<1>. QED
  BY <1>2, <1>4, <1>5, <1>6, <1>7, <1>8, <1>9, <1>10, <1>11, <1>12 DEF RowKeys, F, D

-----------------------------------------------------------------------------
(* One event on the tables: the records of the other URIs stay, the one at *)
(* u becomes new (a pair, or none), and no key is violated.                *)

Alerts == {<<n.uri, n.recipient>> : n \in notifications}

Stepped(u, c, new) ==
    /\ TableTypes' /\ Keys' /\ AlertsStand'
    /\ FollowRecords' = {p \in FollowRecords : p[1] # u} \cup new
    /\ \A n \in notifications' : IF n.uri = u THEN n.cid = c ELSE n \in notifications
    /\ Pairs(follows) \cap FollowRecords' \subseteq Pairs(follows')
    /\ \A a \in Alerts : a[1] # u => a \in Alerts'

LEMMA DeleteStep ==
    ASSUME TableTypes, Keys, AlertsStand, NEW u \in Uri, NEW c, Delete(u)
    PROVE  /\ Stepped(u, c, {})
           /\ \A n \in notifications' : n \in notifications /\ n.uri # u
<1>. DEFINE F == FollowsWithout(u)
            D == DuplicatesWithout(u)
<1>1. /\ F \subseteq Follow /\ D \subseteq Duplicate
      /\ RowKeys(F, D)
      /\ \A f \in F : f.uri # u /\ {Self, f.subject} \subseteq actorRows
      /\ Pairs(F) \cup Pairs(D) = {p \in FollowRecords : p[1] # u}
      /\ \A f \in follows : f.uri # u => f \in F
  BY Removal
<1>2. follows' = F /\ duplicates' = D /\ actorRows' = actorRows
  BY DEF Delete
<1>3. notifications' = {n \in notifications : n.uri # u}
  BY DEF Delete, NotificationsWithout, At
<1>. HIDE DEF F, D
<1>4. TableTypes'
  BY <1>1, <1>2, <1>3 DEF TableTypes
<1>5. Keys'
  BY <1>1, <1>2, <1>3 DEF Keys, RowKeys, OneEach
<1>6. AlertsStand'
  BY <1>1, <1>2, <1>3 DEF AlertsStand
<1>7. FollowRecords' = {p \in FollowRecords : p[1] # u}
  <2>1. FollowRecords' = Pairs(F) \cup Pairs(D)
    BY <1>2 DEF FollowRecords, Pairs
  <2>. QED
    BY <1>1, <2>1
<1>8. Pairs(follows) \cap FollowRecords' \subseteq Pairs(follows')
  BY <1>1, <1>2, <1>7 DEF Pairs
<1>9. \A a \in Alerts : a[1] # u => a \in Alerts'
  BY <1>3 DEF Alerts
<1>. QED
  BY <1>3, <1>4, <1>5, <1>6, <1>7, <1>8, <1>9 DEF Stepped

LEMMA RefreshStep ==
    ASSUME TableTypes, Keys, AlertsStand, NEW u \in Uri, NEW s \in Subject,
           NEW c \in 1..MaxLog, Refresh(u, s, c)
    PROVE  /\ Stepped(u, c, {<<u, s>>})
           /\ FollowRecords' = FollowRecords /\ <<u, s>> \in FollowRecords /\ Alerts' = Alerts
<1>1. PICK r \in follows \cup duplicates : r.uri = u /\ r.subject = s
  BY DEF Refresh, KnownRows, At
<1>2. follows' = follows /\ actorRows' = actorRows
  BY DEF Refresh
<1>3. \/ /\ At(u, follows) # {} /\ duplicates' = duplicates
         /\ notifications' = (notifications \ At(u, notifications))
                                 \cup {[n EXCEPT !.cid = c] : n \in At(u, notifications)}
      \/ /\ At(u, follows) = {} /\ notifications' = notifications
         /\ duplicates' = (duplicates \ At(u, duplicates))
                              \cup {[d EXCEPT !.cid = c] : d \in At(u, duplicates)}
  BY DEF Refresh
\* What a row keeps when its cid is set.
<1>4. /\ \A d \in duplicates' : d \in Duplicate /\
           \E e \in duplicates : d.uri = e.uri /\ d.subject = e.subject
      /\ \A e \in duplicates : \E d \in duplicates' : d.uri = e.uri /\ d.subject = e.subject
      /\ OneEach(duplicates')
  <2>1. CASE duplicates' = duplicates
    BY <2>1 DEF Keys, TableTypes
  <2>2. CASE duplicates' = (duplicates \ At(u, duplicates))
                              \cup {[d EXCEPT !.cid = c] : d \in At(u, duplicates)}
    <3>1. \A d \in duplicates : [d EXCEPT !.cid = c] \in Duplicate
              /\ [d EXCEPT !.cid = c].uri = d.uri /\ [d EXCEPT !.cid = c].subject = d.subject
      BY DEF TableTypes, Duplicate
    <3>. DEFINE g(d) == [d EXCEPT !.cid = c]
    <3>2. /\ \A d \in duplicates : g(d) \in Duplicate /\ g(d).uri = d.uri
                                   /\ g(d).subject = d.subject
          /\ \A d \in duplicates' : (d \in duplicates /\ d.uri # u)
                \/ \E e \in duplicates : e.uri = u /\ d = g(e)
          /\ \A d \in duplicates : IF d.uri = u THEN g(d) \in duplicates'
                                   ELSE d \in duplicates'
      BY <2>2, <3>1 DEF At
    <3>. HIDE DEF g
    <3>3. \A d \in duplicates' : d \in Duplicate /\
              \E e \in duplicates : d.uri = e.uri /\ d.subject = e.subject
      BY <3>2 DEF TableTypes
    <3>4. \A e \in duplicates : \E d \in duplicates' : d.uri = e.uri /\ d.subject = e.subject
      BY <3>2
    <3>5. OneEach(duplicates')
      BY <3>2 DEF OneEach, Keys
    <3>. QED
      BY <3>3, <3>4, <3>5
  <2>. QED
    BY <1>3, <2>1, <2>2
<1>5. /\ \A n \in notifications' : /\ n \in Alert
                                   /\ IF n.uri = u THEN n.cid = c ELSE n \in notifications
                                   /\ \E m \in notifications : /\ n.uri = m.uri
                                                               /\ n.recipient = m.recipient
      /\ \A m \in notifications : \E n \in notifications' :
            n.uri = m.uri /\ n.recipient = m.recipient
      /\ OneEach(notifications')
  <2>1. CASE At(u, follows) = {} /\ notifications' = notifications
    BY <2>1 DEF AlertsStand, Keys, TableTypes, At
  <2>2. CASE notifications' = (notifications \ At(u, notifications))
                                 \cup {[n EXCEPT !.cid = c] : n \in At(u, notifications)}
    <3>. DEFINE g(n) == [n EXCEPT !.cid = c]
    <3>1. \A n \in notifications : g(n) \in Alert /\ g(n).uri = n.uri
              /\ g(n).recipient = n.recipient /\ g(n).cid = c
      BY DEF TableTypes, Alert
    <3>2. /\ \A n \in notifications' : (n \in notifications /\ n.uri # u)
                \/ \E m \in notifications : m.uri = u /\ n = g(m)
          /\ \A n \in notifications : IF n.uri = u THEN g(n) \in notifications'
                                      ELSE n \in notifications'
      BY <2>2 DEF At
    <3>. HIDE DEF g
    <3>3. ASSUME NEW n \in notifications'
          PROVE  /\ n \in Alert
                 /\ IF n.uri = u THEN n.cid = c ELSE n \in notifications
                 /\ \E m \in notifications : n.uri = m.uri /\ n.recipient = m.recipient
      BY <3>1, <3>2 DEF TableTypes
    <3>4. \A m \in notifications : \E n \in notifications' :
              n.uri = m.uri /\ n.recipient = m.recipient
      BY <3>1, <3>2
    <3>5. OneEach(notifications')
      BY <3>1, <3>2 DEF OneEach, Keys
    <3>. QED
      BY <3>3, <3>4, <3>5
  <2>. QED
    BY <1>3, <2>1, <2>2
<1>6. TableTypes'
  BY <1>2, <1>4, <1>5 DEF TableTypes
<1>7. Keys'
  <2>1. /\ OneEach(follows) /\ \A f, g \in follows : f.subject = g.subject => f = g
        /\ \A f \in follows : {Self, f.subject} \subseteq actorRows
        /\ \A f \in follows, d \in duplicates : f.uri # d.uri
        /\ \A d \in duplicates : \E f \in follows : f.subject = d.subject
    BY DEF Keys
  <2>2. \A f \in follows, d \in duplicates' : f.uri # d.uri
    BY <1>4, <2>1
  <2>3. \A d \in duplicates' : \E f \in follows : f.subject = d.subject
    BY <1>4, <2>1
  <2>. QED
    BY <1>2, <1>4, <1>5, <2>1, <2>2, <2>3 DEF Keys, OneEach
<1>8. AlertsStand'
  BY <1>2, <1>5 DEF AlertsStand
<1>9. FollowRecords' = FollowRecords
  BY <1>2, <1>4 DEF FollowRecords, Pairs
<1>10. <<u, s>> \in FollowRecords
  BY <1>1 DEF FollowRecords, Pairs
<1>11. \A p \in FollowRecords : p[1] = u => p = <<u, s>>
  BY <1>1 DEF FollowRecords, Pairs, Keys, OneEach
<1>12. FollowRecords' = {p \in FollowRecords : p[1] # u} \cup {<<u, s>>}
  BY <1>9, <1>10, <1>11
<1>13. Alerts' = Alerts
  BY <1>5 DEF Alerts
<1>14. Pairs(follows) \cap FollowRecords' \subseteq Pairs(follows')
  BY <1>2
<1>. QED
  BY <1>5, <1>6, <1>7, <1>8, <1>9, <1>10, <1>12, <1>13, <1>14 DEF Stepped


LEMMA InsertStep ==
    ASSUME TableTypes, Keys, AlertsStand, NEW u \in Uri, NEW s \in Subject,
           NEW c \in 1..MaxLog, NEW now \in Time, Insert(u, s, c, now)
    PROVE  /\ Stepped(u, c, {<<u, s>>})
           /\ Alerts' = IF (\A p \in FollowRecords : p[1] # u) /\ (\A p \in FollowRecords : p[2] # s)
                            /\ s # Self
                        THEN Alerts \cup {<<u, s>>}
                        ELSE Alerts \cap FollowRecords'
<1>. DEFINE known    == KnownRows(u) # {}
            rest     == IF known THEN FollowsWithout(u) ELSE follows
            others   == IF known THEN DuplicatesWithout(u) ELSE duplicates
            standing == IF known THEN NotificationsWithout(u) ELSE notifications
            t        == IF known THEN (CHOOSE r \in KnownRows(u) : TRUE).indexedAt ELSE now
            exists   == \E f \in rest : f.subject = s
            alerts   == ~exists /\ ~known /\ s # Self
            row      == [uri |-> u, subject |-> s, indexedAt |-> t]
            copy     == [uri |-> u, subject |-> s, indexedAt |-> t, cid |-> c]
            alert    == [uri |-> u, recipient |-> s, cid |-> c]
<1>1. /\ \A r \in KnownRows(u) : r.subject # s
      /\ follows' = IF exists THEN rest ELSE rest \cup {row}
      /\ duplicates' = IF ~exists THEN others ELSE others \cup {copy}
      /\ notifications' = IF ~alerts THEN standing ELSE standing \cup {alert}
      /\ actorRows' = IF exists THEN actorRows ELSE actorRows \cup {Self, s}
  BY DEF Insert
<1>2. /\ rest \subseteq Follow /\ others \subseteq Duplicate
      /\ RowKeys(rest, others)
      /\ \A f \in rest : f.uri # u /\ {Self, f.subject} \subseteq actorRows
      /\ \A d \in others : d.uri # u
      /\ Pairs(rest) \cup Pairs(others) = {p \in FollowRecords : p[1] # u}
      /\ \A f \in follows : f.uri # u => f \in rest
  <2>1. CASE known
    BY <2>1, Removal
  <2>2. CASE ~known
    <3>1. (\A f \in follows : f.uri # u) /\ (\A d \in duplicates : d.uri # u)
      BY <2>2 DEF KnownRows, At
    <3>2. rest = follows /\ others = duplicates
      BY <2>2
    <3>3. follows \subseteq Follow /\ duplicates \subseteq Duplicate
      BY DEF TableTypes
    <3>4. RowKeys(follows, duplicates) /\ \A f \in follows : {Self, f.subject} \subseteq actorRows
      BY DEF Keys, RowKeys
    <3>5. Pairs(follows) \cup Pairs(duplicates) = {p \in FollowRecords : p[1] # u}
      BY <3>1 DEF FollowRecords, Pairs
    <3>. HIDE DEF rest, others
    <3>. QED
      BY <3>1, <3>2, <3>3, <3>4, <3>5
  <2>. QED
    BY <2>1, <2>2
<1>3. known <=> \E p \in FollowRecords : p[1] = u
  <2>1. ASSUME NEW r \in follows \cup duplicates
        PROVE  <<r.uri, r.subject>> \in FollowRecords
    BY DEF FollowRecords, Pairs
  <2>2. ASSUME NEW p \in FollowRecords
        PROVE  \E r \in follows \cup duplicates : p = <<r.uri, r.subject>>
    BY DEF FollowRecords, Pairs
  <2>3. known <=> \E r \in follows \cup duplicates : r.uri = u
    BY DEF KnownRows, At
  <2>4. ASSUME known PROVE \E p \in FollowRecords : p[1] = u
    BY <2>1, <2>3, <2>4
  <2>5. ASSUME NEW p \in FollowRecords, p[1] = u PROVE known
    BY <2>2, <2>3, <2>5
  <2>. QED
    BY <2>4, <2>5
<1>4. \A n \in notifications : n \in standing <=> n.uri # u
  <2>1. CASE known
    BY <2>1 DEF NotificationsWithout, At
  <2>2. CASE ~known
    BY <2>2 DEF AlertsStand, KnownRows, At
  <2>. QED
    BY <2>1, <2>2
<1>5. standing \subseteq notifications
  BY DEF NotificationsWithout
<1>6. t \in Time
  <2>1. CASE known
    BY <2>1 DEF KnownRows, At, TableTypes, Follow, Duplicate
  <2>2. CASE ~known
    BY <2>2
  <2>. QED
    BY <2>1, <2>2
<1>7. /\ row \in Follow /\ row.uri = u /\ row.subject = s
      /\ copy \in Duplicate /\ copy.uri = u /\ copy.subject = s
      /\ alert \in Alert /\ alert.uri = u /\ alert.recipient = s /\ alert.cid = c
  BY <1>6 DEF Follow, Duplicate, Alert
<1>8. exists <=> \E f \in rest : f.subject = s
  OBVIOUS
<1>9. alerts <=> ~exists /\ ~known /\ s # Self
  OBVIOUS
<1>. HIDE DEF known, rest, others, standing, t, exists, alerts, row, copy, alert
<1>10. TableTypes'
  BY <1>1, <1>2, <1>5, <1>7, FollowAssumption DEF TableTypes
<1>11. Keys'
  <2>1. OneEach(follows')
    BY <1>1, <1>2, <1>7 DEF OneEach, RowKeys
  <2>2. OneEach(duplicates')
    BY <1>1, <1>2, <1>7 DEF OneEach, RowKeys
  <2>3. OneEach(notifications')
    BY <1>1, <1>4, <1>5, <1>7 DEF OneEach, Keys
  <2>4. \A f \in follows', d \in duplicates' : f.uri # d.uri
    BY <1>1, <1>2, <1>7 DEF RowKeys
  <2>5. \A f, g \in follows' : f.subject = g.subject => f = g
    BY <1>1, <1>2, <1>7, <1>8 DEF RowKeys
  <2>6. \A d \in duplicates' : \E f \in follows' : f.subject = d.subject
    BY <1>1, <1>2, <1>7, <1>8 DEF RowKeys
  <2>7. \A f \in follows' : {Self, f.subject} \subseteq actorRows'
    BY <1>1, <1>2, <1>7
  <2>. QED
    BY <2>1, <2>2, <2>3, <2>4, <2>5, <2>6, <2>7 DEF Keys, OneEach
<1>12. AlertsStand'
  <2>1. ASSUME NEW n \in standing
        PROVE  n.recipient # Self /\ \E f \in follows' : f.uri = n.uri /\ f.subject = n.recipient
    BY <1>1, <1>2, <1>4, <1>5 DEF AlertsStand
  <2>. QED
    BY <1>1, <1>7, <1>9, <2>1 DEF AlertsStand
<1>13. FollowRecords' = {p \in FollowRecords : p[1] # u} \cup {<<u, s>>}
  <2>1. CASE exists
    <3>1. Pairs(duplicates') = Pairs(others) \cup {<<u, s>>}
      BY <1>1, <1>7, <2>1 DEF Pairs
    <3>2. Pairs(follows') = Pairs(rest)
      BY <1>1, <2>1
    <3>3. FollowRecords' = Pairs(follows') \cup Pairs(duplicates')
      BY DEF FollowRecords, Pairs
    <3>. QED
      BY <1>2, <3>1, <3>2, <3>3
  <2>2. CASE ~exists
    <3>1. Pairs(follows') = Pairs(rest) \cup {<<u, s>>}
      BY <1>1, <1>7, <2>2 DEF Pairs
    <3>2. Pairs(duplicates') = Pairs(others)
      BY <1>1, <2>2
    <3>3. FollowRecords' = Pairs(follows') \cup Pairs(duplicates')
      BY DEF FollowRecords, Pairs
    <3>. QED
      BY <1>2, <3>1, <3>2, <3>3
  <2>. QED
    BY <2>1, <2>2
<1>14. \A n \in notifications' : IF n.uri = u THEN n.cid = c ELSE n \in notifications
  BY <1>1, <1>4, <1>5, <1>7
<1>15. Pairs(follows) \cap FollowRecords' \subseteq Pairs(follows')
  <2>1. ASSUME NEW f \in follows, <<f.uri, f.subject>> \in FollowRecords'
        PROVE  f \in follows'
    <3>1. CASE f.uri # u
      BY <1>1, <1>2, <3>1
    <3>2. CASE f.uri = u
      <4>1. f.subject = s
        BY <1>13, <2>1, <3>2
      <4>. QED
        BY <1>1, <3>2, <4>1 DEF KnownRows, At
    <3>. QED
      BY <3>1, <3>2
  <2>. QED
    BY <2>1 DEF Pairs
<1>16. \A a \in Alerts : a[1] # u => a \in Alerts'
  <2>1. \A n \in notifications : n.uri # u => n \in notifications'
    BY <1>1, <1>4
  <2>. QED
    BY <2>1 DEF Alerts
<1>17. Alerts \subseteq FollowRecords
  BY DEF Alerts, AlertsStand, FollowRecords, Pairs
<1>18. \A p \in FollowRecords : p[1] = u => p[2] # s
  BY <1>1 DEF KnownRows, At, FollowRecords, Pairs
<1>19. \A a \in Alerts' : (a \in Alerts /\ a[1] # u) \/ (alerts /\ a = <<u, s>>)
  BY <1>1, <1>4, <1>5, <1>7 DEF Alerts
<1>20. alerts => <<u, s>> \in Alerts'
  BY <1>1, <1>7 DEF Alerts
<1>21. ~known => (exists <=> \E p \in FollowRecords : p[2] = s)
  <2>1. ~known => \A p \in FollowRecords : p \in Pairs(rest) \cup Pairs(others)
    BY <1>2, <1>3
  <2>2. \A p \in Pairs(rest) \cup Pairs(others) : \E f \in rest : f.subject = p[2]
    BY <1>2 DEF Pairs, RowKeys
  <2>3. \A f \in rest : \E p \in FollowRecords : p[2] = f.subject
    <3>1. ASSUME NEW f \in rest PROVE <<f.uri, f.subject>> \in FollowRecords
      <4>1. <<f.uri, f.subject>> \in Pairs(rest)
        BY DEF Pairs
      <4>. QED
        BY <1>2, <4>1
    <3>2. ASSUME NEW f \in rest PROVE \E p \in FollowRecords : p[2] = f.subject
      <4>1. <<f.uri, f.subject>> \in FollowRecords /\ <<f.uri, f.subject>>[2] = f.subject
        BY <3>1
      <4>. QED
        BY <4>1
    <3>. QED
      BY <3>2
  <2>. QED
    BY <1>8, <2>1, <2>2, <2>3
<1>22. alerts <=> (\A p \in FollowRecords : p[1] # u) /\ (\A p \in FollowRecords : p[2] # s) /\ s # Self
  BY <1>3, <1>9, <1>21
<1>23. CASE alerts
  <2>1. Alerts' = Alerts \cup {<<u, s>>}
    BY <1>16, <1>17, <1>19, <1>20, <1>22, <1>23
  <2>. QED
    BY <1>10, <1>11, <1>12, <1>13, <1>14, <1>15, <1>16, <1>22, <1>23, <2>1 DEF Stepped
<1>24. CASE ~alerts
  <2>1. \A a \in Alerts \cap FollowRecords' : a[1] # u
    BY <1>13, <1>17, <1>18
  <2>2. \A a \in Alerts : a[1] # u => a \in FollowRecords'
    BY <1>13, <1>17
  <2>3. Alerts' = Alerts \cap FollowRecords'
    BY <1>16, <1>19, <1>24, <2>1, <2>2
  <2>. QED
    BY <1>10, <1>11, <1>12, <1>13, <1>14, <1>15, <1>16, <1>22, <1>24, <2>3 DEF Stepped
<1>. QED
  BY <1>23, <1>24


-----------------------------------------------------------------------------
(* The inductive invariant. *)

LEMMA Initial == FollowInit => IInv
<1>. SUFFICES ASSUME FollowInit PROVE IInv
  OBVIOUS
<1>1. commits = <<>> /\ Len(commits) = 0 /\ commits \in Seq(FollowCommit) /\ pos = 0
  BY EmptySeq DEF FollowInit
<1>2. follows = {} /\ duplicates = {} /\ notifications = {} /\ actorRows = {}
      /\ rereads = 0
  BY DEF FollowInit
<1>3. FollowTypes
  BY <1>1, <1>2, FollowAssumption DEF FollowTypes
<1>4. Keys /\ AlertsStand
  BY <1>2 DEF Keys, AlertsStand, OneEach
<1>5. HasLast
  BY <1>1 DEF HasLast, Untouched
<1>6. FollowsWritten
  BY <1>1, <1>2 DEF FollowsWritten, FollowRecords, Pairs
<1>7. Cids
  BY <1>2 DEF Cids
<1>. QED
  BY <1>3, <1>4, <1>5, <1>6, <1>7 DEF IInv

\* A commit leaves what has been handled as it was.
LEMMA WriteStep ==
    ASSUME IInv, NEW e \in FollowCommit, CommitFollow(e)
    PROVE  IInv' /\ UNCHANGED tables
<1>. USE DEF IInv
<1>1. /\ commits' = Append(commits, e) /\ Len(commits) < MaxLog /\ pos' = pos /\ rereads' = rereads
      /\ follows' = follows /\ duplicates' = duplicates /\ notifications' = notifications
      /\ actorRows' = actorRows
  BY DEF CommitFollow, tables
<1>2. /\ commits \in Seq(FollowCommit) /\ Len(commits) \in Nat /\ pos \in 0..Len(commits)
      /\ commits' \in Seq(FollowCommit) /\ Len(commits') = Len(commits) + 1
      /\ commits'[Len(commits) + 1] = e
      /\ \A j \in 1..Len(commits) : commits'[j] = commits[j]
  BY <1>1 DEF FollowTypes
<1>3. FollowTypes'
  BY <1>1, <1>2, FollowAssumption DEF FollowTypes
<1>4. Keys' /\ AlertsStand' /\ FollowRecords' = FollowRecords
  BY <1>1 DEF Keys, AlertsStand, OneEach, FollowRecords, Pairs
<1>5. ASSUME NEW u, NEW i \in 1..pos, LastAt(u, i)' PROVE LastAt(u, i) /\ commits'[i] = commits[i]
  BY <1>2, <1>5 DEF LastAt
<1>6. ASSUME NEW u \in Uri, Untouched(u)' PROVE Untouched(u)
  BY <1>2, <1>6 DEF Untouched
<1>7. ASSUME NEW u \in Uri
      PROVE  Untouched(u)' \/ \E i \in 1..Len(commits') : LastAt(u, i)'
  <2>1. CASE e.uri = u /\ e.op # "malformed"
    BY <1>2, <2>1 DEF LastAt
  <2>2. CASE e.uri = u => e.op = "malformed"
    <3>1. CASE Untouched(u)
      BY <1>2, <2>2, <3>1 DEF Untouched
    <3>2. ASSUME NEW i \in 1..Len(commits), LastAt(u, i) PROVE LastAt(u, i)'
      <4>1. commits'[i] = commits[i] /\ i \in 1..Len(commits')
        BY <1>2
      <4>2. \A j \in i + 1..Len(commits') : commits'[j].uri = u => commits'[j].op = "malformed"
        BY <1>2, <2>2, <3>2 DEF LastAt
      <4>3. commits'[i].uri = u /\ commits'[i].op # "malformed"
        BY <3>2, <4>1 DEF LastAt
      <4>. QED
        BY <4>2, <4>3, Zenon DEF LastAt
    <3>. QED
      BY <1>2, <3>1, <3>2 DEF HasLast
  <2>. QED
    BY <2>1, <2>2
<1>8. HasLast'
  BY <1>7 DEF HasLast
<1>9. FollowsWritten'
  <2>1. ASSUME NEW u \in Uri, NEW i \in 1..pos, LastAt(u, i)'
        PROVE  IF commits'[i].op = "put"
               THEN <<u, commits'[i].subject>> \in FollowRecords'
                    /\ \A p \in FollowRecords' : p[1] = u => p[2] = commits'[i].subject
               ELSE \A p \in FollowRecords' : p[1] # u
    <3>1. LastAt(u, i) /\ commits'[i] = commits[i]
      BY <1>5, <2>1
    <3>. QED
      BY <1>4, <3>1 DEF FollowsWritten
  <2>2. ASSUME NEW u \in Uri, Untouched(u)' PROVE \A p \in FollowRecords' : p[1] # u
    BY <1>4, <1>6, <2>2 DEF FollowsWritten
  <2>. QED
    BY <1>1, <2>1, <2>2 DEF FollowsWritten
<1>10. Cids'
  BY <1>1, <1>5 DEF Cids
<1>. QED
  BY <1>1, <1>3, <1>4, <1>8, <1>9, <1>10 DEF tables

\* An event, by what it does to the tables: commit e, at position c.
Handled(c, e) ==
    /\ c = pos + 1 /\ c \in 1..Len(commits) /\ e = commits[c]
    /\ commits' = commits /\ pos' = c /\ rereads' = rereads
    /\ \/ /\ e.op = "put"
          /\ \/ Refresh(e.uri, e.subject, c)
             \/ \E now \in Time : Insert(e.uri, e.subject, c, now)
       \/ e.op = "malformed" /\ UNCHANGED tables
       \/ e.op = "delete" /\ Delete(e.uri)

LEMMA HandleCases ==
    ASSUME IInv, Handle
    PROVE  \E c \in 1..MaxLog, e \in FollowCommit : Handled(c, e)
<1>1. PICK c \in 1..MaxLog, e \in FollowCommit : c = pos + 1 /\ c \in 1..Len(commits) /\ e = commits[c]
  BY FollowAssumption DEF IInv, FollowTypes, Handle
<1>2. /\ commits' = commits /\ pos' = c /\ rereads' = rereads
      /\ \/ /\ e.op = "put"
            /\ \/ Refresh(e.uri, e.subject, c)
               \/ \E now \in Time : Insert(e.uri, e.subject, c, now)
         \/ e.op = "malformed" /\ Skip
         \/ e.op = "delete" /\ Delete(e.uri)
  BY <1>1 DEF Handle
<1>3. Handled(c, e)
  BY <1>1, <1>2 DEF Handled, Skip
<1>. QED
  BY <1>3

LEMMA HandleTables ==
    ASSUME IInv, NEW c \in 1..MaxLog, NEW e \in FollowCommit, Handled(c, e)
    PROVE  \/ e.op = "put" /\ Stepped(e.uri, c, {<<e.uri, e.subject>>})
           \/ e.op = "malformed" /\ UNCHANGED tables
           \/ e.op = "delete" /\ Stepped(e.uri, c, {})
<1>1. TableTypes /\ Keys /\ AlertsStand
  BY DEF IInv, FollowTypes, TableTypes
<1>2. e.uri \in Uri /\ e.subject \in Subject
  BY DEF FollowCommit
<1>. QED
  BY <1>1, <1>2, RefreshStep, InsertStep, DeleteStep DEF Handled

LEMMA HandleStep ==
    ASSUME IInv, Handle
    PROVE  IInv'
<1>0. PICK c \in 1..MaxLog, e \in FollowCommit : Handled(c, e)
  BY HandleCases
<1>. DEFINE u == e.uri
<1>1. /\ commits' = commits /\ pos' = c /\ rereads' = rereads
      /\ c \in 1..Len(commits) /\ e = commits[c] /\ c = pos + 1
  BY <1>0 DEF Handled
<1>2. \/ e.op = "put" /\ Stepped(u, c, {<<u, e.subject>>})
      \/ e.op = "malformed" /\ UNCHANGED tables
      \/ e.op = "delete" /\ Stepped(u, c, {})
  BY <1>0, HandleTables
<1>3. e = commits[c] /\ c = pos + 1 /\ u = e.uri /\ u \in Uri
  BY <1>1 DEF FollowCommit
<1>4. /\ FollowTypes /\ Keys /\ AlertsStand /\ HasLast /\ FollowsWritten /\ Cids
      /\ pos \in Nat /\ Len(commits) \in Nat
  BY DEF IInv, FollowTypes
<1>. HIDE DEF u
<1>5. TableTypes' /\ Keys' /\ AlertsStand'
  <2>1. ASSUME UNCHANGED tables PROVE TableTypes' /\ Keys' /\ AlertsStand'
    <3>1. follows' = follows /\ duplicates' = duplicates /\ notifications' = notifications
          /\ actorRows' = actorRows
      BY <2>1 DEF tables
    <3>. QED
      BY <1>4, <3>1 DEF FollowTypes, TableTypes, Keys, AlertsStand, OneEach
  <2>. QED
    BY <1>2, <2>1 DEF Stepped
<1>6. FollowTypes'
  BY <1>1, <1>4, <1>5 DEF FollowTypes, TableTypes
<1>7. HasLast'
  BY <1>1, <1>4 DEF HasLast, Untouched, LastAt
<1>8. \A v, i : (LastAt(v, i)' <=> LastAt(v, i)) /\ (Untouched(v)' <=> Untouched(v))
  BY <1>1 DEF LastAt, Untouched
\* The event is the last one of its URI that the subscription has passed.
<1>9. ASSUME NEW v, NEW i \in 1..c, LastAt(v, i)
      PROVE  \/ i \in 1..pos /\ (v = u => e.op = "malformed")
             \/ i = c /\ v = u /\ e.op # "malformed"
  BY <1>1, <1>3, <1>4, <1>9 DEF LastAt
<1>10. ASSUME e.op # "malformed" PROVE ~Untouched(u)
  BY <1>1, <1>3, <1>10 DEF Untouched
<1>11. ASSUME UNCHANGED tables, e.op = "malformed" PROVE FollowsWritten' /\ Cids'
  <2>1. FollowRecords' = FollowRecords /\ notifications' = notifications
    BY <1>11 DEF tables, FollowRecords, Pairs
  <2>2. FollowsWritten'
    <3>1. ASSUME NEW v \in Uri
          PROVE  /\ Untouched(v) => \A p \in FollowRecords : p[1] # v
                 /\ \A i \in 1..c : LastAt(v, i) =>
                      IF commits[i].op = "put"
                      THEN <<v, commits[i].subject>> \in FollowRecords
                           /\ \A p \in FollowRecords : p[1] = v => p[2] = commits[i].subject
                      ELSE \A p \in FollowRecords : p[1] # v
      BY <1>4, <1>9, <1>11 DEF FollowsWritten
    <3>2. \A v \in Uri : Untouched(v)' => \A p \in FollowRecords' : p[1] # v
      BY <1>8, <2>1, <3>1
    <3>3. ASSUME NEW v \in Uri, NEW i \in 1..c, LastAt(v, i)'
          PROVE  IF commits'[i].op = "put"
                 THEN <<v, commits'[i].subject>> \in FollowRecords'
                      /\ \A p \in FollowRecords' : p[1] = v => p[2] = commits'[i].subject
                 ELSE \A p \in FollowRecords' : p[1] # v
      <4>1. LastAt(v, i)
        BY <1>8, <3>3
      <4>. QED
        BY <1>1, <2>1, <3>1, <4>1
    <3>. QED
      BY <1>1, <3>2, <3>3 DEF FollowsWritten
  <2>3. Cids'
    BY <1>1, <1>4, <1>8, <1>9, <1>11, <2>1 DEF Cids
  <2>. QED
    BY <2>2, <2>3
<1>12. ASSUME NEW new, Stepped(u, c, new), e.op # "malformed",
              IF e.op = "put" THEN new = {<<u, e.subject>>} ELSE new = {}
       PROVE  FollowsWritten' /\ Cids'
  <2>1. /\ FollowRecords' = {p \in FollowRecords : p[1] # u} \cup new
        /\ \A n \in notifications' : IF n.uri = u THEN n.cid = c ELSE n \in notifications
    BY <1>12 DEF Stepped
  <2>2. ASSUME NEW v \in Uri
        PROVE  /\ Untouched(v) => \A p \in FollowRecords' : p[1] # v
               /\ \A i \in 1..c : LastAt(v, i) =>
                    IF commits[i].op = "put"
                    THEN <<v, commits[i].subject>> \in FollowRecords'
                         /\ \A p \in FollowRecords' : p[1] = v => p[2] = commits[i].subject
                    ELSE \A p \in FollowRecords' : p[1] # v
    <3>1. CASE v = u
      <4>1. ASSUME NEW i \in 1..c, LastAt(v, i) PROVE commits[i] = e
        BY <1>3, <1>9, <1>12, <3>1, <4>1
      <4>. QED
        BY <1>10, <1>12, <2>1, <3>1, <4>1
    <3>2. CASE v # u
      <4>1. \A s : <<v, s>> \in FollowRecords' <=> <<v, s>> \in FollowRecords
        BY <1>12, <2>1, <3>2
      <4>2. \A p \in FollowRecords' : p[1] = v => p \in FollowRecords
        BY <1>12, <2>1, <3>2
      <4>3. ASSUME NEW i \in 1..c, LastAt(v, i) PROVE i \in 1..pos
        BY <1>9, <3>2, <4>3
      <4>. QED
        BY <1>4, <4>1, <4>2, <4>3 DEF FollowsWritten
    <3>. QED
      BY <3>1, <3>2
  <2>3. FollowsWritten'
    <3>1. \A v \in Uri : Untouched(v)' => \A p \in FollowRecords' : p[1] # v
      BY <1>8, <2>2
    <3>2. ASSUME NEW v \in Uri, NEW i \in 1..c, LastAt(v, i)'
          PROVE  IF commits'[i].op = "put"
                 THEN <<v, commits'[i].subject>> \in FollowRecords'
                      /\ \A p \in FollowRecords' : p[1] = v => p[2] = commits'[i].subject
                 ELSE \A p \in FollowRecords' : p[1] # v
      <4>1. LastAt(v, i)
        BY <1>8, <3>2
      <4>. QED
        BY <1>1, <2>2, <4>1
    <3>. QED
      BY <1>1, <3>1, <3>2 DEF FollowsWritten
  <2>4. ASSUME NEW n \in notifications', NEW i \in 1..c, LastAt(n.uri, i) PROVE n.cid = i
    <3>1. CASE n.uri = u
      BY <1>9, <1>12, <2>1, <2>4, <3>1
    <3>2. CASE n.uri # u
      BY <1>4, <1>9, <2>1, <2>4, <3>2 DEF Cids
    <3>. QED
      BY <3>1, <3>2
  <2>5. Cids'
    BY <1>1, <1>8, <2>4 DEF Cids
  <2>. QED
    BY <2>3, <2>5
<1>13. FollowsWritten' /\ Cids'
  BY <1>2, <1>11, <1>12
<1>. QED
  BY <1>5, <1>6, <1>7, <1>13 DEF IInv

\* What is read again was handled before.
LEMMA ReplayStep ==
    ASSUME IInv, Replay
    PROVE  IInv' /\ UNCHANGED tables
<1>1. /\ commits' = commits /\ pos' \in 0..pos /\ pos \in 0..Len(commits) /\ Len(commits) \in Nat
      /\ rereads' = rereads + 1 /\ rereads < MaxReread /\ UNCHANGED tables
  BY DEF IInv, FollowTypes, Replay
<1>2. /\ follows' = follows /\ duplicates' = duplicates /\ notifications' = notifications
      /\ actorRows' = actorRows
  BY <1>1 DEF tables
<1>3. FollowTypes'
  BY <1>1, <1>2, FollowAssumption DEF IInv, FollowTypes
<1>4. Keys' /\ AlertsStand' /\ HasLast' /\ FollowRecords' = FollowRecords
  <2>1. Keys'
    BY <1>2 DEF IInv, Keys, OneEach
  <2>2. AlertsStand' /\ FollowRecords' = FollowRecords
    BY <1>2 DEF IInv, AlertsStand, FollowRecords, Pairs
  <2>3. HasLast'
    BY <1>1 DEF IInv, HasLast, Untouched, LastAt
  <2>. QED
    BY <2>1, <2>2, <2>3
<1>5. \A i \in 1..pos' : i \in 1..pos
  BY <1>1
<1>6. \A v, i : (LastAt(v, i)' <=> LastAt(v, i)) /\ (Untouched(v)' <=> Untouched(v))
  BY <1>1 DEF LastAt, Untouched
<1>7. FollowsWritten'
  BY <1>1, <1>4, <1>5, <1>6 DEF IInv, FollowsWritten
<1>8. Cids'
  BY <1>2, <1>5, <1>6 DEF IInv, Cids
<1>. QED
  BY <1>1, <1>3, <1>4, <1>7, <1>8 DEF IInv

LEMMA Step == IInv /\ [FollowNext]_followVars => IInv'
<1>. SUFFICES ASSUME IInv, [FollowNext]_followVars PROVE IInv'
  OBVIOUS
<1>1. ASSUME NEW e \in FollowCommit, CommitFollow(e) PROVE IInv'
  BY <1>1, WriteStep
<1>2. CASE Handle
  BY <1>2, HandleStep
<1>3. CASE Replay
  BY <1>3, ReplayStep
<1>4. CASE UNCHANGED followVars
  <2>1. UNCHANGED <<commits, pos, follows, duplicates, notifications, actorRows, rereads>>
    BY <1>4 DEF followVars, tables
  <2>2. FollowRecords' = FollowRecords
    BY <2>1 DEF FollowRecords, Pairs
  <2>. QED
    BY <2>1, <2>2 DEF IInv, FollowTypes, Keys, AlertsStand, HasLast, FollowsWritten, Cids,
                      OneEach, Untouched, LastAt
<1>. QED
  BY <1>1, <1>2, <1>3, <1>4 DEF FollowNext

-----------------------------------------------------------------------------
(* The theorems. *)

\* The inductive invariant holds, whatever is committed and however often the
\* firehose is read again.
THEOREM Invariant == FollowSpec => []IInv
<1>. QED
  BY Initial, Step, PTL DEF FollowSpec

\* Every variable keeps its type: the rows of the four tables (db.ts) are rows.
THEOREM TypeCorrect == FollowSpec => []FollowTypes
<1>1. IInv => FollowTypes
  BY DEF IInv
<1>. QED
  BY <1>1, Invariant, PTL

\* No insertion of indexFollow or removeFollow meets a key that is taken, so that no
\* event is lost to a constraint error (server.ts would log it and go on).
THEOREM KeysHold == FollowSpec => []Keys
<1>1. IInv => Keys
  BY DEF IInv
<1>. QED
  BY <1>1, Invariant, PTL

\* A follow notification stands only while its own record represents the follow.
THEOREM AlertsStandAlways == FollowSpec => []AlertsStand
<1>1. IInv => AlertsStand
  BY DEF IInv
<1>. QED
  BY <1>1, Invariant, PTL

\* A record in the tables is the one its URI's last commit wrote.
LEMMA CaughtUp ==
    ASSUME IInv, pos = Len(commits), NEW p \in FollowRecords, p[1] \in Uri
    PROVE  \E i \in 1..pos : LastAt(p[1], i) /\ commits[i].op = "put" /\ commits[i].subject = p[2]
<1>1. ~Untouched(p[1])
  BY DEF IInv, FollowsWritten
<1>2. PICK i \in 1..pos : LastAt(p[1], i)
  BY <1>1 DEF IInv, HasLast
<1>. QED
  BY <1>2 DEF IInv, FollowsWritten

\* The index converges (specs/reliable-follow-indexing.md): when the subscription has
\* caught up, the follows it shows are those of the author's repository.
THEOREM ConvergedAlways == FollowSpec => []Converged
<1>1. ASSUME IInv PROVE Converged
  <2>. SUFFICES ASSUME pos = Len(commits)
                PROVE  {f.subject : f \in follows} =
                         {s \in Subject : \E i \in DOMAIN commits :
                            commits[i].op = "put" /\ commits[i].subject = s /\ LastAt(commits[i].uri, i)}
    BY DEF Converged
  <2>0. /\ commits \in Seq(FollowCommit) /\ DOMAIN commits = 1..Len(commits)
        /\ follows \subseteq Follow /\ Keys /\ FollowsWritten
    BY <1>1 DEF IInv, FollowTypes
  <2>1. ASSUME NEW f \in follows
        PROVE  f.subject \in Subject /\ \E i \in DOMAIN commits :
                  commits[i].op = "put" /\ commits[i].subject = f.subject /\ LastAt(commits[i].uri, i)
    <3>1. <<f.uri, f.subject>> \in FollowRecords /\ f.uri \in Uri /\ f.subject \in Subject
      BY <2>0 DEF FollowRecords, Pairs, Follow
    <3>2. PICK i \in 1..pos : LastAt(f.uri, i) /\ commits[i].op = "put"
                              /\ commits[i].subject = f.subject
      BY <1>1, <3>1, CaughtUp
    <3>. QED
      BY <2>0, <3>1, <3>2 DEF LastAt
  <2>2. ASSUME NEW i \in DOMAIN commits, commits[i].op = "put", LastAt(commits[i].uri, i)
        PROVE  \E f \in follows : f.subject = commits[i].subject
    <3>1. commits[i] \in FollowCommit /\ i \in 1..pos
      BY <2>0
    <3>2. <<commits[i].uri, commits[i].subject>> \in FollowRecords
      BY <2>0, <2>2, <3>1 DEF FollowsWritten, FollowCommit
    <3>. QED
      BY <2>0, <3>2 DEF FollowRecords, Pairs, Keys
  <2>. QED
    BY <2>1, <2>2
<1>. QED
  BY <1>1, Invariant, PTL

\* When it has caught up, a follow notification carries the cid its record has now
\* (indexFollow updates it when the record is written again).
THEOREM AlertsCurrentAlways == FollowSpec => []AlertsCurrent
<1>1. ASSUME IInv PROVE AlertsCurrent
  <2>. SUFFICES ASSUME pos = Len(commits), NEW n \in notifications
                PROVE  LastAt(n.uri, n.cid) /\ commits[n.cid].op = "put"
    BY DEF AlertsCurrent
  <2>1. PICK f \in follows : f.uri = n.uri
    BY <1>1 DEF IInv, AlertsStand
  <2>2. <<n.uri, f.subject>> \in FollowRecords /\ n.uri \in Uri
    BY <1>1, <2>1 DEF IInv, FollowTypes, Follow, FollowRecords, Pairs
  <2>3. PICK i \in 1..pos : LastAt(n.uri, i) /\ commits[i].op = "put"
    BY <1>1, <2>2, CaughtUp
  <2>. QED
    BY <1>1, <2>3 DEF IInv, Cids
<1>. QED
  BY <1>1, Invariant, PTL

\* No follow alert outlives its reason: it stands only for the follow its own record
\* represents, and when the log is handled it is of that record's last version.
THEOREM AlertsExactAlways == FollowSpec => []AlertsExact
<1>1. AlertsStand /\ AlertsCurrent => AlertsExact
  BY DEF AlertsExact
<1>. QED
  BY <1>1, AlertsStandAlways, AlertsCurrentAlways, PTL

-----------------------------------------------------------------------------
(* The index implements FollowGraph: a commit that is handled is a record  *)
(* put or removed, everything else is a stutter.                           *)

LEMMA Represents ==
    ASSUME Keys', Pairs(follows) \cap FollowRecords' \subseteq Pairs(follows')
    PROVE  Abs!Represent
<1>1. Pairs(follows') \subseteq FollowRecords'
  BY DEF FollowRecords, Pairs
<1>2. \A p \in FollowRecords' : \E q \in Pairs(follows') : q[2] = p[2]
  <2>1. ASSUME NEW f \in follows' PROVE <<f.uri, f.subject>> \in Pairs(follows')
    BY DEF Pairs
  <2>2. ASSUME NEW d \in duplicates'
        PROVE  \E q \in Pairs(follows') : q[2] = d.subject
    <3>1. PICK f \in follows' : f.subject = d.subject
      BY DEF Keys
    <3>. QED
      BY <2>1, <3>1
  <2>3. ASSUME NEW p \in FollowRecords'
        PROVE  p \in Pairs(follows') \/ \E d \in duplicates' : p = <<d.uri, d.subject>>
    BY DEF FollowRecords, Pairs
  <2>. QED
    BY <2>2, <2>3
<1>3. \A p, q \in Pairs(follows') : p[2] = q[2] => p = q
  BY DEF Pairs, Keys
<1>4. Pairs(follows') = Pairs(follows)'
  BY DEF Pairs
<1>5. {p[2] : p \in Pairs(follows')} = {p[2] : p \in FollowRecords'}
  BY <1>1, <1>2
<1>. QED
  BY <1>1, <1>3, <1>4, <1>5 DEF Abs!Represent, Abs!Subjects

LEMMA PutMeans ==
    ASSUME NEW u, NEW s,
           FollowRecords' = (FollowRecords \ {p \in FollowRecords : p[1] = u}) \cup {<<u, s>>},
           Abs!Represent,
           Alerts' = IF {p \in FollowRecords : p[1] = u} = {} /\ s \notin {p[2] : p \in FollowRecords}
                        /\ s # Self
                     THEN Alerts \cup {<<u, s>>} ELSE Alerts \cap FollowRecords'
    PROVE  Abs!Put(u, s)
  BY Zenon DEF Abs!Put, Abs!Of, Abs!Subjects, Alerts

LEMMA AbsHandle ==
    ASSUME IInv, Handle
    PROVE  Abs!Next \/ UNCHANGED Abs!vars
<1>0. PICK c \in 1..MaxLog, e \in FollowCommit : Handled(c, e)
  BY HandleCases
<1>. DEFINE u == e.uri
            s == e.subject
<1>1. u \in Uri /\ s \in Subject /\ c \in 1..MaxLog
  BY DEF FollowCommit
<1>2. \/ Refresh(u, s, c) \/ (\E now \in Time : Insert(u, s, c, now))
      \/ UNCHANGED tables \/ Delete(u)
  BY <1>0 DEF Handled
<1>. HIDE DEF u, s
<1>3. TableTypes /\ Keys /\ AlertsStand
  BY DEF IInv, FollowTypes, TableTypes
<1>4. Alerts \subseteq FollowRecords
  BY <1>3 DEF Alerts, AlertsStand, FollowRecords, Pairs
<1>5. ASSUME NEW new, Stepped(u, c, new)
      PROVE  Abs!Represent /\ FollowRecords' = (FollowRecords \ {p \in FollowRecords : p[1] = u}) \cup new
  BY <1>5, Represents DEF Stepped
<1>6. ASSUME Refresh(u, s, c) PROVE Abs!Put(u, s)
  <2>1. Stepped(u, c, {<<u, s>>}) /\ FollowRecords' = FollowRecords /\ <<u, s>> \in FollowRecords /\ Alerts' = Alerts
    BY <1>1, <1>3, <1>6, RefreshStep
  <2>2. Alerts' = Alerts \cap FollowRecords' /\ {p \in FollowRecords : p[1] = u} # {}
    BY <1>4, <2>1
  <2>3. Abs!Represent /\ FollowRecords' = (FollowRecords \ {p \in FollowRecords : p[1] = u}) \cup {<<u, s>>}
    BY <1>5, <2>1
  <2>. QED
    BY <2>1, <2>2, <2>3, PutMeans
<1>7. ASSUME NEW now \in Time, Insert(u, s, c, now) PROVE Abs!Put(u, s)
  <2>1. /\ Stepped(u, c, {<<u, s>>})
        /\ Alerts' = IF (\A p \in FollowRecords : p[1] # u) /\ (\A p \in FollowRecords : p[2] # s)
                         /\ s # Self
                     THEN Alerts \cup {<<u, s>>}
                     ELSE Alerts \cap FollowRecords'
    BY <1>1, <1>3, <1>7, InsertStep
  <2>2. /\ (\A p \in FollowRecords : p[1] # u) <=> {p \in FollowRecords : p[1] = u} = {}
        /\ (\A p \in FollowRecords : p[2] # s) <=> s \notin {p[2] : p \in FollowRecords}
    OBVIOUS
  <2>3. Abs!Represent /\ FollowRecords' = (FollowRecords \ {p \in FollowRecords : p[1] = u}) \cup {<<u, s>>}
    BY <1>5, <2>1
  <2>. QED
    BY <2>1, <2>2, <2>3, PutMeans
<1>8. ASSUME Delete(u) PROVE Abs!Remove(u)
  <2>1. /\ Stepped(u, c, {})
        /\ \A n \in notifications' : n \in notifications /\ n.uri # u
    BY <1>1, <1>3, <1>8, DeleteStep
  <2>2. FollowRecords' = FollowRecords \ {p \in FollowRecords : p[1] = u}
    BY <1>5, <2>1
  <2>3. \A a \in Alerts' : a \in Alerts /\ a[1] # u
    BY <2>1 DEF Alerts
  <2>4. \A a \in Alerts : a[1] # u => a \in Alerts'
    BY <2>1 DEF Stepped
  <2>5. Alerts' = Alerts \cap FollowRecords'
    BY <1>4, <2>2, <2>3, <2>4
  <2>. QED
    BY <1>5, <2>1, <2>2, <2>5 DEF Abs!Remove, Abs!Of, Alerts
<1>9. ASSUME UNCHANGED tables PROVE UNCHANGED Abs!vars
  BY <1>9 DEF tables, Abs!vars, FollowRecords, Pairs
<1>10. ASSUME Abs!Put(u, s) \/ Abs!Remove(u) PROVE Abs!Next
  BY <1>1, <1>10 DEF Abs!Next, Abs!Put, Abs!Remove
<1>. QED
  BY <1>2, <1>6, <1>7, <1>8, <1>9, <1>10

LEMMA AbsInit == FollowInit => Abs!Init
  BY DEF FollowInit, Abs!Init, FollowRecords, Pairs

LEMMA AbsStep == IInv /\ [FollowNext]_followVars => [Abs!Next]_(Abs!vars)
<1>. SUFFICES ASSUME IInv, [FollowNext]_followVars PROVE Abs!Next \/ UNCHANGED Abs!vars
  OBVIOUS
<1>1. ASSUME UNCHANGED tables PROVE UNCHANGED Abs!vars
  BY <1>1 DEF tables, Abs!vars, FollowRecords, Pairs
<1>2. ASSUME NEW e \in FollowCommit, CommitFollow(e) PROVE UNCHANGED tables
  BY <1>2, WriteStep
<1>3. ASSUME Replay PROVE UNCHANGED tables
  BY <1>3, ReplayStep
<1>4. CASE UNCHANGED followVars
  BY <1>1, <1>4 DEF followVars
<1>. QED
  BY <1>1, <1>2, <1>3, <1>4, AbsHandle DEF FollowNext

\* Several records of one relationship are shown as one, another takes over without a
\* new alert, and only the first one alerts: the promises of FollowGraph are kept.
THEOREM Implements == FollowSpec => AbsSpec
<1>. QED
  BY Invariant, AbsInit, AbsStep, PTL DEF FollowSpec, AbsSpec, Abs!Spec

-----------------------------------------------------------------------------
(* aitty's identity and follows: the invariant. *)

\* The records an account made under a key, by their commands.
MadeUnder(a, k) == {f.id : f \in {g \in records : g.account = a /\ g.key = k}}

\* A command that the PDS has applied, and that waits for the answer.
Applied(c) == Waits(c) /\ commands[c].at \in {"created", "deleted"}

\* What is kept under a key: none, or a command that is over, whose record, if it
\* stands, is under that key.
Entry(i, k) ==
    i # 0 => /\ i \in DOMAIN commands /\ ~Waits(i)
             /\ \A f \in records : f.id = i => f.key = k

\* A run that has an identity.
Holds(r) == runs[r].at \in {"running", "draining"}

IdentityOK(identity) ==
    /\ identity \in Identity
    /\ identity.account \in accounts
    /\ \A k \in Key : Entry(identity.follows[k], k)

\* A run that is alone is the only one, and the file has the account it has in memory, or
\* nothing after a logout.
RunsOK ==
    \A r \in Run :
        /\ Holds(r) => IdentityOK(runs[r].mem)
        /\ Alive(r) /\ runs[r].alone =>
               /\ \A s \in Run : Alive(s) => s = r
               /\ runs[r].at = "minting" => aittyFile = Nobody
               /\ Holds(r) => aittyFile = Nobody \/ aittyFile.account = runs[r].mem.account

FileOK == aittyFile # Nobody => IdentityOK(aittyFile)

\* Every record is that of a command, which is over or waits for its answer.
RecordsOK ==
    /\ \A f \in records :
           /\ f.id \in DOMAIN commands
           /\ f.account \in accounts
           /\ Waits(f.id) => commands[f.id].at = "created" /\ f.key = commands[f.id].key
    /\ \A f, g \in records : f.id = g.id => f = g

\* Two commands of a run for one key at once have muddled it.
CommandsOK ==
    /\ \A c \in DOMAIN commands :
           Waits(c) => /\ Holds(commands[c].run)
                       /\ commands[c].at = "delete" => Entry(commands[c].record, commands[c].key)
                       /\ commands[c].at = "created" => commands[c].record = c
    /\ \A c, d \in DOMAIN commands :
           /\ c # d /\ Waits(c) /\ Waits(d)
           /\ commands[c].run = commands[d].run /\ commands[c].key = commands[d].key
           => commands[c].key \in muddled

\* What a run that is alone knows of a key: the record that stands, but for a command
\* that was applied and has not been answered.
CommandKnown(r, k, c) ==
    /\ commands[c].at = "resolve" /\ runs[r].kind # "watch" => runs[r].mem.follows[k] = 0
    /\ commands[c].at = "create" => runs[r].mem.follows[k] = 0
    /\ commands[c].at = "created" => MadeUnder(runs[r].mem.account, k) = {c}
    /\ commands[c].at = "delete" => commands[c].record = runs[r].mem.follows[k]
    /\ commands[c].at = "deleted" => MadeUnder(runs[r].mem.account, k) = {}

KnownTo(r, k) ==
    /\ \A c \in Pending(r) : commands[c].key = k => CommandKnown(r, k, c)
    /\ (\A c \in Pending(r) : commands[c].key = k => ~Applied(c))
           => MadeUnder(runs[r].mem.account, k) = {runs[r].mem.follows[k]} \ {0}

MemoryKnows == \A r \in Run : Holds(r) /\ runs[r].alone => \A k \in Key \ muddled : KnownTo(r, k)

\* FollowsKnown, said with Applied and MadeUnder.
FileKnows ==
    aittyFile # Nobody =>
        \A k \in Key \ muddled :
            (\A c \in DOMAIN commands : commands[c].key = k => ~Applied(c))
                => MadeUnder(aittyFile.account, k) = {aittyFile.follows[k]} \ {0}

AittyInv ==
    /\ IdentityTypes
    /\ RunsOK
    /\ FileOK
    /\ RecordsOK
    /\ CommandsOK
    /\ MemoryKnows
    /\ AccountKept
    /\ FileKnows

\* The file knows its records: FollowsKnown, where a command is under way if Applied.
LEMMA FileKnowsIs == FileKnows => FollowsKnown
  BY DEF FileKnows, FollowsKnown, Applied, MadeUnder

-----------------------------------------------------------------------------
(* What every step keeps. *)

\* Commands that are over stay over, one that was applied is answered or waits on, and
\* a new record is that of a command that waits.
Grows ==
    /\ DOMAIN commands \subseteq DOMAIN commands'
    /\ accounts \subseteq accounts'
    /\ muddled \subseteq muddled'
    /\ \A c \in DOMAIN commands :
           /\ Waits(c)' => Waits(c)
           /\ Applied(c) => ~Waits(c)' \/ commands'[c] = commands[c]
    /\ \A f \in records' : f \in records \/ (f.id \in DOMAIN commands /\ Waits(f.id))

\* What is kept under a key is kept.
LEMMA EntryKept ==
    ASSUME Grows, NEW i, NEW k, Entry(i, k)
    PROVE  Entry(i, k)'
  BY DEF Grows, Entry

\* An identity that is in order stays so.
LEMMA IdentityStays ==
    ASSUME Grows, NEW x, IdentityOK(x)
    PROVE  IdentityOK(x)'
  BY EntryKept DEF Grows, IdentityOK

\* So does the file, or it is gone.
LEMMA FileStays ==
    ASSUME Grows, FileOK, aittyFile' \in {Nobody, aittyFile}
    PROVE  FileOK'
  <1>1. CASE aittyFile' = Nobody
    BY <1>1 DEF FileOK
  <1>2. CASE aittyFile' = aittyFile /\ aittyFile # Nobody
    <2>1. IdentityOK(aittyFile)
      BY <1>2 DEF FileOK
    <2>2. \A x : IdentityOK(x) => /\ x \in Identity /\ x.account \in accounts'
                                 /\ \A k \in Key : Entry(x.follows[k], k)'
      BY EntryKept DEF IdentityOK, Grows
    <2> QED
      BY <1>2, <2>1, <2>2 DEF FileOK, IdentityOK, Entry
  <1> QED
    BY <1>1, <1>2 DEF FileOK

\* A run that ends, or goes on with what it had.
Calm(s) ==
    \/ ~Alive(s)'
    \/ /\ Alive(s) /\ (Holds(s)' <=> Holds(s))
       /\ runs'[s].mem = runs[s].mem
       /\ runs'[s].alone => runs[s].alone
       /\ runs'[s].at = "minting" => runs[s].at = "minting"

\* Runs that end, or go on with what they had, and no new one is alone.
LEMMA RunsStay ==
    ASSUME Grows, RunsOK, aittyFile' \in {Nobody, aittyFile}, \A s \in Run : Calm(s)
    PROVE  RunsOK'
  <1> SUFFICES ASSUME NEW r \in Run
               PROVE  /\ Holds(r)' => IdentityOK(runs[r].mem)'
                      /\ Alive(r)' /\ runs'[r].alone =>
                             /\ \A s \in Run : Alive(s)' => s = r
                             /\ runs'[r].at = "minting" => aittyFile' = Nobody
                             /\ Holds(r)' => aittyFile' = Nobody \/ aittyFile'.account = runs'[r].mem.account
    BY DEF RunsOK
  <1>1. \A s \in Run : Holds(s)' => Alive(s)'
    BY DEF Holds, Alive
  <1>2. Holds(r)' => Holds(r) /\ runs'[r].mem = runs[r].mem
    BY <1>1 DEF Calm
  <1>3. \A x : IdentityOK(x) => /\ x \in Identity /\ x.account \in accounts'
                               /\ \A k \in Key : Entry(x.follows[k], k)'
    BY EntryKept DEF IdentityOK, Grows
  <1>4. Holds(r)' => IdentityOK(runs[r].mem)'
    BY <1>2, <1>3 DEF RunsOK, IdentityOK, Entry
  <1>5. ASSUME Alive(r)', runs'[r].alone
        PROVE  /\ \A s \in Run : Alive(s)' => s = r
               /\ runs'[r].at = "minting" => aittyFile' = Nobody
               /\ Holds(r)' => aittyFile' = Nobody \/ aittyFile'.account = runs'[r].mem.account
    <2>1. Alive(r) /\ runs[r].alone
      BY <1>5 DEF Calm
    <2>2. \A s \in Run : Alive(s)' => Alive(s)
      BY DEF Calm
    <2> QED
      BY <1>2, <1>5, <2>1, <2>2 DEF RunsOK, Calm
  <1> QED
    BY <1>4, <1>5

\* Records are only deleted.
LEMMA RecordsStay ==
    ASSUME Grows, RecordsOK, records' \subseteq records
    PROVE  RecordsOK'
  BY DEF Grows, RecordsOK, Applied

\* Commands that go on: none is new, and what they ask for is what they asked for.
LEMMA CommandsStay ==
    ASSUME Grows, CommandsOK, DOMAIN commands' = DOMAIN commands,
           \A c \in DOMAIN commands : Waits(c)' =>
               /\ commands'[c].run = commands[c].run /\ commands'[c].key = commands[c].key
               /\ Holds(commands[c].run)'
               /\ commands'[c].at = "delete" =>
                      commands[c].at = "delete" /\ commands'[c].record = commands[c].record
               /\ commands'[c].at = "created" => commands'[c].record = c
    PROVE  CommandsOK'
  <1>1. ASSUME NEW c \in DOMAIN commands', Waits(c)'
        PROVE  /\ Holds(commands[c].run)'
               /\ commands'[c].at = "delete" => Entry(commands[c].record, commands[c].key)'
               /\ commands'[c].at = "created" => commands'[c].record = c
    <2>1. Waits(c) /\ commands'[c].run = commands[c].run /\ commands'[c].key = commands[c].key
      BY <1>1 DEF Grows
    <2>2. \A i, k : Entry(i, k) => Entry(i, k)'
      BY EntryKept
    <2>3. commands[c].at = "delete" => Entry(commands[c].record, commands[c].key)
      BY <1>1, <2>1 DEF CommandsOK
    <2>4. commands'[c].at = "delete" => Entry(commands[c].record, commands[c].key)'
      BY <1>1, <2>1, <2>2, <2>3 DEF Entry
    <2> QED
      BY <1>1, <2>1, <2>4
  <1>2. \A c, d \in DOMAIN commands' :
           /\ c # d /\ Waits(c)' /\ Waits(d)'
           /\ commands'[c].run = commands'[d].run /\ commands'[c].key = commands'[d].key
           => commands'[c].key \in muddled'
    BY DEF Grows, CommandsOK
  <1> QED
    BY <1>1, <1>2 DEF CommandsOK

\* The commands of a run for a key are those they were.
SameFor(r, k) ==
    /\ \A c \in DOMAIN commands' :
           Waits(c)' /\ commands'[c].run = r /\ commands'[c].key = k =>
               c \in DOMAIN commands /\ commands'[c] = commands[c]
    /\ \A c \in DOMAIN commands :
           Waits(c) /\ commands[c].run = r /\ commands[c].key = k => commands'[c] = commands[c]

\* What a run knows of a key, where the commands and records of the key are those they were.
LEMMA KnownStays ==
    ASSUME Grows, NEW r \in Run, NEW k \in Key, KnownTo(r, k), SameFor(r, k),
           runs'[r].mem.account = runs[r].mem.account, runs'[r].kind = runs[r].kind,
           runs'[r].mem.follows[k] = runs[r].mem.follows[k],
           MadeUnder(runs[r].mem.account, k)' = MadeUnder(runs[r].mem.account, k)
    PROVE  KnownTo(r, k)'
  <1>1. \A c : c \in Pending(r)' /\ commands'[c].key = k <=> c \in Pending(r) /\ commands[c].key = k
    BY DEF SameFor, Pending, Waits, Grows
  <1>2. \A c : c \in Pending(r) /\ commands[c].key = k => commands'[c] = commands[c]
    BY DEF SameFor, Pending
  <1>3. ASSUME NEW c \in Pending(r)', commands'[c].key = k
        PROVE  CommandKnown(r, k, c)'
    <2>1. c \in Pending(r) /\ commands[c].key = k /\ commands'[c] = commands[c]
      BY <1>1, <1>2, <1>3
    <2>2. CommandKnown(r, k, c)
      BY <2>1 DEF KnownTo
    <2> QED
      BY <2>1, <2>2 DEF CommandKnown
  <1>4. ASSUME \A c \in Pending(r)' : commands'[c].key = k => ~Applied(c)'
        PROVE  MadeUnder(runs[r].mem.account, k)' = {runs'[r].mem.follows[k]} \ {0}
    <2>1. \A c \in Pending(r) : commands[c].key = k => ~Applied(c)
      BY <1>1, <1>2, <1>4 DEF Applied, Waits
    <2>2. MadeUnder(runs[r].mem.account, k) = {runs[r].mem.follows[k]} \ {0}
      BY <2>1 DEF KnownTo
    <2> QED
      BY <2>2
  <1> QED
    BY <1>3, <1>4 DEF KnownTo

\* The file is as it was, or gone, and what was applied and not answered, or answered
\* and forgotten, is not counted.
LEMMA FileKnowsStays ==
    ASSUME Grows, FileKnows, aittyFile' \in {Nobody, aittyFile},
           \A c \in DOMAIN commands :
               Applied(c) /\ commands[c].key \notin muddled' => commands'[c] = commands[c],
           \A k \in Key \ muddled' :
               \/ MadeUnder(aittyFile.account, k)' = MadeUnder(aittyFile.account, k)
               \/ \E c \in DOMAIN commands' : commands'[c].key = k /\ Applied(c)'
    PROVE  FileKnows'
  <1> SUFFICES ASSUME aittyFile' # Nobody, NEW k \in Key \ muddled',
                      \A c \in DOMAIN commands' : commands'[c].key = k => ~Applied(c)'
               PROVE  MadeUnder(aittyFile.account, k)' = {aittyFile'.follows[k]} \ {0}
    BY DEF FileKnows
  <1>1. k \notin muddled /\ aittyFile' = aittyFile
    BY DEF Grows
  <1>2. ASSUME NEW c \in DOMAIN commands, commands[c].key = k
        PROVE  ~Applied(c)
    <2>1. CASE Applied(c)
      <3>1. commands'[c] = commands[c] /\ c \in DOMAIN commands'
        BY <1>2, <2>1 DEF Grows
      <3>2. Applied(c)'
        BY <2>1, <3>1 DEF Applied, Waits
      <3> QED
        BY <1>2, <3>1, <3>2
    <2> QED
      BY <2>1
  <1>3. MadeUnder(aittyFile.account, k) = {aittyFile.follows[k]} \ {0}
    BY <1>1, <1>2 DEF FileKnows
  <1> QED
    BY <1>1, <1>3

\* A step that changes no record, no account and not the file.
Aside == UNCHANGED <<aittyFile, accounts, records, loggedOut, mislaid>>

\* Such a step keeps the invariant, but for what is to be shown of commands and memory.
LEMMA AsideStep ==
    ASSUME AittyInv, Aside, Grows, IdentityTypes', \A s \in Run : Calm(s), CommandsOK', MemoryKnows',
           \A c \in DOMAIN commands :
               Applied(c) /\ commands[c].key \notin muddled' => commands'[c] = commands[c]
    PROVE  AittyInv'
  <1>1. RunsOK' /\ FileOK' /\ RecordsOK'
    BY RunsStay, FileStays, RecordsStay DEF AittyInv, Aside
  <1>2. AccountKept'
    BY DEF AittyInv, Aside, AccountKept
  <1>3. \A k \in Key : MadeUnder(aittyFile.account, k)' = MadeUnder(aittyFile.account, k)
    BY DEF Aside, MadeUnder
  <1>4. FileKnows'
    BY <1>3, FileKnowsStays DEF AittyInv, Aside
  <1> QED
    BY <1>1, <1>2, <1>4 DEF AittyInv

\* The runs that are alone know what they knew.
LEMMA MemoryStays ==
    ASSUME AittyInv, Aside, Grows,
           \A s \in Run : Holds(s)' /\ runs'[s].alone =>
               /\ Holds(s) /\ runs[s].alone /\ runs'[s].mem = runs[s].mem /\ runs'[s].kind = runs[s].kind
               /\ \A k \in Key \ muddled' : SameFor(s, k)
    PROVE  MemoryKnows'
  <1> SUFFICES ASSUME NEW s \in Run, Holds(s)', runs'[s].alone, NEW k \in Key \ muddled'
               PROVE  KnownTo(s, k)'
    BY DEF MemoryKnows
  <1>1. KnownTo(s, k)
    BY DEF AittyInv, MemoryKnows, Grows
  <1>2. MadeUnder(runs[s].mem.account, k)' = MadeUnder(runs[s].mem.account, k)
    BY DEF Aside, MadeUnder
  <1> QED
    BY <1>1, <1>2, KnownStays

\* A run that is over, or begins.
LEMMA NoRunIs ==
    /\ NoRun("over") \in IdentityRun /\ NoRun("over").at = "over"
    /\ \A at \in {"minting", "running"} : NoRun(at) \in IdentityRun /\ NoRun(at).at = at
  BY DEF NoRun, IdentityRun

\* A run ends whose commands, if there are any, are forgotten and muddle their keys.
LEMMA RunEnds ==
    ASSUME AittyInv, Aside, NEW r \in Run, runs' = [runs EXCEPT ![r] = NoRun("over")],
           commands' = [c \in DOMAIN commands |-> IF c \in Pending(r) THEN Settled ELSE commands[c]],
           muddled' = muddled \cup {commands[c].key : c \in Pending(r)}
    PROVE  AittyInv'
  <1> USE DEF AittyInv
  <1>1. runs \in [Run -> IdentityRun] /\ commands \in Seq(FollowCommand \cup {Settled})
        /\ Settled \notin FollowCommand
    BY AittyAssumption DEF IdentityTypes
  <1>2. /\ runs' \in [Run -> IdentityRun] /\ runs'[r].at = "over"
        /\ \A s \in Run \ {r} : runs'[s] = runs[s]
    BY <1>1, NoRunIs
  <1>3. /\ commands' \in Seq(FollowCommand \cup {Settled}) /\ Len(commands') = Len(commands)
        /\ DOMAIN commands' = DOMAIN commands
        /\ \A c \in DOMAIN commands : IF c \in Pending(r) THEN commands'[c] = Settled
                                      ELSE commands'[c] = commands[c]
    BY <1>1
  <1>4. \A c \in DOMAIN commands : Waits(c) => commands[c] \in FollowCommand
    BY <1>1 DEF Waits
  <1>5. \A c \in Pending(r) : commands[c].key \in Key
    BY <1>4 DEF Pending, FollowCommand
  <1>6. \A c \in DOMAIN commands : /\ Waits(c)' => Waits(c) /\ commands'[c] = commands[c] /\ commands[c].run # r
                                   /\ Applied(c) => ~Waits(c)' \/ commands'[c] = commands[c]
    BY <1>3 DEF Waits, Applied, Pending
  <1>7. Grows
    BY <1>3, <1>6 DEF Grows, Aside
  <1>8. IdentityTypes'
    BY <1>2, <1>3, <1>5 DEF IdentityTypes, Aside
  <1>9. \A s \in Run : Calm(s)
    BY <1>2 DEF Calm, Alive, Holds
  <1>10. \A c \in DOMAIN commands : Waits(c)' => commands[c].run \in Run
    BY <1>4, <1>6 DEF FollowCommand
  <1>11. \A s \in Run \ {r} : Holds(s)' <=> Holds(s)
    BY <1>2 DEF Holds
  <1>12. CommandsOK'
    BY <1>3, <1>6, <1>7, <1>10, <1>11, CommandsStay DEF CommandsOK
  <1>13. \A s \in Run \ {r}, k \in Key : SameFor(s, k)
    BY <1>3 DEF SameFor, Pending, Waits
  <1>14. MemoryKnows'
    BY <1>2, <1>7, <1>11, <1>13, MemoryStays DEF Holds
  <1>15. \A c \in DOMAIN commands :
             Applied(c) /\ commands[c].key \notin muddled' => commands'[c] = commands[c]
    BY <1>3
  <1> QED
    BY <1>7, <1>8, <1>9, <1>12, <1>14, <1>15, AsideStep

\* A command of a run: the run has an identity.
LEMMA NothingPending ==
    ASSUME AittyInv, NEW r \in Run, ~Holds(r)
    PROVE  Pending(r) = {}
  BY DEF AittyInv, CommandsOK, Pending

\* Nothing is forgotten of a run without commands.
LEMMA NoCommands ==
    ASSUME AittyInv, NEW r \in Run, Pending(r) = {}
    PROVE  /\ commands = [c \in DOMAIN commands |-> IF c \in Pending(r) THEN Settled ELSE commands[c]]
           /\ muddled = muddled \cup {commands[c].key : c \in Pending(r)}
  <1>1. commands \in Seq(FollowCommand \cup {Settled})
    BY DEF AittyInv, IdentityTypes
  <1> QED
    BY <1>1

\* The mint is refused, the process exits, or it is killed.
LEMMA EndingSteps ==
    ASSUME AittyInv, NEW r \in Run, GiveUp(r) \/ Exit(r) \/ Kill(r)
    PROVE  AittyInv'
  <1>1. CASE GiveUp(r)
    <2>1. Pending(r) = {}
      BY <1>1, NothingPending DEF GiveUp, Holds
    <2> QED
      BY <1>1, <2>1, NoCommands, RunEnds DEF GiveUp, Aside
  <1>2. CASE Exit(r)
    <2>1. Pending(r) = {}
      BY <1>2 DEF Exit, Drained
    <2> QED
      BY <1>2, <2>1, NoCommands, RunEnds DEF Exit, End, Aside
  <1>3. CASE Kill(r)
    BY <1>3, RunEnds DEF Kill, End, Aside
  <1> QED
    BY <1>1, <1>2, <1>3

\* Nothing changes but a run that goes on.
LEMMA CommandsSame ==
    ASSUME AittyInv, Aside, UNCHANGED <<commands, muddled>>, runs' \in [Run -> IdentityRun],
           \A s \in Run : Calm(s) /\ (Holds(s) => Holds(s)') /\ runs'[s].kind = runs[s].kind
    PROVE  AittyInv'
  <1> USE DEF AittyInv
  <1>1. \A c \in DOMAIN commands : (Waits(c)' <=> Waits(c)) /\ commands'[c] = commands[c]
    BY DEF Waits
  <1>2. Grows
    BY <1>1 DEF Grows, Aside
  <1>3. IdentityTypes'
    BY DEF IdentityTypes, Aside
  <1>4. \A c \in DOMAIN commands : Waits(c) => commands[c].run \in Run
    <2>1. \A c \in DOMAIN commands : Waits(c) => commands[c] \in FollowCommand
      BY DEF Waits, IdentityTypes
    <2> QED
      BY <2>1 DEF FollowCommand
  <1>5. \A c \in DOMAIN commands : Waits(c)' => Holds(commands[c].run)'
    BY <1>1, <1>4 DEF CommandsOK
  <1>6. CommandsOK'
    BY <1>1, <1>2, <1>5, CommandsStay DEF CommandsOK
  <1>7. \A s \in Run, k \in Key : SameFor(s, k)
    BY <1>1 DEF SameFor
  <1>8. \A s \in Run : Holds(s)' /\ runs'[s].alone => Holds(s) /\ runs[s].alone /\ runs'[s].mem = runs[s].mem
    BY DEF Calm, Holds, Alive
  <1>9. MemoryKnows'
    BY <1>2, <1>7, <1>8, MemoryStays
  <1> QED
    BY <1>1, <1>2, <1>3, <1>6, <1>9, AsideStep

\* requestQuit, an answered one-shot, a watch that is interrupted.
LEMMA LeaveStep ==
    ASSUME AittyInv, NEW r \in Run, Leave(r)
    PROVE  AittyInv'
  <1> DEFINE x == [runs[r] EXCEPT !.at = "draining"]
  <1>1. runs \in [Run -> IdentityRun] /\ runs[r].at = "running" /\ runs' = [runs EXCEPT ![r] = x]
    BY DEF Leave, AittyInv, IdentityTypes
  <1>2. /\ x \in IdentityRun /\ x.at = "draining" /\ x.mem = runs[r].mem /\ x.kind = runs[r].kind
        /\ x.alone = runs[r].alone
    BY <1>1 DEF IdentityRun
  <1> HIDE DEF x
  <1>3. runs' \in [Run -> IdentityRun] /\ runs'[r] = x /\ \A s \in Run \ {r} : runs'[s] = runs[s]
    BY <1>1, <1>2
  <1>4. \A s \in Run : Calm(s) /\ (Holds(s) => Holds(s)') /\ runs'[s].kind = runs[s].kind
    BY <1>1, <1>2, <1>3 DEF Calm, Alive, Holds
  <1> QED
    BY <1>3, <1>4, CommandsSame DEF Leave, Aside

\* The file is gone: the account it had was logged out of.
LEMMA LogoutStep ==
    ASSUME AittyInv, Logout
    PROVE  AittyInv'
  <1> USE DEF AittyInv
  <1>1. /\ aittyFile # Nobody /\ aittyFile' = Nobody /\ loggedOut' = loggedOut \cup {aittyFile.account}
        /\ UNCHANGED <<accounts, records, runs, commands, mislaid, muddled>>
    BY DEF Logout
  <1>2. \A c \in DOMAIN commands : (Waits(c)' <=> Waits(c)) /\ (Applied(c)' <=> Applied(c)) /\ commands'[c] = commands[c]
    BY <1>1 DEF Waits, Applied
  <1>3. Grows
    BY <1>1, <1>2 DEF Grows
  <1>4. aittyFile.account \in accounts
    BY <1>1 DEF FileOK, IdentityOK
  <1>5. IdentityTypes'
    BY <1>1, <1>4 DEF IdentityTypes
  <1>6. \A s \in Run : Calm(s)
    BY <1>1 DEF Calm, Alive, Holds
  <1>7. RunsOK' /\ FileOK' /\ RecordsOK'
    BY <1>1, <1>3, <1>6, RunsStay, FileStays, RecordsStay
  <1>8. CommandsOK' /\ MemoryKnows'
    <2>1. CommandsOK'
      BY <1>1 DEF CommandsOK, Waits, Holds, Entry
    <2>2. ASSUME NEW s \in Run, Holds(s)', runs'[s].alone, NEW k \in Key \ muddled'
          PROVE  KnownTo(s, k)'
      <3>1. SameFor(s, k) /\ runs'[s] = runs[s]
        BY <1>1, <1>2 DEF SameFor
      <3>2. MadeUnder(runs[s].mem.account, k)' = MadeUnder(runs[s].mem.account, k)
        BY <1>1 DEF MadeUnder
      <3>3. KnownTo(s, k)
        BY <1>1, <2>2 DEF MemoryKnows, Holds
      <3> QED
        BY <1>3, <3>1, <3>2, <3>3, KnownStays
    <2> QED
      BY <2>1, <2>2 DEF MemoryKnows
  <1>9. AccountKept' /\ FileKnows'
    BY <1>1 DEF AccountKept, FileKnows
  <1> QED
    BY <1>5, <1>7, <1>8, <1>9

\* The identity of a new account: it follows nobody.
Fresh(account) == [account |-> account, follows |-> [k \in Key |-> 0]]

\* It is an identity.
LEMMA FreshIs ==
    ASSUME NEW account \in Account
    PROVE  /\ Fresh(account) \in Identity /\ Fresh(account) # Nobody
           /\ Fresh(account).account = account /\ \A k \in Key : Fresh(account).follows[k] = 0
  <1>1. 0 \in 0..MaxCommand
    BY AittyAssumption
  <1>2. Fresh(account) \in Identity
    BY <1>1 DEF Fresh, Identity
  <1> QED
    BY <1>2, AittyAssumption DEF Fresh

\* A waiting command is a command, of a run that is alive.
LEMMA WaitingIs ==
    ASSUME AittyInv, NEW c \in DOMAIN commands, Waits(c)
    PROVE  /\ commands[c] \in FollowCommand /\ commands[c].run \in Run /\ commands[c].key \in Key
           /\ Holds(commands[c].run) /\ Alive(commands[c].run)
  <1>1. commands[c] \in FollowCommand
    BY DEF AittyInv, IdentityTypes, Waits
  <1> QED
    BY <1>1 DEF AittyInv, CommandsOK, FollowCommand, Holds, Alive

\* A run begins: it has what the file has, and it is alone only if no other is alive.
LEMMA LaunchStep ==
    ASSUME AittyInv, NEW r \in Run, NEW kind \in {"prompt", "shot", "watch"}, Launch(r, kind)
    PROVE  AittyInv'
  <1> USE DEF AittyInv
  <1> DEFINE others == {s \in Run : Alive(s)}
             at == IF aittyFile = Nobody THEN "minting" ELSE "running"
             x == [NoRun(at) EXCEPT !.kind = kind, !.mem = aittyFile, !.alone = (others = {})]
  <1>1. runs \in [Run -> IdentityRun] /\ aittyFile \in Identity \cup {Nobody} /\ r \in Nat
    BY DEF IdentityTypes, Run
  <1>2. runs[r].at = "off" /\ ~Alive(r)
    <2>1. r >= r
      BY <1>1
    <2>2. runs[r].at = "off"
      BY <2>1 DEF Launch
    <2> QED
      BY <2>2 DEF Alive
  <1>3. /\ x \in IdentityRun /\ x.at = at /\ x.kind = kind /\ x.mem = aittyFile /\ x.alone = (others = {})
    <2>1. (others = {}) \in BOOLEAN
      OBVIOUS
    <2> QED
      BY <1>1, <2>1 DEF NoRun, IdentityRun
  <1>4. /\ runs' = [s \in Run |->
              CASE s = r -> x
                [] s \in others -> [runs[s] EXCEPT !.alone = FALSE]
                [] OTHER -> runs[s]]
        /\ UNCHANGED <<aittyFile, accounts, records, commands, loggedOut, mislaid, muddled>>
    BY DEF Launch, Existing
  <1> HIDE DEF x
  <1>5. \A s \in Run : LET y == [runs[s] EXCEPT !.alone = FALSE]
                       IN  /\ y \in IdentityRun /\ y.at = runs[s].at /\ y.kind = runs[s].kind
                           /\ y.mem = runs[s].mem /\ y.alone = FALSE
    BY <1>1 DEF IdentityRun
  <1>6. /\ runs'[r] = x
        /\ \A s \in Run \ {r} : /\ runs'[s].at = runs[s].at /\ runs'[s].mem = runs[s].mem
                                /\ runs'[s].kind = runs[s].kind
                                /\ Alive(s) => runs'[s].alone = FALSE
    <2> HIDE DEF others
    <2>1. runs'[r] = x
      <3>1. runs'[r] = CASE r = r -> x
                         [] r \in others -> [runs[r] EXCEPT !.alone = FALSE]
                         [] OTHER -> runs[r]
        BY <1>4, Zenon
      <3>2. r \notin others
        BY <1>2 DEF others
      <3> QED
        BY <3>1, <3>2, Zenon
    <2>2. ASSUME NEW s \in Run, s # r
          PROVE  /\ s \in others => runs'[s] = [runs[s] EXCEPT !.alone = FALSE]
                 /\ s \notin others => runs'[s] = runs[s]
      <3>1. runs'[s] = CASE s = r -> x
                         [] s \in others -> [runs[s] EXCEPT !.alone = FALSE]
                         [] OTHER -> runs[s]
        BY <1>4, Zenon
      <3>2. CASE s \in others
        BY <2>2, <3>1, <3>2, Zenon
      <3>3. CASE s \notin others
        BY <2>2, <3>1, <3>3, Zenon
      <3> QED
        BY <3>2, <3>3
    <2>3. \A s \in Run : Alive(s) => s \in others
      BY DEF others
    <2> QED
      BY <1>5, <2>1, <2>2, <2>3
  <1>7. runs' \in [Run -> IdentityRun]
    BY <1>1, <1>3, <1>4, <1>5
  <1>8. IdentityTypes'
    BY <1>4, <1>7 DEF IdentityTypes
  <1>9. \A s \in Run \ {r} : (Alive(s)' <=> Alive(s)) /\ (Holds(s)' <=> Holds(s))
    BY <1>6 DEF Alive, Holds
  <1>10. \A y : IdentityOK(y)' <=> IdentityOK(y)
    BY <1>4 DEF IdentityOK, Entry, Waits
  <1>11. RunsOK'
    <2> SUFFICES ASSUME NEW s \in Run
                 PROVE  /\ Holds(s)' => IdentityOK(runs[s].mem)'
                        /\ Alive(s)' /\ runs'[s].alone =>
                               /\ \A t \in Run : Alive(t)' => t = s
                               /\ runs'[s].at = "minting" => aittyFile' = Nobody
                               /\ Holds(s)' => aittyFile' = Nobody \/ aittyFile'.account = runs'[s].mem.account
      BY DEF RunsOK
    <2>1. CASE s = r
      <3>1. Holds(r)' => aittyFile # Nobody /\ runs'[r].mem = aittyFile
        BY <1>3, <1>6 DEF Holds
      <3>2. Holds(r)' => IdentityOK(runs[r].mem)'
        BY <1>4, <3>1 DEF FileOK, IdentityOK, Entry, Waits
      <3>3. runs'[r].alone => \A t \in Run : Alive(t)' => t = r
        BY <1>3, <1>6, <1>9
      <3>4. runs'[r].at = "minting" => aittyFile' = Nobody
        BY <1>3, <1>4, <1>6
      <3> QED
        BY <1>4, <2>1, <3>1, <3>2, <3>3, <3>4
    <2>2. CASE s # r
      <3>1. Alive(s)' => runs'[s].alone = FALSE
        BY <1>6, <1>9, <2>2
      <3>2. Holds(s)' => IdentityOK(runs[s].mem)'
        BY <1>4, <1>6, <1>9, <2>2 DEF RunsOK, IdentityOK, Entry, Waits
      <3> QED
        BY <3>1, <3>2
    <2> QED
      BY <2>1, <2>2
  <1>12. \A c \in DOMAIN commands : Waits(c) => /\ commands[c].run # r
                                                /\ commands[c].run \in others /\ Holds(commands[c].run)'
    BY <1>2, <1>4, <1>9, WaitingIs
  <1>13. CommandsOK'
    BY <1>4, <1>12 DEF CommandsOK, Waits, Entry
  <1>14. ASSUME NEW s \in Run, Holds(s)', runs'[s].alone, NEW k \in Key \ muddled'
         PROVE  KnownTo(s, k)'
    <2>1. s = r
      BY <1>6, <1>9, <1>14 DEF Holds, Alive
    <2>2. others = {} /\ aittyFile # Nobody /\ runs'[r].mem = aittyFile
      BY <1>3, <1>6, <1>14, <2>1 DEF Holds
    <2>3. \A c \in DOMAIN commands : ~Waits(c)
      BY <1>12, <2>2
    <2>4. MadeUnder(aittyFile.account, k) = {aittyFile.follows[k]} \ {0}
      BY <1>4, <1>14, <2>2, <2>3 DEF FileKnows, Applied
    <2>5. MadeUnder(runs[r].mem.account, k)' = MadeUnder(aittyFile.account, k)
      BY <1>4, <2>2 DEF MadeUnder
    <2>6. Pending(r)' = {}
      BY <1>4, <2>3 DEF Pending, Waits
    <2> QED
      BY <2>1, <2>2, <2>4, <2>5, <2>6 DEF KnownTo
  <1>15. MemoryKnows'
    BY <1>14 DEF MemoryKnows
  <1>16. FileOK' /\ RecordsOK' /\ AccountKept' /\ FileKnows'
    BY <1>4 DEF FileOK, IdentityOK, Entry, RecordsOK, AccountKept, FileKnows, MadeUnder, Applied, Waits
  <1> QED
    BY <1>8, <1>11, <1>13, <1>15, <1>16

\* A new account has made no record.
LEMMA FreshMadeNothing ==
    ASSUME RecordsOK, NEW account, account \notin accounts, NEW k
    PROVE  MadeUnder(account, k) = {}
  BY DEF RecordsOK, MadeUnder

\* An account is minted: the file has it, unless the run was killed.
LEMMA MintAccountStep ==
    ASSUME AittyInv, NEW r \in Run, NEW account \in Account, NEW killed \in BOOLEAN,
           MintAccount(r, account, killed)
    PROVE  AittyInv'
  <1> USE DEF AittyInv
  <1>1. /\ runs[r].at = "minting" /\ account \notin accounts /\ accounts' = accounts \cup {account}
        /\ UNCHANGED <<records, commands, loggedOut, muddled>>
    BY DEF MintAccount
  <1>2. runs \in [Run -> IdentityRun]
    BY DEF IdentityTypes
  <1>3. Alive(r) /\ ~Holds(r)
    BY <1>1 DEF Alive, Holds
  <1>4. \A c \in DOMAIN commands : (Waits(c)' <=> Waits(c)) /\ (Applied(c)' <=> Applied(c)) /\ commands'[c] = commands[c]
    BY <1>1 DEF Waits, Applied
  <1>5. Grows
    BY <1>1, <1>4 DEF Grows
  <1>6. RecordsOK'
    BY <1>1, <1>5, RecordsStay
  <1>7. \A c \in DOMAIN commands : Waits(c) => commands[c].run \in Run \ {r} /\ Holds(commands[c].run)
    BY <1>3, WaitingIs
  <1>8. CASE killed
    <2>1. /\ runs' = [runs EXCEPT ![r] = NoRun("over")] /\ mislaid' = mislaid \cup {account}
          /\ aittyFile' = aittyFile
      BY <1>8 DEF MintAccount
    <2>2. /\ runs' \in [Run -> IdentityRun] /\ runs'[r].at = "over"
          /\ \A s \in Run \ {r} : runs'[s] = runs[s]
      BY <1>2, <2>1, NoRunIs
    <2>3. IdentityTypes'
      BY <1>1, <2>1, <2>2 DEF IdentityTypes
    <2>4. \A s \in Run : Calm(s)
      BY <2>2 DEF Calm, Alive, Holds
    <2>5. RunsOK' /\ FileOK'
      BY <1>5, <2>1, <2>4, RunsStay, FileStays
    <2>6. CommandsOK'
      BY <1>1, <1>4, <1>5, <1>7, <2>2, CommandsStay DEF CommandsOK, Holds
    <2>7. ASSUME NEW s \in Run, Holds(s)', runs'[s].alone, NEW k \in Key \ muddled'
          PROVE  KnownTo(s, k)'
      <3>1. s # r /\ Holds(s) /\ runs'[s] = runs[s]
        BY <2>2, <2>7 DEF Holds
      <3>2. Alive(s)
        BY <3>1 DEF Holds, Alive
      <3> QED
        BY <1>3, <2>7, <3>1, <3>2 DEF RunsOK
    <2>8. AccountKept'
      BY <1>1, <2>1 DEF AccountKept
    <2>9. FileKnows'
      BY <1>1, <1>4, <2>1 DEF FileKnows, MadeUnder
    <2> QED
      BY <1>6, <2>3, <2>5, <2>6, <2>7, <2>8, <2>9 DEF MemoryKnows
  <1>9. CASE ~killed
    <2> DEFINE x == [runs[r] EXCEPT !.at = "running", !.mem = Fresh(account)]
    <2>1. /\ runs' = [runs EXCEPT ![r] = x] /\ aittyFile' = Fresh(account)
          /\ mislaid' = IF runs[r].alone THEN mislaid
                        ELSE mislaid \cup {account} \cup (IF aittyFile = Nobody THEN {} ELSE {aittyFile.account})
      BY <1>9 DEF MintAccount, Fresh
    <2>2. /\ Fresh(account) \in Identity /\ Fresh(account) # Nobody
          /\ Fresh(account).account = account /\ \A k \in Key : Fresh(account).follows[k] = 0
      BY FreshIs
    <2>3. /\ x \in IdentityRun /\ x.at = "running" /\ x.mem = Fresh(account) /\ x.alone = runs[r].alone
      BY <1>2, <2>2 DEF IdentityRun
    <2> HIDE DEF x
    <2>4. runs' \in [Run -> IdentityRun] /\ runs'[r] = x /\ \A s \in Run \ {r} : runs'[s] = runs[s]
      BY <1>2, <2>1, <2>3
    <2>5. mislaid' \subseteq accounts'
      BY <1>1, <2>1 DEF IdentityTypes, FileOK, IdentityOK
    <2>6. IdentityTypes'
      BY <1>1, <2>1, <2>2, <2>4, <2>5 DEF IdentityTypes
    <2>7. \A y : y = Fresh(account) => /\ y \in Identity /\ y.account \in accounts'
                                       /\ \A k \in Key : Entry(y.follows[k], k)'
      BY <1>1, <2>2 DEF Entry
    <2>8. FileOK'
      BY <2>1, <2>7 DEF FileOK, IdentityOK, Entry
    <2>9. \A s \in Run : Alive(s)' <=> Alive(s)
      BY <1>3, <2>3, <2>4 DEF Alive
    <2>10. ASSUME NEW s \in Run, s # r, Alive(s)
           PROVE  runs[s].alone = FALSE /\ runs[r].alone = FALSE
      BY <1>2, <1>3, <2>10 DEF RunsOK, IdentityRun
    <2>11. RunsOK'
      <3> SUFFICES ASSUME NEW s \in Run
                   PROVE  /\ Holds(s)' => IdentityOK(runs[s].mem)'
                          /\ Alive(s)' /\ runs'[s].alone =>
                                 /\ \A t \in Run : Alive(t)' => t = s
                                 /\ runs'[s].at = "minting" => aittyFile' = Nobody
                                 /\ Holds(s)' => aittyFile' = Nobody \/ aittyFile'.account = runs'[s].mem.account
        BY DEF RunsOK
      <3>1. CASE s = r
        <4>1. IdentityOK(runs[r].mem)'
          BY <2>3, <2>4, <2>7 DEF IdentityOK, Entry
        <4>2. runs'[r].alone => \A t \in Run : Alive(t)' => t = r
          BY <2>3, <2>4, <2>9, <2>10
        <4> QED
          BY <2>1, <2>3, <2>4, <3>1, <4>1, <4>2
      <3>2. CASE s # r
        <4>1. runs'[s] = runs[s] /\ (Alive(s)' => runs[s].alone = FALSE) /\ (Holds(s)' => Holds(s))
          BY <2>4, <2>9, <2>10, <3>2 DEF Holds
        <4>2. \A y : IdentityOK(y) => /\ y \in Identity /\ y.account \in accounts'
                                     /\ \A k \in Key : Entry(y.follows[k], k)'
          BY <1>5, EntryKept DEF IdentityOK, Grows
        <4>3. Holds(s)' => IdentityOK(runs[s].mem)'
          BY <4>1, <4>2 DEF RunsOK, IdentityOK, Entry
        <4> QED
          BY <4>1, <4>3
      <3> QED
        BY <3>1, <3>2
    <2>12. CommandsOK'
      BY <1>1, <1>4, <1>5, <1>7, <2>4, CommandsStay DEF CommandsOK, Holds
    <2>13. \A k \in Key : MadeUnder(account, k) = {}
      BY <1>1, FreshMadeNothing
    <2>14. ASSUME NEW s \in Run, Holds(s)', runs'[s].alone, NEW k \in Key \ muddled'
           PROVE  KnownTo(s, k)'
      <3>1. s = r
        <4>1. Alive(s)
          BY <2>9, <2>14 DEF Holds, Alive
        <4>2. CASE s # r
          BY <2>4, <2>10, <2>14, <4>1, <4>2
        <4> QED
          BY <4>2
      <3>2. Pending(r)' = {}
        BY <1>1, <1>4, <1>7 DEF Pending
      <3>3. MadeUnder(runs[r].mem.account, k)' = {}
        BY <1>1, <2>2, <2>3, <2>4, <2>13 DEF MadeUnder
      <3>4. runs'[r].mem.follows[k] = 0
        BY <2>2, <2>3, <2>4
      <3> QED
        BY <3>1, <3>2, <3>3, <3>4 DEF KnownTo
    <2>15. FileKnows'
      <3>1. \A k \in Key : MadeUnder(aittyFile.account, k)' = {}
        BY <1>1, <2>1, <2>2, <2>13 DEF MadeUnder
      <3> QED
        BY <2>1, <2>2, <3>1 DEF FileKnows
    <2>16. AccountKept'
      <3> SUFFICES ASSUME NEW a \in accounts' \ (loggedOut' \cup mislaid')
                   PROVE  a = account
        BY <2>1, <2>2 DEF AccountKept
      <3>1. CASE runs[r].alone
        <4>1. aittyFile = Nobody
          BY <1>1, <1>3, <3>1 DEF RunsOK
        <4> QED
          BY <1>1, <2>1, <3>1, <4>1 DEF AccountKept
      <3>2. CASE ~runs[r].alone
        BY <1>1, <2>1, <3>2 DEF AccountKept
      <3> QED
        BY <3>1, <3>2
    <2> QED
      BY <1>6, <2>6, <2>8, <2>11, <2>12, <2>14, <2>15, <2>16 DEF MemoryKnows
  <1> QED
    BY <1>8, <1>9

\* A command is added to those of a run that takes it; it has asked for nothing yet.
LEMMA CalledStep ==
    ASSUME AittyInv, Aside, NEW r \in Run, NEW k \in Key, NEW x \in FollowCommand, Takes(r), NoteOverlap(r, k),
           runs' = [runs EXCEPT ![r].at = Running(r)], commands' = Append(commands, x),
           x.run = r, x.key = k, x.at \in {"resolve", "delete"},
           x.at = "resolve" /\ runs[r].kind # "watch" => runs[r].mem.follows[k] = 0,
           x.at = "delete" => x.record = runs[r].mem.follows[k]
    PROVE  AittyInv'
  <1> USE DEF AittyInv
  <1>0. PICK n : n = Len(commands) + 1
    OBVIOUS
  <1> DEFINE y == [runs[r] EXCEPT !.at = Running(r)]
  <1>1. /\ commands \in Seq(FollowCommand \cup {Settled}) /\ runs \in [Run -> IdentityRun]
        /\ x # Settled /\ Len(commands) \in Nat
    BY AittyAssumption DEF IdentityTypes
  <1>2. /\ commands' \in Seq(FollowCommand \cup {Settled}) /\ Len(commands') = n
        /\ n \notin DOMAIN commands /\ DOMAIN commands' = DOMAIN commands \cup {n}
        /\ commands'[n] = x /\ \A c \in DOMAIN commands : commands'[c] = commands[c]
    BY <1>0, <1>1
  <1>3. Len(commands') <= MaxCommand
    BY <1>0, <1>1, <1>2, AittyAssumption DEF Takes
  <1>4. runs[r].at = "running" /\ Holds(r) /\ Alive(r)
    BY DEF Takes, Holds, Alive
  <1>5. /\ y \in IdentityRun /\ y.at \in {"running", "draining"} /\ y.mem = runs[r].mem
        /\ y.kind = runs[r].kind /\ y.alone = runs[r].alone
    BY <1>1 DEF IdentityRun, Running
  <1>6. runs' = [runs EXCEPT ![r] = y]
    OBVIOUS
  <1> HIDE DEF y
  <1>7. runs' \in [Run -> IdentityRun] /\ runs'[r] = y /\ \A s \in Run \ {r} : runs'[s] = runs[s]
    BY <1>1, <1>5, <1>6
  <1>8. \A c \in DOMAIN commands : (Waits(c)' <=> Waits(c)) /\ (Applied(c)' <=> Applied(c))
    BY <1>2 DEF Waits, Applied
  <1>9. /\ muddled \subseteq muddled' /\ muddled' \subseteq Key
        /\ k \notin muddled' => \A c \in Pending(r) : commands[c].key # k
    BY DEF NoteOverlap, IdentityTypes
  <1>10. Grows
    BY <1>2, <1>8, <1>9 DEF Grows, Aside
  <1>11. IdentityTypes'
    BY <1>2, <1>3, <1>7, <1>9 DEF IdentityTypes, Aside
  <1>12. \A s \in Run : Calm(s) /\ (Holds(s) => Holds(s)') /\ runs'[s].mem = runs[s].mem
                        /\ runs'[s].kind = runs[s].kind /\ runs'[s].alone = runs[s].alone
    BY <1>4, <1>5, <1>7 DEF Calm, Alive, Holds
  <1>13. Waits(n)' /\ ~Applied(n)' /\ n \in Pending(r)' /\ n \in DOMAIN commands'
    BY <1>1, <1>2 DEF Waits, Applied, Pending
  <1>14. CommandsOK'
    <2>1. ASSUME NEW c \in DOMAIN commands', Waits(c)'
          PROVE  /\ Holds(commands[c].run)'
                 /\ commands'[c].at = "delete" => Entry(commands[c].record, commands[c].key)'
                 /\ commands'[c].at = "created" => commands'[c].record = c
      <3>0. \A i, j : Entry(i, j) => Entry(i, j)'
        BY <1>10, EntryKept
      <3>1. CASE c = n
        <4>1. Holds(r)'
          BY <1>4, <1>12
        <4>2. IdentityOK(runs[r].mem)
          BY <1>4 DEF RunsOK
        <4>3. commands'[c].at = "delete" => Entry(x.record, k)
          BY <1>2, <3>1, <4>2 DEF IdentityOK
        <4>4. commands'[c].at = "delete" => Entry(commands[c].record, commands[c].key)'
          <5>1. commands'[c].at = "delete" => Entry(x.record, k)'
            BY <3>0, <4>3
          <5>2. commands'[c] = x
            BY <1>2, <3>1
          <5> QED
            BY <5>1, <5>2 DEF Entry
        <4> QED
          BY <1>2, <3>1, <4>1, <4>4
      <3>2. CASE c # n
        <4>1. c \in DOMAIN commands /\ commands'[c] = commands[c] /\ Waits(c)
          BY <1>2, <1>8, <2>1, <3>2
        <4>2. commands[c].run \in Run
          BY <4>1, WaitingIs
        <4>3. Holds(commands[c].run)'
          BY <1>12, <4>1, <4>2 DEF CommandsOK
        <4>4. commands[c].at = "delete" => Entry(commands[c].record, commands[c].key)
          BY <4>1 DEF CommandsOK
        <4>5. commands'[c].at = "delete" => Entry(commands[c].record, commands[c].key)'
          <5> SUFFICES ASSUME commands'[c].at = "delete"
                       PROVE  Entry(commands[c].record, commands[c].key)'
            OBVIOUS
          <5>1. PICK i, j : i = commands[c].record /\ j = commands[c].key
            OBVIOUS
          <5>2. Entry(i, j)'
            BY <3>0, <4>1, <4>4, <5>1
          <5> QED
            BY <4>1, <5>1, <5>2 DEF Entry
        <4> QED
          BY <4>1, <4>3, <4>5 DEF CommandsOK
      <3> QED
        BY <3>1, <3>2
    <2>2. ASSUME NEW c \in DOMAIN commands', NEW d \in DOMAIN commands', c # d, Waits(c)', Waits(d)',
                 commands'[c].run = commands'[d].run, commands'[c].key = commands'[d].key
          PROVE  commands'[c].key \in muddled'
      <3>1. CASE c = n \/ d = n
        <4>1. \A e \in DOMAIN commands : Waits(e) /\ commands[e].run = r /\ commands[e].key = k => k \in muddled'
          BY <1>9 DEF Pending
        <4> QED
          BY <1>2, <1>8, <2>2, <3>1, <4>1
      <3>2. CASE c # n /\ d # n
        BY <1>2, <1>8, <1>9, <2>2, <3>2 DEF CommandsOK
      <3> QED
        BY <3>1, <3>2
    <2> QED
      BY <2>1, <2>2 DEF CommandsOK, Waits, Holds, Entry
  <1>15. ASSUME NEW s \in Run, Holds(s)', runs'[s].alone, NEW j \in Key \ muddled'
         PROVE  KnownTo(s, j)'
    <2>1. s = r
      <3>1. Alive(s) /\ runs[s].alone
        BY <1>4, <1>7, <1>12, <1>15 DEF Holds, Alive
      <3> QED
        BY <1>4, <3>1 DEF RunsOK
    <2>2. KnownTo(r, j)
      BY <1>4, <1>9, <1>12, <1>15, <2>1 DEF MemoryKnows
    <2>3. MadeUnder(runs[r].mem.account, j)' = MadeUnder(runs[r].mem.account, j)
      BY <1>12 DEF Aside, MadeUnder
    <2>4. CASE j # k
      <3>1. SameFor(r, j)
        BY <1>2, <1>8, <2>4 DEF SameFor
      <3> QED
        BY <1>10, <1>12, <1>15, <2>1, <2>2, <2>3, <3>1, KnownStays
    <2>5. CASE j = k
      <3>1. \A c \in Pending(r) : commands[c].key # k
        BY <1>9, <1>15, <2>5
      <3>2. \A c \in Pending(r)' : commands'[c].key = k => c = n
        BY <1>2, <1>8, <3>1 DEF Pending
      <3>3. MadeUnder(runs[r].mem.account, k) = {runs[r].mem.follows[k]} \ {0}
        BY <2>2, <2>5, <3>1 DEF KnownTo
      <3>4. CommandKnown(r, k, n)'
        BY <1>2, <1>12 DEF CommandKnown
      <3> QED
        BY <1>12, <2>1, <2>3, <2>5, <3>2, <3>3, <3>4 DEF KnownTo
    <2> QED
      BY <2>4, <2>5
  <1>16. MemoryKnows'
    BY <1>15 DEF MemoryKnows
  <1> QED
    BY <1>2, <1>10, <1>11, <1>12, <1>14, <1>16, AsideStep

\* A follow, from the prompt, a one-shot or a watch.
LEMMA CallFollowStep ==
    ASSUME AittyInv, NEW r \in Run, NEW k \in Key, CallFollow(r, k)
    PROVE  AittyInv'
  <1> DEFINE x == [at |-> "resolve", run |-> r, key |-> k, record |-> 0]
  <1>1. x \in FollowCommand /\ x.run = r /\ x.key = k /\ x.at = "resolve"
    <2>1. 0 \in 0..MaxCommand
      BY AittyAssumption
    <2> QED
      BY <2>1 DEF FollowCommand
  <1>2. commands' = Append(commands, x)
    BY DEF CallFollow
  <1> HIDE DEF x
  <1> QED
    BY <1>1, <1>2, CalledStep DEF CallFollow, Aside

\* An unfollow of the record that the key has.
LEMMA CallUnfollowStep ==
    ASSUME AittyInv, NEW r \in Run, NEW k \in Key, CallUnfollow(r, k)
    PROVE  AittyInv'
  <1> DEFINE x == [at |-> "delete", run |-> r, key |-> k, record |-> runs[r].mem.follows[k]]
  <1>1. x \in FollowCommand /\ x.run = r /\ x.key = k /\ x.at = "delete" /\ x.record = runs[r].mem.follows[k]
    <2>1. Holds(r)
      BY DEF CallUnfollow, Takes, Holds
    <2>2. runs[r].mem \in Identity
      BY <2>1 DEF AittyInv, RunsOK, IdentityOK
    <2>3. runs[r].mem.follows[k] \in 0..MaxCommand
      BY <2>2 DEF Identity
    <2> QED
      BY <2>3 DEF FollowCommand
  <1>2. commands' = Append(commands, x)
    BY DEF CallUnfollow
  <1> HIDE DEF x
  <1> QED
    BY <1>1, <1>2, CalledStep DEF CallUnfollow, Aside

-----------------------------------------------------------------------------
(* A command goes on. *)

\* One command is now x.
Becomes(c, x) == commands' = [commands EXCEPT ![c] = x]

\* The other commands are as they were.
LEMMA BecomesIs ==
    ASSUME AittyInv, NEW c \in DOMAIN commands, NEW x \in FollowCommand \cup {Settled}, Becomes(c, x)
    PROVE  /\ commands' \in Seq(FollowCommand \cup {Settled}) /\ Len(commands') = Len(commands)
           /\ DOMAIN commands' = DOMAIN commands /\ commands'[c] = x
           /\ \A d \in DOMAIN commands : d # c => /\ commands'[d] = commands[d]
                                                  /\ Waits(d)' <=> Waits(d)
                                                  /\ Applied(d)' <=> Applied(d)
  <1>1. commands \in Seq(FollowCommand \cup {Settled})
    BY DEF AittyInv, IdentityTypes
  <1>2. /\ commands' \in Seq(FollowCommand \cup {Settled}) /\ Len(commands') = Len(commands)
        /\ DOMAIN commands' = DOMAIN commands /\ commands'[c] = x
        /\ \A d \in DOMAIN commands : d # c => commands'[d] = commands[d]
    BY <1>1 DEF Becomes
  <1> QED
    BY <1>2 DEF Waits, Applied

\* The only command under way for a key that no commands have muddled.
LEMMA OnlyCommand ==
    ASSUME AittyInv, NEW c \in DOMAIN commands, Waits(c), NEW d \in DOMAIN commands, Waits(d),
           commands[d].run = commands[c].run, commands[d].key = commands[c].key,
           commands[c].key \notin muddled
    PROVE  d = c
  BY DEF AittyInv, CommandsOK

\* A run that is alone is the only one with a command.
LEMMA AloneRuns ==
    ASSUME AittyInv, NEW c \in DOMAIN commands, Waits(c), NEW s \in Run, Holds(s), runs[s].alone
    PROVE  s = commands[c].run
  <1>1. Alive(s) /\ Alive(commands[c].run) /\ commands[c].run \in Run
    BY WaitingIs DEF Holds, Alive
  <1> QED
    BY <1>1 DEF AittyInv, RunsOK

\* What is known of a command's own key is all that is left to show, where the other
\* keys keep their records and what is kept under them.
LEMMA OneKeyKnows ==
    ASSUME AittyInv, Grows, NEW c \in DOMAIN commands, Waits(c), NEW x \in FollowCommand \cup {Settled},
           Becomes(c, x), NEW r \in Run, NEW k \in Key, r = commands[c].run, k = commands[c].key,
           x # Settled => x.key = k /\ x.run = r,
           \A s \in Run : (Holds(s)' => Holds(s)) /\ runs'[s].alone = runs[s].alone /\ runs'[s].kind = runs[s].kind,
           runs'[r].mem.account = runs[r].mem.account,
           \A j \in Key \ {k} : /\ runs'[r].mem.follows[j] = runs[r].mem.follows[j]
                               /\ MadeUnder(runs[r].mem.account, j)' = MadeUnder(runs[r].mem.account, j),
           runs[r].alone /\ k \notin muddled' /\ KnownTo(r, k) => KnownTo(r, k)'
    PROVE  MemoryKnows'
  <1> SUFFICES ASSUME NEW s \in Run, Holds(s)', runs'[s].alone, NEW j \in Key \ muddled'
               PROVE  KnownTo(s, j)'
    BY DEF MemoryKnows
  <1>1. Holds(s) /\ runs[s].alone /\ j \notin muddled
    BY DEF Grows
  <1>2. s = r
    BY <1>1, AloneRuns
  <1>3. KnownTo(r, j)
    BY <1>1, <1>2 DEF AittyInv, MemoryKnows
  <1>4. CASE j = k
    BY <1>1, <1>2, <1>3, <1>4
  <1>5. CASE j # k
    <2>1. SameFor(r, j)
      BY <1>5, BecomesIs DEF SameFor, Waits
    <2> QED
      BY <1>2, <1>3, <1>5, <2>1, KnownStays
  <1> QED
    BY <1>4, <1>5

\* A command that is answered, or goes on, without a record: what its run knows.
LEMMA KeyKnows ==
    ASSUME AittyInv, Grows, NEW c \in DOMAIN commands, Waits(c), NEW x \in FollowCommand \cup {Settled},
           Becomes(c, x), x # Settled => x.key = commands[c].key /\ x.run = commands[c].run,
           ~Applied(c), NEW r \in Run, NEW k \in Key, r = commands[c].run, k = commands[c].key,
           k \notin muddled, KnownTo(r, k), runs'[r].mem = runs[r].mem, runs'[r].kind = runs[r].kind,
           UNCHANGED records, x # Settled => x.at = "create" /\ runs[r].mem.follows[k] = 0
    PROVE  KnownTo(r, k)'
  <1>1. \A d \in Pending(r) : commands[d].key = k => d = c
    BY OnlyCommand DEF Pending
  <1>2. MadeUnder(runs[r].mem.account, k) = {runs[r].mem.follows[k]} \ {0}
    BY <1>1 DEF KnownTo
  <1>3. MadeUnder(runs[r].mem.account, k)' = {runs'[r].mem.follows[k]} \ {0}
    BY <1>2 DEF MadeUnder
  <1>4. \A d \in Pending(r)' : commands'[d].key = k => d = c
    BY <1>1, BecomesIs DEF Pending
  <1>5. c \in Pending(r)' => CommandKnown(r, k, c)'
    BY BecomesIs DEF Pending, Waits, CommandKnown
  <1> QED
    BY <1>3, <1>4, <1>5 DEF KnownTo

\* A subject is known, or not.
LEMMA ResolveStep ==
    ASSUME AittyInv, NEW c \in DOMAIN commands, NEW found \in BOOLEAN, Resolve(c, found)
    PROVE  AittyInv'
  <1> USE DEF AittyInv
  <1>0. PICK r, k : r = commands[c].run /\ k = commands[c].key
    OBVIOUS
  <1>1. /\ Waits(c) /\ commands[c].at = "resolve" /\ ~Applied(c)
        /\ Aside /\ muddled' = muddled
    BY DEF Resolve, Aside, Applied
  <1>2. commands[c] \in FollowCommand /\ r \in Run /\ k \in Key /\ Holds(r) /\ Alive(r)
    BY <1>0, <1>1, WaitingIs
  <1>3. \E x \in FollowCommand \cup {Settled} :
            /\ Becomes(c, x)
            /\ x # Settled => /\ x.key = k /\ x.run = r /\ x.at = "create"
                              /\ runs[r].kind = "watch" => runs[r].mem.follows[k] = 0
    <2> DEFINE y == [commands[c] EXCEPT !.at = "create"]
               stored == runs[r].kind = "watch" /\ runs[r].mem.follows[k] # 0
               goesOn == (found \/ stored) /\ SubjectOf[k] # runs[r].mem.account
                         /\ ~(runs[r].kind = "watch" /\ SubjectOf[k] \in runs[r].desired)
               x == IF goesOn /\ ~stored THEN y ELSE Settled
    <2>1. y \in FollowCommand /\ y.at = "create" /\ y.key = k /\ y.run = r
      BY <1>0, <1>2 DEF FollowCommand
    <2>2. commands' = [commands EXCEPT ![c] = x]
      BY <1>0 DEF Resolve
    <2> HIDE DEF y, goesOn
    <2> QED
      BY <2>1, <2>2 DEF Becomes
  <1>4. PICK x \in FollowCommand \cup {Settled} :
            /\ Becomes(c, x)
            /\ x # Settled => /\ x.key = k /\ x.run = r /\ x.at = "create"
                              /\ runs[r].kind = "watch" => runs[r].mem.follows[k] = 0
    BY <1>3
  <1>5. runs \in [Run -> IdentityRun]
    BY DEF IdentityTypes
  <1>6. /\ runs' \in [Run -> IdentityRun]
        /\ \A s \in Run : /\ runs'[s].at = runs[s].at /\ runs'[s].mem = runs[s].mem
                          /\ runs'[s].kind = runs[s].kind /\ runs'[s].alone = runs[s].alone
    <2> DEFINE did == SubjectOf[k]
               y == [runs[r] EXCEPT !.desired = @ \cup {did}]
    <2>1. /\ y \in IdentityRun /\ y.at = runs[r].at /\ y.mem = runs[r].mem
          /\ y.kind = runs[r].kind /\ y.alone = runs[r].alone
      BY <1>2, <1>5 DEF IdentityRun, Subjects
    <2>2. runs' = runs \/ runs' = [runs EXCEPT ![r] = y]
      BY <1>0 DEF Resolve
    <2> HIDE DEF y
    <2> QED
      BY <1>2, <1>5, <2>1, <2>2
  <1>7. /\ commands' \in Seq(FollowCommand \cup {Settled}) /\ Len(commands') = Len(commands)
        /\ DOMAIN commands' = DOMAIN commands /\ commands'[c] = x
        /\ \A d \in DOMAIN commands : d # c => /\ commands'[d] = commands[d]
                                               /\ Waits(d)' <=> Waits(d)
                                               /\ Applied(d)' <=> Applied(d)
    BY <1>4, BecomesIs
  <1>8. Grows
    BY <1>1, <1>7 DEF Grows, Aside
  <1>9. IdentityTypes'
    BY <1>1, <1>6, <1>7 DEF IdentityTypes, Aside
  <1>10. \A s \in Run : Calm(s) /\ (Holds(s)' <=> Holds(s))
    BY <1>6 DEF Calm, Alive, Holds
  <1>11. \A d \in DOMAIN commands : Waits(d) => Holds(commands[d].run) /\ commands[d].run \in Run
    BY WaitingIs
  <1>12. \A d \in DOMAIN commands : Waits(d)' =>
               /\ commands'[d].run = commands[d].run /\ commands'[d].key = commands[d].key
               /\ commands'[d].at = "delete" =>
                      commands[d].at = "delete" /\ commands'[d].record = commands[d].record
               /\ commands'[d].at = "created" => commands'[d].record = d
    BY <1>0, <1>4, <1>7 DEF Waits, CommandsOK
  <1>13. CommandsOK'
    BY <1>7, <1>8, <1>10, <1>11, <1>12, CommandsStay DEF Grows
  <1>15. ASSUME k \notin muddled', KnownTo(r, k)
         PROVE  KnownTo(r, k)'
    <2>1. c \in Pending(r)
      BY <1>0, <1>1 DEF Pending
    <2>2. x # Settled => runs[r].mem.follows[k] = 0
      BY <1>0, <1>1, <1>4, <1>15, <2>1 DEF KnownTo, CommandKnown
    <2> QED
      BY <1>0, <1>1, <1>2, <1>4, <1>6, <1>8, <1>15, <2>2, KeyKnows DEF Aside
  <1>16. MemoryKnows'
    <2>1. \A j \in Key : MadeUnder(runs[r].mem.account, j)' = MadeUnder(runs[r].mem.account, j)
      BY <1>1, <1>2, <1>6 DEF Aside, MadeUnder
    <2> QED
      BY <2>1, <1>0, <1>1, <1>2, <1>4, <1>6, <1>8, <1>10, <1>15, OneKeyKnows
  <1>17. \A d \in DOMAIN commands : Applied(d) => commands'[d] = commands[d]
    BY <1>1, <1>7
  <1> QED
    BY <1>1, <1>8, <1>9, <1>10, <1>13, <1>16, <1>17, AsideStep

\* A call is refused or its answer lost.
LEMMA CommandFailsStep ==
    ASSUME AittyInv, NEW c \in DOMAIN commands, CommandFails(c)
    PROVE  AittyInv'
  <1> USE DEF AittyInv
  <1>0. PICK r, k : r = commands[c].run /\ k = commands[c].key
    OBVIOUS
  <1>1. /\ Waits(c) /\ Aside /\ runs' = runs /\ Becomes(c, Settled)
        /\ commands[c].at \in {"create", "created", "delete", "deleted"}
        /\ muddled' = IF Applied(c) THEN muddled \cup {k} ELSE muddled
    BY <1>0 DEF CommandFails, Aside, Becomes, Applied
  <1>2. commands[c] \in FollowCommand /\ r \in Run /\ k \in Key
    BY <1>0, <1>1, WaitingIs
  <1>3. /\ commands' \in Seq(FollowCommand \cup {Settled}) /\ Len(commands') = Len(commands)
        /\ DOMAIN commands' = DOMAIN commands /\ commands'[c] = Settled
        /\ \A d \in DOMAIN commands : d # c => /\ commands'[d] = commands[d]
                                               /\ Waits(d)' <=> Waits(d)
                                               /\ Applied(d)' <=> Applied(d)
    BY <1>1, BecomesIs
  <1>4. Grows
    BY <1>1, <1>3 DEF Grows, Aside, Waits
  <1>5. IdentityTypes'
    BY <1>1, <1>2, <1>3 DEF IdentityTypes, Aside
  <1>6. \A s \in Run : Calm(s) /\ (Holds(s)' <=> Holds(s)) /\ runs'[s] = runs[s]
    BY <1>1 DEF Calm, Alive, Holds
  <1>7. \A d \in DOMAIN commands : Waits(d) => Holds(commands[d].run) /\ commands[d].run \in Run
    BY WaitingIs
  <1>8. \A d \in DOMAIN commands : Waits(d)' => Waits(d) /\ commands'[d] = commands[d]
    BY <1>3 DEF Waits
  <1>9. CommandsOK'
    BY <1>3, <1>4, <1>6, <1>7, <1>8, CommandsStay DEF CommandsOK
  <1>10. ASSUME k \notin muddled', KnownTo(r, k)
         PROVE  KnownTo(r, k)'
    <2>1. ~Applied(c) /\ k \notin muddled
      BY <1>1, <1>10
    <2> QED
      BY <1>0, <1>1, <1>2, <1>4, <1>10, <2>1, KeyKnows DEF Aside
  <1>11. MemoryKnows'
    <2>1. \A j \in Key : MadeUnder(runs[r].mem.account, j)' = MadeUnder(runs[r].mem.account, j)
      BY <1>1 DEF Aside, MadeUnder
    <2> QED
      BY <1>0, <1>1, <1>2, <1>4, <1>6, <1>10, <2>1, OneKeyKnows
  <1>12. \A d \in DOMAIN commands : Applied(d) /\ commands[d].key \notin muddled' => commands'[d] = commands[d]
    BY <1>0, <1>1, <1>3
  <1> QED
    BY <1>1, <1>4, <1>5, <1>6, <1>9, <1>11, <1>12, AsideStep

\* The PDS has the record, and no answer was sent.
LEMMA CreateRecordStep ==
    ASSUME AittyInv, NEW c \in DOMAIN commands, CreateRecord(c)
    PROVE  AittyInv'
  <1> USE DEF AittyInv
  <1>0. PICK r, k, a : r = commands[c].run /\ k = commands[c].key /\ a = runs[r].mem.account
    OBVIOUS
  <1> DEFINE x == [commands[c] EXCEPT !.at = "created", !.record = c]
             f == [id |-> c, account |-> a, key |-> k]
  <1>1. /\ Waits(c) /\ commands[c].at = "create" /\ ~Applied(c)
        /\ UNCHANGED <<aittyFile, accounts, runs, loggedOut, mislaid, muddled>>
    BY DEF CreateRecord, Applied
  <1>2. commands[c] \in FollowCommand /\ r \in Run /\ k \in Key /\ Holds(r) /\ Alive(r)
    BY <1>0, <1>1, WaitingIs
  <1>3. c \in 1..MaxCommand /\ c # 0
    <2>1. commands \in Seq(FollowCommand \cup {Settled}) /\ Len(commands) <= MaxCommand /\ MaxCommand \in Nat
      BY AittyAssumption DEF IdentityTypes
    <2>2. c \in 1..Len(commands) /\ Len(commands) \in Nat
      BY <2>1
    <2> QED
      BY <2>1, <2>2
  <1>4. /\ x \in FollowCommand /\ x.at = "created" /\ x.record = c /\ x.run = r /\ x.key = k
    <2>1. c \in 0..MaxCommand
      BY <1>3, AittyAssumption
    <2> QED
      BY <1>0, <1>2, <2>1 DEF FollowCommand
  <1>5. IdentityOK(runs[r].mem) /\ a \in accounts /\ a \in Account
    BY <1>0, <1>2 DEF RunsOK, IdentityOK, Identity
  <1>6. f \in [id : 1..MaxCommand, account : Account, key : Key] /\ f.id = c /\ f.account = a /\ f.key = k
    BY <1>2, <1>3, <1>5
  <1>7. records' = records \cup {f} /\ Becomes(c, x)
    BY <1>0 DEF CreateRecord, Becomes
  <1> HIDE DEF x, f
  <1>8. /\ commands' \in Seq(FollowCommand \cup {Settled}) /\ Len(commands') = Len(commands)
        /\ DOMAIN commands' = DOMAIN commands /\ commands'[c] = x
        /\ \A d \in DOMAIN commands : d # c => /\ commands'[d] = commands[d]
                                               /\ Waits(d)' <=> Waits(d)
                                               /\ Applied(d)' <=> Applied(d)
    BY <1>4, <1>7, BecomesIs
  <1>9. Waits(c)' /\ Applied(c)'
    BY <1>4, <1>8, AittyAssumption DEF Waits, Applied
  <1>10. Grows
    BY <1>1, <1>6, <1>7, <1>8 DEF Grows
  <1>11. IdentityTypes'
    BY <1>1, <1>6, <1>7, <1>8 DEF IdentityTypes
  <1>12. \A s \in Run : Calm(s) /\ (Holds(s)' <=> Holds(s)) /\ runs'[s] = runs[s]
    BY <1>1 DEF Calm, Alive, Holds
  <1>13. RunsOK' /\ FileOK' /\ AccountKept'
    BY <1>1, <1>10, <1>12, RunsStay, FileStays DEF AccountKept
  <1>14. \A g \in records : g.id # c
    BY <1>1 DEF RecordsOK
  <1>15. RecordsOK'
    <2>1. ASSUME NEW g \in records'
          PROVE  /\ g.id \in DOMAIN commands' /\ g.account \in accounts'
                 /\ Waits(g.id)' => commands'[g.id].at = "created" /\ g.key = commands'[g.id].key
      <3>1. CASE g = f
        BY <1>1, <1>4, <1>5, <1>6, <1>8, <3>1
      <3>2. CASE g # f
        BY <1>1, <1>7, <1>8, <1>14, <3>2 DEF RecordsOK
      <3> QED
        BY <3>1, <3>2
    <2>2. \A g, h \in records' : g.id = h.id => g = h
      BY <1>6, <1>7, <1>14 DEF RecordsOK
    <2> QED
      BY <2>1, <2>2 DEF RecordsOK, Waits
  <1>16. \A d \in DOMAIN commands : Waits(d) => Holds(commands[d].run) /\ commands[d].run \in Run
    BY WaitingIs
  <1>17. \A d \in DOMAIN commands : Waits(d)' =>
               /\ commands'[d].run = commands[d].run /\ commands'[d].key = commands[d].key
               /\ commands'[d].at = "delete" =>
                      commands[d].at = "delete" /\ commands'[d].record = commands[d].record
               /\ commands'[d].at = "created" => commands'[d].record = d
    BY <1>0, <1>4, <1>8 DEF CommandsOK
  <1>18. CommandsOK'
    BY <1>8, <1>10, <1>12, <1>16, <1>17, CommandsStay DEF Grows
  <1>19. /\ \A b, j : j # k => MadeUnder(b, j)' = MadeUnder(b, j)
         /\ MadeUnder(a, k)' = MadeUnder(a, k) \cup {c}
    BY <1>6, <1>7 DEF MadeUnder
  <1>20. ASSUME k \notin muddled', KnownTo(r, k)
         PROVE  KnownTo(r, k)'
    <2>1. c \in Pending(r) /\ k \notin muddled
      BY <1>0, <1>1, <1>20 DEF Pending
    <2>2. \A d \in Pending(r) : commands[d].key = k => d = c
      BY <1>0, <1>1, <2>1, OnlyCommand DEF Pending
    <2>3. runs[r].mem.follows[k] = 0 /\ MadeUnder(a, k) = {runs[r].mem.follows[k]} \ {0}
      <3>1. CommandKnown(r, k, c)
        BY <1>0, <1>20, <2>1 DEF KnownTo
      <3>2. \A d \in Pending(r) : commands[d].key = k => ~Applied(d)
        BY <1>1, <2>2
      <3> QED
        BY <1>0, <1>1, <1>20, <3>1, <3>2 DEF KnownTo, CommandKnown
    <2>4. MadeUnder(a, k)' = {c}
      BY <1>19, <2>3
    <2>5. MadeUnder(runs[r].mem.account, k)' = {c}
      BY <1>0, <1>1, <2>4 DEF MadeUnder
    <2>6. \A d \in Pending(r)' : commands'[d].key = k => d = c
      BY <1>8, <2>2 DEF Pending
    <2>7. CommandKnown(r, k, c)'
      BY <1>4, <1>8, <2>5 DEF CommandKnown
    <2>8. c \in Pending(r)' /\ commands'[c].key = k
      BY <1>4, <1>8, <1>9 DEF Pending
    <2> QED
      BY <1>9, <2>6, <2>7, <2>8 DEF KnownTo
  <1>21. MemoryKnows'
    <2>1. \A j \in Key \ {k} : MadeUnder(runs[r].mem.account, j)' = MadeUnder(runs[r].mem.account, j)
      BY <1>1, <1>19 DEF MadeUnder
    <2> QED
      BY <1>0, <1>1, <1>2, <1>4, <1>7, <1>10, <1>12, <1>20, <2>1, OneKeyKnows
  <1>22. FileKnows'
    <2>1. \A d \in DOMAIN commands : Applied(d) => commands'[d] = commands[d]
      BY <1>1, <1>8
    <2>2. ASSUME NEW j \in Key
          PROVE  \/ MadeUnder(aittyFile.account, j)' = MadeUnder(aittyFile.account, j)
                 \/ \E d \in DOMAIN commands' : commands'[d].key = j /\ Applied(d)'
      <3>1. CASE j = k
        BY <1>4, <1>8, <1>9, <3>1
      <3>2. CASE j # k
        BY <1>1, <1>19, <3>2 DEF MadeUnder
      <3> QED
        BY <3>1, <3>2
    <2> QED
      BY <1>1, <1>10, <2>1, <2>2, FileKnowsStays
  <1> QED
    BY <1>11, <1>13, <1>15, <1>18, <1>21, <1>22

\* The PDS has deleted the record, and no answer was sent.
LEMMA DeleteRecordStep ==
    ASSUME AittyInv, NEW c \in DOMAIN commands, DeleteRecord(c)
    PROVE  AittyInv'
  <1> USE DEF AittyInv
  <1>0. PICK r, k, i : r = commands[c].run /\ k = commands[c].key /\ i = commands[c].record
    OBVIOUS
  <1> DEFINE x == [commands[c] EXCEPT !.at = "deleted"]
  <1>1. /\ Waits(c) /\ commands[c].at = "delete" /\ ~Applied(c)
        /\ UNCHANGED <<aittyFile, accounts, runs, loggedOut, mislaid, muddled>>
        /\ records' = {f \in records : f.id # i} /\ Becomes(c, x)
    BY <1>0 DEF DeleteRecord, Applied, Becomes
  <1>2. commands[c] \in FollowCommand /\ r \in Run /\ k \in Key /\ Holds(r) /\ Alive(r)
    BY <1>0, <1>1, WaitingIs
  <1>3. x \in FollowCommand /\ x.at = "deleted" /\ x.run = r /\ x.key = k
    BY <1>0, <1>2 DEF FollowCommand
  <1> HIDE DEF x
  <1>4. /\ commands' \in Seq(FollowCommand \cup {Settled}) /\ Len(commands') = Len(commands)
        /\ DOMAIN commands' = DOMAIN commands /\ commands'[c] = x
        /\ \A d \in DOMAIN commands : d # c => /\ commands'[d] = commands[d]
                                               /\ Waits(d)' <=> Waits(d)
                                               /\ Applied(d)' <=> Applied(d)
    BY <1>1, <1>3, BecomesIs
  <1>5. Waits(c)' /\ Applied(c)'
    BY <1>3, <1>4, AittyAssumption DEF Waits, Applied
  <1>6. Grows
    BY <1>1, <1>4 DEF Grows
  <1>7. IdentityTypes'
    BY <1>1, <1>4 DEF IdentityTypes
  <1>8. \A s \in Run : Calm(s) /\ (Holds(s)' <=> Holds(s)) /\ runs'[s] = runs[s]
    BY <1>1 DEF Calm, Alive, Holds
  <1>9. RunsOK' /\ FileOK' /\ AccountKept' /\ RecordsOK'
    BY <1>1, <1>6, <1>8, RunsStay, FileStays, RecordsStay DEF AccountKept
  <1>10. \A d \in DOMAIN commands : Waits(d) => Holds(commands[d].run) /\ commands[d].run \in Run
    BY WaitingIs
  <1>11. \A d \in DOMAIN commands : Waits(d)' =>
               /\ commands'[d].run = commands[d].run /\ commands'[d].key = commands[d].key
               /\ commands'[d].at = "delete" =>
                      commands[d].at = "delete" /\ commands'[d].record = commands[d].record
               /\ commands'[d].at = "created" => commands'[d].record = d
    BY <1>0, <1>3, <1>4 DEF CommandsOK
  <1>12. CommandsOK'
    BY <1>4, <1>6, <1>8, <1>10, <1>11, CommandsStay DEF Grows
  <1>13. \A f \in records : f.id = i => f.key = k
    <2>1. Entry(i, k)
      BY <1>0, <1>1 DEF CommandsOK
    <2>2. \A f \in records : f.id # 0
      BY DEF IdentityTypes
    <2> QED
      BY <2>1, <2>2 DEF Entry
  <1>15. ASSUME k \notin muddled', KnownTo(r, k)
         PROVE  KnownTo(r, k)'
    <2>1. c \in Pending(r) /\ k \notin muddled
      BY <1>0, <1>1, <1>15 DEF Pending
    <2>2. \A d \in Pending(r) : commands[d].key = k => d = c
      BY <1>0, <1>1, <2>1, OnlyCommand DEF Pending
    <2>3. i = runs[r].mem.follows[k] /\ MadeUnder(runs[r].mem.account, k) = {runs[r].mem.follows[k]} \ {0}
      <3>1. CommandKnown(r, k, c)
        BY <1>0, <1>15, <2>1 DEF KnownTo
      <3>2. \A d \in Pending(r) : commands[d].key = k => ~Applied(d)
        BY <1>1, <2>2
      <3> QED
        BY <1>0, <1>1, <1>15, <3>1, <3>2 DEF KnownTo, CommandKnown
    <2>4. MadeUnder(runs[r].mem.account, k)' = MadeUnder(runs[r].mem.account, k) \ {i}
      BY <1>1, <1>13 DEF MadeUnder
    <2>5. MadeUnder(runs[r].mem.account, k)' = {}
      BY <2>3, <2>4
    <2>6. \A d \in Pending(r)' : commands'[d].key = k => d = c
      BY <1>4, <2>2 DEF Pending
    <2>7. CommandKnown(r, k, c)'
      BY <1>3, <1>4, <2>5 DEF CommandKnown
    <2>8. c \in Pending(r)' /\ commands'[c].key = k
      BY <1>3, <1>4, <1>5 DEF Pending
    <2> QED
      BY <1>5, <2>6, <2>7, <2>8 DEF KnownTo
  <1>16. MemoryKnows'
    <2>1. \A j \in Key \ {k} : MadeUnder(runs[r].mem.account, j)' = MadeUnder(runs[r].mem.account, j)
      BY <1>1, <1>13 DEF MadeUnder
    <2> QED
      BY <1>0, <1>1, <1>2, <1>3, <1>6, <1>8, <1>15, <2>1, OneKeyKnows
  <1>17. FileKnows'
    <2>1. \A d \in DOMAIN commands : Applied(d) => commands'[d] = commands[d]
      BY <1>1, <1>4
    <2>2. ASSUME NEW j \in Key
          PROVE  \/ MadeUnder(aittyFile.account, j)' = MadeUnder(aittyFile.account, j)
                 \/ \E d \in DOMAIN commands' : commands'[d].key = j /\ Applied(d)'
      <3>1. CASE j = k
        BY <1>3, <1>4, <1>5, <3>1
      <3>2. CASE j # k
        BY <1>1, <1>13, <3>2 DEF MadeUnder
      <3> QED
        BY <3>1, <3>2
    <2> QED
      BY <1>1, <1>6, <2>1, <2>2, FileKnowsStays
  <1> QED
    BY <1>7, <1>9, <1>12, <1>16, <1>17

\* The answer of a command: what its run has in memory is changed, and saved.
LEMMA CommandDoneStep ==
    ASSUME AittyInv, NEW c \in DOMAIN commands, CommandDone(c)
    PROVE  AittyInv'
  <1> USE DEF AittyInv
  <1>0. PICK r, k, entry, old :
            /\ r = commands[c].run /\ k = commands[c].key /\ old = runs[r].mem
            /\ entry = IF commands[c].at = "created" THEN commands[c].record ELSE 0
    OBVIOUS
  <1> DEFINE mem == [old EXCEPT !.follows[k] = entry]
             x == [runs[r] EXCEPT !.mem = mem]
  <1>1. /\ Waits(c) /\ Applied(c) /\ commands[c].at \in {"created", "deleted"}
        /\ runs' = [runs EXCEPT ![r] = x] /\ aittyFile' = mem /\ Becomes(c, Settled)
        /\ muddled' = IF runs[r].alone THEN muddled ELSE Key
        /\ mislaid' = IF runs[r].alone \/ aittyFile = Nobody \/ aittyFile.account = mem.account THEN mislaid
                      ELSE mislaid \cup {aittyFile.account}
        /\ UNCHANGED <<accounts, records, loggedOut>>
    BY <1>0 DEF CommandDone, Applied, Becomes
  <1>2. commands[c] \in FollowCommand /\ r \in Run /\ k \in Key /\ Holds(r) /\ Alive(r)
    BY <1>0, <1>1, WaitingIs
  <1>3. IdentityOK(old) /\ old \in Identity /\ old.account \in accounts
    BY <1>0, <1>2 DEF RunsOK, IdentityOK
  <1>4. c # 0 /\ entry \in 0..MaxCommand /\ entry \in {0, c}
        /\ (commands[c].at = "created" => entry = c) /\ (commands[c].at = "deleted" => entry = 0)
    <2>1. commands \in Seq(FollowCommand \cup {Settled}) /\ Len(commands) <= MaxCommand /\ MaxCommand \in Nat
      BY AittyAssumption DEF IdentityTypes
    <2>2. c \in 1..Len(commands) /\ Len(commands) \in Nat
      BY <2>1
    <2>3. c # 0 /\ c \in 0..MaxCommand /\ 0 \in 0..MaxCommand
      BY <2>1, <2>2
    <2>4. commands[c].at = "created" => commands[c].record = c
      BY <1>1 DEF CommandsOK
    <2> QED
      BY <1>0, <1>1, <2>3, <2>4
  <1>5. /\ mem \in Identity /\ mem # Nobody /\ mem.account = old.account /\ mem.follows[k] = entry
        /\ \A j \in Key : j # k => mem.follows[j] = old.follows[j]
    <2>1. mem \in Identity /\ mem.account = old.account /\ mem.follows[k] = entry
          /\ \A j \in Key : j # k => mem.follows[j] = old.follows[j]
      BY <1>2, <1>3, <1>4 DEF Identity
    <2> HIDE DEF mem
    <2> QED
      BY <2>1, AittyAssumption
  <1> HIDE DEF mem
  <1>6. runs \in [Run -> IdentityRun]
    BY DEF IdentityTypes
  <1>7. /\ x \in IdentityRun /\ x.at = runs[r].at /\ x.mem = mem /\ x.kind = runs[r].kind /\ x.alone = runs[r].alone
    BY <1>2, <1>5, <1>6 DEF IdentityRun
  <1> HIDE DEF x
  <1>8. runs' \in [Run -> IdentityRun] /\ runs'[r] = x /\ \A s \in Run \ {r} : runs'[s] = runs[s]
    BY <1>1, <1>2, <1>6, <1>7
  <1>9. /\ commands' \in Seq(FollowCommand \cup {Settled}) /\ Len(commands') = Len(commands)
        /\ DOMAIN commands' = DOMAIN commands /\ commands'[c] = Settled
        /\ \A d \in DOMAIN commands : d # c => /\ commands'[d] = commands[d]
                                               /\ Waits(d)' <=> Waits(d)
                                               /\ Applied(d)' <=> Applied(d)
    BY <1>1, BecomesIs
  <1>10. ~Waits(c)'
    BY <1>9 DEF Waits
  <1>11. muddled \subseteq muddled' /\ muddled' \subseteq Key
    BY <1>1 DEF IdentityTypes
  <1>12. Grows
    BY <1>1, <1>9, <1>10, <1>11 DEF Grows
  <1>13. IdentityTypes'
    <2>1. mislaid' \subseteq accounts
      BY <1>1 DEF IdentityTypes, FileOK, IdentityOK
    <2> QED
      BY <1>1, <1>5, <1>8, <1>9, <1>11, <2>1 DEF IdentityTypes
  <1>14. \A s \in Run : /\ (Holds(s)' <=> Holds(s)) /\ (Alive(s)' <=> Alive(s))
                        /\ runs'[s].at = runs[s].at /\ runs'[s].alone = runs[s].alone
                        /\ runs'[s].kind = runs[s].kind
    BY <1>7, <1>8 DEF Holds, Alive
  <1>15. RecordsOK'
    BY <1>1, <1>12, RecordsStay
  <1>16. Entry(entry, k)'
    <2>1. \A f \in records : f.id = c => f.key = k
      BY <1>0, <1>1 DEF RecordsOK
    <2> QED
      BY <1>1, <1>4, <1>9, <1>10, <2>1 DEF Entry
  <1>17. \A i, j : Entry(i, j) => Entry(i, j)'
    BY <1>12, EntryKept
  <1>18. \A y : y = mem => /\ y \in Identity /\ y.account \in accounts'
                           /\ \A j \in Key : Entry(y.follows[j], j)'
    <2>1. ASSUME NEW j \in Key, NEW i, i = mem.follows[j]
          PROVE  Entry(i, j)'
      BY <1>3, <1>5, <1>16, <1>17, <2>1 DEF IdentityOK
    <2> QED
      BY <1>1, <1>3, <1>5, <2>1
  <1>19. FileOK'
    BY <1>1, <1>18 DEF FileOK, IdentityOK, Entry
  <1>20. \A s \in Run : s # r /\ Alive(s) => ~runs[s].alone /\ ~runs[r].alone
    BY <1>2 DEF RunsOK
  <1>21. RunsOK'
    <2> SUFFICES ASSUME NEW s \in Run
                 PROVE  /\ Holds(s)' => IdentityOK(runs[s].mem)'
                        /\ Alive(s)' /\ runs'[s].alone =>
                               /\ \A t \in Run : Alive(t)' => t = s
                               /\ runs'[s].at = "minting" => aittyFile' = Nobody
                               /\ Holds(s)' => aittyFile' = Nobody \/ aittyFile'.account = runs'[s].mem.account
      BY DEF RunsOK
    <2>1. CASE s = r
      <3>1. IdentityOK(runs[r].mem)'
        BY <1>7, <1>8, <1>18 DEF IdentityOK, Entry
      <3>2. runs'[r].alone => \A t \in Run : Alive(t)' => t = r
        <4> SUFFICES ASSUME runs'[r].alone, NEW t \in Run, Alive(t)'
                     PROVE  t = r
          OBVIOUS
        <4>1. runs[r].alone /\ Alive(t)
          BY <1>2, <1>14
        <4> QED
          BY <1>20, <4>1
      <3>3. runs'[r].at # "minting"
        BY <1>2, <1>14 DEF Holds
      <3>4. aittyFile' = runs'[r].mem
        BY <1>1, <1>7, <1>8
      <3> QED
        BY <2>1, <3>1, <3>2, <3>3, <3>4
    <2>2. CASE s # r
      <3>1. \A y : IdentityOK(y) => /\ y \in Identity /\ y.account \in accounts'
                                   /\ \A j \in Key : Entry(y.follows[j], j)'
        BY <1>12, <1>17 DEF IdentityOK, Grows
      <3>2. Holds(s)' => IdentityOK(runs[s].mem)'
        BY <1>8, <1>14, <2>2, <3>1 DEF RunsOK, IdentityOK, Entry
      <3>3. ~(Alive(s)' /\ runs'[s].alone)
        BY <1>14, <1>20, <2>2
      <3> QED
        BY <3>2, <3>3
    <2> QED
      BY <2>1, <2>2
  <1>22. \A d \in DOMAIN commands : Waits(d) => Holds(commands[d].run) /\ commands[d].run \in Run
    BY WaitingIs
  <1>23. \A d \in DOMAIN commands : Waits(d)' => Waits(d) /\ commands'[d] = commands[d]
    BY <1>9, <1>10 DEF Waits
  <1>24. CommandsOK'
    BY <1>9, <1>12, <1>14, <1>22, <1>23, CommandsStay DEF CommandsOK
  <1>25. \A b, j : MadeUnder(b, j)' = MadeUnder(b, j)
    BY <1>1 DEF MadeUnder
  <1>26. ASSUME k \notin muddled', KnownTo(r, k)
         PROVE  KnownTo(r, k)'
    <2>1. c \in Pending(r) /\ k \notin muddled
      BY <1>0, <1>1, <1>11, <1>26 DEF Pending
    <2>2. \A d \in Pending(r) : commands[d].key = k => d = c
      BY <1>0, <1>1, <2>1, OnlyCommand DEF Pending
    <2>3. \A d \in Pending(r)' : commands'[d].key # k
      BY <1>9, <1>10, <2>2 DEF Pending
    <2>4. MadeUnder(old.account, k) = {entry} \ {0}
      <3>1. CommandKnown(r, k, c)
        BY <1>0, <1>26, <2>1 DEF KnownTo
      <3> QED
        BY <1>0, <1>1, <1>4, <3>1 DEF CommandKnown
    <2>5. runs'[r].mem.account = old.account /\ runs'[r].mem.follows[k] = entry
      BY <1>5, <1>7, <1>8
    <2>6. MadeUnder(runs[r].mem.account, k)' = {entry} \ {0}
      BY <1>1, <2>4, <2>5 DEF MadeUnder
    <2> QED
      BY <2>3, <2>5, <2>6 DEF KnownTo
  <1>27. MemoryKnows'
    <2>1. runs'[r].mem.account = runs[r].mem.account
      BY <1>0, <1>5, <1>7, <1>8
    <2>2. ASSUME NEW j \in Key \ {k}
          PROVE  /\ runs'[r].mem.follows[j] = runs[r].mem.follows[j]
                 /\ MadeUnder(runs[r].mem.account, j)' = MadeUnder(runs[r].mem.account, j)
      <3>1. runs'[r].mem.follows[j] = runs[r].mem.follows[j]
        BY <1>0, <1>5, <1>7, <1>8
      <3>2. MadeUnder(runs[r].mem.account, j)' = MadeUnder(runs[r].mem.account, j)
        BY <1>1, <2>1 DEF MadeUnder
      <3> QED
        BY <3>1, <3>2
    <2> QED
      BY <1>0, <1>1, <1>2, <1>12, <1>14, <1>26, <2>1, <2>2, OneKeyKnows
  <1>28. AccountKept'
    <2> SUFFICES ASSUME NEW a \in accounts \ (loggedOut \cup mislaid')
                 PROVE  mem # Nobody /\ mem.account = a
      BY <1>1 DEF AccountKept
    <2>1. a \notin mislaid
      BY <1>1
    <2>2. aittyFile # Nobody /\ aittyFile.account = a
      BY <2>1 DEF AccountKept
    <2>3. CASE runs[r].alone
      <3>1. aittyFile.account = old.account
        BY <1>0, <1>2, <2>2, <2>3 DEF RunsOK
      <3> QED
        BY <1>5, <2>2, <3>1
    <2>4. CASE ~runs[r].alone
      BY <1>1, <1>5, <2>2, <2>4
    <2> QED
      BY <2>3, <2>4
  <1>29. FileKnows'
    <2> SUFFICES ASSUME NEW j \in Key \ muddled',
                        \A d \in DOMAIN commands' : commands'[d].key = j => ~Applied(d)'
                 PROVE  MadeUnder(aittyFile.account, j)' = {aittyFile'.follows[j]} \ {0}
      BY DEF FileKnows
    <2>1. runs'[r].alone /\ Holds(r)'
      BY <1>1, <1>2, <1>14
    <2>2. KnownTo(r, j)'
      BY <1>2, <1>27, <2>1 DEF MemoryKnows
    <2>3. \A d \in Pending(r)' : commands'[d].key = j => ~Applied(d)'
      BY DEF Pending
    <2>4. MadeUnder(runs[r].mem.account, j)' = {runs'[r].mem.follows[j]} \ {0}
      BY <2>2, <2>3 DEF KnownTo
    <2>5. aittyFile' = runs'[r].mem
      BY <1>1, <1>7, <1>8
    <2> QED
      BY <2>4, <2>5 DEF MadeUnder
  <1> QED
    BY <1>13, <1>15, <1>19, <1>21, <1>24, <1>27, <1>28, <1>29

\* The answer of a command that cannot be saved: only memory is changed, under a key that
\* is muddled from then on.
LEMMA CommandUnsavedStep ==
    ASSUME AittyInv, NEW c \in DOMAIN commands, CommandUnsaved(c)
    PROVE  AittyInv'
  <1> USE DEF AittyInv
  <1>0. PICK r, k, entry, old :
            /\ r = commands[c].run /\ k = commands[c].key /\ old = runs[r].mem
            /\ entry = IF commands[c].at = "created" THEN commands[c].record ELSE 0
    OBVIOUS
  <1> DEFINE mem == [old EXCEPT !.follows[k] = entry]
             x == [runs[r] EXCEPT !.mem = mem]
  <1>1. /\ Waits(c) /\ Applied(c) /\ commands[c].at \in {"created", "deleted"}
        /\ runs' = [runs EXCEPT ![r] = x] /\ Becomes(c, Settled)
        /\ muddled' = muddled \cup {k} /\ Aside
    BY <1>0 DEF CommandUnsaved, Applied, Becomes, Aside
  <1>2. commands[c] \in FollowCommand /\ r \in Run /\ k \in Key /\ Holds(r) /\ Alive(r)
    BY <1>0, <1>1, WaitingIs
  <1>3. IdentityOK(old) /\ old \in Identity /\ old.account \in accounts
    BY <1>0, <1>2 DEF RunsOK, IdentityOK
  <1>4. c # 0 /\ entry \in 0..MaxCommand /\ entry \in {0, c}
    <2>1. commands \in Seq(FollowCommand \cup {Settled}) /\ Len(commands) <= MaxCommand /\ MaxCommand \in Nat
      BY AittyAssumption DEF IdentityTypes
    <2>2. c \in 1..Len(commands) /\ Len(commands) \in Nat
      BY <2>1
    <2>3. c # 0 /\ c \in 0..MaxCommand /\ 0 \in 0..MaxCommand
      BY <2>1, <2>2
    <2>4. commands[c].at = "created" => commands[c].record = c
      BY <1>1 DEF CommandsOK
    <2> QED
      BY <1>0, <1>1, <2>3, <2>4
  <1>5. /\ mem \in Identity /\ mem.account = old.account /\ mem.follows[k] = entry
        /\ \A j \in Key : j # k => mem.follows[j] = old.follows[j]
    BY <1>2, <1>3, <1>4 DEF Identity
  <1> HIDE DEF mem
  <1>6. runs \in [Run -> IdentityRun]
    BY DEF IdentityTypes
  <1>7. /\ x \in IdentityRun /\ x.at = runs[r].at /\ x.mem = mem /\ x.kind = runs[r].kind /\ x.alone = runs[r].alone
    BY <1>2, <1>5, <1>6 DEF IdentityRun
  <1> HIDE DEF x
  <1>8. runs' \in [Run -> IdentityRun] /\ runs'[r] = x /\ \A s \in Run \ {r} : runs'[s] = runs[s]
    BY <1>1, <1>2, <1>6, <1>7
  <1>9. /\ commands' \in Seq(FollowCommand \cup {Settled}) /\ Len(commands') = Len(commands)
        /\ DOMAIN commands' = DOMAIN commands /\ commands'[c] = Settled
        /\ \A d \in DOMAIN commands : d # c => /\ commands'[d] = commands[d]
                                               /\ Waits(d)' <=> Waits(d)
                                               /\ Applied(d)' <=> Applied(d)
    BY <1>1, BecomesIs
  <1>10. ~Waits(c)'
    BY <1>9 DEF Waits
  <1>11. Grows
    BY <1>1, <1>9, <1>10 DEF Grows, Aside
  <1>12. IdentityTypes'
    BY <1>1, <1>2, <1>8, <1>9 DEF IdentityTypes, Aside
  <1>13. \A s \in Run : /\ (Holds(s)' <=> Holds(s)) /\ (Alive(s)' <=> Alive(s))
                        /\ runs'[s].at = runs[s].at /\ runs'[s].alone = runs[s].alone
                        /\ runs'[s].kind = runs[s].kind
                        /\ runs'[s].mem.account = runs[s].mem.account
    BY <1>0, <1>5, <1>7, <1>8 DEF Holds, Alive
  <1>14. RecordsOK' /\ FileOK'
    BY <1>1, <1>11, RecordsStay, FileStays DEF Aside
  <1>15. Entry(entry, k)'
    <2>1. \A f \in records : f.id = c => f.key = k
      BY <1>0, <1>1 DEF RecordsOK
    <2> QED
      BY <1>1, <1>4, <1>9, <1>10, <2>1 DEF Entry, Aside
  <1>16. \A i, j : Entry(i, j) => Entry(i, j)'
    BY <1>11, EntryKept
  <1>17. \A y : y = mem => /\ y \in Identity /\ y.account \in accounts'
                           /\ \A j \in Key : Entry(y.follows[j], j)'
    <2>1. ASSUME NEW j \in Key, NEW i, i = mem.follows[j]
          PROVE  Entry(i, j)'
      BY <1>3, <1>5, <1>15, <1>16, <2>1 DEF IdentityOK
    <2> QED
      BY <1>1, <1>3, <1>5, <2>1 DEF Aside
  <1>18. RunsOK'
    <2> SUFFICES ASSUME NEW s \in Run
                 PROVE  /\ Holds(s)' => IdentityOK(runs[s].mem)'
                        /\ Alive(s)' /\ runs'[s].alone =>
                               /\ \A t \in Run : Alive(t)' => t = s
                               /\ runs'[s].at = "minting" => aittyFile' = Nobody
                               /\ Holds(s)' => aittyFile' = Nobody \/ aittyFile'.account = runs'[s].mem.account
      BY DEF RunsOK
    <2>1. \A y : IdentityOK(y) => /\ y \in Identity /\ y.account \in accounts'
                                 /\ \A j \in Key : Entry(y.follows[j], j)'
      BY <1>11, <1>16 DEF IdentityOK, Grows
    <2>2. Holds(s)' => IdentityOK(runs[s].mem)'
      <3>1. CASE s = r
        BY <1>7, <1>8, <1>17, <3>1 DEF IdentityOK, Entry
      <3>2. CASE s # r
        BY <1>8, <1>13, <2>1, <3>2 DEF RunsOK, IdentityOK, Entry
      <3> QED
        BY <3>1, <3>2
    <2>3. Alive(s)' /\ runs'[s].alone =>
              /\ \A t \in Run : Alive(t)' => t = s
              /\ runs'[s].at = "minting" => aittyFile' = Nobody
              /\ Holds(s)' => aittyFile' = Nobody \/ aittyFile'.account = runs'[s].mem.account
      BY <1>1, <1>13 DEF RunsOK, Aside
    <2> QED
      BY <2>2, <2>3
  <1>19. \A d \in DOMAIN commands : Waits(d) => Holds(commands[d].run) /\ commands[d].run \in Run
    BY WaitingIs
  <1>20. \A d \in DOMAIN commands : Waits(d)' => Waits(d) /\ commands'[d] = commands[d]
    BY <1>9, <1>10 DEF Waits
  <1>21. CommandsOK'
    BY <1>9, <1>11, <1>13, <1>19, <1>20, CommandsStay DEF CommandsOK
  <1>22. \A b, j : MadeUnder(b, j)' = MadeUnder(b, j)
    BY <1>1 DEF MadeUnder, Aside
  <1>23. k \in muddled'
    BY <1>1
  <1>24. MemoryKnows'
    <2>1. ASSUME NEW j \in Key \ {k}
          PROVE  /\ runs'[r].mem.follows[j] = runs[r].mem.follows[j]
                 /\ MadeUnder(runs[r].mem.account, j)' = MadeUnder(runs[r].mem.account, j)
      BY <1>0, <1>1, <1>2, <1>5, <1>7, <1>8, <1>13 DEF MadeUnder, Aside
    <2> QED
      BY <1>0, <1>1, <1>2, <1>11, <1>13, <1>23, <2>1, OneKeyKnows
  <1>25. AccountKept'
    BY <1>1 DEF AccountKept, Aside
  <1>26. FileKnows'
    <2>1. \A d \in DOMAIN commands : Applied(d) /\ commands[d].key \notin muddled' => commands'[d] = commands[d]
      BY <1>0, <1>9, <1>23
    <2>2. \A j \in Key : MadeUnder(aittyFile.account, j)' = MadeUnder(aittyFile.account, j)
      BY <1>1 DEF MadeUnder, Aside
    <2> QED
      BY <1>1, <1>11, <2>1, <2>2, FileKnowsStays DEF Aside
  <1> QED
    BY <1>12, <1>14, <1>18, <1>21, <1>24, <1>25, <1>26

-----------------------------------------------------------------------------
(* The theorems. *)

\* Nothing has begun.
LEMMA AittyInitial ==
    ASSUME IdentityInit
    PROVE  AittyInv
  <1> USE DEF IdentityInit
  <1>1. NoRun("off") \in IdentityRun /\ NoRun("off").at = "off"
    BY DEF NoRun, IdentityRun
  <1>2. runs \in [Run -> IdentityRun] /\ \A r \in Run : runs[r].at = "off"
    BY <1>1
  <1>3. commands \in Seq(FollowCommand \cup {Settled}) /\ Len(commands) = 0 /\ DOMAIN commands = {}
    OBVIOUS
  <1>4. IdentityTypes
    BY <1>2, <1>3, AittyAssumption DEF IdentityTypes
  <1>5. \A r \in Run : ~Holds(r) /\ ~Alive(r)
    BY <1>2 DEF Holds, Alive
  <1>6. RunsOK /\ FileOK /\ RecordsOK /\ CommandsOK /\ MemoryKnows /\ AccountKept /\ FileKnows
    BY <1>3, <1>5 DEF RunsOK, FileOK, RecordsOK, CommandsOK, MemoryKnows, AccountKept, FileKnows
  <1> QED
    BY <1>4, <1>6 DEF AittyInv

\* Every step keeps the invariant.
LEMMA AittyStep ==
    ASSUME AittyInv, [IdentityNext]_identityVars
    PROVE  AittyInv'
  <1>1. CASE UNCHANGED identityVars
    <2> USE <1>1 DEF identityVars, AittyInv
    <2>1. IdentityTypes' /\ FileOK' /\ RecordsOK' /\ AccountKept'
      BY DEF IdentityTypes, FileOK, RecordsOK, AccountKept, IdentityOK, Entry, Waits
    <2>2. RunsOK'
      BY DEF RunsOK, IdentityOK, Entry, Waits, Holds, Alive
    <2>3. CommandsOK'
      BY DEF CommandsOK, Entry, Waits, Holds
    <2>4. MemoryKnows'
      <3>1. Grows /\ Aside
        BY DEF Grows, Aside, Applied, Waits
      <3>2. \A s \in Run, k \in Key : SameFor(s, k)
        BY DEF SameFor, Waits
      <3> QED
        BY <3>1, <3>2, MemoryStays DEF Holds
    <2>5. FileKnows'
      BY DEF FileKnows, MadeUnder, Applied, Waits
    <2> QED
      BY <2>1, <2>2, <2>3, <2>4, <2>5
  <1>2. CASE IdentityNext
    <2>1. CASE \E r \in Run : GiveUp(r) \/ Leave(r) \/ Exit(r) \/ Kill(r)
      BY <2>1, EndingSteps, LeaveStep
    <2>2. CASE \E r \in Run, kind \in {"prompt", "shot", "watch"} : Launch(r, kind)
      BY <2>2, LaunchStep
    <2>3. CASE \E r \in Run, account \in Account, killed \in BOOLEAN : MintAccount(r, account, killed)
      BY <2>3, MintAccountStep
    <2>4. CASE Logout
      BY <2>4, LogoutStep
    <2>5. CASE \E r \in Run, k \in Key : CallFollow(r, k) \/ CallUnfollow(r, k)
      BY <2>5, CallFollowStep, CallUnfollowStep
    <2>6. CASE \E c \in DOMAIN commands, found \in BOOLEAN : Resolve(c, found)
      BY <2>6, ResolveStep
    <2>7. CASE \E c \in DOMAIN commands : CreateRecord(c) \/ DeleteRecord(c)
      BY <2>7, CreateRecordStep, DeleteRecordStep
    <2>8. CASE \E c \in DOMAIN commands : CommandDone(c) \/ CommandUnsaved(c) \/ CommandFails(c)
      BY <2>8, CommandDoneStep, CommandUnsavedStep, CommandFailsStep
    <2> QED
      BY <1>2, <2>1, <2>2, <2>3, <2>4, <2>5, <2>6, <2>7, <2>8 DEF IdentityNext
  <1> QED
    BY <1>1, <1>2

\* The inductive invariant of account, file, runs, commands and records.
THEOREM AittyInvariant == IdentitySpec => []AittyInv
  <1>1. IdentityInit => AittyInv
    BY AittyInitial
  <1>2. AittyInv /\ [IdentityNext]_identityVars => AittyInv'
    BY AittyStep
  <1> QED
    BY <1>1, <1>2, PTL DEF IdentitySpec

\* An account stays in the file until the operator logs out (identity.ts saveIdentity,
\* main.ts bootstrap), whatever number of runs there are, killed or together.
THEOREM AittyKeepsItsAccount == IdentitySpec => []AccountKept
  <1>1. AittyInv => AccountKept
    BY DEF AittyInv
  <1> QED
    BY <1>1, AittyInvariant, PTL

\* The file knows exactly the follow records of its account (commands.ts actionFollow,
\* actionUnfollow), for any number of runs and commands.
THEOREM AittyKnowsItsFollows == IdentitySpec => []FollowsKnown
  <1>1. AittyInv => FollowsKnown
    BY FileKnowsIs DEF AittyInv
  <1> QED
    BY <1>1, AittyInvariant, PTL

=============================================================================
