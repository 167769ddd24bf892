----------------------------- MODULE FollowIndex -----------------------------
(***************************************************************************)
(* The AppView's index of one author's follow records                      *)
(* (appview/src/indexer.ts: handleEvent, indexFollow, removeFollow) over   *)
(* the tables of appview/src/db.ts, fed by the firehose that               *)
(* appview/src/server.ts subscribes to from the start at every boot.       *)
(*                                                                         *)
(* One author is enough: every row is keyed by a record URI, which holds   *)
(* the author's DID, or by (author, subject).  A table is a set of rows; a *)
(* record URI is a number, in the order of the strings; a cid is the       *)
(* position of its commit in the author's repository.  createdAt is left   *)
(* out: the index stores it and decides nothing by it.                     *)
(*                                                                         *)
(* An event is one transaction.  The code inserts without looking whether  *)
(* a key is taken: a taken one would throw, and server.ts would log the    *)
(* error and lose the event.  Keys says that this never happens.           *)
(***************************************************************************)
EXTENDS Integers, Sequences

CONSTANTS
    Uri,       \* record URIs
    Subject,   \* DIDs that are followed
    Self,      \* the author
    Time,      \* readings of the AppView's clock, in no particular order
    MaxLog,    \* bound: commits of the repository
    MaxReread  \* bound: firehose subscriptions that start again

ASSUME FollowAssumption ==
    /\ Uri \subseteq Nat /\ Time \subseteq Nat
    /\ Self \in Subject
    /\ MaxLog \in Nat /\ MaxReread \in Nat

VARIABLES
    commits,       \* of the repository: a put or a removal of a record each
    pos,           \* events of commits the subscription has handled
    follows,       \* table follows: one record per subject
    duplicates,    \* table follow_duplicates: the others
    notifications, \* table notifications, the rows with reason 'follow'
    actorRows,     \* table actors
    rereads        \* subscriptions that started again

tables     == <<follows, duplicates, notifications, actorRows>>
followVars == <<commits, pos, tables, rereads>>

FollowCommit == [op : {"put", "malformed", "delete"}, uri : Uri, subject : Subject]
Follow       == [uri : Uri, subject : Subject, indexedAt : Time]
Duplicate    == [uri : Uri, subject : Subject, indexedAt : Time, cid : 1..MaxLog]
Alert        == [uri : Uri, recipient : Subject, cid : 1..MaxLog]

\* The tables hold rows of the repository's records.
FollowTypes ==
    /\ commits \in Seq(FollowCommit) /\ Len(commits) <= MaxLog /\ pos \in 0..Len(commits)
    /\ follows \subseteq Follow /\ duplicates \subseteq Duplicate
    /\ notifications \subseteq Alert
    /\ actorRows \subseteq Subject
    /\ rereads \in 0..MaxReread

FollowInit ==
    /\ commits = <<>> /\ pos = 0
    /\ follows = {} /\ duplicates = {} /\ notifications = {} /\ actorRows = {}
    /\ rereads = 0

-----------------------------------------------------------------------------
(* removeFollow.  The definitions named ...Bug are the faulty variants     *)
(* that show what each property is sensitive to.                           *)

At(u, table) == {r \in table : r.uri = u}

Earlier(d, e) ==
    \/ d.indexedAt < e.indexedAt
    \/ d.indexedAt = e.indexedAt /\ d.uri < e.uri

\* The duplicate that takes over when the row at u leaves follows, if any.
SurvivorBug(u) == {}

Survivor(u) ==
    LET left == {d \in duplicates :
                    d.uri # u /\ \E f \in At(u, follows) : f.subject = d.subject}
    IN  {d \in left : \A e \in left : e = d \/ Earlier(d, e)}

ShownFollow(d) == [uri |-> d.uri, subject |-> d.subject, indexedAt |-> d.indexedAt]

FollowsWithout(u) ==
    (follows \ At(u, follows)) \cup {ShownFollow(d) : d \in Survivor(u)}

DuplicatesWithout(u) ==
    (duplicates \ At(u, duplicates)) \ Survivor(u)

NotificationsWithout(u) == notifications \ At(u, notifications)

-----------------------------------------------------------------------------
(* indexFollow: the record at u now names subject s. *)

KnownRows(u) == At(u, follows) \cup At(u, duplicates)

\* The subject is the one the row has: only the record's cid is new.
RefreshBug(u, s, c) ==
    /\ \E r \in KnownRows(u) : r.subject = s
    /\ duplicates' = (duplicates \ At(u, duplicates))
                         \cup {[d EXCEPT !.cid = c] : d \in At(u, duplicates)}
    /\ UNCHANGED <<follows, notifications, actorRows>>

Refresh(u, s, c) ==
    /\ \E r \in KnownRows(u) : r.subject = s
    /\ IF At(u, follows) # {}
       THEN /\ notifications' = (notifications \ At(u, notifications))
                                    \cup {[n EXCEPT !.cid = c] : n \in At(u, notifications)}
            /\ UNCHANGED duplicates
       ELSE /\ duplicates' = (duplicates \ At(u, duplicates))
                                 \cup {[d EXCEPT !.cid = c] : d \in At(u, duplicates)}
            /\ UNCHANGED notifications
    /\ UNCHANGED <<follows, actorRows>>

\* A new row, or one that names another subject and keeps its indexedAt.
Insert(u, s, c, now) ==
    LET known     == KnownRows(u) # {}
        rest      == IF known THEN FollowsWithout(u) ELSE follows
        others    == IF known THEN DuplicatesWithout(u) ELSE duplicates
        standing  == IF known THEN NotificationsWithout(u) ELSE notifications
        indexedAt == IF known THEN (CHOOSE r \in KnownRows(u) : TRUE).indexedAt ELSE now
        exists    == \E f \in rest : f.subject = s
        alerts    == ~exists /\ ~known /\ s # Self
    IN  /\ \A r \in KnownRows(u) : r.subject # s
        /\ follows' = IF exists THEN rest
                      ELSE rest \cup {[uri |-> u, subject |-> s, indexedAt |-> indexedAt]}
        /\ duplicates' = IF ~exists THEN others
                         ELSE others \cup {[uri |-> u, subject |-> s,
                                            indexedAt |-> indexedAt, cid |-> c]}
        /\ notifications' = IF ~alerts THEN standing
                            ELSE standing \cup {[uri |-> u, recipient |-> s, cid |-> c]}
        /\ actorRows' = IF exists THEN actorRows ELSE actorRows \cup {Self, s}

Delete(u) ==
    /\ follows' = FollowsWithout(u)
    /\ duplicates' = DuplicatesWithout(u)
    /\ notifications' = NotificationsWithout(u)
    /\ UNCHANGED actorRows

\* A record without a subject is skipped.
Skip == UNCHANGED tables

-----------------------------------------------------------------------------
\* There is a record at u.
Present(u) ==
    \E i \in DOMAIN commits :
        /\ commits[i].uri = u /\ commits[i].op # "delete"
        /\ \A j \in i + 1..Len(commits) : commits[j].uri # u

\* The author commits: a record is written or, if there is one, deleted.  Only a
\* put has a subject.
CommitFollow(e) ==
    /\ Len(commits) < MaxLog
    /\ e.op = "delete" => Present(e.uri)
    /\ e.op # "put" => e.subject = Self
    /\ commits' = Append(commits, e)
    /\ UNCHANGED <<pos, tables, rereads>>

\* handleEvent: the next event of the subscription, in the order of the commits.
Handle ==
    /\ pos < Len(commits)
    /\ pos' = pos + 1
    /\ LET e == commits[pos + 1] IN
         \/ /\ e.op = "put"
            /\ \/ Refresh(e.uri, e.subject, pos + 1)
               \/ \E now \in Time : Insert(e.uri, e.subject, pos + 1, now)
         \/ e.op = "malformed" /\ Skip
         \/ e.op = "delete" /\ Delete(e.uri)
    /\ UNCHANGED <<commits, rereads>>

\* The AppView restarts, or its connection does: the events are read again, from
\* the oldest one the PDS still holds or from the last cursor.
ReplayBug ==
    /\ rereads < MaxReread
    /\ rereads' = rereads + 1
    /\ pos' \in 0..Len(commits)
    /\ UNCHANGED <<commits, tables>>

Replay ==
    /\ rereads < MaxReread
    /\ rereads' = rereads + 1
    /\ pos' \in 0..pos
    /\ UNCHANGED <<commits, tables>>

FollowNext == (\E e \in FollowCommit : CommitFollow(e)) \/ Handle \/ Replay

FollowSpec == FollowInit /\ [][FollowNext]_followVars

-----------------------------------------------------------------------------
(* Properties *)

OneEach(table) == \A r, q \in table : r.uri = q.uri => r = q

\* No key is ever violated, whatever is moved, promoted or read again: a URI has
\* one row, in one of the two stores; a subject has one row of follows; a duplicate
\* is of a subject that has one; and both ends of a follow are in the directory.
Keys ==
    /\ OneEach(follows) /\ OneEach(duplicates) /\ OneEach(notifications)
    /\ \A f \in follows, d \in duplicates : f.uri # d.uri
    /\ \A f, g \in follows : f.subject = g.subject => f = g
    /\ \A d \in duplicates : \E f \in follows : f.subject = d.subject
    /\ \A f \in follows : {Self, f.subject} \subseteq actorRows

\* A follow notification stands only while its own record represents the follow
\* of its recipient: none is left to the old subject of a moved record or passed
\* on to a promoted one.
AlertsStand ==
    \A n \in notifications :
        n.recipient # Self
        /\ \E f \in follows : f.uri = n.uri /\ f.subject = n.recipient

\* The last well-formed commit of u is at position i.
LastAt(u, i) ==
    /\ commits[i].uri = u /\ commits[i].op # "malformed"
    /\ \A j \in i + 1..Len(commits) : commits[j].uri = u => commits[j].op = "malformed"

\* Reading the commits again, from anywhere and as often as it happens, converges:
\* when the subscription has caught up, the relationships shown are those of the
\* repository.
Converged ==
    pos = Len(commits) =>
        {f.subject : f \in follows} =
            {s \in Subject : \E i \in DOMAIN commits :
                commits[i].op = "put" /\ commits[i].subject = s /\ LastAt(commits[i].uri, i)}

\* When it has caught up, a notification is of the current cid of its record.
AlertsCurrent ==
    pos = Len(commits) =>
        \A n \in notifications : LastAt(n.uri, n.cid) /\ commits[n.cid].op = "put"

\* No alert outlives its reason: one stands for the follow that its own record represents,
\* and is of the record as it is when every commit is handled (indexer.ts:249-302).
AlertsExact == AlertsStand /\ AlertsCurrent

-----------------------------------------------------------------------------
(* The inductive invariant behind them: what the tables hold of a URI whose *)
(* last commit has been handled, wherever the subscription is.              *)

Pairs(table) == {<<r.uri, r.subject>> : r \in table}

FollowRecords == Pairs(follows) \cup Pairs(duplicates)

Untouched(u) == \A j \in 1..Len(commits) : commits[j].uri = u => commits[j].op = "malformed"

HasLast == \A u \in Uri : Untouched(u) \/ \E i \in 1..Len(commits) : LastAt(u, i)

FollowsWritten ==
    \A u \in Uri :
        /\ Untouched(u) => \A p \in FollowRecords : p[1] # u
        /\ \A i \in 1..pos : LastAt(u, i) =>
             IF commits[i].op = "put"
             THEN <<u, commits[i].subject>> \in FollowRecords
                  /\ \A p \in FollowRecords : p[1] = u => p[2] = commits[i].subject
             ELSE \A p \in FollowRecords : p[1] # u

Cids == \A n \in notifications : \A i \in 1..pos : LastAt(n.uri, i) => n.cid = i

\* The inductive invariant: the tables agree with the handled part of the repository.
IInv == FollowTypes /\ Keys /\ AlertsStand /\ HasLast /\ FollowsWritten /\ Cids

-----------------------------------------------------------------------------
\* The abstract specification, and this one as an implementation of it.
Abs == INSTANCE FollowGraph
           WITH record <- FollowRecords,
                representative <- Pairs(follows),
                alert <- {<<n.uri, n.recipient>> : n \in notifications}

\* The tables with their promotions and moves show the promised relationships.
AbsSpec == Abs!Spec

=============================================================================
