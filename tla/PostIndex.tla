------------------------------ MODULE PostIndex ------------------------------
(***************************************************************************)
(* The AppView's index of posts and accounts (appview/src/indexer.ts), the *)
(* pages that are read from it (getTimeline.ts, getAuthorFeed.ts,          *)
(* listNotifications.ts, cursor.ts) while it changes, the threads          *)
(* (PostThread), and the translation of timestamps that older clients      *)
(* have instead of a cursor.                                               *)
(*                                                                         *)
(* The events of all authors are one log: the handler of an event does not *)
(* wait, and events of two authors touch different rows, so that their     *)
(* order is that of the log.  A restart or a reconnect reads the log again *)
(* from an earlier position.  A query reads its rows at once; looking up   *)
(* handles afterwards changes none of them.                                *)
(***************************************************************************)
EXTENDS PostThread

CONSTANTS
    Uri,        \* record URIs, numbers in the order of the strings
    AuthorOf,   \* the DID a URI holds
    Me,         \* who reads
    Followed,   \* whom Me follows
    Other,      \* the author whose feed Me reads
    Time,       \* readings of clocks, in no particular order; 0 is none
    Record,     \* what authors write: uri, parent, root, mentions, createdAt
    Limit,      \* rows of a page
    MaxLog,     \* bound: commits
    MaxReplay   \* bound: subscriptions that start again

Author == {AuthorOf[u] : u \in Uri} \cup Followed \cup {Me, Other}

ASSUME PostAssumption ==
    /\ Uri \subseteq Nat /\ Time \subseteq Nat \ {0} /\ None \notin Uri
    /\ \A r \in Record : /\ r.uri \in Uri /\ {r.parent, r.root} \subseteq Uri \cup {None}
                         /\ r.mentions \subseteq Author /\ IsFiniteSet(r.mentions)
                         /\ r.createdAt \in Time \cup {0}
    /\ Limit \in Nat \ {0} /\ MaxLog \in Nat /\ MaxReplay \in Nat

VARIABLES
    log,           \* commits and account events
    pos,           \* events the subscription has handled
    posts,         \* table posts
    notifications, \* table notifications, those of posts
    lastSeq,       \* its AUTOINCREMENT counter
    hidden,        \* table actors: who is not active
    replays,
    query,         \* what Me pages through
    cursor,        \* where its next page starts
    served,        \* history: entries of its pages
    standing,      \* history: entries that were there all the time
    twice,         \* history: an entry was served twice
    missed         \* history: a walk ended without an entry that was there all the time

tables == <<posts, notifications, lastSeq, hidden>>
walk   == <<query, cursor, served, standing, twice, missed>>
vars   == <<log, pos, tables, replays, walk>>

\* The queries that are answered page by page, each for the viewer who asks.
Query == {"timeline", "author", "notifications"}
Top   == [at |-> 0, uri |-> None]  \* no cursor: from the top
End   == [at |-> 0, uri |-> 0]     \* no cursor: that was the last page
Row   == [uri : Uri, parent : Uri \cup {None}, root : Uri \cup {None}, createdAt : Time]
Notification == [seq : Nat \ {0}, uri : Uri, recipient : Author, indexedAt : Time]

\* Rows are those of the log's records, and their keys are unique.
TypeOK ==
    /\ pos \in 0..Len(log) /\ Len(log) <= MaxLog /\ replays \in 0..MaxReplay
    /\ posts \subseteq Row /\ \A p, q \in posts : p.uri = q.uri => p = q
    /\ notifications \subseteq Notification
    /\ \A m, n \in notifications :
         m.seq = n.seq \/ (m.uri = n.uri /\ m.recipient = n.recipient) => m = n
    /\ \A n \in notifications : n.seq <= lastSeq /\ n.recipient # AuthorOf[n.uri]
    /\ hidden \subseteq Author /\ query \in Query \cup {"none"}

Init ==
    /\ log = <<>> /\ pos = 0 /\ replays = 0
    /\ posts = {} /\ notifications = {} /\ lastSeq = 0 /\ hidden = {}
    /\ query = "none" /\ cursor = Top /\ served = {} /\ standing = {}
    /\ twice = FALSE /\ missed = FALSE

-----------------------------------------------------------------------------
(* Queries.  The definitions named ...Bug are the faulty variants that show *)
(* what each property is sensitive to.                                      *)

\* The key of an entry, which is what its cursor holds: the createdAt and the URI of a
\* post, or the seq of a notification.
PostEntry(p) == [at |-> p.createdAt, uri |-> p.uri]
SeqEntry(n)  == [at |-> n.seq, uri |-> n.uri]

\* What each query shows, without cursor and limit.
Timeline   == {PostEntry(p) : p \in {r \in posts : AuthorOf[r.uri] \in Followed \ hidden}}
AuthorFeed == {PostEntry(p) : p \in {r \in posts : AuthorOf[r.uri] \in {Other} \ hidden}}
Mine       == {n \in notifications : n.recipient = Me}
Alerts     == {SeqEntry(n) : n \in {m \in Mine : AuthorOf[m.uri] \notin hidden}}

Visible(q) ==
    CASE q = "timeline"      -> Timeline
      [] q = "author"        -> AuthorFeed
      [] q = "notifications" -> Alerts
      [] OTHER               -> {}

AboveBug(e, f) == e.at > f.at

Above(e, f) == e.at > f.at \/ (e.at = f.at /\ e.uri > f.uri)

Left(q, c) == {e \in Visible(q) : c = Top \/ Above(c, e)}

Page(q, c) == {e \in Left(q, c) : Cardinality({f \in Left(q, c) : Above(f, e)}) < Limit}

\* Only a full page has a cursor.
NextCursor(page) ==
    IF Cardinality(page) # Limit THEN End
    ELSE CHOOSE e \in page : \A f \in page : f = e \/ Above(f, e)

\* seqBeforeTimestamp: the last row before the first one at or after a time.
SeqBeforeBug(since) ==
    LET later  == {n.seq : n \in {m \in Mine : m.indexedAt >= since}}
        before == {0} \cup {n.seq : n \in {m \in Mine : \A x \in later : m.seq <= x}}
    IN  CHOOSE s \in before : \A x \in before : x <= s

SeqBefore(since) ==
    LET later  == {n.seq : n \in {m \in Mine : m.indexedAt >= since}}
        before == {0} \cup {n.seq : n \in {m \in Mine : \A x \in later : m.seq < x}}
    IN  CHOOSE s \in before : \A x \in before : x <= s

-----------------------------------------------------------------------------
(* The index *)

\* Who hears of a post: the author of its parent, and whom it mentions.
Recipients(r) ==
    ((IF r.parent = None THEN {} ELSE {AuthorOf[r.parent]}) \cup r.mentions) \ {AuthorOf[r.uri]}

NewRecipients(r) ==
    {a \in Recipients(r) : ~\E n \in notifications : n.uri = r.uri /\ n.recipient = a}

\* AUTOINCREMENT never gives a number again, deleted rows included.
BaseBug == LET seqs == {0} \cup {n.seq : n \in notifications}
           IN  CHOOSE s \in seqs : \A x \in seqs : x <= s

Base == lastSeq

\* The parent's author first, then the mentions in the order of the text.
IndexPost(r, now) ==
    /\ posts' = {p \in posts : p.uri # r.uri} \cup
                 {[uri |-> r.uri, parent |-> r.parent, root |-> r.root,
                   createdAt |-> IF r.createdAt = 0 THEN now ELSE r.createdAt]}
    /\ \E seq \in [NewRecipients(r) -> Base + 1 .. Base + Cardinality(NewRecipients(r))] :
         /\ \A a, b \in NewRecipients(r) :
              a # b => /\ seq[a] # seq[b]
                       /\ r.parent # None /\ a = AuthorOf[r.parent] => seq[a] < seq[b]
         /\ notifications' = notifications \cup
              {[seq |-> seq[a], uri |-> r.uri, recipient |-> a, indexedAt |-> now] :
                 a \in NewRecipients(r)}
         /\ lastSeq' = Base + Cardinality(NewRecipients(r))
    /\ UNCHANGED hidden

RemovedBug(u) == notifications

Removed(u) == {n \in notifications : n.uri # u}

DeletePost(u) ==
    /\ posts' = {p \in posts : p.uri # u}
    /\ notifications' = Removed(u)
    /\ UNCHANGED <<lastSeq, hidden>>

SetActive(a, active) ==
    /\ hidden' = IF active THEN hidden \ {a} ELSE hidden \cup {a}
    /\ UNCHANGED <<posts, notifications, lastSeq>>

\* What stood since the walk began still does.
Watch == standing' = standing \cap Visible(query)'

\* Only the other author's account changes; Me could not read without its own.
Event ==
    [op : {"put"}, record : Record] \cup [op : {"delete"}, uri : Uri]
        \cup [op : {"account"}, did : {Other}, active : BOOLEAN]

\* An author writes.  While old events are read again new ones wait behind them, so they
\* may as well come later.
Commit(e) ==
    /\ pos = Len(log) /\ Len(log) < MaxLog
    /\ log' = Append(log, e)
    /\ UNCHANGED <<pos, tables, replays, walk>>

Handle(now) ==
    /\ pos < Len(log)
    /\ pos' = pos + 1
    /\ LET e == log[pos + 1] IN
         CASE e.op = "put"     -> IndexPost(e.record, now)
           [] e.op = "delete"  -> DeletePost(e.uri)
           [] e.op = "account" -> SetActive(e.did, e.active)
    /\ UNCHANGED <<log, replays, query, cursor, served, twice, missed>>
    /\ Watch

Replay ==
    /\ replays < MaxReplay
    /\ replays' = replays + 1
    /\ pos' \in 0..(pos - 1)
    /\ UNCHANGED <<log, tables, walk>>

-----------------------------------------------------------------------------
(* Me pages through a query until there is no cursor *)

Begin(q) ==
    /\ query = "none"
    /\ query' = q
    /\ standing' = Visible(q)
    /\ UNCHANGED <<log, pos, tables, replays, cursor, served, twice, missed>>

NextPage ==
    /\ query # "none"
    /\ LET page == Page(query, cursor)
           last == NextCursor(page) = End IN
         /\ twice' = (twice \/ page \cap served # {})
         /\ missed' = (missed \/ (last /\ ~(standing \subseteq served \cup page)))
         /\ query' = IF last THEN "none" ELSE query
         /\ cursor' = IF last THEN Top ELSE NextCursor(page)
         /\ served' = IF last THEN {} ELSE served \cup page
         /\ standing' = IF last THEN {} ELSE standing
    /\ UNCHANGED <<log, pos, tables, replays>>

Next ==
    \/ \E e \in Event : Commit(e)
    \/ \E now \in Time : Handle(now)
    \/ Replay
    \/ \E q \in Query : Begin(q)
    \/ NextPage

Spec == Init /\ [][Next]_vars

-----------------------------------------------------------------------------
(* Properties *)

\* appview/src/queries/cursor.ts: a walk through the pages shows no entry twice and every
\* one that stood all the time, whatever is indexed, removed, hidden or read again between
\* two pages.
PagesExact == ~twice /\ ~missed

\* appview/src/server.ts, "idempotent": once the log is handled the tables hold what the
\* repositories hold, and the notifications of every version since the last removal.
LastOf(P(_)) == {i \in 1..Len(log) : P(log[i]) /\ \A j \in (i + 1)..Len(log) : ~P(log[j])}

Converged ==
    pos = Len(log) =>
      /\ \A u \in Uri :
           LET Puts(e)    == e.op = "put" /\ e.record.uri = u
               Removes(e) == e.op = "delete" /\ e.uri = u
               Touches(e) == Puts(e) \/ Removes(e)
               versions   == {log[i].record : i \in {j \in 1..Len(log) :
                                Puts(log[j]) /\ \A d \in LastOf(Removes) : d < j}}
           IN  /\ {[uri |-> p.uri, parent |-> p.parent, root |-> p.root] :
                     p \in {r \in posts : r.uri = u}} =
                  {[uri |-> u, parent |-> log[i].record.parent, root |-> log[i].record.root] :
                     i \in {j \in LastOf(Touches) : log[j].op = "put"}}
               /\ {n.recipient : n \in {m \in notifications : m.uri = u}} =
                    UNION {Recipients(r) : r \in versions}
      /\ \A a \in Author :
           LET Of(e) == e.op = "account" /\ e.did = a
           IN  a \in hidden <=> \E i \in LastOf(Of) : ~log[i].active

\* appview/src/db.ts, "a recycled seq would land behind a consumer's cursor": every row
\* comes after every seq a consumer can have.
RowsAhead ==
    [][\A n \in notifications' \ notifications : n.seq > lastSeq]_vars

\* appview/src/queries/listNotifications.ts: replaying what is after the translation of a
\* timestamp covers every row at or after it, however the clock went, and starts with one.
SinceCovers ==
    \A since \in Time :
      LET after == {n \in Mine : n.seq > SeqBefore(since)}
          later == {n \in Mine : n.indexedAt >= since}
      IN  later \subseteq after /\ \A n \in after : \E m \in later : m.seq <= n.seq

\* appview/src/queries/getPostThread.ts: whatever posts name as parents and roots, the tree
\* ends; the tree of a post all of whose replies name it as root holds every post below it
\* once, and nothing else; the chain above a post is what its references lead to.
ThreadExact == TreeExact(posts) /\ ChainExact(posts)

\* getPostThread.ts:93, "every descendant via `replies`", of whatever post is requested:
\* the tree of a reply, too, holds what is below it.
EveryDescendant ==
    \A u \in Standing(posts) : Descendants(posts, u) = AllBelow(posts, u)

=============================================================================
