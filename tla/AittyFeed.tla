------------------------------- MODULE AittyFeed -------------------------------
\* aitty's live feed (stream.ts, and emit of interactive.ts): a poll of the timeline
\* that prints what it has not printed yet, oldest first, each post with a number that
\* reply and thread take, while posts come, go and come back.
EXTENDS Integers, Sequences, SequencesExt, FiniteSets

CONSTANTS
    MaxPost,    \* the posts, numbered as the timeline sorts them: the newest is last
    Backlog, PollLimit,
    SeenCap, IndexCap,
    MaxMove,    \* bound: posts that enter or leave the timeline
    MaxFailure  \* bound: polls and renderings that fail

ASSUME FeedAssumption ==
    /\ MaxPost \in Nat
    /\ {Backlog, PollLimit, SeenCap, IndexCap} \subseteq Nat \ {0}
    /\ {MaxMove, MaxFailure} \subseteq Nat
    /\ Backlog <= PollLimit /\ PollLimit <= SeenCap

VARIABLES
    timeline, \* the AppView: the posts getTimeline has for the viewer
    filter,   \* the posts of the authors a watch is for; the prompt has them all
    stage,    \* where the engine waits
    batch,    \* the fresh posts still to be emitted, oldest first
    seen,     \* the posts printed, in the order of a Set
    counter,  \* the last number
    index,    \* printed number -> post
    printed,  \* history: the posts printed, with their numbers
    moves, failures

feedVars == <<timeline, filter, stage, batch, seen, counter, index, printed, moves, failures>>

Post == 1..MaxPost

FeedTypes ==
    /\ timeline \subseteq Post
    /\ filter \subseteq Post
    /\ stage \in {"backlog", "asleep", "poll", "emit", "render"}
    /\ batch \in Seq(Post)
    /\ seen \in Seq(Post)
    /\ counter \in Nat
    /\ DOMAIN index \subseteq 1..counter
    /\ printed \in Seq([n : 1..counter, post : Post])
    /\ moves \in 0..MaxMove
    /\ failures \in 0..MaxFailure

FeedInit ==
    /\ timeline \in SUBSET Post
    /\ filter \in {Post, {p \in Post : p % 2 = 1}}
    /\ stage = "backlog"
    /\ batch = <<>>
    /\ seen = <<>>
    /\ counter = 0
    /\ index = [n \in {} |-> 0]
    /\ printed = <<>>
    /\ moves = 0
    /\ failures = 0

\* getTimeline: the newest posts, as many as were asked for.
Newest(limit) == {p \in timeline : Cardinality({q \in timeline : q > p}) < limit}

\* What emitFresh makes of them, oldest first.
Fresh(limit) ==
    LET fresh == (Newest(limit) \ ToSet(seen)) \cap filter
    IN  CHOOSE s \in [1..Cardinality(fresh) -> fresh] : \A i, j \in DOMAIN s : i < j => s[i] < s[j]

\* The answer to emitBacklog's fetch, or to a poll's.
Fetch ==
    /\ stage \in {"backlog", "poll"}
    /\ batch' = Fresh(IF stage = "backlog" THEN Backlog ELSE PollLimit)
    /\ stage' = "emit"
    /\ UNCHANGED <<timeline, filter, seen, counter, index, printed, moves, failures>>

-----------------------------------------------------------------------------
\* emitFresh, an item at a time: it is numbered, and printed when the handle it replies
\* to is known.

\* The map keeps the newest numbers.
Trimmed(map, n) ==
    IF Cardinality(DOMAIN map) > IndexCap
    THEN [m \in DOMAIN map \ {n - IndexCap} |-> map[m]] ELSE map

MarkedBug(p) == Append(seen, p)

\* A post that is being rendered is not seen yet.
Marked(p) == seen

\* It takes the next number, and waits for the handle of the post it replies to.
Number ==
    /\ stage = "emit"
    /\ batch # <<>>
    /\ counter' = counter + 1
    /\ index' = Trimmed([n \in DOMAIN index \cup {counter'} |->
                            IF n = counter' THEN Head(batch) ELSE index[n]], counter')
    /\ seen' = Marked(Head(batch))
    /\ stage' = "render"
    /\ UNCHANGED <<timeline, filter, batch, printed, moves, failures>>

\* It is printed and seen; a Set keeps the place of a member that is added again.
PrintPost ==
    /\ stage = "render"
    /\ printed' = Append(printed, [n |-> counter, post |-> Head(batch)])
    /\ seen' = IF Contains(seen, Head(batch)) THEN seen ELSE Append(seen, Head(batch))
    /\ batch' = Tail(batch)
    /\ stage' = "emit"
    /\ UNCHANGED <<timeline, filter, counter, index, moves, failures>>

EvictedBug == SubSeq(seen, 1, IF Len(seen) < SeenCap THEN Len(seen) ELSE SeenCap)

\* The oldest go when there are more than SEEN_CAP.
Evicted == IF Len(seen) > SeenCap THEN SubSeq(seen, Len(seen) - SeenCap + 1, Len(seen)) ELSE seen

\* All of the batch is printed.
Finish ==
    /\ stage = "emit"
    /\ batch = <<>>
    /\ seen' = Evicted
    /\ stage' = "asleep"
    /\ UNCHANGED <<timeline, filter, batch, counter, index, printed, moves, failures>>

\* A fetch or a rendering fails: the rest waits for the next tick.
PollFails ==
    /\ stage \in {"backlog", "poll", "render"}
    /\ failures < MaxFailure
    /\ failures' = failures + 1
    /\ batch' = <<>>
    /\ stage' = "asleep"
    /\ UNCHANGED <<timeline, filter, seen, counter, index, printed, moves>>

\* The interval has passed.
Wake ==
    /\ stage = "asleep"
    /\ stage' = "poll"
    /\ UNCHANGED <<timeline, filter, batch, seen, counter, index, printed, moves, failures>>

-----------------------------------------------------------------------------
\* A post is indexed or deleted, or its author followed, unfollowed, hidden or shown.
Shift(p) ==
    /\ moves < MaxMove
    /\ moves' = moves + 1
    /\ timeline' = IF p \in timeline THEN timeline \ {p} ELSE timeline \cup {p}
    /\ UNCHANGED <<filter, stage, batch, seen, counter, index, printed, failures>>

FeedStep == Fetch \/ Number \/ PrintPost \/ Finish \/ Wake

FeedNext ==
    \/ FeedStep
    \/ PollFails
    \/ \E p \in Post : Shift(p)

FeedSpec == FeedInit /\ [][FeedNext]_feedVars

-----------------------------------------------------------------------------
\* A post is printed again only after more than SEEN_CAP other printings, whatever
\* leaves the timeline and comes back, and wherever a poll fails (stream.ts:18, :81-83).
NoRepeat ==
    \A i, j \in DOMAIN printed :
        i < j /\ printed[i].post = printed[j].post => j - i > SeenCap

\* A number on the screen means the post it was printed with as long as it is one of the
\* last INDEX_CAP numbers, and afterwards none: reply and thread never take another post,
\* also when a rendering failed and its number is skipped (interactive.ts:102-104).
Numbered ==
    \A i \in DOMAIN printed :
        LET n == printed[i].n
        IN  IF n > counter - IndexCap
            THEN n \in DOMAIN index /\ index[n] = printed[i].post
            ELSE n \notin DOMAIN index

\* What is on the screen can be relied on: no post twice within the memory of the feed,
\* and every number that can still be typed means the post beside it.
ScreenExact == NoRepeat /\ Numbered

\* No post stays for ever among those a poll asks for without being printed, whatever
\* failed before.
EventuallyShown ==
    \A p \in Post : []<>(p \in Newest(PollLimit) \cap filter => \E i \in DOMAIN printed : printed[i].post = p)

=============================================================================
