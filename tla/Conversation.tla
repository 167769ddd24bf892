----------------------------- MODULE Conversation -----------------------------
\* Posts and replies, from the call that writes one to the thread that shows it: the
\* post and reply tools of a session (post.ts, reply.ts), the same commands of aitty
\* (agent.ts), buildReplyRef, the firehose, and getPostThread as aitty prints it.
EXTENDS PostThread, SequencesExt

CONSTANTS
    MaxCall,   \* bound: calls of post and reply
    MaxAtOnce, \* bound: calls that wait at once
    MaxRemoval \* bound: posts that are deleted

ASSUME ConversationAssumption ==
    /\ {MaxCall, MaxAtOnce, MaxRemoval} \subseteq Nat
    /\ None \notin 1..MaxCall

VARIABLES
    made,    \* the PDS: the posts ever made, by URI, each with the call that made it
    commits, \* the firehose: a URI where it is created, and where it is deleted
    handled, \* the commits the AppView has indexed
    writes   \* the calls, by the await they are at

conversationVars == <<made, commits, handled, writes>>

Made == 1..Len(made)

Deleted(n) == {u \in Made : Cardinality({i \in 1..n : commits[i] = u}) = 2}

Present(n) == {u \in Made : \E i \in 1..n : commits[i] = u} \ Deleted(n)

\* table: posts
Table == {[uri |-> u, parent |-> made[u].parent, root |-> made[u].root] : u \in Present(handled)}

PostCall == [at : {"parent", "mentions", "create", "written", "failed", "done"},
             parent : Nat \cup {None},
             root : Nat \cup {None},
             replays : 0..1]         \* 1 for a session's tool, 0 for a command of aitty

\* A call that is over.
Ended(at) == [at |-> at, parent |-> None, root |-> None, replays |-> 0]

Waiting == {c \in DOMAIN writes : writes[c].at \notin {"failed", "done"}}

ConversationTypes ==
    /\ made \in Seq([parent : Made \cup {None}, root : Made \cup {None}, by : 1..MaxCall])
    /\ commits \in Seq(Made)
    /\ handled \in 0..Len(commits)
    /\ writes \in Seq(PostCall)
    /\ Len(writes) <= MaxCall

ConversationInit ==
    /\ made = <<>>
    /\ commits = <<>>
    /\ handled = 0
    /\ writes = <<>>

-----------------------------------------------------------------------------
\* A call.

\* post, or reply to a post that was seen somewhere; a reply reads its parent first.
CallPost(replays, parent) ==
    /\ Len(writes) < MaxCall
    /\ Cardinality(Waiting) < MaxAtOnce
    /\ writes' = Append(writes, [at |-> IF parent = None THEN "mentions" ELSE "parent",
                                 parent |-> parent, root |-> None, replays |-> replays])
    /\ UNCHANGED <<made, commits, handled>>

RootBug(u) == u

\* A reply threads off the original root: that of its parent, or the parent itself.
Root(u) == IF made[u].root = None THEN u ELSE made[u].root

\* buildReplyRef, while the parent stands.
ReadParent(c) ==
    /\ writes[c].at = "parent"
    /\ writes[c].parent \in Present(Len(commits))
    /\ writes' = [writes EXCEPT ![c].at = "mentions", ![c].root = Root(writes[c].parent)]
    /\ UNCHANGED <<made, commits, handled>>

\* buildMentionFacets has looked up every handle; one that is not found is no mention.
Mentioned(c) ==
    /\ writes[c].at = "mentions"
    /\ writes' = [writes EXCEPT ![c].at = "create"]
    /\ UNCHANGED <<made, commits, handled>>

\* createRecord is applied.
Write(c) ==
    /\ writes[c].at = "create"
    /\ made' = Append(made, [parent |-> writes[c].parent, root |-> writes[c].root, by |-> c])
    /\ commits' = Append(commits, Len(made'))
    /\ writes' = [writes EXCEPT ![c].at = "written"]
    /\ UNCHANGED handled

Report(c) ==
    /\ writes[c].at = "written"
    /\ writes' = [writes EXCEPT ![c] = Ended("done")]
    /\ UNCHANGED <<made, commits, handled>>

ReplaysBug(c, auth) == writes[c].replays > 0

\* withAuthedAgent: after an authentication failure a tool logs in and runs the call
\* once more from its start; the PDS refuses such a request before it does anything.
Replays(c, auth) == auth /\ writes[c].replays > 0

\* A request fails: the parent is gone, the PDS refuses or does not answer, or its
\* answer is lost; a lookup that fails is no failure.
CallFails(c, auth) ==
    /\ writes[c].at \in {"parent", "create", "written"}
    /\ auth => writes[c].at # "written"
    /\ writes' = [writes EXCEPT ![c] =
           IF Replays(c, auth)
           THEN [@ EXCEPT !.at = IF writes[c].parent = None THEN "mentions" ELSE "parent", !.replays = 0]
           ELSE Ended("failed")]
    /\ UNCHANGED <<made, commits, handled>>

\* External: another client of the author deletes a post.
RemovePost(u) ==
    /\ u \in Present(Len(commits))
    /\ Cardinality(Deleted(Len(commits))) < MaxRemoval
    /\ commits' = Append(commits, u)
    /\ UNCHANGED <<made, handled, writes>>

\* The AppView indexes the next commit.
IndexCommit ==
    /\ handled < Len(commits)
    /\ handled' = handled + 1
    /\ UNCHANGED <<made, commits, writes>>

ConversationNext ==
    \/ \E replays \in 0..1, parent \in Made \cup {None} : CallPost(replays, parent)
    \/ \E c \in DOMAIN writes : ReadParent(c) \/ Mentioned(c) \/ Write(c) \/ Report(c)
    \/ \E c \in DOMAIN writes, auth \in BOOLEAN : CallFails(c, auth)
    \/ \E u \in Made : RemovePost(u)
    \/ IndexCommit

ConversationSpec == ConversationInit /\ [][ConversationNext]_conversationVars

-----------------------------------------------------------------------------
\* What the thread command prints.

\* Siblings by createdAt, which is the order they were made in here.
Siblings(posts, u, v) ==
    LET kids == Children(posts, u, v)
    IN  CHOOSE s \in [1..Cardinality(kids) -> kids] : \A i, j \in DOMAIN s : i < j => s[i] < s[j]

\* walk: a post, then each of its replies with all below it.  What the recursion has
\* still to visit is next; it takes a step for each post it shows.
Walked(posts, u) ==
    LET step(w) == IF w.next = <<>> THEN w
                   ELSE [shown |-> Append(w.shown, Head(w.next)),
                         next  |-> Siblings(posts, u, Head(w.next)) \o Tail(w.next)]
        walk[n \in 0..Cardinality(posts)] ==
            IF n = 0 THEN [shown |-> <<>>, next |-> <<u>>] ELSE step(walk[n - 1])
    IN  walk[Cardinality(posts)].shown

\* renderThreadTree: the ancestors top-down, the post, and its replies.
Thread(posts, u) == Reverse(Ancestors(posts, u)) \o Walked(posts, u)

-----------------------------------------------------------------------------
\* A call of post or reply makes at most one post, and one that reports success made
\* one, although a tool runs a whole call again after an expired token
\* (pdsClient.ts:179-188): only a request that was not applied is repeated.
OnePostPerCall ==
    \A c \in DOMAIN writes :
        LET posts == {u \in Made : made[u].by = c}
        IN  /\ Cardinality(posts) <= 1
            /\ writes[c].at = "done" => posts # {}

\* The post a conversation began with, whatever became of the posts between.
Beginning(u) ==
    LET top[v \in Made] == IF made[v].parent = None THEN v ELSE top[made[v].parent] IN top[u]

\* The AppView's thread of the post a conversation began with prints every post of it
\* that can be traced back to it, once and after its parent; so does no thread print a
\* post twice, or before its parent: at every point of the log, whoever replied to whom
\* meanwhile and whatever was deleted (aitClient.ts:83-86, commands.ts:227-229).
ThreadWhole ==
    LET posts == Table IN
    \A u \in Standing(posts) :
        LET first == Beginning(u)
            shown == Thread(posts, u)
        IN  /\ Contains(<<u>> \o Ancestors(posts, u), first) => Contains(Thread(posts, first), u)
            /\ \A i, j \in DOMAIN shown :
                   i < j => shown[i] # shown[j] /\ made[shown[i]].parent # shown[j]

=============================================================================
