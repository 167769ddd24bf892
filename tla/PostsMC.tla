------------------------------- MODULE PostsMC -------------------------------
\* Posts: the AppView's index of them with the pages and threads that are read from it,
\* aitty's live feed, and the posts and replies that aitty and the tools of a session
\* write. In one behaviour one of them is at work: they meet only in rows and URIs.
EXTENDS PostIndex, AittyFeed, Conversation

VARIABLE part

postsVars == <<vars, feedVars, conversationVars, part>>

\* Ann posts 1 and reads; bob posts 2 and 3, which answer ann, each other or nobody.
MCUri      == {1, 2, 3}
MCAuthorOf == <<"ann", "bob", "bob">>
MCFollowed == {"ann", "bob"}
MCNone     == 9

Written(u, parent, root, mentions, createdAt) ==
    [uri |-> u, parent |-> parent, root |-> root, mentions |-> mentions, createdAt |-> createdAt]

\* A post, replies to it, a mention, an edit that moves a post, and replies that name no
\* common root or one another.
MCRecord == {
    Written(1, MCNone, MCNone, {}, 1),
    Written(2, 1, 1, {"ann"}, 0),
    Written(2, 3, 1, {}, 2),
    Written(3, 2, 1, {}, 1),
    Written(3, 2, 2, {"ann"}, 2),
    Written(3, MCNone, 1, {}, 1) }

\* A post, a reply to it and a reply to that, as buildReplyRef makes them.
MCThread == {
    Written(1, MCNone, MCNone, {}, 1),
    Written(2, 1, 1, {}, 1),
    Written(3, 2, 1, {}, 1) }

\* What has no part in a behaviour starts in one way only.
PostsInit ==
    /\ Init
    /\ FeedInit
    /\ ConversationInit
    /\ part \in {"index", "feed", "conversation"}
    /\ part # "feed" => timeline = {} /\ filter = Post

PostsNext ==
    \/ /\ part = "index"
       /\ Next
       /\ UNCHANGED <<feedVars, conversationVars, part>>
    \/ /\ part = "feed"
       /\ FeedNext
       /\ UNCHANGED <<vars, conversationVars, part>>
    \/ /\ part = "conversation"
       /\ ConversationNext
       /\ UNCHANGED <<vars, feedVars, part>>

\* The poll loop never ends by itself: its timer fires and its requests are answered.
Fairness == WF_feedVars(part = "feed" /\ FeedStep)

PostsSpec == PostsInit /\ [][PostsNext]_postsVars /\ Fairness

PostsTypes == TypeOK /\ FeedTypes /\ ConversationTypes

=============================================================================
