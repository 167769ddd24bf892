----------------------------- MODULE PostThread -----------------------------
(***************************************************************************)
(* The thread of a post (appview/src/queries/getPostThread.ts), computed   *)
(* from a table of posts: a set of rows with the URI of the post and those *)
(* of the parent and the root it names, which may be None, missing,        *)
(* deleted, or posts that never agreed to be in one thread.  Handles,      *)
(* texts and the order of siblings are left out.                           *)
(***************************************************************************)
EXTENDS Naturals, Sequences, FiniteSets

CONSTANT None  \* no URI

Standing(posts)    == {p.uri : p \in posts}
PostAt(posts, u)   == CHOOSE p \in posts : p.uri = u
ParentOf(posts, u) == PostAt(posts, u).parent

\* The requested post and what names it as root; the rest of the answer is made of these.
Rows(posts, u) == {p \in posts : p.uri = u \/ p.root = u}

\* byParent: a row without a parent goes under the requested post, which goes nowhere.
ChildrenBug(posts, u, v) == {p.uri : p \in {r \in Rows(posts, u) : r.parent = v}}

Children(posts, u, v) ==
    {p.uri : p \in {r \in Rows(posts, u) :
                      r.uri # u /\ (r.parent = v \/ (r.parent = None /\ v = u))}}

\* attach, a level of the tree at a time: level n is what is n replies below u.
Levels(posts, u) ==
    LET level[n \in 0..Cardinality(posts)] ==
          IF n = 0 THEN {u} ELSE UNION {Children(posts, u, v) : v \in level[n - 1]}
    IN  level

Descendants(posts, u) ==
    UNION {Levels(posts, u)[n] : n \in 1..Cardinality(posts)}

\* walkAncestorRows: up from the parent, until a post without parent, a URI that does
\* not stand, or one that was visited.
Ancestors(posts, u) ==
    LET above(chain) == ParentOf(posts, IF chain = <<>> THEN u ELSE chain[Len(chain)])
        walk[n \in 0..Cardinality(posts)] ==
          IF n = 0 THEN <<>>
          ELSE LET chain == walk[n - 1]
                   next  == above(chain) IN
               IF next \in Standing(posts) /\ \A i \in 1..Len(chain) : chain[i] # next
               THEN Append(chain, next) ELSE chain
    IN  walk[Cardinality(posts)]

-----------------------------------------------------------------------------
(* What the answer should be, from the posts' own references *)

\* What a post answers: its parent, or the root when it names no parent.
Over(posts, r) ==
    IF ParentOf(posts, r) = None THEN PostAt(posts, r).root ELSE ParentOf(posts, r)

\* r is below u: whoever goes up from r, from post to standing post, comes to u.
Below(posts, r, u) ==
    /\ r # u
    /\ \A above \in SUBSET Standing(posts) :
         /\ r \in above
         /\ \A x \in above \ {u} : Over(posts, x) \in Standing(posts) => Over(posts, x) \in above
         => u \in above

AllBelow(posts, u) == {r \in Standing(posts) : Below(posts, r, u)}

\* A tree holds every post below the requested one, if they all name it as their root,
\* as replies to a post that is no reply do (buildReplyRef).  Otherwise a post is left
\* out exactly when it, or a post on its way up, names another root.  Each is there once.
TreeExact(posts) ==
    \A u \in Standing(posts) :
      LET level == Levels(posts, u) IN
      /\ (\A r \in AllBelow(posts, u) : PostAt(posts, r).root = u)
            => Descendants(posts, u) = AllBelow(posts, u)
      /\ Descendants(posts, u) = AllBelow(posts, u) \cap AllBelow(Rows(posts, u), u)
      /\ \A m, n \in DOMAIN level : m # n => level[m] \cap level[n] = {}

\* The chain above it starts at its parent, follows the references, repeats no post, and
\* stops only where there is nothing more to follow.
ChainExact(posts) ==
    \A u \in Standing(posts) :
      LET chain == Ancestors(posts, u)
          after(i) == ParentOf(posts, IF i = 0 THEN u ELSE chain[i]) IN
      /\ \A i \in 1..Len(chain) : chain[i] = after(i - 1)
      /\ \A i, j \in 1..Len(chain) : i # j => chain[i] # chain[j]
      /\ after(Len(chain)) \in {None} \cup {chain[i] : i \in 1..Len(chain)}
            \/ after(Len(chain)) \notin Standing(posts)

=============================================================================
