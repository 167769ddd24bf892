---------------------------- MODULE MentionPrompt ----------------------------
\* aitty's prompt with its dropdown of handles (picker.ts, and findToken and
\* requestQuit of interactive.ts): each edit may start a search of the directory,
\* whose answer comes when the line has changed again, or the dropdown is closed.
EXTENDS Directory, Integers

CONSTANTS Blank, Plain   \* an empty line, a line with no handle under the cursor

VARIABLES
    line,      \* Blank, Plain, or the token under the cursor
    open,      \* the dropdown shows and takes the arrows, Enter and Tab
    searching, \* the search for the active token has not answered
    active,    \* activeQuery and activeRetiredOnly: what was searched last
    results,   \* the choices
    selected,  \* index of the choice
    wanted,    \* slot of the search whose answer counts (queryToken), 0 for none
    closed,    \* the prompt was closed by a quit
    answered   \* history: the token whose search the choices answer

promptVars == <<line, open, searching, active, results, selected, wanted, closed, answered>>

Token == [query : Query, retiredOnly : BOOLEAN]

Line == Token \cup {Blank, Plain}

PromptTypes ==
    /\ line \in Line
    /\ {open, searching, closed} \subseteq BOOLEAN
    /\ active \in Token \cup {Plain}
    /\ results \in Seq(Actor)
    /\ selected \in 0..Limit
    /\ wanted \in 0..MaxSearch
    /\ answered \in Token \cup {Plain}

PromptInit ==
    /\ line = Blank
    /\ open = FALSE
    /\ searching = FALSE
    /\ active = Plain
    /\ results = <<>>
    /\ selected = 0
    /\ wanted = 0
    /\ closed = FALSE
    /\ answered = Plain

-----------------------------------------------------------------------------
\* closePicker: the answer of a search on its way no longer counts.
ClosePicker ==
    /\ open' = FALSE
    /\ searching' = FALSE
    /\ results' = <<>>
    /\ selected' = 0
    /\ active' = Plain
    /\ wanted' = 0
    /\ answered' = Plain

\* runSearch: the choices of the search before stay until this one answers.
RunSearch(token) ==
    \E i \in Slot :
        /\ searches[i].stage = "none"
        /\ searches' = [searches EXCEPT ![i] = Sent(token.query, token.retiredOnly)]
        /\ wanted' = i
        /\ open' = TRUE
        /\ searching' = TRUE
        /\ active' = token
        /\ UNCHANGED <<results, selected, answered>>

\* An edit searches again if the query or its half of the directory changed.
Stale(token) == token # active

\* A key that edits the line or moves the cursor, to any other line: more than one
\* key can do, which is sound for an invariant.
Edit(l) ==
    /\ ~closed
    /\ line' = l
    /\ \/ /\ l \notin Token
          /\ ClosePicker
          /\ UNCHANGED searches
       \/ /\ l \in Token
          /\ Stale(l) \/ ~open
          /\ RunSearch(l)
       \/ /\ l \in Token
          /\ ~Stale(l)
          /\ open
          /\ UNCHANGED <<searches, open, searching, active, results, selected, wanted, answered>>
    /\ UNCHANGED closed

CountsBug(i) == TRUE

\* Whether an answer is the one the prompt waits for.
Counts(i) == i = wanted

\* A search answers, or fails, which is an answer without choices; one that was
\* overtaken is dropped.
Receive(i, found) ==
    /\ searches[i].stage # "none"
    /\ searches' = [searches EXCEPT ![i] = NoSearch]
    /\ IF Counts(i)
       THEN /\ searching' = FALSE
            /\ results' = found
            /\ selected' = 0
            /\ wanted' = 0
            /\ answered' = [query |-> searches[i].query, retiredOnly |-> searches[i].retiredOnly]
       ELSE UNCHANGED <<searching, results, selected, wanted, answered>>
    /\ UNCHANGED <<line, open, active, closed>>

ReceiveAnswer(i) == searches[i].stage = "read" /\ Receive(i, Answer(i))

ReceiveError(i) == Receive(i, <<>>)

\* Up and down go round.
Turned(delta) == (selected + delta + Len(results)) % Len(results)

Move(delta) ==
    /\ open /\ results # <<>>
    /\ selected' = Turned(delta)
    /\ UNCHANGED <<line, open, searching, active, results, wanted, closed, answered, searches>>

\* Enter or Tab on a choice: the handle and a space take the token's place.
Accept ==
    /\ open /\ results # <<>>
    /\ line' = Plain
    /\ ClosePicker
    /\ UNCHANGED <<closed, searches>>

\* Enter without a choice: the line is handed to handleCommand.
Submit ==
    /\ ~closed
    /\ ~(open /\ results # <<>>)
    /\ line' = Blank
    /\ ClosePicker
    /\ UNCHANGED <<closed, searches>>

\* Escape or Ctrl-C with the dropdown open.
Dismiss ==
    /\ open
    /\ ClosePicker
    /\ UNCHANGED <<line, closed, searches>>

\* Ctrl-C, Ctrl-D on an empty line, or the command quit: close().
Quit ==
    /\ ~closed
    /\ ~open
    /\ closed' = TRUE
    /\ ClosePicker
    /\ UNCHANGED <<line, searches>>

PromptStep ==
    \/ \E l \in Line : Edit(l)
    \/ \E i \in Slot : ReceiveAnswer(i) \/ ReceiveError(i)
    \/ \E delta \in {-1, 1} : Move(delta)
    \/ Accept
    \/ Submit
    \/ Dismiss
    \/ Quit

\* Beside the prompt, actors are retired and listed; what else happens to the
\* directory is in the behaviours of SessionPicker.
PromptNext ==
    \/ PromptStep /\ UNCHANGED <<actors, resolves, live, calls, retiredSince>>
    \/ (\E i \in Slot : ReadRows(i)) /\ UNCHANGED promptVars
    \/ /\ \E subject \in Actor, retired \in BOOLEAN : SetRetired(Operator, subject, retired)
       /\ UNCHANGED promptVars

PromptSpec == DirectoryInit /\ PromptInit /\ [][PromptNext]_<<directoryVars, promptVars>>

-----------------------------------------------------------------------------
\* Once the search is over, the open dropdown offers what the directory answered for
\* the token under the cursor, query and half of the directory, one of the choices is
\* selected, and nothing is offered after a quit (picker.ts:78-80): whatever was
\* typed, dismissed, submitted and typed again while older searches were on their way.
OffersWhatIsTyped ==
    /\ open => ~closed /\ line = active
    /\ open /\ ~searching => answered = line
    /\ results # <<>> => open /\ selected < Len(results)

=============================================================================
