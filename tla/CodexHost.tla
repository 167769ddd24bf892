------------------------------ MODULE CodexHost ------------------------------
(***************************************************************************)
(* The launcher of a Codex session (mcp/src/codex/host.ts): its reconnect  *)
(* supervisor, the map from threads to AIT sessions it keeps on disk       *)
(* (mcp/src/codex/threadMap.ts), the wait for a thread's MCP runtimes      *)
(* (mcp/src/codex/appServerClient.ts) and the wait for the identity that   *)
(* the session's tools write when the model joins.                         *)
(*                                                                         *)
(* Launchers run one after the other: the operator starts a session, or    *)
(* resumes a thread after the last launcher ended.  The app-server is      *)
(* external: it keeps the threads it has loaded, each with tool runtimes   *)
(* that belong to the AIT session they were spawned for, and the rollouts  *)
(* on disk.  What a connection carries to the launcher is a sequence.      *)
(*                                                                         *)
(* A step is what the launcher runs before it waits again; the supervisor  *)
(* waits for one request at a time.  Delivery into the thread is CodexSink,*)
(* registration PushDelivery.                                              *)
(***************************************************************************)
EXTENDS Integers, Sequences

CONSTANTS
    MaxLaunches, \* bound: launchers, one after the other
    MaxDisturbance,  \* bound: refused calls, lost connections, restarts, ended launchers
    Forks,       \* threads that no launcher created, such as forks of others
    MaxServer,   \* MCP servers of a thread; the status list has one on each page
    OrphansResumed \* may the operator resume a thread no launcher ever showed?

ASSUME HostAssumption ==
    /\ MaxLaunches \in Nat \ {0} /\ MaxDisturbance \in Nat /\ Forks \in Nat
    /\ MaxServer \in Nat \ {0}
    /\ OrphansResumed \in BOOLEAN

VARIABLES
    launches,  \* launchers started
    session,   \* AIT_SESSION_ID: the number of the launcher that minted it
    resume,    \* resumeThreadId
    prompt,    \* an opening prompt was given
    phase,     \* what the supervisor waits for
    thread,    \* threadId
    done,      \* openingTurnDone
    announced, \* the thread written to the socket file by this launcher
    hydrated,  \* registerPushWhenReady has loaded the identity
    asked,     \* the request waited for has not been handled yet
    wire,      \* answers and status events on their way to the launcher
    page,      \* page of the status list asked for
    pending,   \* servers the pages report as starting
    observed,  \* servers with a terminal status event
    map,       \* codex-thread-<id>.json: the session of a thread
    threads,   \* app-server: threads created
    rollout,   \* app-server: threads with a rollout on disk
    tools,     \* app-server: the session a loaded thread's tools belong to
    settled,   \* app-server: <<thread, server>> whose startup has ended
    prompted,  \* app-server: threads that accepted an opening prompt
    shown,     \* history: threads announced by a launcher
    joined,    \* history: <<thread, session>> the model has joined as
    disturbances

launcher == <<launches, session, resume, prompt, done, announced, hydrated>>
listing  == <<page, pending, observed>>
appServer   == <<threads, rollout, tools, settled, prompted>>
history  == <<shown, joined>>
hostVars     == <<launcher, phase, thread, asked, wire, listing, map, appServer, history, disturbances>>

Unset    == 0
Thread  == 1..(MaxLaunches + MaxDisturbance + Forks)
Session == 1..MaxLaunches
Server  == 1..MaxServer

\* What the launcher tells apart in an answer: "contract" is a thread that does not have
\* the approval policy and permissions of a launch.  A status event, or a page of the
\* list, is the servers it names.
StatusKind  == {"status"}
Answer  == {"ok", "page", "refused", "busy", "unknown", "contract", "unsupported"}
Message == [kind : StatusKind \cup Answer, thread : Thread \cup {Unset}, servers : SUBSET Server]

Connected == {"open", "name", "list", "wait", "prompt", "serve"}
Phase     == {"off", "connect", "backoff", "exit"} \cup Connected

\* Every message, thread and session named anywhere exists.
HostTypes ==
    /\ launches \in 0..MaxLaunches
    /\ session \in IF launches = 0 THEN {Unset} ELSE 1..launches
    /\ resume \in Thread \cup {Unset} /\ prompt \in BOOLEAN
    /\ phase \in Phase
    /\ thread \in Thread \cup {Unset}
    /\ done \in BOOLEAN /\ hydrated \in BOOLEAN /\ asked \in BOOLEAN
    /\ announced \in shown \cup {Unset}
    /\ wire \in Seq(Message)
    /\ page \in Server /\ pending \subseteq Server /\ observed \subseteq Server
    /\ map \in [Thread -> 0..launches]
    /\ threads \in 0..(MaxLaunches + MaxDisturbance + Forks)
    /\ rollout \subseteq 1..threads
    /\ tools \in [Thread -> 0..launches]
    /\ settled \subseteq Thread \X Server
    /\ prompted \subseteq rollout
    /\ shown \subseteq rollout
    /\ joined \subseteq rollout \X Session
    /\ disturbances \in 0..MaxDisturbance

HostInit ==
    /\ launches = 0 /\ session = 0 /\ resume = Unset /\ prompt = FALSE
    /\ phase = "off" /\ thread = Unset
    /\ done = FALSE /\ announced = Unset /\ hydrated = FALSE
    /\ asked = FALSE /\ wire = <<>>
    /\ page = 1 /\ pending = {} /\ observed = {}
    /\ map = [t \in Thread |-> Unset]
    /\ threads = Forks /\ rollout = 1..Forks
    /\ tools = [t \in Thread |-> Unset] /\ settled = {}
    /\ prompted = {}
    /\ shown = {} /\ joined = {}
    /\ disturbances = 0

Disturb == disturbances < MaxDisturbance /\ disturbances' = disturbances + 1

-----------------------------------------------------------------------------
(* The launcher.  The definitions named ...Bug are the faulty variants     *)
(* that show what each property is sensitive to.                           *)

\* The session of a thread that was launched before, or a new one.
SessionOf(t) == IF t # Unset /\ map[t] # Unset THEN map[t] ELSE launches + 1

\* Threads the operator knows of: shown by a launcher, or the fork of one.
Known(t) == OrphansResumed \/ t \in shown \/ (map[t] = Unset /\ tools[t] = Unset)

\* A launcher starts, with an opening prompt or with a thread to resume.
Launch(t, given) ==
    /\ phase \in {"off", "exit"} /\ launches < MaxLaunches
    /\ t # Unset => ~given /\ Known(t)
    /\ launches' = launches + 1
    /\ session' = SessionOf(t)
    /\ resume' = t /\ thread' = t /\ prompt' = given
    /\ done' = FALSE /\ announced' = Unset /\ hydrated' = FALSE
    /\ phase' = "connect"
    /\ UNCHANGED <<asked, wire, listing, map, appServer, shown, joined, disturbances>>

Ask(next) == phase' = next /\ asked' = TRUE

\* connect(): the socket opens and the app-server acknowledges initialize.
Connect ==
    /\ phase = "connect"
    /\ Ask("open")
    /\ wire' = <<>>
    /\ UNCHANGED <<launcher, thread, listing, map, appServer, history, disturbances>>

\* Nobody listens to the startup of MCP servers.
Unlisted == page' = 1 /\ pending' = {} /\ observed' = {}

\* The connection is given up: a thread that could not be named is forgotten.
GiveUp ==
    /\ phase' = "backoff" /\ asked' = FALSE /\ wire' = <<>>
    /\ thread' = IF phase = "name" THEN Unset ELSE thread
    /\ Unlisted

\* A resume that is refused for good before the session was ever served.
Fatal(kind) ==
    /\ phase = "open"
    /\ \/ kind = "contract"
       \/ thread # Unset /\ thread = resume /\ ~done /\ kind \in {"unknown", "refused"}

\* The thread has a sink; a new session that was given a prompt gets it first.
Activate ==
    IF ~done /\ resume = Unset /\ prompt
    THEN Ask("prompt") /\ UNCHANGED done
    ELSE phase' = "serve" /\ asked' = FALSE /\ done' = TRUE

\* The socket is published to the wrapper that attaches the TUI.
Announce ==
    /\ announced' = thread
    /\ shown' = shown \cup {thread}
    /\ Activate
    /\ Unlisted

\* writeThreadSessionId
RecordedBug(t) == IF announced = Unset THEN map ELSE [map EXCEPT ![t] = session]

Recorded(t) == [map EXCEPT ![t] = session]

\* The thread has its rollout: it is published unless this launcher has done so.
Rolled(t) ==
    /\ map' = Recorded(t)
    /\ IF announced # Unset
       THEN Activate /\ UNCHANGED <<announced, shown, listing>>
       ELSE Ask("list") /\ UNCHANGED <<done, announced, shown, listing>>

Heard(kinds) ==
    /\ phase \in Connected /\ wire # <<>> /\ Head(wire).kind \in kinds
    /\ UNCHANGED <<launches, session, resume, prompt, hydrated, appServer, joined, disturbances>>

Take(kinds) == Heard(kinds) /\ wire' = Tail(wire)

\* thread/start or thread/resume was answered: a new session is named.
OpenDone ==
    /\ phase = "open" /\ Take({"ok"})
    /\ thread' = Head(wire).thread
    /\ IF ~done /\ resume = Unset
       THEN Ask("name") /\ UNCHANGED <<done, announced, map, shown, listing>>
       ELSE Rolled(Head(wire).thread)

NameDone ==
    /\ phase = "name" /\ Take({"ok"})
    /\ Rolled(thread)
    /\ UNCHANGED thread

\* A page of the status list.  Events that came since it was asked for count.
ListedBug(servers) == servers

Listed(servers) == pending \cup servers

ListDone ==
    /\ Take({"page"})
    /\ LET starting == Listed(Head(wire).servers) IN
         \/ /\ page < MaxServer
            /\ page' = page + 1 /\ pending' = starting
            /\ Ask("list")
            /\ UNCHANGED <<observed, done, announced, shown>>
         \/ /\ page = MaxServer /\ starting \subseteq observed
            /\ Announce
         \/ /\ page = MaxServer /\ ~(starting \subseteq observed)
            /\ pending' = starting
            /\ phase' = "wait" /\ asked' = FALSE
            /\ UNCHANGED <<page, observed, done, announced, shown>>
    /\ UNCHANGED <<thread, map>>

\* An app-server without the status list: there is nothing to wait for.
ListUnsupported ==
    /\ Take({"unsupported"})
    /\ Announce
    /\ UNCHANGED <<thread, map>>

PromptDone ==
    /\ phase = "prompt" /\ Take({"ok"})
    /\ phase' = "serve" /\ asked' = FALSE /\ done' = TRUE
    /\ UNCHANGED <<thread, announced, map, shown, listing>>

RequestFails ==
    /\ Heard({"refused", "busy", "unknown", "contract"})
    /\ IF Fatal(Head(wire).kind)
       THEN phase' = "exit" /\ asked' = FALSE /\ wire' = <<>> /\ UNCHANGED <<thread, listing>>
       ELSE GiveUp
    /\ UNCHANGED <<done, announced, map, shown>>

\* onNotification: a terminal status. Only waitForMcpStartup listens, from before it
\* asks for the first page.
ObservedBug(n) == IF phase = "wait" THEN observed \cup {n} ELSE observed

Observed(n) == IF phase \in {"list", "wait"} THEN observed \cup {n} ELSE observed

StatusUpdated ==
    /\ Take({"status"})
    /\ \E n \in Head(wire).servers :
         IF phase = "wait" /\ pending \subseteq Observed(n)
         THEN Announce
         ELSE /\ observed' = Observed(n)
              /\ UNCHANGED <<phase, asked, done, announced, shown, page, pending>>
    /\ UNCHANGED <<thread, map>>

Received ==
    \/ OpenDone \/ NameDone \/ ListDone \/ ListUnsupported \/ PromptDone \/ RequestFails
    \/ StatusUpdated

\* RECONNECT_BACKOFF_MS are over.
Backoff ==
    /\ phase = "backoff"
    /\ phase' = "connect"
    /\ UNCHANGED <<launcher, thread, asked, wire, listing, map, appServer, history, disturbances>>

\* registerPushWhenReady: the identity of this session is on disk.
Hydrate ==
    /\ phase \notin {"off", "exit"} /\ ~hydrated
    /\ \E j \in joined : j[2] = session
    /\ hydrated' = TRUE
    /\ UNCHANGED <<launches, session, resume, prompt, done, announced, phase, thread, asked,
                   wire, listing, map, appServer, history, disturbances>>

\* The launcher is stopped or dies.
End ==
    /\ phase \notin {"off", "exit"} /\ Disturb
    /\ phase' = "off" /\ asked' = FALSE /\ wire' = <<>>
    /\ Unlisted
    /\ UNCHANGED <<launcher, thread, map, appServer, history>>

-----------------------------------------------------------------------------
(* The app-server, the connection and the operator. *)

Reply(kind, t, servers) ==
    wire' = Append(wire, [kind |-> kind, thread |-> t, servers |-> servers])

\* thread/start: the thread is loaded, and has no rollout yet.
StartThread ==
    /\ phase = "open" /\ thread = Unset
    /\ threads' = threads + 1
    /\ tools' = [tools EXCEPT ![threads'] = session]
    /\ Reply("ok", threads', {})
    /\ UNCHANGED <<rollout, settled, prompted, disturbances>>

\* thread/resume: a thread that is loaded keeps the tools it has.
Resume ==
    /\ phase = "open" /\ thread # Unset
    /\ IF thread \in rollout
       THEN /\ tools' = [tools EXCEPT ![thread] = IF @ = Unset THEN session ELSE @]
            /\ Reply("ok", thread, {})
       ELSE UNCHANGED tools /\ Reply("unknown", Unset, {})
    /\ UNCHANGED <<threads, rollout, settled, prompted, disturbances>>

\* thread/name/set on a legacy thread writes its rollout.
SetName(kind) ==
    /\ phase = "name"
    /\ rollout' = rollout \cup {thread}
    /\ Reply(kind, Unset, {})
    /\ UNCHANGED <<threads, tools, settled, prompted>>

\* mcpServerStatus/list: the server on this page, if it is still starting.
List ==
    /\ phase = "list"
    /\ Reply("page", Unset, {n \in {page} : <<thread, n>> \notin settled})
    /\ UNCHANGED <<appServer, disturbances>>

\* turn/start with the opening prompt.
StartTurn(kind) ==
    /\ phase = "prompt"
    /\ prompted' = prompted \cup {thread}
    /\ rollout' = rollout \cup {thread}
    /\ Reply(kind, Unset, {})
    /\ UNCHANGED <<threads, tools, settled>>

\* The request is refused, for a moment or not, or the answer is not the contract.
Refuse ==
    /\ \/ Reply("refused", Unset, {})
       \/ phase = "open" /\ Reply("busy", Unset, {})
       \/ phase = "open" /\ (thread # Unset => thread \in rollout) /\ Reply("contract", Unset, {})
       \/ phase = "list" /\ page = 1 /\ Reply("unsupported", Unset, {})
    /\ UNCHANGED appServer

Handle ==
    /\ phase \in Connected /\ asked
    /\ asked' = FALSE
    /\ \/ StartThread \/ Resume \/ List
       \/ (SetName("ok") \/ StartTurn("ok")) /\ UNCHANGED disturbances
       \/ (StartTurn("refused") \/ Refuse) /\ Disturb
    /\ UNCHANGED <<launcher, phase, thread, listing, map, history>>

\* The startup of one of a loaded thread's MCP servers ends.  After the thread was
\* published no event of it is listened to.
Settle(t, n) ==
    /\ tools[t] # Unset /\ <<t, n>> \notin settled
    /\ settled' = settled \cup {<<t, n>>}
    /\ IF phase \in Connected /\ t = thread /\ announced = Unset
       THEN Reply("status", t, {n}) ELSE UNCHANGED wire
    /\ UNCHANGED <<launcher, phase, thread, asked, listing, map, threads, rollout, tools,
                   prompted, history, disturbances>>

\* The connection closes, or does not open; the request in flight is rejected.
Disconnect ==
    /\ phase \in Connected \cup {"connect"} /\ Disturb
    /\ GiveUp
    /\ UNCHANGED <<launcher, map, appServer, history>>

\* The app-server restarts: what it had loaded is gone.
Restart ==
    /\ Disturb
    /\ tools' = [t \in Thread |-> Unset] /\ settled' = {}
    /\ IF phase \in Connected THEN GiveUp ELSE UNCHANGED <<phase, asked, wire, thread, listing>>
    /\ UNCHANGED <<launcher, map, threads, rollout, prompted, history>>

\* The model joins, in the turn of an opening prompt or of an attached TUI.
Join(t) ==
    /\ tools[t] # Unset
    /\ t \in shown \cup prompted
    /\ joined' = joined \cup {<<t, tools[t]>>}
    /\ UNCHANGED <<launcher, phase, thread, asked, wire, listing, map, appServer, shown, disturbances>>

HostNext ==
    \/ \E t \in Thread \cup {Unset}, given \in BOOLEAN : Launch(t, given)
    \/ Connect \/ Received \/ Backoff \/ Hydrate \/ End
    \/ Handle \/ (\E t \in Thread, n \in Server : Settle(t, n))
    \/ Disconnect \/ Restart
    \/ \E t \in Thread : Join(t)

HostSpec == HostInit /\ [][HostNext]_hostVars

\* The event loop and the app-server run, the startup of every MCP server ends and
\* the identity is polled.  No disturbance, no launch and no join has to happen.
HostFairness ==
    /\ WF_hostVars(Connect \/ Received \/ Backoff) /\ WF_hostVars(Hydrate)
    /\ WF_hostVars(Handle /\ UNCHANGED disturbances)
    /\ WF_hostVars(\E t \in Thread, n \in Server : Settle(t, n))

HostFairSpec == HostSpec /\ HostFairness

-----------------------------------------------------------------------------
(* Properties *)

\* A thread is published when the TUI can attach: its rollout is on disk, the map has
\* its session, and every MCP server has settled, unless the app-server is too old
\* to say.
AnnouncedReady ==
    [][announced' # announced /\ announced' # Unset
        => /\ announced' \in rollout /\ map[announced'] = session
           /\ \/ Head(wire).kind = "unsupported"
              \/ \A n \in Server : <<announced', n>> \in settled]_hostVars

\* mcp/src/codex/host.ts, "so the SAME AIT handle rebinds (no orphaning)": a thread
\* joins as one session, whenever its launchers end and resume it.
SameHandle == \A j, k \in joined : j[1] = k[1] => j[2] = k[2]

\* A model's identity is under the session whose file its launcher polls.
ToolsAgree == phase \in {"prompt", "serve"} => tools[thread] = session

\* What the launcher, its thread and the thread's tools each take the session to be is
\* one handle, across launchers, reconnects and restarts of the app-server.
OneIdentity == SameHandle /\ ToolsAgree

\* Each launcher comes to serve a thread, or ends.
EventuallyServes == phase = "connect" ~> phase \in {"serve", "exit", "off"}

\* A session whose model has joined is registered.
JoinedIsReached ==
    phase = "serve" /\ (\E j \in joined : j[1] = thread) ~> hydrated \/ phase \in {"exit", "off"}

\* Every launcher that does not end serves its thread, and once its model has joined is
\* registered for push, however the status events and the pages interleave.
EventuallyReached == EventuallyServes /\ JoinedIsReached

\* mcp/src/codex/host.ts, "every reconnect resumes our thread".
ReconnectResumes == announced # Unset /\ phase = "serve" => thread = announced

=============================================================================
