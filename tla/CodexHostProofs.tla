--------------------------- MODULE CodexHostProofs ---------------------------
(***************************************************************************)
(* Why a thread has one identity: the launcher that serves it, the map on  *)
(* disk, the tools the app-server has loaded and every join agree, for any *)
(* number of launchers, refused calls, lost connections and restarts, as   *)
(* long as no thread is resumed that no launcher ever published.           *)
(*                                                                         *)
(* The map is written once and stays: whoever comes to a thread later has  *)
(* read it (Mapped).  Until then only the launcher knows the thread, and   *)
(* its tools can only be of its own session (Served, Answered).            *)
(*                                                                         *)
(* The second part is why a thread that is published is ready: pages and   *)
(* status events, however they interleave, never say that a server has     *)
(* settled before it has (ListInv).                                        *)
(***************************************************************************)
EXTENDS CodexHost, TLAPS

Failure == {"refused", "busy", "unknown", "contract"}

Requesting == {"open", "name", "list", "prompt"}

On(kinds) == \E i \in 1..Len(wire) : wire[i].kind \in kinds

\* Every thread costs a launcher or a disturbance: there is a number for each, and one is
\* left for a launcher whose thread has still to be made.
Accounted ==
    /\ threads <= Forks + launches + disturbances
    /\ On(Failure) => threads < Forks + launches + disturbances
    /\ phase \in {"connect", "backoff", "open"} /\ thread \notin rollout /\ ~On({"ok"})
         => threads < Forks + launches + disturbances

\* There is one answer for each request, and it is for the phase that asked.
OneAnswer ==
    /\ asked => phase \in Requesting
    /\ asked \/ phase \notin Requesting => ~On(Answer)
    /\ On({"page", "unsupported"}) => phase = "list"
    /\ \A i, j \in 1..Len(wire) : wire[i].kind \in Answer /\ wire[j].kind \in Answer => i = j

\* The thread an answer names is of the launcher's session, or of none.
Answered ==
    \A i \in 1..Len(wire) : wire[i].kind = "ok" =>
        /\ phase = "open" =>
             /\ wire[i].thread \in 1..threads /\ tools[wire[i].thread] = session
             /\ map[wire[i].thread] \in {Unset, session}
             /\ thread # Unset => wire[i].thread = thread /\ thread \in rollout
        /\ phase = "name" => thread \in rollout

\* What the launcher serves is of its session.
Served ==
    /\ phase # "off" => session # Unset
    /\ phase \notin {"off", "exit"} /\ thread # Unset =>
         map[thread] \in {Unset, session} /\ tools[thread] \in {Unset, session}
    /\ phase \notin {"off", "exit"} /\ (done \/ resume # Unset) => thread # Unset
    /\ phase = "name" => ~done /\ resume = Unset
    /\ phase \in {"name", "list", "wait", "prompt", "serve"} =>
         thread \in 1..threads /\ tools[thread] = session
    /\ phase \in {"list", "wait", "prompt", "serve"} =>
         thread \in rollout /\ map[thread] = session

\* What is on disk stays, and what is loaded, published, prompted and joined agrees.
Mapped ==
    /\ \A t \in Thread : map[t] # Unset => t \in 1..threads /\ tools[t] \in {Unset, map[t]}
    /\ \A t \in Thread : tools[t] # Unset => t \in 1..threads
    /\ \A t \in shown \cup prompted : map[t] # Unset
    /\ \A j \in joined : map[j[1]] = j[2]

\* Parts of TypeOK.
LauncherTypes ==
    /\ launches \in 0..MaxLaunches /\ prompt \in BOOLEAN /\ disturbances \in 0..MaxDisturbance
    /\ session \in (IF launches = 0 THEN {Unset} ELSE 1..launches)
    /\ resume \in Thread \cup {Unset} /\ thread \in Thread \cup {Unset} /\ phase \in Phase
    /\ done \in BOOLEAN /\ hydrated \in BOOLEAN /\ asked \in BOOLEAN
    /\ announced \in shown \cup {Unset}

ToolTypes ==
    /\ map \in [Thread -> 0..launches] /\ tools \in [Thread -> 0..launches]
    /\ settled \subseteq Thread \X Server

ThreadTypes ==
    /\ threads \in 0..(MaxLaunches + MaxDisturbance + Forks)
    /\ rollout \subseteq 1..threads /\ prompted \subseteq rollout
    /\ shown \subseteq rollout /\ joined \subseteq rollout \X Session

HostInv == HostTypes /\ Accounted /\ OneAnswer /\ Answered /\ Served /\ Mapped

-----------------------------------------------------------------------------
(* The wire. *)

\* A message that is taken leaves the others, in their order.
LEMMA TakeFirst ==
    ASSUME wire \in Seq(Message), wire # <<>>, wire' = Tail(wire)
    PROVE  /\ Head(wire) = wire[1] /\ wire[1] \in Message /\ 1 \in 1..Len(wire)
           /\ wire' \in Seq(Message)
           /\ \A i \in 1..Len(wire') : i + 1 \in 1..Len(wire) /\ wire'[i] = wire[i + 1]
  OBVIOUS

\* A message that is sent comes after the others.
LEMMA SendLast ==
    ASSUME wire \in Seq(Message), NEW m \in Message, wire' = Append(wire, m)
    PROVE  /\ wire' \in Seq(Message)
           /\ Len(wire') \in 1..Len(wire') /\ wire'[Len(wire')] = m
           /\ \A i \in 1..Len(wire') : \/ i \in 1..Len(wire) /\ wire'[i] = wire[i]
                                       \/ i = Len(wire') /\ wire'[i] = m
           /\ \A i \in 1..Len(wire) : i \in 1..Len(wire') /\ wire'[i] = wire[i]
  OBVIOUS

\* What an answer is, and that no other answer is left when it is taken.
LEMMA Taken ==
    ASSUME HostTypes, OneAnswer, NEW kinds, Take(kinds)
    PROVE  /\ Head(wire) = wire[1] /\ Head(wire) \in Message /\ Head(wire).kind \in kinds
           /\ 1 \in 1..Len(wire) /\ On(kinds) /\ phase \in Connected
           /\ wire' \in Seq(Message)
           /\ \A i \in 1..Len(wire') : i + 1 \in 1..Len(wire) /\ wire'[i] = wire[i + 1]
           /\ kinds \subseteq Answer => ~On(Answer)' /\ phase \in Requesting /\ ~asked
           /\ UNCHANGED <<launches, session, resume, prompt, hydrated, appServer, joined, disturbances>>
  <1>1. wire \in Seq(Message) /\ wire # <<>> /\ wire' = Tail(wire)
    BY DEF Take, Heard, HostTypes
  <1>2. /\ Head(wire) = wire[1] /\ wire[1] \in Message /\ 1 \in 1..Len(wire)
        /\ wire' \in Seq(Message)
        /\ \A i \in 1..Len(wire') : i + 1 \in 1..Len(wire) /\ wire'[i] = wire[i + 1]
    BY <1>1, TakeFirst
  <1>3. wire[1].kind \in kinds /\ On(kinds) /\ phase \in Connected
    BY <1>2 DEF Take, Heard, On
  <1>4. ASSUME kinds \subseteq Answer PROVE ~On(Answer)' /\ phase \in Requesting /\ ~asked
    <2>1. On(Answer)
      BY <1>3, <1>4 DEF On
    <2>2. phase \in Requesting /\ ~asked
      BY <2>1 DEF OneAnswer
    <2>3. ASSUME NEW i \in 1..Len(wire'), wire'[i].kind \in Answer PROVE FALSE
      <3>1. i + 1 \in 1..Len(wire) /\ wire[i + 1].kind \in Answer
        BY <2>3, <1>2
      <3>2. i + 1 = 1
        BY <3>1, <1>2, <1>3, <1>4 DEF OneAnswer
      <3>. QED  BY <3>2
    <2>. QED  BY <2>2, <2>3 DEF On
  <1>. QED  BY <1>2, <1>3, <1>4 DEF Take, Heard

\* Who has joined has a thread and a session.
LEMMA Joiner ==
    ASSUME HostTypes, NEW j \in joined
    PROVE  j[1] \in 1..threads /\ j[1] \in Thread /\ j[2] \in Session /\ j[2] # Unset
  <1>1. j \in rollout \X Session
    BY DEF HostTypes
  <1>2. j[1] \in rollout /\ j[2] \in Session
    BY <1>1
  <1>3. j[1] \in 1..threads
    BY <1>2 DEF HostTypes
  <1>4. j[1] \in Thread
    BY <1>3, HostAssumption DEF HostTypes, Thread
  <1>5. j[2] # Unset
    BY <1>2, HostAssumption DEF Session, Unset
  <1>. QED  BY <1>2, <1>3, <1>4, <1>5

\* Mapping a thread to the session its tools belong to changes nobody's identity.
LEMMA Maps ==
    ASSUME HostTypes, Mapped, NEW t \in 1..threads, t \in Thread, session # Unset,
           map[t] \in {Unset, session}, tools[t] \in {Unset, session},
           map' = [map EXCEPT ![t] = session], UNCHANGED <<threads, tools, shown, prompted, joined>>
    PROVE  Mapped'
  <1>1. /\ \A u \in Thread : map'[u] = IF u = t THEN session ELSE map[u]
    BY DEF HostTypes
  <1>2. \A j \in joined' : map'[j[1]] = j[2]
    <2>. SUFFICES ASSUME NEW j \in joined PROVE map'[j[1]] = j[2]
      OBVIOUS
    <2>1. map[j[1]] = j[2] /\ j[1] \in Thread /\ j[2] # Unset
      BY Joiner DEF Mapped
    <2>. QED  BY <1>1, <2>1
  <1>3. \A u \in shown' \cup prompted' : map'[u] # Unset
    <2>. SUFFICES ASSUME NEW u \in shown \cup prompted PROVE map'[u] # Unset
      OBVIOUS
    <2>1. map[u] # Unset /\ u \in 1..threads /\ u \in Thread
      BY HostAssumption DEF Mapped, HostTypes, Thread
    <2>. QED  BY <1>1, <2>1
  <1>. QED  BY <1>1, <1>2, <1>3 DEF Mapped

\* The answer to the request that is waited for is the only one.
LEMMA Sent ==
    ASSUME HostTypes, OneAnswer, asked, NEW m \in Message, wire' = Append(wire, m)
    PROVE  /\ phase \in Requesting /\ wire' \in Seq(Message)
           /\ \A i \in 1..Len(wire') : wire'[i].kind \in Answer => wire'[i] = m /\ i = Len(wire')
  <1>1. phase \in Requesting /\ ~On(Answer) /\ wire \in Seq(Message)
    BY DEF OneAnswer, HostTypes
  <1>2. /\ wire' \in Seq(Message)
        /\ \A i \in 1..Len(wire') : \/ i \in 1..Len(wire) /\ wire'[i] = wire[i]
                                    \/ i = Len(wire') /\ wire'[i] = m
    BY <1>1, SendLast
  <1>. QED  BY <1>1, <1>2 DEF On

-----------------------------------------------------------------------------
(* The launcher. *)

\* A launcher starts with a thread that is mapped, or with one no tools belong to.
LEMMA LaunchStep ==
    ASSUME HostInv, ~OrphansResumed, NEW t \in Thread \cup {Unset}, NEW given \in BOOLEAN,
           Launch(t, given)
    PROVE  HostInv'
  <1>. USE HostAssumption DEF HostInv, Unset, Thread, Session, Server, Connected, Requesting
  <1>1. launches' = launches + 1 /\ phase' = "connect" /\ UNCHANGED <<wire, threads, disturbances>>
    BY DEF Launch, appServer
  <1>2. HostTypes'
    <2>1. launches' \in 0..MaxLaunches /\ prompt' \in BOOLEAN /\ disturbances' \in 0..MaxDisturbance
      BY <1>1 DEF HostTypes, Phase, Launch, Known, SessionOf, launcher
    <2>2. session' \in (IF launches' = 0 THEN {Unset} ELSE 1..launches')
      BY <1>1 DEF HostTypes, Served, Mapped, Answered, Phase, Launch, Known, SessionOf, launcher,
         listing, appServer, history
    <2>3. /\ resume' \in Thread \cup {Unset} /\ phase' \in Phase
         /\ thread' \in Thread \cup {Unset}
         /\ done' \in BOOLEAN /\ hydrated' \in BOOLEAN /\ asked' \in BOOLEAN
         /\ announced' \in shown' \cup {Unset}
      BY <1>1 DEF HostTypes, Served, Mapped, Answered, Phase, Launch, Known, SessionOf, launcher,
         listing, appServer, history, Message
    <2>4. wire' \in Seq(Message)
      BY <1>1 DEF HostTypes, Launch, Known, SessionOf
    <2>5. page' \in Server /\ pending' \subseteq Server /\ observed' \subseteq Server
      BY <1>1 DEF HostTypes, Launch, Known, SessionOf, listing
    <2>6. map' \in [Thread -> 0..launches']
      BY <1>1 DEF HostTypes, Launch, Known, SessionOf, appServer
    <2>7. tools' \in [Thread -> 0..launches'] /\ settled' \subseteq Thread \X Server
      BY <1>1 DEF HostTypes, Served, Mapped, Answered, Phase, Launch, Known, SessionOf, launcher,
         listing, appServer, history
    <2>8. ThreadTypes'
      BY <1>1 DEF ThreadTypes, HostTypes, Launch, Known, SessionOf, appServer
    <2>. QED  BY <2>1, <2>2, <2>3, <2>4, <2>5, <2>6, <2>7, <2>8
      DEF HostTypes, LauncherTypes, ToolTypes, ThreadTypes
  <1>3. Accounted'
    BY <1>1 DEF HostTypes, Accounted, Launch
  <1>4. OneAnswer'
    BY <1>1 DEF OneAnswer, On, Answer, Launch
  <1>5. Answered'
    BY <1>1 DEF Answered, Launch
  <1>6. Served'
    BY <1>1 DEF HostTypes, Served, Answered, Mapped, Launch, Known, SessionOf, launcher, appServer
  <1>7. Mapped'
    BY <1>1 DEF HostTypes, Mapped, Launch, Known, SessionOf, launcher, appServer, history
  <1>. QED  BY <1>2, <1>3, <1>4, <1>5, <1>6, <1>7

\* A connection starts with no answer on its way.
LEMMA ConnectStep ==
    ASSUME HostInv, ~OrphansResumed, Connect
    PROVE  HostInv'
  <1>. USE HostAssumption DEF HostInv, Unset, Thread, Session, Server, Connected, Requesting
  <1>1. HostTypes'
    <2>1. LauncherTypes'
      BY DEF LauncherTypes, HostTypes, Served, Mapped, Answered, Phase, Connect, Ask, launcher, history
    <2>2. wire' \in Seq(Message)
      BY DEF HostTypes, Connect
    <2>3. page' \in Server /\ pending' \subseteq Server /\ observed' \subseteq Server
      BY DEF HostTypes, Connect, Ask, listing
    <2>4. ToolTypes'
      BY DEF ToolTypes, HostTypes, Answered, Connect, launcher, listing, appServer
    <2>5. ThreadTypes'
      BY DEF ThreadTypes, HostTypes, Served, Connect, Ask, appServer, history
    <2>. QED  BY <2>1, <2>2, <2>3, <2>4, <2>5
      DEF HostTypes, LauncherTypes, ToolTypes, ThreadTypes
  <1>2. Accounted'
    BY DEF HostTypes, Accounted, OneAnswer, Answered, Served, On, Failure, Answer, Connect, Ask,
       launcher, appServer
  <1>3. OneAnswer'
    BY DEF OneAnswer, On, Answer, Connect, Ask
  <1>4. Answered'
    BY DEF Answered, Connect
  <1>5. Served'
    BY DEF HostTypes, Served, Connect, Ask, launcher, appServer
  <1>6. Mapped'
    BY DEF HostTypes, Mapped, Connect, launcher, appServer, history
  <1>. QED  BY <1>1, <1>2, <1>3, <1>4, <1>5, <1>6

\* The thread that was opened is of the session.
LEMMA OpenDoneStep ==
    ASSUME HostInv, ~OrphansResumed, OpenDone
    PROVE  HostInv'
  <1>. USE HostAssumption DEF HostInv, Unset, Thread, Session, Server, Connected, Requesting
  <1>1. Take({"ok"})
    BY DEF OpenDone
  <1>2. /\ Head(wire) = wire[1] /\ Head(wire) \in Message /\ Head(wire).kind \in {"ok"}
        /\ 1 \in 1..Len(wire) /\ On({"ok"}) /\ phase \in Connected
        /\ wire' \in Seq(Message)
        /\ \A i \in 1..Len(wire') : i + 1 \in 1..Len(wire) /\ wire'[i] = wire[i + 1]
        /\ {"ok"} \subseteq Answer => ~On(Answer)' /\ phase \in Requesting /\ ~asked
        /\ UNCHANGED <<launches, session, resume, prompt, hydrated, appServer, joined, disturbances>>
    BY <1>1, Taken
  <1>. DEFINE t == Head(wire).thread
  <1>3. phase = "open" /\ session # Unset /\ session \in 1..launches
    BY DEF OpenDone, Served, HostTypes
  <1>4. /\ t \in 1..threads /\ tools[t] = session /\ map[t] \in {Unset, session}
        /\ thread # Unset => t = thread /\ t \in rollout
    BY <1>2, <1>3 DEF Answered
  <1>5. t \in Thread
    BY <1>4 DEF HostTypes
  <1>6. thread' = t
    BY DEF OpenDone
  <1>7. \/ /\ phase' = "name" /\ asked' /\ UNCHANGED <<done, announced, map, shown, listing>>
           /\ ~done /\ resume = Unset
        \/ /\ done \/ resume # Unset
           /\ map' = [map EXCEPT ![t] = session] /\ t \in rollout
           /\ shown' = shown /\ phase' \in {"list", "prompt", "serve"}
    BY <1>3, <1>4 DEF OpenDone, Rolled, Recorded, Ask, Activate, Served
  <1>8. HostTypes'
    <2>1. LauncherTypes'
      BY <1>1, <1>2, <1>3, <1>4, <1>5, <1>6, <1>7 DEF LauncherTypes, HostTypes, Phase, OpenDone, Take, Heard,
         Ask, Rolled, Activate, launcher
    <2>2. wire' \in Seq(Message)
      BY <1>1, <1>2, <1>3, <1>4, <1>5, <1>6, <1>7 DEF HostTypes, OpenDone
    <2>3. page' \in Server /\ pending' \subseteq Server /\ observed' \subseteq Server
      BY <1>1, <1>2, <1>3, <1>4, <1>5, <1>6, <1>7 DEF HostTypes, Phase, OpenDone, Take, Heard,
         Ask, Rolled, Recorded, Activate, launcher, listing, appServer
    <2>4. ToolTypes'
      BY <1>1, <1>2, <1>3, <1>4, <1>5, <1>6, <1>7 DEF ToolTypes, HostTypes, OpenDone, Rolled, Recorded, appServer
    <2>5. ThreadTypes'
      BY <1>1, <1>2, <1>3, <1>4, <1>5, <1>6, <1>7 DEF ThreadTypes, HostTypes, OpenDone, Rolled, Recorded, appServer
    <2>. QED  BY <2>1, <2>2, <2>3, <2>4, <2>5
      DEF HostTypes, LauncherTypes, ToolTypes, ThreadTypes
  <1>9. Accounted'
    BY <1>1, <1>2, <1>3, <1>4, <1>5, <1>6, <1>7 DEF HostTypes, Accounted, OneAnswer, Answered,
       Served, On, Failure, Answer, OpenDone, Heard, Ask, Rolled, launcher, appServer
  <1>10. OneAnswer'
    BY <1>1, <1>2, <1>3, <1>4, <1>5, <1>6, <1>7 DEF OneAnswer, On, Answer, OpenDone, Heard,
       Ask, Rolled, Activate
  <1>11. Answered'
    BY <1>1, <1>2, <1>3, <1>4, <1>5, <1>6, <1>7 DEF Answered, On, Answer, OpenDone, Ask,
       Rolled, Activate
  <1>12. Served'
    <2>1. thread' \in 1..threads' /\ thread' # Unset /\ tools'[thread'] = session' /\ session' # Unset
      BY <1>2, <1>3, <1>4, <1>6 DEF appServer
    <2>2. CASE phase' = "name" /\ UNCHANGED <<done, map>> /\ ~done /\ resume = Unset
      BY <1>2, <1>4, <1>6, <2>1, <2>2 DEF Served, appServer
    <2>3. CASE /\ map' = [map EXCEPT ![t] = session] /\ t \in rollout
               /\ phase' \in {"list", "prompt", "serve"}
      <3>1. map'[t] = session
        BY <1>5, <2>3 DEF HostTypes
      <3>. QED  BY <1>2, <1>6, <2>1, <2>3, <3>1 DEF Served, appServer
    <2>. QED  BY <1>7, <2>2, <2>3
  <1>13. Mapped'
    <2>1. CASE map' = map /\ shown' = shown
      BY <1>2, <2>1 DEF Mapped, appServer
    <2>2. CASE map' = [map EXCEPT ![t] = session] /\ shown' = shown
      BY <1>2, <1>3, <1>4, <1>5, <2>2, Maps DEF appServer
    <2>. QED  BY <1>7, <2>1, <2>2
  <1>. QED  BY <1>8, <1>9, <1>10, <1>11, <1>12, <1>13

\* A thread is mapped once it has its rollout.
LEMMA NameDoneStep ==
    ASSUME HostInv, ~OrphansResumed, NameDone
    PROVE  HostInv'
  <1>. USE HostAssumption DEF HostInv, Unset, Thread, Session, Server, Connected, Requesting
  <1>1. Take({"ok"})
    BY DEF NameDone
  <1>2. /\ Head(wire) = wire[1] /\ Head(wire) \in Message /\ Head(wire).kind \in {"ok"}
        /\ 1 \in 1..Len(wire) /\ On({"ok"}) /\ phase \in Connected
        /\ wire' \in Seq(Message)
        /\ \A i \in 1..Len(wire') : i + 1 \in 1..Len(wire) /\ wire'[i] = wire[i + 1]
        /\ {"ok"} \subseteq Answer => ~On(Answer)' /\ phase \in Requesting /\ ~asked
        /\ UNCHANGED <<launches, session, resume, prompt, hydrated, appServer, joined, disturbances>>
    BY <1>1, Taken
  <1>3. /\ phase = "name" /\ thread \in rollout /\ thread \in 1..threads /\ tools[thread] = session
        /\ map[thread] \in {Unset, session} /\ session # Unset
    BY <1>2 DEF NameDone, Answered, Served
  <1>4. map' = [map EXCEPT ![thread] = session] /\ UNCHANGED <<thread, shown>>
    BY DEF NameDone, Rolled, Recorded
  <1>5. HostTypes'
    <2>1. LauncherTypes'
      BY <1>1, <1>2, <1>3, <1>4 DEF LauncherTypes, HostTypes, Phase, NameDone, Take, Heard, Ask, Rolled,
         Activate, launcher
    <2>2. wire' \in Seq(Message)
      BY <1>1, <1>2, <1>3, <1>4 DEF HostTypes, NameDone
    <2>3. page' \in Server /\ pending' \subseteq Server /\ observed' \subseteq Server
      BY <1>1, <1>2, <1>3, <1>4 DEF HostTypes, Phase, NameDone, Take, Heard, Ask, Rolled,
         Recorded, Activate, launcher, listing, appServer
    <2>4. ToolTypes'
      BY <1>1, <1>2, <1>3, <1>4 DEF ToolTypes, HostTypes, NameDone, Take, Heard, Rolled, Recorded, appServer
    <2>5. ThreadTypes'
      BY <1>1, <1>2, <1>3, <1>4 DEF ThreadTypes, HostTypes, NameDone, Rolled, Recorded, appServer
    <2>. QED  BY <2>1, <2>2, <2>3, <2>4, <2>5
      DEF HostTypes, LauncherTypes, ToolTypes, ThreadTypes
  <1>6. Accounted'
    BY <1>1, <1>2, <1>3, <1>4 DEF HostTypes, Accounted, OneAnswer, Answered, Served, On, Failure,
       Answer, NameDone, Heard, Ask, Rolled, launcher, appServer
  <1>7. OneAnswer'
    BY <1>1, <1>2, <1>3, <1>4 DEF OneAnswer, On, Answer, NameDone, Heard, Ask, Rolled, Activate
  <1>8. Answered'
    BY <1>1, <1>2, <1>3, <1>4 DEF Answered, On, Answer, NameDone, Ask, Rolled, Activate
  <1>9. Served'
    <2>1. /\ phase' \in {"serve", "prompt", "list"}
          /\ UNCHANGED <<session, resume, thread, threads, tools, rollout>>
      BY <1>2 DEF NameDone, Rolled, Activate, Ask, appServer
    <2>2. /\ thread # Unset /\ thread \in Thread
          /\ map' = [map EXCEPT ![thread] = session] /\ map'[thread] = session
      BY <1>3, <1>4 DEF HostTypes
    <2>. QED  BY <1>3, <2>1, <2>2 DEF Served
  <1>10. Mapped'
    <2>1. thread \in Thread
      BY <1>3 DEF HostTypes
    <2>. QED  BY <1>2, <1>3, <1>4, <2>1, Maps DEF appServer
  <1>. QED  BY <1>5, <1>6, <1>7, <1>8, <1>9, <1>10

\* What is published is mapped.
LEMMA ListDoneStep ==
    ASSUME HostInv, ~OrphansResumed, ListDone
    PROVE  HostInv'
  <1>. USE HostAssumption DEF HostInv, Unset, Thread, Session, Server, Connected, Requesting
  <1>1. Take({"page"})
    BY DEF ListDone
  <1>2. /\ Head(wire) = wire[1] /\ Head(wire) \in Message /\ Head(wire).kind \in {"page"}
        /\ 1 \in 1..Len(wire) /\ On({"page"}) /\ phase \in Connected
        /\ wire' \in Seq(Message)
        /\ \A i \in 1..Len(wire') : i + 1 \in 1..Len(wire) /\ wire'[i] = wire[i + 1]
        /\ {"page"} \subseteq Answer => ~On(Answer)' /\ phase \in Requesting /\ ~asked
        /\ UNCHANGED <<launches, session, resume, prompt, hydrated, appServer, joined, disturbances>>
    BY <1>1, Taken
  <1>3. /\ phase = "list" /\ thread \in rollout /\ thread \in 1..threads
        /\ map[thread] = session /\ tools[thread] = session /\ session # Unset
    BY <1>2 DEF OneAnswer, On, Served, HostTypes
  <1>4. Head(wire).servers \subseteq Server
    BY <1>2 DEF Message
  <1>5. HostTypes'
    <2>1. LauncherTypes'
      BY <1>1, <1>2, <1>3, <1>4 DEF LauncherTypes, HostTypes, Phase, ListDone, Take, Heard, Ask, Announce,
         Activate, Unlisted, launcher
    <2>2. wire' \in Seq(Message)
      BY <1>1, <1>2, <1>3, <1>4 DEF HostTypes, ListDone
    <2>3. page' \in Server /\ pending' \subseteq Server /\ observed' \subseteq Server
      <3>1. page' \in Server
        BY DEF HostTypes, ListDone, Announce, Unlisted
      <3>2. pending' \subseteq Server
        BY <1>4 DEF HostTypes, ListDone, Listed, Announce, Unlisted
      <3>3. observed' \subseteq Server
        BY DEF HostTypes, ListDone, Announce, Unlisted
      <3>. QED  BY <3>1, <3>2, <3>3
    <2>4. ToolTypes'
      BY <1>1, <1>2, <1>3, <1>4 DEF ToolTypes, HostTypes, ListDone, Announce, appServer
    <2>5. ThreadTypes'
      BY <1>1, <1>2, <1>3, <1>4 DEF ThreadTypes, HostTypes, ListDone, Announce, appServer
    <2>. QED  BY <2>1, <2>2, <2>3, <2>4, <2>5
      DEF HostTypes, LauncherTypes, ToolTypes, ThreadTypes
  <1>6. Accounted'
    BY <1>1, <1>2, <1>3, <1>4 DEF HostTypes, Accounted, OneAnswer, Answered, Served, On, Failure,
       Answer, ListDone, Heard, Ask, Announce, launcher, appServer
  <1>7. OneAnswer'
    BY <1>1, <1>2, <1>3, <1>4 DEF OneAnswer, On, Answer, ListDone, Heard, Ask, Announce,
       Activate
  <1>8. Answered'
    BY <1>1, <1>2, <1>3, <1>4 DEF Answered, On, Answer, ListDone, Ask, Announce, Activate
  <1>9. Served'
    BY <1>1, <1>2, <1>3, <1>4 DEF HostTypes, Served, ListDone, Ask, Announce, Activate, launcher,
       appServer
  <1>10. Mapped'
    BY <1>1, <1>2, <1>3, <1>4 DEF HostTypes, Mapped, ListDone, Announce, launcher, appServer, history
  <1>. QED  BY <1>5, <1>6, <1>7, <1>8, <1>9, <1>10

\* So is what is published at once.
LEMMA ListUnsupportedStep ==
    ASSUME HostInv, ~OrphansResumed, ListUnsupported
    PROVE  HostInv'
  <1>. USE HostAssumption DEF HostInv, Unset, Thread, Session, Server, Connected, Requesting
  <1>1. Take({"unsupported"})
    BY DEF ListUnsupported
  <1>2. /\ Head(wire) = wire[1] /\ Head(wire) \in Message /\ Head(wire).kind \in {"unsupported"}
        /\ 1 \in 1..Len(wire) /\ On({"unsupported"}) /\ phase \in Connected
        /\ wire' \in Seq(Message)
        /\ \A i \in 1..Len(wire') : i + 1 \in 1..Len(wire) /\ wire'[i] = wire[i + 1]
        /\ {"unsupported"} \subseteq Answer => ~On(Answer)' /\ phase \in Requesting /\ ~asked
        /\ UNCHANGED <<launches, session, resume, prompt, hydrated, appServer, joined, disturbances>>
    BY <1>1, Taken
  <1>3. /\ phase = "list" /\ thread \in rollout /\ thread \in 1..threads
        /\ map[thread] = session /\ tools[thread] = session /\ session # Unset
    BY <1>2 DEF OneAnswer, On, Served, HostTypes
  <1>4. HostTypes'
    <2>1. LauncherTypes'
      BY <1>1, <1>2, <1>3 DEF LauncherTypes, HostTypes, Phase, ListUnsupported, Take, Heard, Ask, Announce,
         Activate, Unlisted, launcher
    <2>2. wire' \in Seq(Message)
      BY <1>1, <1>2, <1>3 DEF HostTypes, ListUnsupported
    <2>3. page' \in Server /\ pending' \subseteq Server /\ observed' \subseteq Server
      BY <1>1, <1>2, <1>3 DEF HostTypes, ListUnsupported, Take, Heard, Ask, Announce, Unlisted
    <2>4. ToolTypes'
      BY <1>1, <1>2, <1>3 DEF ToolTypes, HostTypes, ListUnsupported, Announce, appServer
    <2>5. ThreadTypes'
      BY <1>1, <1>2, <1>3 DEF ThreadTypes, HostTypes, ListUnsupported, Announce, appServer
    <2>. QED  BY <2>1, <2>2, <2>3, <2>4, <2>5
      DEF HostTypes, LauncherTypes, ToolTypes, ThreadTypes
  <1>5. Accounted'
    BY <1>1, <1>2, <1>3 DEF HostTypes, Accounted, OneAnswer, Answered, Served, On, Failure,
       Answer, ListUnsupported, Heard, Ask, Announce, launcher, appServer
  <1>6. OneAnswer'
    BY <1>1, <1>2, <1>3 DEF OneAnswer, On, Answer, ListUnsupported, Heard, Ask, Announce,
       Activate
  <1>7. Answered'
    BY <1>1, <1>2, <1>3 DEF Answered, On, Answer, ListUnsupported, Ask, Announce, Activate
  <1>8. Served'
    BY <1>1, <1>2, <1>3 DEF HostTypes, Served, ListUnsupported, Ask, Announce, Activate,
       launcher, appServer
  <1>9. Mapped'
    BY <1>1, <1>2, <1>3 DEF HostTypes, Mapped, ListUnsupported, Announce, launcher, appServer, history
  <1>. QED  BY <1>4, <1>5, <1>6, <1>7, <1>8, <1>9

\* The prompt is accepted.
LEMMA PromptDoneStep ==
    ASSUME HostInv, ~OrphansResumed, PromptDone
    PROVE  HostInv'
  <1>. USE HostAssumption DEF HostInv, Unset, Thread, Session, Server, Connected, Requesting
  <1>1. Take({"ok"})
    BY DEF PromptDone
  <1>2. /\ Head(wire) = wire[1] /\ Head(wire) \in Message /\ Head(wire).kind \in {"ok"}
        /\ 1 \in 1..Len(wire) /\ On({"ok"}) /\ phase \in Connected
        /\ wire' \in Seq(Message)
        /\ \A i \in 1..Len(wire') : i + 1 \in 1..Len(wire) /\ wire'[i] = wire[i + 1]
        /\ {"ok"} \subseteq Answer => ~On(Answer)' /\ phase \in Requesting /\ ~asked
        /\ UNCHANGED <<launches, session, resume, prompt, hydrated, appServer, joined, disturbances>>
    BY <1>1, Taken
  <1>3. HostTypes'
    <2>1. LauncherTypes'
      BY <1>1, <1>2 DEF LauncherTypes, HostTypes, Phase, PromptDone, Take, Heard, launcher
    <2>2. wire' \in Seq(Message)
      BY <1>1, <1>2 DEF HostTypes, PromptDone
    <2>3. page' \in Server /\ pending' \subseteq Server /\ observed' \subseteq Server
      BY <1>1, <1>2 DEF HostTypes, PromptDone, Take, Heard, listing
    <2>4. ToolTypes'
      BY <1>1, <1>2 DEF ToolTypes, HostTypes, PromptDone, appServer
    <2>5. ThreadTypes'
      BY <1>1, <1>2 DEF ThreadTypes, HostTypes, PromptDone, appServer
    <2>. QED  BY <2>1, <2>2, <2>3, <2>4, <2>5
      DEF HostTypes, LauncherTypes, ToolTypes, ThreadTypes
  <1>4. Accounted'
    BY <1>1, <1>2 DEF HostTypes, Accounted, OneAnswer, Answered, Served, On, Failure, Answer,
       PromptDone, Heard, launcher, appServer
  <1>5. OneAnswer'
    BY <1>1, <1>2 DEF OneAnswer, On, Answer, PromptDone, Heard
  <1>6. Answered'
    BY <1>1, <1>2 DEF Answered, PromptDone
  <1>7. Served'
    BY <1>1, <1>2 DEF HostTypes, Served, PromptDone, launcher, appServer
  <1>8. Mapped'
    BY <1>1, <1>2 DEF HostTypes, Mapped, PromptDone, launcher, appServer, history
  <1>. QED  BY <1>3, <1>4, <1>5, <1>6, <1>7, <1>8

\* A status may be the last that was waited for.
LEMMA StatusUpdatedStep ==
    ASSUME HostInv, ~OrphansResumed, StatusUpdated
    PROVE  HostInv'
  <1>. USE HostAssumption DEF HostInv, Unset, Thread, Session, Server, Connected, Requesting
  <1>1. Take({"status"})
    BY DEF StatusUpdated
  <1>2. /\ Head(wire) = wire[1] /\ Head(wire) \in Message /\ Head(wire).kind \in {"status"}
        /\ 1 \in 1..Len(wire) /\ On({"status"}) /\ phase \in Connected
        /\ wire' \in Seq(Message)
        /\ \A i \in 1..Len(wire') : i + 1 \in 1..Len(wire) /\ wire'[i] = wire[i + 1]
        /\ {"status"} \subseteq Answer => ~On(Answer)' /\ phase \in Requesting /\ ~asked
        /\ UNCHANGED <<launches, session, resume, prompt, hydrated, appServer, joined, disturbances>>
    BY <1>1, Taken
  <1>3. PICK n \in Head(wire).servers :
           \/ phase = "wait" /\ Announce
           \/ /\ observed' = Observed(n)
              /\ UNCHANGED <<phase, asked, done, announced, shown, page, pending>>
    BY DEF StatusUpdated
  <1>4. n \in Server /\ UNCHANGED <<thread, map>>
    BY <1>2 DEF StatusUpdated, Message
  <1>5. /\ On(Answer)' => On(Answer)
        /\ On(Failure)' => On(Failure)
        /\ On({"ok"})' => On({"ok"})
        /\ On({"page", "unsupported"})' => On({"page", "unsupported"})
    BY <1>2 DEF On
  <1>6. phase = "wait" =>
          /\ thread \in rollout /\ thread \in 1..threads
          /\ map[thread] = session /\ tools[thread] = session /\ session # Unset /\ ~On(Answer)
    BY DEF Served, OneAnswer, HostTypes
  <1>7. HostTypes'
    <2>1. LauncherTypes'
      BY <1>1, <1>2, <1>3, <1>4, <1>5, <1>6 DEF LauncherTypes, HostTypes, Phase, Take, Heard, Ask, Announce,
         Activate, Unlisted, launcher
    <2>2. wire' \in Seq(Message)
      BY <1>1, <1>2, <1>3, <1>4, <1>5, <1>6 DEF HostTypes
    <2>3. page' \in Server /\ pending' \subseteq Server /\ observed' \subseteq Server
      <3>1. page' \in Server
        BY <1>3 DEF HostTypes, Announce, Unlisted
      <3>2. pending' \subseteq Server
        BY <1>3 DEF HostTypes, Announce, Unlisted
      <3>3. observed' \subseteq Server
        BY <1>3, <1>4 DEF HostTypes, Announce, Unlisted, Observed
      <3>. QED  BY <3>1, <3>2, <3>3
    <2>4. ToolTypes'
      BY <1>1, <1>2, <1>3, <1>4, <1>5, <1>6 DEF ToolTypes, HostTypes, Announce, appServer
    <2>5. ThreadTypes'
      BY <1>1, <1>2, <1>3, <1>4, <1>5, <1>6 DEF ThreadTypes, HostTypes, Announce, appServer
    <2>. QED  BY <2>1, <2>2, <2>3, <2>4, <2>5
      DEF HostTypes, LauncherTypes, ToolTypes, ThreadTypes
  <1>8. Accounted'
    <2>1. CASE phase = "wait" /\ Announce
      <3>1. ~On(Failure)'
        BY <1>5, <1>6, <2>1 DEF On, Answer, Failure
      <3>2. phase' \notin {"connect", "backoff", "open"}
        BY <2>1 DEF Announce, Activate, Ask
      <3>. QED  BY <1>2, <3>1, <3>2 DEF Accounted, appServer
    <2>2. CASE UNCHANGED phase
      <3>1. phase \in {"connect", "backoff", "open"} => phase = "open"
        BY <1>2
      <3>2. On({"ok"}) => On({"ok"})'
        <4>. SUFFICES ASSUME NEW i \in 1..Len(wire), wire[i].kind = "ok" PROVE On({"ok"})'
          BY DEF On
        <4>1. wire \in Seq(Message) /\ wire # <<>> /\ wire' = Tail(wire)
          BY <1>1 DEF Take, Heard, HostTypes
        <4>2. i # 1 /\ Len(wire') = Len(wire) - 1
          BY <1>2, <4>1
        <4>3. i - 1 \in 1..Len(wire') /\ wire'[i - 1] = wire[i]
          BY <1>2, <4>1, <4>2
        <4>. QED  BY <4>3 DEF On
      <3>. QED  BY <1>2, <1>4, <1>5, <2>2, <3>2 DEF Accounted, appServer
    <2>. QED  BY <1>3, <2>1, <2>2
  <1>9. OneAnswer'
    <2>1. CASE phase = "wait" /\ Announce
      <3>1. ~On(Answer)' /\ ~On({"page", "unsupported"})'
        BY <1>5, <1>6, <2>1 DEF On, Answer
      <3>2. asked' => phase' \in Requesting
        BY <2>1 DEF Announce, Activate, Ask
      <3>. QED  BY <3>1, <3>2 DEF OneAnswer, On
    <2>2. CASE UNCHANGED <<phase, asked>>
      <3>1. /\ asked' => phase' \in Requesting
            /\ asked' \/ phase' \notin Requesting => ~On(Answer)'
            /\ On({"page", "unsupported"})' => phase' = "list"
        BY <1>5, <2>2 DEF OneAnswer
      <3>2. \A i, j \in 1..Len(wire') :
               wire'[i].kind \in Answer /\ wire'[j].kind \in Answer => i = j
        <4>1. SUFFICES ASSUME NEW i \in 1..Len(wire'), NEW j \in 1..Len(wire'),
                              wire'[i].kind \in Answer, wire'[j].kind \in Answer
                       PROVE  i = j
          OBVIOUS
        <4>2. i + 1 = j + 1
          BY <1>2, <4>1 DEF OneAnswer
        <4>. QED  BY <4>2
      <3>. QED  BY <3>1, <3>2 DEF OneAnswer
    <2>. QED  BY <1>3, <2>1, <2>2
  <1>10. Answered'
    <2>1. CASE phase = "wait" /\ Announce
      BY <1>5, <1>6, <2>1 DEF Answered, On, Answer
    <2>2. CASE UNCHANGED phase
      BY <1>2, <1>4, <2>2 DEF Answered, appServer
    <2>. QED  BY <1>3, <2>1, <2>2
  <1>11. Served'
    <2>1. CASE phase = "wait" /\ Announce
      <3>1. UNCHANGED <<session, resume, map, thread, threads, rollout, tools>>
        BY <1>2, <1>4 DEF appServer
      <3>2. phase' \in {"prompt", "serve"}
        BY <2>1 DEF Announce, Activate, Ask
      <3>. QED  BY <1>6, <2>1, <3>1, <3>2 DEF Served
    <2>2. CASE UNCHANGED <<phase, done>>
      BY <1>2, <1>4, <2>2 DEF Served, appServer
    <2>. QED  BY <1>3, <2>1, <2>2
  <1>12. Mapped'
    BY <1>1, <1>2, <1>3, <1>4, <1>5, <1>6 DEF HostTypes, Mapped, Announce, Observed, launcher,
       appServer, history
  <1>. QED  BY <1>7, <1>8, <1>9, <1>10, <1>11, <1>12

\* A launcher without a thread that works has one left to make.
LEMMA RequestFailsStep ==
    ASSUME HostInv, ~OrphansResumed, RequestFails
    PROVE  HostInv'
  <1>. USE HostAssumption DEF HostInv, Unset, Thread, Session, Server, Connected, Requesting
  <1>1. /\ wire # <<>> /\ Head(wire).kind \in Failure
        /\ UNCHANGED <<launches, session, resume, prompt, hydrated, appServer, joined, disturbances>>
    BY DEF RequestFails, Heard, Failure
  <1>2. On(Failure)
    BY <1>1, TakeFirst DEF On, HostTypes
  <1>3. wire' = <<>> /\ phase' \in {"backoff", "exit"}
    BY DEF RequestFails, GiveUp
  <1>4. HostTypes'
    <2>1. LauncherTypes'
      BY <1>1, <1>2, <1>3 DEF LauncherTypes, HostTypes, Phase, RequestFails, Fatal, GiveUp, Unlisted, Heard,
         launcher
    <2>2. wire' \in Seq(Message)
      BY <1>1, <1>2, <1>3 DEF HostTypes, RequestFails, GiveUp
    <2>3. page' \in Server /\ pending' \subseteq Server /\ observed' \subseteq Server
      <3>1. CASE Unlisted
        BY <3>1 DEF Unlisted
      <3>2. CASE UNCHANGED listing
        BY <3>2 DEF HostTypes, listing
      <3>. QED  BY <3>1, <3>2 DEF RequestFails, GiveUp
    <2>4. ToolTypes'
      BY <1>1, <1>2, <1>3 DEF ToolTypes, HostTypes, RequestFails, appServer
    <2>5. ThreadTypes'
      BY <1>1, <1>2, <1>3 DEF ThreadTypes, HostTypes, RequestFails, appServer
    <2>. QED  BY <2>1, <2>2, <2>3, <2>4, <2>5
      DEF HostTypes, LauncherTypes, ToolTypes, ThreadTypes
  <1>5. Accounted'
    BY <1>1, <1>2, <1>3 DEF HostTypes, Accounted, Answered, Served, RequestFails, GiveUp, Heard,
       launcher, appServer
  <1>6. OneAnswer'
    BY <1>1, <1>2, <1>3 DEF OneAnswer, On, Answer, RequestFails, GiveUp, Heard
  <1>7. Answered'
    BY <1>1, <1>2, <1>3 DEF Answered, RequestFails, GiveUp
  <1>8. Served'
    BY <1>1, <1>2, <1>3 DEF HostTypes, Served, Answered, Mapped, RequestFails, Fatal, GiveUp,
       Unlisted, Heard, launcher, appServer
  <1>9. Mapped'
    BY <1>1, <1>2, <1>3 DEF HostTypes, Mapped, RequestFails, launcher, appServer, history
  <1>. QED  BY <1>4, <1>5, <1>6, <1>7, <1>8, <1>9

\* The wait is over.
LEMMA BackoffStep ==
    ASSUME HostInv, ~OrphansResumed, Backoff
    PROVE  HostInv'
  <1>. USE HostAssumption DEF HostInv, Unset, Thread, Session, Server, Connected, Requesting
  <1>1. HostTypes'
    BY DEF HostTypes, Served, Mapped, Answered, Phase, Backoff, launcher, listing, appServer, history
  <1>2. Accounted'
    BY DEF HostTypes, Accounted, OneAnswer, Answered, Served, On, Failure, Answer, Backoff,
       launcher, appServer
  <1>3. OneAnswer'
    BY DEF OneAnswer, On, Answer, Backoff
  <1>4. Answered'
    BY DEF Answered, Backoff
  <1>5. Served'
    BY DEF HostTypes, Served, Backoff, launcher, appServer
  <1>6. Mapped'
    BY DEF HostTypes, Mapped, Backoff, launcher, appServer, history
  <1>. QED  BY <1>1, <1>2, <1>3, <1>4, <1>5, <1>6

\* The identity is loaded.
LEMMA HydrateStep ==
    ASSUME HostInv, ~OrphansResumed, Hydrate
    PROVE  HostInv'
  <1>. USE HostAssumption DEF HostInv, Unset, Thread, Session, Server, Connected, Requesting
  <1>1. HostTypes'
    BY DEF HostTypes, Served, Mapped, Answered, Phase, Hydrate, launcher, listing, appServer, history
  <1>2. Accounted'
    BY DEF HostTypes, Accounted, OneAnswer, Answered, Served, On, Failure, Answer, Hydrate,
       launcher, appServer
  <1>3. OneAnswer'
    BY DEF OneAnswer, On, Answer, Hydrate
  <1>4. Answered'
    BY DEF HostTypes, Answered, OneAnswer, Served, Hydrate, launcher, appServer
  <1>5. Served'
    BY DEF HostTypes, Served, Hydrate, launcher, appServer
  <1>6. Mapped'
    BY DEF HostTypes, Mapped, Hydrate, launcher, appServer, history
  <1>. QED  BY <1>1, <1>2, <1>3, <1>4, <1>5, <1>6

\* The launcher ends.
LEMMA EndStep ==
    ASSUME HostInv, ~OrphansResumed, End
    PROVE  HostInv'
  <1>. USE HostAssumption DEF HostInv, Unset, Thread, Session, Server, Connected, Requesting
  <1>1. HostTypes'
    <2>1. launches' \in 0..MaxLaunches /\ prompt' \in BOOLEAN /\ disturbances' \in 0..MaxDisturbance
      BY DEF HostTypes, Phase, End, Disturb, Unlisted, launcher
    <2>2. session' \in (IF launches' = 0 THEN {Unset} ELSE 1..launches')
      BY DEF HostTypes, Served, Mapped, Answered, Phase, End, Disturb, Unlisted, launcher,
         listing, appServer, history
    <2>3. /\ resume' \in Thread \cup {Unset} /\ phase' \in Phase
         /\ thread' \in Thread \cup {Unset}
         /\ done' \in BOOLEAN /\ hydrated' \in BOOLEAN /\ asked' \in BOOLEAN
         /\ announced' \in shown' \cup {Unset}
      BY DEF HostTypes, Served, Mapped, Answered, Phase, End, Disturb, Unlisted, launcher,
         listing, appServer, history, Message
    <2>4. wire' \in Seq(Message)
      BY DEF HostTypes, End, Disturb
    <2>5. page' \in Server /\ pending' \subseteq Server /\ observed' \subseteq Server
      BY DEF HostTypes, End, Disturb, Unlisted
    <2>6. map' \in [Thread -> 0..launches']
      BY DEF HostTypes, Answered, End, launcher, listing, appServer
    <2>7. tools' \in [Thread -> 0..launches'] /\ settled' \subseteq Thread \X Server
      BY DEF HostTypes, Served, Mapped, Answered, Phase, End, Disturb, Unlisted, launcher,
         listing, appServer, history
    <2>8. ThreadTypes'
      BY DEF ThreadTypes, HostTypes, Served, End, appServer, history
    <2>. QED  BY <2>1, <2>2, <2>3, <2>4, <2>5, <2>6, <2>7, <2>8
      DEF HostTypes, LauncherTypes, ToolTypes, ThreadTypes
  <1>2. Accounted'
    BY DEF HostTypes, Accounted, Answered, Served, End, Disturb, launcher, appServer
  <1>3. OneAnswer'
    BY DEF OneAnswer, On, Answer, End
  <1>4. Answered'
    BY DEF Answered, End
  <1>5. Served'
    BY DEF HostTypes, Served, End, launcher, appServer
  <1>6. Mapped'
    BY DEF HostTypes, Mapped, End, launcher, appServer, history
  <1>. QED  BY <1>1, <1>2, <1>3, <1>4, <1>5, <1>6

\* The connection is lost: a thread that was only named may be.
LEMMA DropStep ==
    ASSUME HostInv, ~OrphansResumed, Disconnect
    PROVE  HostInv'
  <1>. USE HostAssumption DEF HostInv, Unset, Thread, Session, Server, Connected, Requesting
  <1>1. HostTypes'
    <2>1. launches' \in 0..MaxLaunches /\ prompt' \in BOOLEAN /\ disturbances' \in 0..MaxDisturbance
      BY DEF HostTypes, Phase, Disconnect, Disturb, GiveUp, Unlisted, launcher
    <2>2. session' \in (IF launches' = 0 THEN {Unset} ELSE 1..launches')
      BY DEF HostTypes, Served, Mapped, Answered, Phase, Disconnect, Disturb, GiveUp, Unlisted,
         launcher, listing, appServer, history
    <2>3. /\ resume' \in Thread \cup {Unset} /\ phase' \in Phase
         /\ thread' \in Thread \cup {Unset}
         /\ done' \in BOOLEAN /\ hydrated' \in BOOLEAN /\ asked' \in BOOLEAN
         /\ announced' \in shown' \cup {Unset}
      BY DEF HostTypes, Served, Mapped, Answered, Phase, Disconnect, Disturb, GiveUp, Unlisted,
         launcher, listing, appServer, history, Message
    <2>4. wire' \in Seq(Message)
      BY DEF HostTypes, Disconnect, Disturb, GiveUp
    <2>5. page' \in Server /\ pending' \subseteq Server /\ observed' \subseteq Server
      BY DEF HostTypes, Disconnect, Disturb, GiveUp, Unlisted
    <2>6. map' \in [Thread -> 0..launches']
      BY DEF HostTypes, Answered, Disconnect, launcher, listing, appServer
    <2>7. tools' \in [Thread -> 0..launches'] /\ settled' \subseteq Thread \X Server
      BY DEF HostTypes, Served, Mapped, Answered, Phase, Disconnect, Disturb, GiveUp, Unlisted,
         launcher, listing, appServer, history
    <2>8. ThreadTypes'
      BY DEF ThreadTypes, HostTypes, Served, Disconnect, appServer, history
    <2>. QED  BY <2>1, <2>2, <2>3, <2>4, <2>5, <2>6, <2>7, <2>8
      DEF HostTypes, LauncherTypes, ToolTypes, ThreadTypes
  <1>2. Accounted'
    BY DEF HostTypes, Accounted, Answered, Served, Disconnect, Disturb, GiveUp, launcher, appServer
  <1>3. OneAnswer'
    BY DEF OneAnswer, On, Answer, Disconnect, GiveUp
  <1>4. Answered'
    BY DEF Answered, Disconnect, GiveUp
  <1>5. Served'
    BY DEF HostTypes, Served, Disconnect, GiveUp, launcher, appServer
  <1>6. Mapped'
    BY DEF HostTypes, Mapped, Disconnect, launcher, appServer, history
  <1>. QED  BY <1>1, <1>2, <1>3, <1>4, <1>5, <1>6

\* What the app-server had loaded is gone.
LEMMA RestartStep ==
    ASSUME HostInv, ~OrphansResumed, Restart
    PROVE  HostInv'
  <1>. USE HostAssumption DEF HostInv, Unset, Thread, Session, Server, Connected, Requesting
  <1>1. \/ phase \in Connected /\ GiveUp
        \/ phase \notin Connected /\ UNCHANGED <<phase, asked, wire, thread, listing>>
    BY DEF Restart
  <1>2. HostTypes'
    <2>1. launches' \in 0..MaxLaunches /\ prompt' \in BOOLEAN /\ disturbances' \in 0..MaxDisturbance
      BY <1>1 DEF HostTypes, Phase, Restart, Disturb, GiveUp, Unlisted, launcher
    <2>2. session' \in (IF launches' = 0 THEN {Unset} ELSE 1..launches')
      BY <1>1 DEF HostTypes, Served, Mapped, Answered, Phase, Restart, Disturb, GiveUp, Unlisted,
         launcher, listing, appServer, history
    <2>3. /\ resume' \in Thread \cup {Unset} /\ phase' \in Phase
         /\ thread' \in Thread \cup {Unset}
         /\ done' \in BOOLEAN /\ hydrated' \in BOOLEAN /\ asked' \in BOOLEAN
         /\ announced' \in shown' \cup {Unset}
      BY <1>1 DEF HostTypes, Served, Mapped, Answered, Phase, Restart, Disturb, GiveUp, Unlisted,
         launcher, listing, appServer, history, Message
    <2>4. wire' \in Seq(Message)
      <3>1. CASE wire' = <<>>
        BY <3>1
      <3>2. CASE wire' = wire
        BY <3>2 DEF HostTypes
      <3>. QED  BY <1>1, <3>1, <3>2 DEF GiveUp
    <2>5. page' \in Server /\ pending' \subseteq Server /\ observed' \subseteq Server
      <3>1. CASE Unlisted
        BY <3>1 DEF Unlisted
      <3>2. CASE UNCHANGED listing
        BY <3>2 DEF HostTypes, listing
      <3>. QED  BY <1>1, <3>1, <3>2 DEF GiveUp
    <2>6. map' \in [Thread -> 0..launches']
      BY <1>1 DEF HostTypes, Answered, Restart, launcher, listing, appServer
    <2>7. tools' \in [Thread -> 0..launches'] /\ settled' \subseteq Thread \X Server
      BY <1>1 DEF HostTypes, Served, Mapped, Answered, Phase, Restart, Disturb, GiveUp, Unlisted,
         launcher, listing, appServer, history
    <2>8. ThreadTypes'
      BY <1>1 DEF ThreadTypes, HostTypes, Served, Restart, appServer, history
    <2>. QED  BY <2>1, <2>2, <2>3, <2>4, <2>5, <2>6, <2>7, <2>8
      DEF HostTypes, LauncherTypes, ToolTypes, ThreadTypes
  <1>3. Accounted'
    BY <1>1 DEF HostTypes, Accounted, Answered, Served, Restart, Disturb, GiveUp, launcher, appServer
  <1>4. OneAnswer'
    <2>1. CASE GiveUp
      BY <2>1 DEF OneAnswer, On, GiveUp
    <2>2. CASE UNCHANGED <<phase, asked, wire>>
      BY <2>2 DEF OneAnswer, On
    <2>. QED  BY <1>1, <2>1, <2>2
  <1>5. Answered'
    BY <1>1 DEF Answered, Restart, GiveUp
  <1>6. Served'
    BY <1>1 DEF HostTypes, Served, Restart, GiveUp, launcher, appServer
  <1>7. Mapped'
    BY <1>1 DEF HostTypes, Mapped, Restart, launcher, appServer, history
  <1>. QED  BY <1>2, <1>3, <1>4, <1>5, <1>6, <1>7

\* A thread is made for a launcher that had none.
LEMMA StartStep ==
    ASSUME HostInv, ~OrphansResumed, StartThread, UNCHANGED disturbances, asked, asked' = FALSE,
           UNCHANGED <<launcher, phase, thread, listing, map, history>>
    PROVE  HostInv'
  <1>. USE HostAssumption DEF HostInv, Unset, Thread, Session, Server, Connected, Requesting
  <1>. DEFINE m == [kind |-> "ok", thread |-> threads', servers |-> {}]
  <1>1. ~On(Answer) /\ phase = "open" /\ thread = Unset /\ threads' = threads + 1
    BY DEF OneAnswer, StartThread
  <1>2. threads < Forks + launches + disturbances
    <2>1. thread \notin rollout /\ ~On({"ok"})
      BY <1>1 DEF HostTypes, On, Answer
    <2>. QED  BY <1>1, <2>1 DEF Accounted
  <1>3. /\ threads' \in Thread /\ threads' <= MaxLaunches + MaxDisturbance + Forks
        /\ threads \in Nat /\ session \in 1..launches /\ session # Unset
    BY <1>1, <1>2 DEF HostTypes, Served
  <1>4. m \in Message /\ wire' = Append(wire, m) /\ tools' = [tools EXCEPT ![threads'] = session]
    BY <1>3 DEF StartThread, Reply, Message, Answer
  <1>5. /\ phase \in Requesting /\ wire' \in Seq(Message)
        /\ \A i \in 1..Len(wire') : wire'[i].kind \in Answer => wire'[i] = m /\ i = Len(wire')
    BY <1>4, Sent
  <1>6. UNCHANGED <<launches, session, resume, prompt, done, announced, hydrated, phase, thread,
                    page, pending, observed, map, shown, joined, rollout, settled, prompted, disturbances>>
    BY DEF StartThread, launcher, listing, history
  <1>7. \A t \in Thread : tools'[t] = IF t = threads' THEN session ELSE tools[t]
    BY <1>4 DEF HostTypes
  <1>8. tools[threads'] = Unset /\ map[threads'] = Unset
    BY <1>1, <1>3 DEF Mapped
  <1>9. HostTypes'
    <2>1. tools' \in [Thread -> 0..launches']
      BY <1>3, <1>4, <1>6 DEF HostTypes
    <2>2. threads' \in 0..(MaxLaunches + MaxDisturbance + Forks) /\ rollout' \subseteq 1..threads'
      BY <1>1, <1>3, <1>6 DEF HostTypes
    <2>. QED  BY <1>5, <1>6, <2>1, <2>2
      DEF HostTypes, LauncherTypes, ToolTypes, ThreadTypes
  <1>10. Accounted'
    <2>1. On({"ok"})'
      <3>1. Len(wire') \in 1..Len(wire') /\ wire'[Len(wire')] = m
        BY <1>4, SendLast DEF HostTypes
      <3>. QED  BY <3>1 DEF On
    <2>2. ~On(Failure)'
      BY <1>5 DEF On, Failure, Answer
    <2>. QED  BY <1>1, <1>2, <1>3, <1>6, <2>1, <2>2 DEF Accounted, HostTypes
  <1>11. OneAnswer'
    BY <1>5, <1>6 DEF OneAnswer, On, Answer
  <1>12. Answered'
    BY <1>1, <1>3, <1>5, <1>6, <1>7, <1>8 DEF Answered, Answer
  <1>13. Served'
    BY <1>1, <1>6 DEF Served
  <1>14. Mapped'
    BY <1>1, <1>3, <1>6, <1>7, <1>8 DEF Mapped
  <1>. QED  BY <1>9, <1>10, <1>11, <1>12, <1>13, <1>14

\* A thread that is loaded again is loaded for the session it is mapped to.
LEMMA ResumeStep ==
    ASSUME HostInv, ~OrphansResumed, Resume, asked, asked' = FALSE,
           UNCHANGED <<launcher, phase, thread, listing, map, history>>
    PROVE  HostInv'
  <1>. USE HostAssumption DEF HostInv, Unset, Thread, Session, Server, Connected, Requesting
  <1>. DEFINE m == [kind |-> IF thread \in rollout THEN "ok" ELSE "unknown",
                    thread |-> IF thread \in rollout THEN thread ELSE Unset, servers |-> {}]
  <1>1. m \in Message /\ wire' = Append(wire, m)
    BY DEF Resume, Reply, HostTypes, Message, Answer
  <1>2. /\ phase \in Requesting /\ wire' \in Seq(Message)
        /\ \A i \in 1..Len(wire') : wire'[i].kind \in Answer => wire'[i] = m /\ i = Len(wire')
    BY <1>1, Sent
  <1>3. ~On(Answer)
    BY DEF OneAnswer
  <1>4. HostTypes'
    <2>1. LauncherTypes'
      BY <1>1, <1>2, <1>3 DEF LauncherTypes, HostTypes, Served, Mapped, Answered, Phase, Resume, launcher, history
    <2>2. wire' \in Seq(Message)
      BY <1>1, <1>2, <1>3 DEF HostTypes, Resume
    <2>3. page' \in Server /\ pending' \subseteq Server /\ observed' \subseteq Server
      BY <1>1, <1>2, <1>3 DEF HostTypes, Resume, Reply, listing
    <2>4. tools' \in [Thread -> 0..launches'] /\ settled' \subseteq Thread \X Server
      <3>1. \/ tools' = tools
            \/ tools' = [tools EXCEPT ![thread] = IF @ = Unset THEN session ELSE @]
        BY DEF Resume
      <3>2. session \in 0..launches /\ launches' = launches /\ settled' = settled
        BY DEF Resume, HostTypes, launcher
      <3>. QED  BY <3>1, <3>2 DEF HostTypes
    <2>5. map' \in [Thread -> 0..launches']
      BY <1>1, <1>2, <1>3 DEF HostTypes, Answered, Resume, launcher, listing, appServer
    <2>6. ThreadTypes'
      BY <1>1, <1>2, <1>3 DEF ThreadTypes, HostTypes, Served, Resume, appServer, history
    <2>. QED  BY <2>1, <2>2, <2>3, <2>4, <2>5, <2>6
      DEF HostTypes, LauncherTypes, ToolTypes, ThreadTypes
  <1>5. /\ UNCHANGED <<threads, rollout, prompted, settled, disturbances, launches, session, resume,
                      done, phase, thread, map, shown, joined>>
        /\ phase = "open" /\ thread # Unset /\ asked' = FALSE
    BY DEF Resume, launcher, history
  <1>6. \A t \in Thread : \/ tools'[t] = tools[t]
                          \/ /\ t = thread /\ thread \in rollout
                             /\ tools[t] = Unset /\ tools'[t] = session
    BY DEF Resume, HostTypes
  <1>7. thread \in Thread /\ (thread \in rollout => thread \in 1..threads)
    BY <1>5 DEF HostTypes
  <1>8. tools[thread] \in {Unset, session} /\ map[thread] \in {Unset, session} /\ session # Unset
    BY <1>5 DEF Served
  <1>9. Accounted'
    <2>1. threads < Forks + launches + disturbances \/ thread \in rollout
      BY <1>3, <1>5 DEF Accounted, On, Answer
    <2>2. thread \in rollout => ~On(Failure)'
      BY <1>2 DEF On, Failure, Answer
    <2>. QED  BY <1>5, <2>1, <2>2 DEF Accounted
  <1>10. OneAnswer'
    BY <1>2 DEF OneAnswer, On, Answer
  <1>11. Answered'
    <2>1. SUFFICES ASSUME NEW i \in 1..Len(wire'), wire'[i].kind = "ok"
                   PROVE  /\ thread \in rollout /\ wire'[i].thread = thread
                          /\ thread \in 1..threads /\ tools'[thread] = session
      BY <1>5, <1>8 DEF Answered
    <2>2. wire'[i] = m
      BY <1>2, <2>1 DEF Answer
    <2>3. thread \in rollout
      BY <2>1, <2>2
    <2>4. tools'[thread] = session
      BY <2>3, <1>5, <1>7, <1>8 DEF Resume, HostTypes
    <2>. QED  BY <1>7, <2>2, <2>3, <2>4
  <1>12. Served'
    BY <1>5, <1>6, <1>7, <1>8 DEF HostTypes, Served
  <1>13. Mapped'
    <2>1. \A t \in Thread : map'[t] # Unset => t \in 1..threads' /\ tools'[t] \in {Unset, map'[t]}
      BY <1>5, <1>6, <1>8 DEF Mapped
    <2>2. \A t \in Thread : tools'[t] # Unset => t \in 1..threads'
      BY <1>5, <1>6, <1>7 DEF Mapped
    <2>3. (\A t \in shown' \cup prompted' : map'[t] # Unset) /\ \A j \in joined' : map'[j[1]] = j[2]
      BY <1>5 DEF Mapped
    <2>. QED  BY <2>1, <2>2, <2>3 DEF Mapped
  <1>. QED  BY <1>4, <1>9, <1>10, <1>11, <1>12, <1>13

\* A page names nobody.
LEMMA ListStep ==
    ASSUME HostInv, ~OrphansResumed, List, asked, asked' = FALSE,
           UNCHANGED <<launcher, phase, thread, listing, map, history>>
    PROVE  HostInv'
  <1>. USE HostAssumption DEF HostInv, Unset, Thread, Session, Server, Connected, Requesting
  <1>. DEFINE m == [kind |-> "page", thread |-> Unset,
                    servers |-> {n \in {page} : <<thread, n>> \notin settled}]
  <1>1. m \in Message /\ wire' = Append(wire, m)
    BY DEF List, Reply, HostTypes, Message, Answer
  <1>2. /\ phase \in Requesting /\ wire' \in Seq(Message)
        /\ \A i \in 1..Len(wire') : wire'[i].kind \in Answer => wire'[i] = m /\ i = Len(wire')
    BY <1>1, Sent
  <1>3. ~On(Answer)
    BY DEF OneAnswer
  <1>4. HostTypes'
    <2>1. LauncherTypes'
      BY <1>1, <1>2, <1>3 DEF LauncherTypes, HostTypes, Served, Mapped, Answered, Phase, List, launcher, history
    <2>2. wire' \in Seq(Message)
      BY <1>1, <1>2, <1>3 DEF HostTypes, List
    <2>3. page' \in Server /\ pending' \subseteq Server /\ observed' \subseteq Server
      BY <1>1, <1>2, <1>3 DEF HostTypes, List, Reply, listing
    <2>4. ToolTypes'
      BY <1>1, <1>2, <1>3 DEF ToolTypes, HostTypes, Answered, List, launcher, listing, appServer
    <2>5. ThreadTypes'
      BY <1>1, <1>2, <1>3 DEF ThreadTypes, HostTypes, Served, List, appServer, history
    <2>. QED  BY <2>1, <2>2, <2>3, <2>4, <2>5
      DEF HostTypes, LauncherTypes, ToolTypes, ThreadTypes
  <1>5. Accounted'
    <2>1. phase = "list" /\ m.kind = "page"
      BY DEF List
    <2>2. ~On(Failure)'
      BY <1>2, <2>1 DEF On, Failure, Answer
    <2>. QED  BY <2>1, <2>2 DEF Accounted, List, appServer, launcher
  <1>6. OneAnswer'
    BY <1>1, <1>2, <1>3 DEF OneAnswer, On, Answer, List, Reply
  <1>7. Answered'
    BY <1>1, <1>2, <1>3 DEF Answered, List
  <1>8. Served'
    BY <1>1, <1>2, <1>3 DEF HostTypes, Served, List, launcher, appServer
  <1>9. Mapped'
    BY <1>1, <1>2, <1>3 DEF HostTypes, Mapped, List, launcher, appServer, history
  <1>. QED  BY <1>4, <1>5, <1>6, <1>7, <1>8, <1>9

\* A thread that is named has a rollout.
LEMMA SetNameStep ==
    ASSUME HostInv, ~OrphansResumed, SetName("ok"), UNCHANGED disturbances, asked, asked' = FALSE,
           UNCHANGED <<launcher, phase, thread, listing, map, history>>
    PROVE  HostInv'
  <1>. USE HostAssumption DEF HostInv, Unset, Thread, Session, Server, Connected, Requesting
  <1>. DEFINE m == [kind |-> "ok", thread |-> Unset, servers |-> {}]
  <1>1. m \in Message /\ wire' = Append(wire, m)
    BY DEF SetName, Reply, HostTypes, Message, Answer
  <1>2. /\ phase \in Requesting /\ wire' \in Seq(Message)
        /\ \A i \in 1..Len(wire') : wire'[i].kind \in Answer => wire'[i] = m /\ i = Len(wire')
    BY <1>1, Sent
  <1>3. ~On(Answer)
    BY DEF OneAnswer
  <1>4. HostTypes'
    <2>1. LauncherTypes'
      BY <1>1, <1>2, <1>3 DEF LauncherTypes, HostTypes, Served, Mapped, Answered, Phase, SetName, launcher,
         history
    <2>2. wire' \in Seq(Message)
      BY <1>1, <1>2, <1>3 DEF HostTypes, SetName
    <2>3. page' \in Server /\ pending' \subseteq Server /\ observed' \subseteq Server
      BY <1>1, <1>2, <1>3 DEF HostTypes, SetName, Reply, listing
    <2>4. ToolTypes'
      BY <1>1, <1>2, <1>3 DEF ToolTypes, HostTypes, Answered, SetName, launcher, listing, appServer
    <2>5. ThreadTypes'
      BY <1>1, <1>2, <1>3 DEF ThreadTypes, HostTypes, Served, SetName, appServer, history
    <2>. QED  BY <2>1, <2>2, <2>3, <2>4, <2>5
      DEF HostTypes, LauncherTypes, ToolTypes, ThreadTypes
  <1>5. Accounted'
    <2>1. phase = "name" /\ UNCHANGED <<phase, threads, launches, disturbances>>
      BY DEF SetName, launcher
    <2>2. ~On(Failure)'
      BY <1>2 DEF On, Failure, Answer
    <2>. QED  BY <2>1, <2>2 DEF Accounted
  <1>6. OneAnswer'
    BY <1>1, <1>2, <1>3 DEF OneAnswer, On, Answer, SetName, Reply
  <1>7. Answered'
    BY <1>1, <1>2, <1>3 DEF Answered, SetName
  <1>8. Served'
    BY <1>1, <1>2, <1>3 DEF HostTypes, Served, SetName, launcher, appServer
  <1>9. Mapped'
    BY <1>1, <1>2, <1>3 DEF HostTypes, Mapped, SetName, launcher, appServer, history
  <1>. QED  BY <1>4, <1>5, <1>6, <1>7, <1>8, <1>9

\* A thread is prompted when it is mapped.
LEMMA StartTurnStep ==
    ASSUME HostInv, ~OrphansResumed, NEW kind, StartTurn(kind), asked, asked' = FALSE,
           (kind = "ok" /\ UNCHANGED disturbances) \/ (kind = "refused" /\ Disturb),
           UNCHANGED <<launcher, phase, thread, listing, map, history>>
    PROVE  HostInv'
  <1>. USE HostAssumption DEF HostInv, Unset, Thread, Session, Server, Connected, Requesting
  <1>. DEFINE m == [kind |-> kind, thread |-> Unset, servers |-> {}]
  <1>1. m \in Message /\ wire' = Append(wire, m)
    BY DEF StartTurn, Reply, Disturb, HostTypes, Message, Answer
  <1>2. /\ phase \in Requesting /\ wire' \in Seq(Message)
        /\ \A i \in 1..Len(wire') : wire'[i].kind \in Answer => wire'[i] = m /\ i = Len(wire')
    BY <1>1, Sent
  <1>3. ~On(Answer)
    BY DEF OneAnswer
  <1>4. HostTypes'
    <2>1. launches' \in 0..MaxLaunches /\ prompt' \in BOOLEAN /\ disturbances' \in 0..MaxDisturbance
      <3>1. CASE UNCHANGED disturbances
        BY <3>1 DEF HostTypes, launcher
      <3>2. CASE Disturb
        BY <3>2 DEF HostTypes, Disturb, launcher
      <3>. QED  BY <3>1, <3>2
    <2>2. /\ session' \in (IF launches' = 0 THEN {Unset} ELSE 1..launches')
         /\ resume' \in Thread \cup {Unset} /\ phase' \in Phase
         /\ thread' \in Thread \cup {Unset}
         /\ done' \in BOOLEAN /\ hydrated' \in BOOLEAN /\ asked' \in BOOLEAN
         /\ announced' \in shown' \cup {Unset}
      BY <1>1, <1>2, <1>3 DEF HostTypes, Served, Mapped, Answered, Phase, StartTurn, Reply,
         Disturb, launcher, listing, appServer, history, Message
    <2>3. wire' \in Seq(Message)
      BY <1>1, <1>2, <1>3 DEF HostTypes, StartTurn, Disturb
    <2>4. page' \in Server /\ pending' \subseteq Server /\ observed' \subseteq Server
      BY <1>1, <1>2, <1>3 DEF HostTypes, StartTurn, Reply, Disturb, listing
    <2>5. ToolTypes'
      BY <1>1, <1>2, <1>3 DEF ToolTypes, HostTypes, Answered, StartTurn, launcher, listing, appServer
    <2>6. ThreadTypes'
      BY <1>1, <1>2, <1>3 DEF ThreadTypes, HostTypes, Served, StartTurn, appServer, history
    <2>. QED  BY <2>1, <2>2, <2>3, <2>4, <2>5, <2>6
      DEF HostTypes, LauncherTypes, ToolTypes, ThreadTypes
  <1>5. Accounted'
    <2>1. phase = "prompt" /\ UNCHANGED <<phase, threads, launches>>
      BY DEF StartTurn, launcher
    <2>2. CASE kind = "ok" /\ UNCHANGED disturbances
      <3>1. ~On(Failure)'
        BY <1>2, <2>2 DEF On, Failure, Answer
      <3>. QED  BY <2>1, <2>2, <3>1 DEF Accounted
    <2>3. CASE Disturb
      BY <2>1, <2>3 DEF Accounted, Disturb, HostTypes
    <2>. QED  BY <2>2, <2>3
  <1>6. OneAnswer'
    BY <1>1, <1>2, <1>3 DEF OneAnswer, On, Answer, StartTurn, Reply
  <1>7. Answered'
    BY <1>1, <1>2, <1>3 DEF Answered, StartTurn
  <1>8. Served'
    BY <1>1, <1>2, <1>3 DEF HostTypes, Served, StartTurn, launcher, appServer
  <1>9. Mapped'
    BY <1>1, <1>2, <1>3 DEF HostTypes, Mapped, Answered, Served, StartTurn, Reply, Disturb,
       launcher, appServer, history
  <1>. QED  BY <1>4, <1>5, <1>6, <1>7, <1>8, <1>9

\* A request that is refused costs a disturbance.
LEMMA RefuseStep ==
    ASSUME HostInv, ~OrphansResumed, Refuse, Disturb, asked, asked' = FALSE,
           UNCHANGED <<launcher, phase, thread, listing, map, history>>
    PROVE  HostInv'
  <1>. USE HostAssumption DEF HostInv, Unset, Thread, Session, Server, Connected, Requesting
  <1>1. PICK m \in Message : /\ wire' = Append(wire, m) /\ m.kind # "ok"
                             /\ m.kind \in {"page", "unsupported"} => phase = "list"
    <2>1. PICK kind \in {"refused", "busy", "contract", "unsupported"} :
             Reply(kind, Unset, {}) /\ (kind = "unsupported" => phase = "list")
      BY DEF Refuse
    <2>. DEFINE n == [kind |-> kind, thread |-> Unset, servers |-> {}]
    <2>2. n \in Message /\ wire' = Append(wire, n)
      BY <2>1 DEF Reply, Message, Answer
    <2>. QED  BY <2>1, <2>2
  <1>2. /\ phase \in Requesting /\ wire' \in Seq(Message)
        /\ \A i \in 1..Len(wire') : wire'[i].kind \in Answer => wire'[i] = m /\ i = Len(wire')
    BY <1>1, Sent
  <1>3. UNCHANGED <<launches, session, resume, prompt, done, announced, hydrated, phase, thread,
                    page, pending, observed, map, shown, joined, threads, rollout, tools, settled,
                    prompted>>
    BY DEF Refuse, launcher, listing, history, appServer
  <1>4. disturbances' = disturbances + 1 /\ disturbances' \in 0..MaxDisturbance
    BY DEF Disturb, HostTypes
  <1>5. HostTypes'
    BY <1>2, <1>3, <1>4 DEF HostTypes
  <1>6. Accounted'
    BY <1>3, <1>4 DEF Accounted, HostTypes
  <1>7. OneAnswer'
    BY <1>1, <1>2, <1>3 DEF OneAnswer, On, Answer
  <1>8. Answered'
    BY <1>1, <1>2 DEF Answered, Answer
  <1>9. Served'
    BY <1>3 DEF Served
  <1>10. Mapped'
    BY <1>3 DEF Mapped
  <1>. QED  BY <1>5, <1>6, <1>7, <1>8, <1>9, <1>10

\* A status is no answer.
LEMMA SettleStep ==
    ASSUME HostInv, ~OrphansResumed, NEW t \in Thread, NEW n \in Server, Settle(t, n)
    PROVE  HostInv'
  <1>. USE HostAssumption DEF HostInv, Unset, Thread, Session, Server, Connected, Requesting
  <1>. DEFINE m == [kind |-> "status", thread |-> t, servers |-> {n}]
  <1>1. m \in Message /\ (wire' = wire \/ wire' = Append(wire, m))
    BY DEF Settle, Reply, Message, StatusKind
  <1>2. wire \in Seq(Message)
    BY DEF HostTypes
  <1>3. /\ wire' \in Seq(Message)
        /\ \A i \in 1..Len(wire') : wire'[i] = m \/ (i \in 1..Len(wire) /\ wire'[i] = wire[i])
        /\ \A i \in 1..Len(wire) : i \in 1..Len(wire') /\ wire'[i] = wire[i]
    <2>1. CASE wire' = wire
      BY <1>2, <2>1
    <2>2. CASE wire' = Append(wire, m)
      BY <1>1, <1>2, <2>2, SendLast
    <2>. QED  BY <1>1, <2>1, <2>2
  <1>4. /\ On(Answer)' => On(Answer)
        /\ On(Failure)' => On(Failure)
        /\ On({"ok"}) => On({"ok"})'
        /\ On({"page", "unsupported"})' => On({"page", "unsupported"})
    BY <1>3 DEF On, Answer, Failure
  <1>5. HostTypes'
    <2>1. launches' \in 0..MaxLaunches /\ prompt' \in BOOLEAN /\ disturbances' \in 0..MaxDisturbance
      BY <1>1, <1>2, <1>3, <1>4 DEF HostTypes, Phase, Settle, launcher
    <2>2. session' \in (IF launches' = 0 THEN {Unset} ELSE 1..launches')
      BY <1>1, <1>2, <1>3, <1>4 DEF HostTypes, Served, Mapped, Answered, Phase, Settle, Reply,
         launcher, listing, appServer, history
    <2>3. /\ resume' \in Thread \cup {Unset} /\ phase' \in Phase
         /\ thread' \in Thread \cup {Unset}
         /\ done' \in BOOLEAN /\ hydrated' \in BOOLEAN /\ asked' \in BOOLEAN
         /\ announced' \in shown' \cup {Unset}
      BY <1>1, <1>2, <1>3, <1>4 DEF HostTypes, Served, Mapped, Answered, Phase, Settle, Reply,
         launcher, listing, appServer, history, Message
    <2>4. wire' \in Seq(Message)
      BY <1>1, <1>2, <1>3, <1>4 DEF HostTypes, Settle
    <2>5. page' \in Server /\ pending' \subseteq Server /\ observed' \subseteq Server
      BY <1>1, <1>2, <1>3, <1>4 DEF HostTypes, Settle, Reply, listing
    <2>6. map' \in [Thread -> 0..launches']
      BY <1>1, <1>2, <1>3, <1>4 DEF HostTypes, Answered, Settle, launcher, listing, appServer
    <2>7. tools' \in [Thread -> 0..launches'] /\ settled' \subseteq Thread \X Server
      <3>1. UNCHANGED <<tools, launches>> /\ settled' = settled \cup {<<t, n>>}
        BY DEF Settle, launcher
      <3>2. tools \in [Thread -> 0..launches] /\ settled \subseteq Thread \X Server
        BY DEF HostTypes
      <3>. QED  BY <3>1, <3>2
    <2>8. ThreadTypes'
      BY <1>1, <1>2, <1>3, <1>4 DEF ThreadTypes, HostTypes, Served, Settle, appServer, history
    <2>. QED  BY <2>1, <2>2, <2>3, <2>4, <2>5, <2>6, <2>7, <2>8
      DEF HostTypes, LauncherTypes, ToolTypes, ThreadTypes
  <1>6. Accounted'
    BY <1>1, <1>2, <1>3, <1>4 DEF HostTypes, Accounted, Answered, Served, Settle, Reply,
       launcher, appServer
  <1>7. OneAnswer'
    <2>1. UNCHANGED <<phase, asked>>
      BY DEF Settle
    <2>2. \A i \in 1..Len(wire') : wire'[i].kind \in Answer => i \in 1..Len(wire) /\ wire'[i] = wire[i]
      BY <1>3 DEF Answer
    <2>. QED  BY <1>4, <2>1, <2>2 DEF OneAnswer
  <1>8. Answered'
    <2>1. UNCHANGED <<phase, session, thread, threads, tools, map, rollout>>
      BY DEF Settle, launcher
    <2>2. \A i \in 1..Len(wire') : wire'[i].kind = "ok" => i \in 1..Len(wire) /\ wire'[i] = wire[i]
      BY <1>3
    <2>. QED  BY <2>1, <2>2 DEF Answered
  <1>9. Served'
    BY <1>1, <1>2, <1>3, <1>4 DEF HostTypes, Served, Settle, launcher, appServer
  <1>10. Mapped'
    BY <1>1, <1>2, <1>3, <1>4 DEF HostTypes, Mapped, Settle, launcher, appServer, history
  <1>. QED  BY <1>5, <1>6, <1>7, <1>8, <1>9, <1>10

\* Who joins is what the thread is mapped to.
LEMMA JoinStep ==
    ASSUME HostInv, ~OrphansResumed, NEW t \in Thread, Join(t)
    PROVE  HostInv'
  <1>. USE HostAssumption DEF HostInv, Unset, Thread, Session, Server, Connected, Requesting
  <1>1. HostTypes'
    <2>1. LauncherTypes'
      BY DEF LauncherTypes, HostTypes, Phase, Join, launcher
    <2>2. wire' \in Seq(Message)
      BY DEF HostTypes, Join
    <2>3. page' \in Server /\ pending' \subseteq Server /\ observed' \subseteq Server
      BY DEF HostTypes, Join, listing
    <2>4. ToolTypes'
      BY DEF ToolTypes, HostTypes, Answered, Join, launcher, listing, appServer
    <2>5. ThreadTypes'
      <3>1. UNCHANGED <<threads, rollout, prompted, shown>>
        BY DEF Join, appServer
      <3>2. t \in rollout /\ tools[t] \in Session
        BY DEF HostTypes, Join
      <3>3. joined' = joined \cup {<<t, tools[t]>>}
        BY DEF Join
      <3>. QED  BY <3>1, <3>2, <3>3 DEF ThreadTypes, HostTypes
    <2>. QED  BY <2>1, <2>2, <2>3, <2>4, <2>5
      DEF HostTypes, LauncherTypes, ToolTypes, ThreadTypes
  <1>2. Accounted'
    BY DEF HostTypes, Accounted, OneAnswer, Answered, Served, On, Failure, Answer, Join,
       launcher, appServer
  <1>3. OneAnswer'
    BY DEF OneAnswer, On, Answer, Join
  <1>4. Answered'
    BY DEF HostTypes, Answered, OneAnswer, Served, Join, launcher, appServer
  <1>5. Served'
    BY DEF HostTypes, Served, Join, launcher, appServer
  <1>6. Mapped'
    BY DEF HostTypes, Mapped, Answered, Served, OneAnswer, On, Answer, Join, launcher, listing,
       appServer, history
  <1>. QED  BY <1>1, <1>2, <1>3, <1>4, <1>5, <1>6

-----------------------------------------------------------------------------
(* The specification. *)

LEMMA HostStarts == HostInit => HostInv
  <1>. SUFFICES ASSUME HostInit PROVE HostInv
    OBVIOUS
  <1>. USE HostAssumption DEF HostInit, Unset, Thread, Session, Server
  <1>1. HostTypes
    <2>1. /\ launches \in 0..MaxLaunches /\ session \in {Unset} /\ page \in Server
          /\ resume \in Thread \cup {Unset} /\ disturbances \in 0..MaxDisturbance /\ phase \in Phase
      BY DEF Phase
    <2>2. threads \in 0..(MaxLaunches + MaxDisturbance + Forks) /\ rollout \subseteq 1..threads
      OBVIOUS
    <2>3. map \in [Thread -> 0..launches] /\ tools \in [Thread -> 0..launches]
      OBVIOUS
    <2>4. wire \in Seq(Message) /\ session \in (IF launches = 0 THEN {Unset} ELSE 1..launches)
      OBVIOUS
    <2>5. prompted \subseteq rollout /\ shown \subseteq rollout /\ joined \subseteq rollout \X Session
      OBVIOUS
    <2>6. /\ thread \in Thread \cup {Unset} /\ announced \in shown \cup {Unset}
          /\ prompt \in BOOLEAN /\ done \in BOOLEAN /\ hydrated \in BOOLEAN /\ asked \in BOOLEAN
      OBVIOUS
    <2>7. pending \subseteq Server /\ observed \subseteq Server /\ settled \subseteq Thread \X Server
      OBVIOUS
    <2>. QED  BY <2>1, <2>2, <2>3, <2>4, <2>5, <2>6, <2>7
      DEF HostTypes, LauncherTypes, ToolTypes, ThreadTypes
  <1>2. Len(wire) = 0 /\ ~On(Answer) /\ ~On(Failure) /\ ~On({"page", "unsupported"})
    BY DEF On
  <1>3. Accounted /\ OneAnswer /\ Answered
    BY <1>2 DEF Accounted, OneAnswer, Answered
  <1>4. Served /\ Mapped
    BY DEF Served, Mapped
  <1>. QED  BY <1>1, <1>3, <1>4 DEF HostInv

\* What the app-server does with a request.
LEMMA HandleStep ==
    ASSUME HostInv, ~OrphansResumed, Handle
    PROVE  HostInv'
  <1>. USE DEF Handle
  <1>1. /\ asked /\ asked' = FALSE
        /\ UNCHANGED <<launcher, phase, thread, listing, map, history>>
    OBVIOUS
  <1>2. CASE StartThread
    BY <1>1, <1>2, StartStep DEF StartThread
  <1>3. CASE Resume
    BY <1>1, <1>3, ResumeStep
  <1>4. CASE List
    BY <1>1, <1>4, ListStep
  <1>5. CASE SetName("ok") /\ UNCHANGED disturbances
    BY <1>1, <1>5, SetNameStep
  <1>6. CASE StartTurn("ok") /\ UNCHANGED disturbances
    BY <1>1, <1>6, StartTurnStep
  <1>7. CASE StartTurn("refused") /\ Disturb
    BY <1>1, <1>7, StartTurnStep
  <1>8. CASE Refuse /\ Disturb
    BY <1>1, <1>8, RefuseStep
  <1>. QED  BY <1>2, <1>3, <1>4, <1>5, <1>6, <1>7, <1>8

LEMMA HostStep ==
    ASSUME HostInv, ~OrphansResumed, [HostNext]_hostVars
    PROVE  HostInv'
  <1>1. ASSUME NEW t \in Thread \cup {Unset}, NEW given \in BOOLEAN, Launch(t, given) PROVE HostInv'
    BY <1>1, LaunchStep
  <1>2. CASE Connect
    BY <1>2, ConnectStep
  <1>3. CASE Received
    BY <1>3, OpenDoneStep, NameDoneStep, ListDoneStep, ListUnsupportedStep, PromptDoneStep,
       RequestFailsStep, StatusUpdatedStep DEF Received
  <1>4. CASE Backoff
    BY <1>4, BackoffStep
  <1>5. CASE Hydrate
    BY <1>5, HydrateStep
  <1>6. CASE End
    BY <1>6, EndStep
  <1>7. CASE Handle
    BY <1>7, HandleStep
  <1>8. ASSUME NEW t \in Thread, NEW n \in Server, Settle(t, n) PROVE HostInv'
    BY <1>8, SettleStep
  <1>9. CASE Disconnect
    BY <1>9, DropStep
  <1>10. CASE Restart
    BY <1>10, RestartStep
  <1>11. ASSUME NEW t \in Thread, Join(t) PROVE HostInv'
    BY <1>11, JoinStep
  <1>12. CASE UNCHANGED hostVars
    BY <1>12 DEF HostInv, HostTypes, Accounted, OneAnswer, Answered, Served, Mapped, On, hostVars,
       launcher, listing, appServer, history
  <1>. QED  BY <1>1, <1>2, <1>3, <1>4, <1>5, <1>6, <1>7, <1>8, <1>9, <1>10, <1>11, <1>12 DEF
     HostNext

\* The inductive invariant of the launchers, the map and the app-server, for any number
\* of them, while nobody resumes a thread that no launcher ever showed.
THEOREM HostInvariant ==
    ASSUME ~OrphansResumed
    PROVE  HostSpec => []HostInv
  <1>. QED  BY HostStarts, HostStep, PTL DEF HostSpec

\* Every message, thread and session that is named anywhere exists (host.ts, threadMap.ts).
THEOREM HostTypeCorrect ==
    ASSUME ~OrphansResumed
    PROVE  HostSpec => []HostTypes
  <1>1. HostInv => HostTypes
    BY DEF HostInv
  <1>. QED  BY <1>1, HostInvariant, PTL

\* A thread has one handle: every join of it is under the session that its map file keeps
\* and its launcher polls, whatever is refused, lost or restarted (host.ts:84, "the SAME
\* AIT handle rebinds").
THEOREM IdentityIsOne ==
    ASSUME ~OrphansResumed
    PROVE  HostSpec => []OneIdentity
  <1>1. HostInv => OneIdentity
    <2>. SUFFICES ASSUME HostInv PROVE OneIdentity
      OBVIOUS
    <2>1. SameHandle
      BY DEF HostInv, Mapped, SameHandle
    <2>2. ToolsAgree
      BY DEF HostInv, Served, ToolsAgree
    <2>. QED  BY <2>1, <2>2 DEF OneIdentity
  <1>. QED  BY <1>1, HostInvariant, PTL

-----------------------------------------------------------------------------
(* A thread is published when its MCP servers have settled.  The launcher  *)
(* learns of a server from a page of the list or from a status event, in   *)
(* whichever order they come; a page speaks of the moment it was made.     *)

Ended(n) == <<thread, n>> \in settled

\* What a message under way says of the thread that is opened is still true.
Tells(m) ==
    /\ m.kind = "status" =>
         m.thread = thread /\ thread # Unset /\ \A n \in m.servers : Ended(n)
    /\ m.kind = "page" => page \in m.servers \/ Ended(page)

ListInv ==
    /\ phase \notin {"list", "wait"} => page = 1 /\ pending = {} /\ observed = {}
    /\ phase \in Connected => \A i \in 1..Len(wire) : Tells(wire[i])
    /\ phase \in {"list", "wait"} => \A n \in observed : Ended(n)
    /\ phase = "list" => \A n \in 1..(page - 1) : n \in pending \/ Ended(n)
    /\ phase = "wait" => \A n \in Server : n \in pending \/ Ended(n)

\* The rest of the wire says what it said, and the message taken was true.
LEMMA TakenTells ==
    ASSUME HostInv, ListInv, NEW kinds, Take(kinds)
    PROVE  /\ Tells(Head(wire)) /\ Head(wire) \in Message /\ Head(wire).kind \in kinds
           /\ phase \in Connected /\ settled' = settled
           /\ \A i \in 1..Len(wire') : wire'[i] \in Message /\ Tells(wire'[i])
           /\ kinds \subseteq Answer =>
                \A i \in 1..Len(wire') : wire'[i].kind \notin Answer
  <1>1. /\ Head(wire) = wire[1] /\ Head(wire) \in Message /\ Head(wire).kind \in kinds
        /\ 1 \in 1..Len(wire) /\ On(kinds) /\ phase \in Connected
        /\ wire' \in Seq(Message)
        /\ \A i \in 1..Len(wire') : i + 1 \in 1..Len(wire) /\ wire'[i] = wire[i + 1]
        /\ kinds \subseteq Answer => ~On(Answer)' /\ phase \in Requesting /\ ~asked
        /\ UNCHANGED <<launches, session, resume, prompt, hydrated, appServer, joined, disturbances>>
    BY Taken DEF HostInv
  <1>2. \A i \in 1..Len(wire) : Tells(wire[i])
    BY <1>1 DEF ListInv
  <1>3. \A i \in 1..Len(wire') : wire'[i] \in Message /\ Tells(wire'[i])
    BY <1>1, <1>2
  <1>4. kinds \subseteq Answer => \A i \in 1..Len(wire') : wire'[i].kind \notin Answer
    BY <1>1 DEF On
  <1>. QED  BY <1>1, <1>2, <1>3, <1>4 DEF appServer

\* A message that is true when it is sent stays true while nothing else happens.
LEMMA SentTells ==
    ASSUME HostInv, ListInv, UNCHANGED <<phase, thread, listing>>, settled \subseteq settled',
           NEW m \in Message, wire' = Append(wire, m), phase \in Connected => Tells(m)'
    PROVE  ListInv'
  <1>1. UNCHANGED <<page, pending, observed>> /\ wire \in Seq(Message)
    BY DEF listing, HostInv, HostTypes
  <1>2. \A i \in 1..Len(wire') : \/ i \in 1..Len(wire) /\ wire'[i] = wire[i]
                                 \/ i = Len(wire') /\ wire'[i] = m
    BY <1>1, SendLast
  <1>3. ASSUME phase \in Connected, NEW i \in 1..Len(wire') PROVE Tells(wire[i])'
    <2>1. CASE i \in 1..Len(wire) /\ wire'[i] = wire[i]
      <3>1. Tells(wire[i])
        BY <1>3, <2>1 DEF ListInv
      <3>. QED  BY <1>1, <2>1, <3>1 DEF Tells, Ended
    <2>2. CASE wire'[i] = m
      BY <1>3, <2>2 DEF Tells, Ended
    <2>. QED  BY <1>2, <2>1, <2>2
  <1>. QED  BY <1>1, <1>3 DEF ListInv, Ended

\* Nobody listens any longer.
LEMMA GivenUp ==
    ASSUME phase' \notin Connected, page' = 1, pending' = {}, observed' = {}
    PROVE  ListInv'
  BY DEF ListInv, Connected

\* The thread is opened or named: the list has not been asked for yet.
LEMMA OpenedTells ==
    ASSUME HostInv, ListInv, OpenDone \/ NameDone
    PROVE  ListInv'
  <1>1. Take({"ok"}) /\ phase \in {"open", "name"}
    BY DEF OpenDone, NameDone
  <1>2. /\ settled' = settled /\ Tells(Head(wire))
        /\ \A i \in 1..Len(wire') : Tells(wire'[i]) /\ wire'[i].kind \notin Answer
        /\ \A i \in 1..Len(wire') : wire'[i] \in Message
    BY <1>1, TakenTells DEF Answer
  <1>3. page = 1 /\ pending = {} /\ observed = {}
    BY <1>1 DEF ListInv
  <1>4. UNCHANGED listing
    BY DEF OpenDone, NameDone, Rolled
  <1>5. thread # Unset => thread' = thread
    <2>1. CASE OpenDone
      <3>1. Head(wire) = wire[1] /\ 1 \in 1..Len(wire) /\ wire[1].kind = "ok"
        BY <1>1, Taken DEF HostInv
      <3>. QED  BY <2>1, <3>1 DEF OpenDone, HostInv, Answered
    <2>2. CASE NameDone
      BY <2>2 DEF NameDone
    <2>. QED  BY <2>1, <2>2
  <1>6. \A i \in 1..Len(wire') : Tells(wire[i])'
    <2>. SUFFICES ASSUME NEW i \in 1..Len(wire') PROVE Tells(wire[i])'
      OBVIOUS
    <2>1. wire'[i].kind # "page" /\ Tells(wire'[i])
      BY <1>2 DEF Answer
    <2>. QED  BY <1>2, <1>5, <2>1 DEF Tells, Ended
  <1>. QED
    <2>1. page' = 1 /\ pending' = {} /\ observed' = {}
      BY <1>3, <1>4 DEF listing
    <2>2. phase' # "wait"
      BY <1>1 DEF OpenDone, NameDone, Rolled, Ask, Activate
    <2>. QED  BY <1>6, <2>1, <2>2 DEF ListInv

\* When every page is there, what was starting is awaited unless it has settled.
LEMMA ListedTells ==
    ASSUME HostInv, ListInv, ListDone
    PROVE  /\ ListInv'
           /\ announced' # announced => \A n \in Server : Ended(n)
  <1>. USE HostAssumption DEF Server
  <1>1. Take({"page"}) /\ UNCHANGED <<thread, map>>
    BY DEF ListDone
  <1>2. /\ settled' = settled /\ Tells(Head(wire)) /\ Head(wire) \in Message
        /\ Head(wire).kind = "page"
        /\ \A i \in 1..Len(wire') : Tells(wire'[i]) /\ wire'[i].kind \notin Answer
    BY <1>1, TakenTells DEF Answer
  <1>3. On({"page"})
    BY <1>1, Taken DEF HostInv
  <1>4. phase = "list" /\ page \in 1..MaxServer
    BY <1>3 DEF HostInv, OneAnswer, On, HostTypes
  <1>. DEFINE starting == Listed(Head(wire).servers)
  <1>5. \A n \in 1..page : n \in starting \/ Ended(n)
    BY <1>2, <1>4 DEF ListInv, Tells, Listed
  <1>6. \A n \in observed : Ended(n)
    BY <1>4 DEF ListInv
  <1>7. \A i \in 1..Len(wire') : Tells(wire[i])'
    <2>. SUFFICES ASSUME NEW i \in 1..Len(wire') PROVE Tells(wire[i])'
      OBVIOUS
    <2>1. wire'[i].kind # "page" /\ Tells(wire'[i])
      BY <1>2 DEF Answer
    <2>. QED  BY <1>1, <1>2, <2>1 DEF Tells, Ended
  <1>. HIDE DEF starting
  <1>8. CASE /\ page < MaxServer /\ page' = page + 1 /\ pending' = starting /\ phase' = "list"
             /\ UNCHANGED <<observed, announced>>
    <2>1. \A n \in observed' : Ended(n)'
      BY <1>1, <1>2, <1>6, <1>8 DEF Ended
    <2>2. \A n \in 1..(page' - 1) : n \in pending' \/ Ended(n)'
      BY <1>1, <1>2, <1>4, <1>5, <1>8 DEF Ended
    <2>. QED  BY <1>7, <1>8, <2>1, <2>2 DEF ListInv
  <1>9. CASE page = MaxServer /\ starting \subseteq observed /\ Announce
    <2>1. \A n \in Server : Ended(n)
      BY <1>4, <1>5, <1>6, <1>9
    <2>2. phase' \in {"prompt", "serve"} /\ page' = 1 /\ pending' = {} /\ observed' = {}
      BY <1>9 DEF Announce, Activate, Ask, Unlisted
    <2>. QED  BY <1>7, <2>1, <2>2 DEF ListInv
  <1>10. CASE /\ page = MaxServer /\ pending' = starting /\ phase' = "wait"
              /\ UNCHANGED <<page, observed, announced>>
    <2>1. \A n \in observed' : Ended(n)'
      BY <1>1, <1>2, <1>6, <1>10 DEF Ended
    <2>2. \A n \in Server : n \in pending' \/ Ended(n)'
      BY <1>1, <1>2, <1>5, <1>10 DEF Ended
    <2>. QED  BY <1>7, <1>10, <2>1, <2>2 DEF ListInv
  <1>. QED  BY <1>8, <1>9, <1>10 DEF ListDone, Ask, starting

\* Without a list nothing is awaited.
LEMMA UnsupportedTells ==
    ASSUME HostInv, ListInv, ListUnsupported
    PROVE  ListInv'
  <1>1. Take({"unsupported"}) /\ thread' = thread
    BY DEF ListUnsupported
  <1>2. /\ settled' = settled
        /\ \A i \in 1..Len(wire') : Tells(wire'[i]) /\ wire'[i].kind \notin Answer
    BY <1>1, TakenTells DEF Answer
  <1>3. \A i \in 1..Len(wire') : Tells(wire[i])'
    <2>. SUFFICES ASSUME NEW i \in 1..Len(wire') PROVE Tells(wire[i])'
      OBVIOUS
    <2>1. wire'[i].kind # "page" /\ Tells(wire'[i])
      BY <1>2 DEF Answer
    <2>. QED  BY <1>1, <1>2, <2>1 DEF Tells, Ended
  <1>4. phase' \in {"prompt", "serve"} /\ page' = 1 /\ pending' = {} /\ observed' = {}
    BY DEF ListUnsupported, Announce, Activate, Ask, Unlisted
  <1>. QED  BY <1>3, <1>4 DEF ListInv

LEMMA PromptedTells ==
    ASSUME HostInv, ListInv, PromptDone
    PROVE  ListInv'
  <1>1. /\ Take({"ok"}) /\ phase = "prompt" /\ phase' = "serve"
        /\ UNCHANGED <<thread, page, pending, observed>>
    BY DEF PromptDone, listing
  <1>2. settled' = settled /\ \A i \in 1..Len(wire') : Tells(wire'[i])
    BY <1>1, TakenTells
  <1>3. \A i \in 1..Len(wire') : Tells(wire[i])'
    BY <1>1, <1>2 DEF Tells, Ended
  <1>. QED  BY <1>1, <1>3 DEF ListInv

\* A status is the last one awaited only if every server has settled.
LEMMA StatusTells ==
    ASSUME HostInv, ListInv, StatusUpdated
    PROVE  /\ ListInv'
           /\ announced' # announced => \A n \in Server : Ended(n)
  <1>1. Take({"status"}) /\ thread' = thread
    BY DEF StatusUpdated
  <1>2. /\ settled' = settled /\ Tells(Head(wire)) /\ Head(wire).kind = "status"
        /\ \A i \in 1..Len(wire') : Tells(wire'[i])
    BY <1>1, TakenTells
  <1>3. PICK n \in Head(wire).servers :
           \/ phase = "wait" /\ pending \subseteq Observed(n) /\ Announce
           \/ /\ observed' = Observed(n)
              /\ UNCHANGED <<phase, asked, done, announced, shown, page, pending>>
    BY DEF StatusUpdated
  <1>4. Ended(n)
    BY <1>2, <1>3 DEF Tells
  <1>5. phase \in {"list", "wait"} => \A k \in Observed(n) : Ended(k)
    BY <1>4 DEF ListInv, Observed
  <1>6. CASE phase = "wait" /\ pending \subseteq Observed(n) /\ Announce
    <2>1. \A k \in Server : Ended(k)
      BY <1>5, <1>6 DEF ListInv
    <2>2. \A i \in 1..Len(wire) : wire[i].kind \notin Answer
      BY <1>6 DEF HostInv, OneAnswer, On, Requesting
    <2>3. \A i \in 1..Len(wire') : Tells(wire[i])'
      <3>. SUFFICES ASSUME NEW i \in 1..Len(wire') PROVE Tells(wire[i])'
        OBVIOUS
      <3>1. i + 1 \in 1..Len(wire) /\ wire'[i] = wire[i + 1]
        BY <1>1, Taken DEF HostInv
      <3>2. wire'[i].kind # "page" /\ Tells(wire'[i])
        BY <1>2, <2>2, <3>1 DEF Answer
      <3>. QED  BY <1>1, <1>2, <3>2 DEF Tells, Ended
    <2>4. phase' \in {"prompt", "serve"} /\ page' = 1 /\ pending' = {} /\ observed' = {}
      BY <1>6 DEF Announce, Activate, Ask, Unlisted
    <2>. QED  BY <2>1, <2>3, <2>4 DEF ListInv
  <1>7. CASE observed' = Observed(n) /\ UNCHANGED <<phase, announced, page, pending>>
    <2>1. \A i \in 1..Len(wire') : Tells(wire[i])'
      BY <1>1, <1>2, <1>7 DEF Tells, Ended
    <2>2. phase \notin {"list", "wait"} => observed' = observed
      BY <1>7 DEF Observed
    <2>3. phase \in {"list", "wait"} => \A k \in observed' : Ended(k)'
      BY <1>1, <1>2, <1>5, <1>7 DEF Ended
    <2>. QED  BY <1>1, <1>2, <1>7, <2>1, <2>2, <2>3 DEF ListInv, Ended
  <1>. QED  BY <1>3, <1>6, <1>7

\* The app-server answers; a page reports the server that has not settled.
LEMMA HandleTells ==
    ASSUME HostInv, HostInv', ListInv, Handle
    PROVE  ListInv'
  <1>. DEFINE Answers(m) == m \in Message /\ wire' = Append(wire, m)
  <1>1. UNCHANGED <<phase, thread, listing>>
    BY DEF Handle
  <1>2. CASE List
    <2>1. page \in Server /\ settled' = settled
      BY <1>2 DEF HostInv, HostTypes, List, appServer
    <2>2. PICK s \in SUBSET Server : s = {n \in {page} : <<thread, n>> \notin settled}
      BY <2>1
    <2>3. PICK m \in Message : m = [kind |-> "page", thread |-> Unset, servers |-> s]
      BY DEF Message, Answer
    <2>4. wire' = Append(wire, m)
      BY <1>2, <2>2, <2>3 DEF List, Reply
    <2>5. Tells(m)'
      BY <1>1, <2>1, <2>2, <2>3 DEF Tells, Ended, listing
    <2>. QED  BY <1>1, <2>1, <2>4, <2>5, SentTells
  <1>3. CASE ~List
    <2>1. \E k \in {"ok", "refused", "busy", "unknown", "contract", "unsupported"},
             t \in Thread \cup {Unset} :
             wire' = Append(wire, [kind |-> k, thread |-> t, servers |-> {}])
      <3>1. StartThread => threads' \in Thread
        <4>1. threads \in Nat /\ (StartThread => threads' = threads + 1)
          BY DEF StartThread, HostInv, HostTypes
        <4>2. threads' \in 0..(MaxLaunches + MaxDisturbance + Forks)
          BY DEF HostInv, HostTypes
        <4>. QED  BY <4>1, <4>2, HostAssumption DEF Thread
      <3>2. Resume => thread \in Thread
        BY DEF Resume, HostInv, HostTypes
      <3>. QED  BY <1>3, <3>1, <3>2
                DEF Handle, StartThread, Resume, SetName, StartTurn, Refuse, Reply, Unset
    <2>2. PICK k \in {"ok", "refused", "busy", "unknown", "contract", "unsupported"},
               t \in Thread \cup {Unset} :
             wire' = Append(wire, [kind |-> k, thread |-> t, servers |-> {}])
      BY <2>1
    <2>3. PICK m \in Message : m = [kind |-> k, thread |-> t, servers |-> {}]
      BY DEF Message, Answer
    <2>4. settled' = settled
      BY <1>3 DEF Handle, StartThread, Resume, SetName, StartTurn, Refuse, appServer
    <2>5. Tells(m)'
      BY <2>2, <2>3 DEF Tells
    <2>. QED  BY <1>1, <2>2, <2>3, <2>4, <2>5, SentTells
  <1>. QED  BY <1>2, <1>3

LEMMA SettleTells ==
    ASSUME HostInv, ListInv, NEW t \in Thread, NEW n \in Server, Settle(t, n)
    PROVE  ListInv'
  <1>1. UNCHANGED <<phase, thread, listing>> /\ settled' = settled \cup {<<t, n>>}
    BY DEF Settle
  <1>2. CASE phase \in Connected /\ t = thread /\ announced = Unset
    <2>1. PICK m \in Message : m = [kind |-> "status", thread |-> t, servers |-> {n}]
      BY DEF Message, StatusKind
    <2>2. wire' = Append(wire, m)
      BY <1>2, <2>1 DEF Settle, Reply
    <2>3. t # Unset
      BY DEF Thread, Unset
    <2>4. Tells(m)'
      BY <1>1, <1>2, <2>1, <2>3 DEF Tells, Ended
    <2>. QED  BY <1>1, <2>2, <2>4, SentTells
  <1>3. CASE ~(phase \in Connected /\ t = thread /\ announced = Unset)
    <2>1. wire' = wire
      BY <1>3 DEF Settle
    <2>. QED  BY <1>1, <2>1 DEF ListInv, Tells, Ended, listing
  <1>. QED  BY <1>2, <1>3

LEMMA ListInvInit == HostInit => ListInv
  BY DEF HostInit, ListInv, Connected

LEMMA ListInvStep ==
    ASSUME HostInv, HostInv', ListInv, [HostNext]_hostVars
    PROVE  ListInv'
  <1>1. ASSUME NEW t \in Thread \cup {Unset}, NEW given \in BOOLEAN, Launch(t, given) PROVE ListInv'
    BY <1>1, GivenUp DEF Launch, listing, ListInv, Connected
  <1>2. CASE Connect
    <2>1. Len(wire') = 0
      BY <1>2 DEF Connect
    <2>. QED  BY <1>2, <2>1 DEF Connect, Ask, listing, ListInv
  <1>3. CASE Received
    <2>1. CASE RequestFails
      <3>1. CASE Fatal(Head(wire).kind)
        BY <2>1, <3>1, GivenUp DEF RequestFails, Fatal, listing, ListInv, Connected
      <3>2. CASE ~Fatal(Head(wire).kind)
        BY <2>1, <3>2, GivenUp DEF RequestFails, GiveUp, Unlisted, Connected
      <3>. QED  BY <3>1, <3>2
    <2>. QED  BY <1>3, <2>1, OpenedTells, ListedTells, UnsupportedTells, PromptedTells,
                 StatusTells DEF Received
  <1>4. CASE Backoff
    BY <1>4, GivenUp DEF Backoff, listing, ListInv, Connected
  <1>5. CASE Hydrate \/ UNCHANGED hostVars
    <2>1. UNCHANGED <<phase, thread, wire, page, pending, observed, settled>>
      BY <1>5 DEF Hydrate, hostVars, listing, appServer
    <2>. QED  BY <2>1 DEF ListInv, Tells, Ended
  <1>6. CASE End \/ Disconnect
    BY <1>6, GivenUp DEF End, Disconnect, GiveUp, Unlisted, Connected
  <1>7. CASE Handle
    BY <1>7, HandleTells
  <1>8. ASSUME NEW t \in Thread, NEW n \in Server, Settle(t, n) PROVE ListInv'
    BY <1>8, SettleTells
  <1>9. CASE Restart
    <2>1. CASE phase \in Connected
      BY <1>9, <2>1, GivenUp DEF Restart, GiveUp, Unlisted, Connected
    <2>2. CASE phase \notin Connected
      BY <1>9, <2>2, GivenUp DEF Restart, listing, ListInv, Connected
    <2>. QED  BY <2>1, <2>2
  <1>10. ASSUME NEW t \in Thread, Join(t) PROVE ListInv'
    <2>1. UNCHANGED <<phase, thread, wire, page, pending, observed, settled>>
      BY <1>10 DEF Join, listing, appServer
    <2>. QED  BY <2>1 DEF ListInv, Tells, Ended
  <1>. QED  BY <1>1, <1>2, <1>3, <1>4, <1>5, <1>6, <1>7, <1>8, <1>9, <1>10 DEF HostNext

\* What is published is on disk, mapped to this session, and settled.
Ready ==
    announced' # announced /\ announced' # Unset
        => /\ announced' \in rollout /\ map[announced'] = session
           /\ \/ Head(wire).kind = "unsupported"
              \/ \A n \in Server : <<announced', n>> \in settled

LEMMA ReadyStep == HostInv /\ ListInv /\ [HostNext]_hostVars => [Ready]_hostVars
  <1>. SUFFICES ASSUME HostInv, ListInv, [HostNext]_hostVars, announced' # announced, announced' # Unset
                PROVE  /\ announced' \in rollout /\ map[announced'] = session
                       /\ \/ Head(wire).kind = "unsupported"
                          \/ \A n \in Server : <<announced', n>> \in settled
    BY DEF Ready
  <1>1. CASE ListDone
    <2>1. announced' = thread /\ phase \in {"list", "wait"}
      <3>1. On({"page"})
        BY <1>1, Taken DEF ListDone, HostInv
      <3>2. phase = "list"
        BY <3>1 DEF HostInv, OneAnswer, On
      <3>. QED  BY <1>1, <3>2 DEF ListDone, Announce
    <2>. QED  BY <1>1, <2>1, ListedTells DEF HostInv, Served, Ended
  <1>2. CASE StatusUpdated
    <2>1. announced' = thread /\ phase \in {"list", "wait"}
      BY <1>2 DEF StatusUpdated, Announce
    <2>. QED  BY <1>2, <2>1, StatusTells DEF HostInv, Served, Ended
  <1>3. CASE ListUnsupported
    <2>1. On({"unsupported"}) /\ Head(wire).kind = "unsupported"
      BY <1>3, Taken DEF ListUnsupported, HostInv
    <2>2. phase = "list"
      BY <2>1 DEF HostInv, OneAnswer, On
    <2>3. announced' = thread
      BY <1>3 DEF ListUnsupported, Announce
    <2>. QED  BY <2>1, <2>2, <2>3 DEF HostInv, Served
  <1>4. ~(OpenDone \/ NameDone \/ PromptDone \/ RequestFails)
    BY DEF OpenDone, NameDone, Rolled, PromptDone, RequestFails
  <1>5. ~\E t \in Thread \cup {Unset}, given \in BOOLEAN : Launch(t, given)
    BY DEF Launch
  <1>6. ~(Connect \/ Backoff \/ Hydrate \/ End \/ Handle \/ Disconnect \/ Restart \/ UNCHANGED hostVars)
    BY DEF Connect, Backoff, Hydrate, End, Handle, Disconnect, Restart, launcher, hostVars
  <1>7. ~(\E t \in Thread, n \in Server : Settle(t, n)) /\ ~(\E t \in Thread : Join(t))
    BY DEF Settle, Join, launcher
  <1>. QED  BY <1>1, <1>2, <1>3, <1>4, <1>5, <1>6, <1>7 DEF HostNext, Received

\* A thread is published when the TUI can attach: its rollout is on disk, the map has its
\* session, and every MCP server has settled, in whatever order the pages of the list and
\* the status events came (host.ts:240).
THEOREM PublishedReady ==
    ASSUME ~OrphansResumed
    PROVE  HostSpec => AnnouncedReady
  <1>1. HostSpec => []HostInv
    BY HostInvariant
  <1>2. HostInv /\ HostInv' /\ ListInv /\ [HostNext]_hostVars => ListInv'
    BY ListInvStep
  <1>3. HostInv /\ ListInv /\ [HostNext]_hostVars => [Ready]_hostVars
    BY ReadyStep
  <1>. QED  BY <1>1, <1>2, <1>3, ListInvInit, PTL DEF HostSpec, AnnouncedReady, Ready

=============================================================================
