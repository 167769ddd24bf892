----------------------------- MODULE CodexServer -----------------------------
(***************************************************************************)
(* The shared Codex app-server of a host, as the scripts that start and    *)
(* stop it see it: any number of launchers (bin/run-codex-appserver.sh),   *)
(* one stop (bin/stop-codex-appserver.sh) and one `ait start`              *)
(* (bin/start-all.sh) of this checkout, on the one socket path of the      *)
(* host, which the launchers of another checkout use as well.              *)
(*                                                                         *)
(* A script reads the processes and the socket (bin/lib-service-pids.sh)   *)
(* and acts on what it read some commands later: a step is a command, or   *)
(* commands that no other process can tell apart.  The start lock is a     *)
(* kernel lock: who holds it loses it by ending in whatever way.  A        *)
(* launcher's server is named by the launcher.  PID files are caches that  *)
(* decide nothing and are left out.                                        *)
(***************************************************************************)
EXTENDS Integers, FiniteSets

CONSTANTS
    Ours,       \* launchers of this checkout
    Theirs,     \* launchers of another checkout
    MaxCasualty \* bound: servers that end by themselves, launchers killed outright

ASSUME LaunchersAssumption ==
    /\ Ours \in Nat /\ Theirs \in Nat
    /\ MaxCasualty \in Nat

Nobody   == 0
NoFile   == -1
Launcher == 1..(Ours + Theirs)
Stop     == Ours + Theirs + 1

VARIABLES
    at,         \* where each launcher is
    termed,     \* launchers with a TERM they have not handled
    child,      \* the server of each launcher
    doomed,     \* what a shutdown has listed, of each launcher and of the stop
    socket,     \* the socket file: the launcher whose server made it, or one long gone
    lock,       \* who holds the start lock
    stop,       \* where the stop is
    start,      \* where `ait start` is
    followed,   \* the pid it follows: a launcher, or the server of one
    wrapper,    \* the launcher that it started
    casualties,
    unseen      \* history: a launcher ended while its child had no command line yet

starter    == <<start, followed, wrapper>>
serverVars == <<at, termed, child, doomed, socket, lock, stop, starter, casualties, unseen>>

Undecided == {"look", "lock", "recheck", "unlink", "fork"}
Ready   == {"off", "serve", "exit"}
Stopped == {"off", "done", "refused", "error"}

ServerTypes ==
    /\ at \in [Launcher -> Undecided \cup Ready \cup {"await", "reap"}]
    /\ termed \subseteq Launcher
    /\ child \in [Launcher -> {"none", "forked", "starting", "bound", "dead"}]
    /\ doomed \in [Launcher \cup {Stop} -> SUBSET Launcher]
    /\ socket \in Launcher \cup {Nobody, NoFile}
    /\ lock \in Launcher \cup {Nobody, Stop}
    /\ stop \in Stopped \cup {"scan", "kill", "lock", "rescan", "lastKill", "check", "unlink"}
    /\ start \in {"off", "wait", "probe", "ready", "failed", "interrupted"}
    /\ followed \in [pid : {"launcher", "server"}, of : Launcher \cup {Nobody}]
    /\ wrapper \in Launcher \cup {Nobody}
    /\ casualties \in 0..MaxCasualty
    /\ unseen \in BOOLEAN

\* The file of a server long gone may lie on the path.
ServerInit ==
    /\ at = [l \in Launcher |-> "off"] /\ termed = {}
    /\ child = [l \in Launcher |-> "none"]
    /\ doomed = [p \in Launcher \cup {Stop} |-> {}]
    /\ socket \in {Nobody, NoFile}
    /\ lock = Nobody
    /\ stop = "off"
    /\ start = "off" /\ followed = [pid |-> "launcher", of |-> Nobody] /\ wrapper = Nobody
    /\ casualties = 0 /\ unseen = FALSE

-----------------------------------------------------------------------------
(* What the scripts can see. *)

Sibling(l, m) == l <= Ours <=> m <= Ours

Alive(s) == child[s] \in {"forked", "starting", "bound"}

\* Servers with the command line of the app-server, bound or not.
Visible == {s \in Launcher : child[s] \in {"starting", "bound"}}

\* service_pids: who has the socket file open, or, without a file, who will make one.
\* A file hides the servers that did not make it.
Candidates == IF socket = NoFile THEN Visible ELSE {s \in Visible : s = socket}

\* running_pid, as a script of the checkout of l reads it.
RunningOwn(l)     == {s \in Candidates : Sibling(s, l)}
RunningForeign(l) == Candidates # {} /\ RunningOwn(l) = {}

\* owned_codex_pids
Owned(l) == {s \in Visible : Sibling(s, l)}

\* This checkout, to its stop and its start.
Here == 1

\* Servers end; the file of a server stays, or the server removes it.
Ended(servers) == child' = [s \in Launcher |-> IF s \in servers /\ Alive(s) THEN "dead" ELSE child[s]]

Ends(servers) ==
    /\ Ended(servers)
    /\ \/ UNCHANGED socket
       \/ socket \in {s \in servers : child[s] = "bound"} /\ socket' = NoFile

Casualty == casualties < MaxCasualty /\ casualties' = casualties + 1

-----------------------------------------------------------------------------
(* bin/run-codex-appserver.sh *)

Goes(l, place) == at' = [at EXCEPT ![l] = place]

\* The process of l ends, and with it its hold on the lock.
Leaves(l) ==
    /\ Goes(l, "exit")
    /\ termed' = termed \ {l}
    /\ lock' = IF lock = l THEN Nobody ELSE lock

\* Between two commands a launcher turns to its trap if there was a signal.
Command(l, place) == at[l] = place /\ l \notin termed

\* launchd or a session starts a launcher.
Begin(l) ==
    /\ Command(l, "off") /\ Goes(l, "look")
    /\ UNCHANGED <<termed, child, doomed, socket, lock, stop, starter, casualties, unseen>>

\* Somebody runs already, and is adopted or refused.
Look(l) ==
    /\ Command(l, "look")
    /\ IF Candidates = {} THEN Goes(l, "lock") /\ UNCHANGED <<termed, lock>> ELSE Leaves(l)
    /\ UNCHANGED <<child, doomed, socket, stop, starter, casualties, unseen>>

TryLock(l) ==
    /\ Command(l, "lock")
    /\ IF lock = Nobody THEN lock' = l /\ Goes(l, "recheck") ELSE UNCHANGED lock /\ Goes(l, "look")
    /\ UNCHANGED <<termed, child, doomed, socket, stop, starter, casualties, unseen>>

\* Without the second look, what started since the first one is not seen.
RecheckBug(l) ==
    /\ Command(l, "recheck")
    /\ Goes(l, "unlink") /\ UNCHANGED <<termed, lock>>
    /\ UNCHANGED <<child, doomed, socket, stop, starter, casualties, unseen>>

Recheck(l) ==
    /\ Command(l, "recheck")
    /\ IF Candidates = {} THEN Goes(l, "unlink") /\ UNCHANGED <<termed, lock>> ELSE Leaves(l)
    /\ UNCHANGED <<child, doomed, socket, stop, starter, casualties, unseen>>

Unlink(l) ==
    /\ Command(l, "unlink") /\ Goes(l, "fork")
    /\ socket' = NoFile
    /\ UNCHANGED <<termed, child, doomed, lock, stop, starter, casualties, unseen>>

\* The server is not built or no binary is found; or the server's process is there.
Fork(l) ==
    /\ Command(l, "fork")
    /\ \/ Leaves(l) /\ UNCHANGED child
       \/ /\ Goes(l, "await") /\ UNCHANGED <<termed, lock>>
          /\ child' = [child EXCEPT ![l] = "forked"]
    /\ UNCHANGED <<doomed, socket, stop, starter, casualties, unseen>>

\* The lock is kept until a server of this checkout has the socket, or the child ended.
Await(l) ==
    /\ Command(l, "await")
    /\ \/ /\ ~Alive(l) \/ (socket # NoFile /\ RunningOwn(l) # {})
          /\ Goes(l, "serve") /\ lock' = Nobody
          /\ UNCHANGED doomed
       \/ /\ Alive(l) /\ socket # NoFile /\ RunningForeign(l)
          /\ Goes(l, "reap") /\ doomed' = [doomed EXCEPT ![l] = Owned(l) \cup {l}]
          /\ UNCHANGED lock
    /\ UNCHANGED <<termed, child, socket, stop, starter, casualties, unseen>>

\* The child that was waited for has ended.
Return(l) ==
    /\ Command(l, "serve") /\ ~Alive(l)
    /\ Leaves(l)
    /\ UNCHANGED <<child, doomed, socket, stop, starter, casualties, unseen>>

\* The traps: a launcher that has a child shuts it down with every server of its checkout.
Trap(l) ==
    /\ l \in termed /\ at[l] # "reap"
    /\ IF child[l] = "none"
       THEN Leaves(l) /\ UNCHANGED doomed
       ELSE /\ Goes(l, "reap") /\ doomed' = [doomed EXCEPT ![l] = Owned(l) \cup {l}]
            /\ UNCHANGED <<termed, lock>>
    /\ UNCHANGED <<child, socket, stop, starter, casualties, unseen>>

\* stop_codex_pids, with a TERM and in the end a KILL, and the launcher's end.
Reap(l) ==
    /\ at[l] = "reap"
    /\ Ends(doomed[l])
    /\ Leaves(l)
    /\ doomed' = [doomed EXCEPT ![l] = {}]
    /\ UNCHANGED <<stop, starter, casualties, unseen>>

\* TERM, INT or HUP from launchd, a terminal or an interrupted start.
Term(l) ==
    /\ at[l] \notin {"off", "exit"}
    /\ termed' = termed \cup {l}
    /\ UNCHANGED <<at, child, doomed, socket, lock, stop, starter, casualties, unseen>>

\* A launcher is killed outright: its server is left behind.
KillLauncher(l) ==
    /\ at[l] \notin {"off", "exit"} /\ Casualty
    /\ Leaves(l)
    /\ unseen' = (unseen \/ child[l] = "forked")
    /\ doomed' = [doomed EXCEPT ![l] = {}]
    /\ UNCHANGED <<child, socket, stop, starter>>

-----------------------------------------------------------------------------
(* The servers: codex app-server, external. *)

Exec(s) ==
    /\ child[s] = "forked"
    /\ child' = [child EXCEPT ![s] = "starting"]
    /\ UNCHANGED <<at, termed, doomed, socket, lock, stop, starter, casualties, unseen>>

\* The path is free, or the server ends with the error that it is not.
Bind(s) ==
    /\ child[s] = "starting"
    /\ IF socket = NoFile
       THEN socket' = s /\ child' = [child EXCEPT ![s] = "bound"]
       ELSE child' = [child EXCEPT ![s] = "dead"] /\ UNCHANGED socket
    /\ UNCHANGED <<at, termed, doomed, lock, stop, starter, casualties, unseen>>

ServerCrash(s) ==
    /\ Alive(s) /\ Casualty
    /\ Ends({s})
    /\ UNCHANGED <<at, termed, doomed, lock, stop, starter, unseen>>

-----------------------------------------------------------------------------
(* bin/stop-codex-appserver.sh *)

Listing(place, next) ==
    /\ stop = place /\ stop' = next
    /\ doomed' = [doomed EXCEPT ![Stop] = Owned(Here)]
    /\ UNCHANGED <<at, termed, child, socket, lock, starter, casualties, unseen>>

Killing(place, next) ==
    /\ stop = place /\ stop' = next
    /\ Ends(doomed[Stop])
    /\ doomed' = [doomed EXCEPT ![Stop] = {}]
    /\ UNCHANGED <<at, termed, lock, starter, casualties, unseen>>

StopBegins ==
    /\ stop = "off" /\ stop' = "scan"
    /\ UNCHANGED <<at, termed, child, doomed, socket, lock, starter, casualties, unseen>>

StopScans == Listing("scan", "kill")
StopKills == Killing("kill", "lock")

\* The lock is free; or a foreign server is refused, or our own listed again.
StopBusyBug == UNCHANGED <<stop, doomed>>

StopBusy ==
    /\ stop' = IF RunningForeign(Here) THEN "refused" ELSE "kill"
    /\ doomed' = IF RunningForeign(Here) THEN doomed ELSE [doomed EXCEPT ![Stop] = Owned(Here)]

StopTriesLock ==
    /\ stop = "lock"
    /\ IF lock = Nobody THEN lock' = Stop /\ stop' = "rescan" /\ UNCHANGED doomed
                        ELSE UNCHANGED lock /\ StopBusy
    /\ UNCHANGED <<at, termed, child, socket, starter, casualties, unseen>>

\* A start could win the lock after the first scan.
StopRescansBug ==
    /\ stop = "rescan" /\ stop' = "lastKill"
    /\ UNCHANGED <<at, termed, child, doomed, socket, lock, starter, casualties, unseen>>

StopRescans   == Listing("rescan", "lastKill")
StopKillsLast == Killing("lastKill", "check")

StopChecks ==
    /\ stop = "check"
    /\ \/ Candidates = {} /\ stop' = "unlink" /\ UNCHANGED lock
       \/ RunningForeign(Here) /\ stop' = "refused" /\ lock' = Nobody
       \/ RunningOwn(Here) # {} /\ stop' = "error" /\ lock' = Nobody
    /\ UNCHANGED <<at, termed, child, doomed, socket, starter, casualties, unseen>>

StopUnlinks ==
    /\ stop = "unlink" /\ stop' = "done"
    /\ socket' = NoFile /\ lock' = Nobody
    /\ UNCHANGED <<at, termed, child, doomed, starter, casualties, unseen>>

StopStep ==
    \/ StopScans \/ StopKills \/ StopTriesLock \/ StopRescans \/ StopKillsLast
    \/ StopChecks \/ StopUnlinks

-----------------------------------------------------------------------------
(* bin/start-all.sh, for the Codex app-server *)

Follow(pid, l) == followed' = [pid |-> pid, of |-> l]

\* start_one: what runs is adopted, or a launcher is started.
StartOne ==
    /\ start = "off"
    /\ IF RunningForeign(Here)
       THEN start' = "failed" /\ UNCHANGED <<at, followed, wrapper>>
       ELSE /\ start' = "wait"
            /\ IF RunningOwn(Here) # {}
               THEN (\E s \in RunningOwn(Here) : Follow("server", s)) /\ UNCHANGED <<at, wrapper>>
               ELSE \E l \in Launcher :
                      /\ Sibling(l, Here) /\ at[l] = "off"
                      /\ Goes(l, "look") /\ wrapper' = l /\ Follow("launcher", l)
    /\ UNCHANGED <<termed, child, doomed, socket, lock, stop, casualties, unseen>>

\* The waiting is over, and STARTING_NAME, STARTING_PID and the pid are forgotten.
StartEnds(how) == start' = how /\ Follow("launcher", Nobody) /\ wrapper' = Nobody

\* wait_for_codex: a launcher that lost to another one has ended; who won is followed.
ReadOwner ==
    /\ start = "wait"
    /\ IF RunningForeign(Here)
       THEN StartEnds("failed")
       ELSE /\ start' = "probe" /\ UNCHANGED wrapper
            /\ IF RunningOwn(Here) = {} THEN UNCHANGED followed
                                        ELSE \E s \in RunningOwn(Here) : Follow("server", s)
    /\ UNCHANGED <<at, termed, child, doomed, socket, lock, stop, casualties, unseen>>

FollowedIsGone ==
    IF followed.pid = "server" THEN ~Alive(followed.of) ELSE at[followed.of] = "exit"

\* The protocol answers, the process is gone or the grace is over, or it waits on.
Probe ==
    /\ start = "probe"
    /\ \/ /\ \E s \in Launcher : socket = s /\ child[s] = "bound"
          /\ StartEnds(IF RunningForeign(Here) THEN "failed" ELSE "ready")
       \/ StartEnds("failed")
       \/ ~FollowedIsGone /\ start' = "wait" /\ UNCHANGED <<followed, wrapper>>
    /\ UNCHANGED <<at, termed, child, doomed, socket, lock, stop, casualties, unseen>>

\* interrupt_start: only a launcher it started, with nothing of ours bound, is stopped.
Interrupt ==
    /\ start \in {"wait", "probe"} /\ start' = "interrupted"
    /\ LET ours == socket # NoFile /\ RunningOwn(Here) # {}
           foreign == socket # NoFile /\ RunningForeign(Here)
       IN  termed' = IF ~ours /\ ~foreign /\ wrapper # Nobody /\ at[wrapper] # "exit"
                     THEN termed \cup {wrapper} ELSE termed
    /\ Follow("launcher", Nobody) /\ wrapper' = Nobody
    /\ UNCHANGED <<at, child, doomed, socket, lock, stop, casualties, unseen>>

-----------------------------------------------------------------------------
LauncherStep(l) ==
    \/ Look(l) \/ TryLock(l) \/ Recheck(l) \/ Unlink(l) \/ Fork(l) \/ Await(l) \/ Return(l)
    \/ Trap(l) \/ Reap(l)

ServerNext ==
    \/ \E l \in Launcher : Begin(l) \/ LauncherStep(l) \/ Term(l) \/ KillLauncher(l)
    \/ \E s \in Launcher : Exec(s) \/ Bind(s) \/ ServerCrash(s)
    \/ StopBegins \/ StopStep
    \/ StartOne \/ ReadOwner \/ Probe \/ Interrupt

\* The scripts run, and a forked child comes to its command line.  A server need not
\* ever bind, and nothing has to be started or stopped.
ServerFairness ==
    /\ \A l \in Launcher : WF_serverVars(LauncherStep(l) \/ Exec(l))
    /\ WF_serverVars(StopStep)

ServerSpec == ServerInit /\ [][ServerNext]_serverVars /\ ServerFairness

-----------------------------------------------------------------------------
(* Properties *)

\* bin/stop-codex-appserver.sh, "no new owner's socket is unlinked": a server that bound
\* the socket keeps it for its life, whoever starts, stops and dies.  A launcher killed
\* before its child has a command line leaves one that no script can see.
SocketKept == ~unseen => \A s \in Launcher : child[s] = "bound" => socket = s

\* A stop leaves no server of its checkout behind, pre-bind ones and those of launchers
\* that died included, and never gives up on one of its own; a launcher, by a signal or
\* not, ends before its server only where it was killed outright.
NothingLeftBehind ==
    ~unseen => /\ stop # "error"
               /\ stop = "unlink" => \A s \in Launcher : Alive(s) => ~Sibling(s, Here)
               /\ \A l \in Launcher : at[l] = "exit" /\ Alive(l) => casualties > 0

\* bin/stop-codex-appserver.sh, "Taking the lock first would deadlock recovery": even with
\* servers that never bind, every launcher comes to its server or to an end, follows the
\* signal it got, and every stop comes to its end.  Each script runs once.
EverybodySettles ==
    <>[](unseen \/ ( /\ \A l \in Launcher : at[l] \notin Undecided
                    /\ termed = {}
                    /\ stop \in Stopped))

=============================================================================
