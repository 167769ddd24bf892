-------------------------- MODULE CodexServerProofs --------------------------
(***************************************************************************)
(* Why a server keeps its socket and a stop leaves nothing behind, for any *)
(* number of launchers of the two checkouts, signals and casualties.       *)
(*                                                                         *)
(* Who may fork holds the lock and has seen, while it held it, that nobody *)
(* was visible; and who is invisible is a forked child whose launcher      *)
(* still holds the lock.  So at most one server is alive at a time, and    *)
(* the file on the path is its own.                                        *)
(***************************************************************************)
EXTENDS CodexServer, TLAPS

\* The lock is held through every stretch that it protects, and a launcher has no server
\* before it forked one.
LockInv ==
    /\ \A l \in Launcher : at[l] \in {"recheck", "unlink", "fork", "await"} => lock = l
    /\ stop \in {"rescan", "lastKill", "check", "unlink"} => lock = Stop
    /\ \A l \in Launcher : at[l] \in Undecided \cup {"off"} => child[l] = "none"
    /\ \A l \in Launcher : at[l] = "reap" => l \in doomed[l]

\* A child without a command line is held by its launcher's lock.
ForkedHeld ==
    \A s \in Launcher : child[s] = "forked" => lock = s /\ at[s] \in {"await", "reap"}

\* There is one server, and the path is free for it or its own.
OneServer ==
    /\ \A s, t \in Launcher : Alive(s) /\ Alive(t) => s = t
    /\ \A s \in Launcher : child[s] \in {"forked", "starting"} => socket = NoFile
    /\ \A s \in Launcher : child[s] = "bound" => socket = s

\* What was seen under the lock stays true under it.
SeenUnderLock ==
    /\ \A l \in Launcher : at[l] \in {"unlink", "fork"} => \A s \in Launcher : ~Alive(s)
    /\ \A l \in Launcher : at[l] = "fork" => socket = NoFile
    /\ stop = "lastKill" =>
         \A s \in Launcher : Alive(s) /\ Sibling(s, Here) => s \in doomed[Stop]
    /\ stop = "check" => \A s \in Launcher : Alive(s) => ~Sibling(s, Here)
    /\ stop = "unlink" => \A s \in Launcher : ~Alive(s)

\* Nothing gives up on a server of its own, or ends before it.
NoneGivenUp ==
    /\ stop # "error"
    /\ \A l \in Launcher : at[l] = "exit" /\ Alive(l) => casualties > 0

Orderly == ForkedHeld /\ OneServer /\ SeenUnderLock /\ NoneGivenUp

ServerInv == ServerTypes /\ LockInv /\ (~unseen => Orderly)

-----------------------------------------------------------------------------
(* Types *)

\* The stop is no launcher, and neither the lock nor the path names one by accident.
LEMMA Places ==
    /\ Stop \notin Launcher /\ Nobody \notin Launcher /\ NoFile \notin Launcher
    /\ Stop # Nobody
  BY LaunchersAssumption DEF Stop, Launcher, Nobody, NoFile

\* Every step of a launcher, a server, the stop and the start keeps the types.
LEMMA TypesStep == ServerTypes /\ [ServerNext]_serverVars => ServerTypes'
  <1> SUFFICES ASSUME ServerTypes, [ServerNext]_serverVars PROVE ServerTypes'
    OBVIOUS
  <1> USE Places DEF ServerTypes, starter, Undecided, Ready, Stopped
  <1>1. CASE \E l \in Launcher : Begin(l)
    BY <1>1 DEF Begin, Command, Goes
  <1>2. CASE \E l \in Launcher : Look(l)
    BY <1>2 DEF Look, Command, Goes, Leaves, Candidates, Visible
  <1>3. CASE \E l \in Launcher : TryLock(l)
    BY <1>3 DEF TryLock, Command, Goes
  <1>4. CASE \E l \in Launcher : Recheck(l)
    BY <1>4 DEF Recheck, Command, Goes, Leaves
  <1>5. CASE \E l \in Launcher : Unlink(l)
    BY <1>5 DEF Unlink, Command, Goes
  <1>6. CASE \E l \in Launcher : Fork(l)
    BY <1>6 DEF Fork, Command, Goes, Leaves
  <1>7. CASE \E l \in Launcher : Await(l)
    BY <1>7 DEF Await, Command, Goes, Owned, Visible
  <1>8. CASE \E l \in Launcher : Return(l)
    BY <1>8 DEF Return, Command, Goes, Leaves
  <1>9. CASE \E l \in Launcher : Trap(l)
    BY <1>9 DEF Trap, Goes, Leaves, Owned, Visible
  <1>10. CASE \E l \in Launcher : Reap(l)
    BY <1>10 DEF Reap, Goes, Leaves, Ends, Ended
  <1>11. CASE \E l \in Launcher : Term(l)
    BY <1>11 DEF Term
  <1>12. CASE \E l \in Launcher : KillLauncher(l)
    BY LaunchersAssumption, <1>12 DEF KillLauncher, Leaves, Goes, Casualty
  <1>13. CASE \E s \in Launcher : Exec(s)
    BY <1>13 DEF Exec
  <1>14. CASE \E s \in Launcher : Bind(s)
    BY <1>14 DEF Bind
  <1>15. CASE \E s \in Launcher : ServerCrash(s)
    BY LaunchersAssumption, <1>15 DEF ServerCrash, Ends, Ended, Casualty
  <1>16. CASE StopBegins
    BY <1>16 DEF StopBegins
  <1>17. CASE StopScans \/ StopRescans
    BY <1>17 DEF StopScans, StopRescans, Listing, Owned, Visible
  <1>18. CASE StopKills \/ StopKillsLast
    BY <1>18 DEF StopKills, StopKillsLast, Killing, Ends, Ended
  <1>19. CASE StopTriesLock
    BY <1>19 DEF StopTriesLock, StopBusy, Owned, Visible
  <1>20. CASE StopChecks
    BY <1>20 DEF StopChecks
  <1>21. CASE StopUnlinks
    BY <1>21 DEF StopUnlinks
  <1>22. CASE StartOne
    BY <1>22 DEF StartOne, Follow, Goes, RunningOwn, Candidates, Visible
  <1>23. CASE ReadOwner
    BY <1>23 DEF ReadOwner, StartEnds, Follow, RunningOwn, Candidates, Visible
  <1>24. CASE Probe
    BY <1>24 DEF Probe, StartEnds, Follow
  <1>25. CASE Interrupt
    BY <1>25 DEF Interrupt, Follow
  <1>26. CASE UNCHANGED serverVars
    BY <1>26 DEF serverVars
  <1> QED
    BY <1>1, <1>2, <1>3, <1>4, <1>5, <1>6, <1>7, <1>8, <1>9, <1>10, <1>11, <1>12, <1>13, <1>14,
       <1>15, <1>16, <1>17, <1>18, <1>19, <1>20, <1>21, <1>22, <1>23, <1>24, <1>25, <1>26
       DEF ServerNext, LauncherStep, StopStep

\* Who is listed, followed, bound or holds the lock is a launcher or the stop, in every
\* reachable state.
THEOREM ServerTypeCorrect == ServerSpec => []ServerTypes
  <1>1. ServerInit => ServerTypes
    <2> SUFFICES ASSUME ServerInit PROVE ServerTypes
      OBVIOUS
    <2>1. casualties \in 0..MaxCasualty
      BY LaunchersAssumption DEF ServerInit
    <2>2. followed \in [pid : {"launcher", "server"}, of : Launcher \cup {Nobody}]
      BY DEF ServerInit
    <2>3. doomed \in [Launcher \cup {Stop} -> SUBSET Launcher]
      BY DEF ServerInit
    <2> QED
      BY <2>1, <2>2, <2>3 DEF ServerInit, ServerTypes, Undecided, Ready, Stopped
  <1> QED
    BY <1>1, TypesStep, PTL DEF ServerSpec

-----------------------------------------------------------------------------
(* The lock *)

\* A launcher or the stop is in a stretch that the lock protects only while it holds it.
LEMMA LockStep == ServerTypes /\ LockInv /\ [ServerNext]_serverVars => LockInv'
  <1> SUFFICES ASSUME ServerTypes, LockInv, [ServerNext]_serverVars PROVE LockInv'
    OBVIOUS
  <1> USE Places DEF ServerTypes, LockInv, Undecided, starter
  <1>1. CASE \E l \in Launcher : Begin(l)
    BY <1>1 DEF Begin, Command, Goes
  <1>2. CASE \E l \in Launcher : Look(l)
    BY <1>2 DEF Look, Command, Goes, Leaves
  <1>3. CASE \E l \in Launcher : TryLock(l)
    BY <1>3 DEF TryLock, Command, Goes
  <1>4. CASE \E l \in Launcher : Recheck(l)
    BY <1>4 DEF Recheck, Command, Goes, Leaves
  <1>5. CASE \E l \in Launcher : Unlink(l)
    BY <1>5 DEF Unlink, Command, Goes
  <1>6. CASE \E l \in Launcher : Fork(l)
    BY <1>6 DEF Fork, Command, Goes, Leaves
  <1>7. CASE \E l \in Launcher : Await(l)
    BY <1>7 DEF Await, Command, Goes
  <1>8. CASE \E l \in Launcher : Return(l)
    BY <1>8 DEF Return, Command, Goes, Leaves
  <1>9. CASE \E l \in Launcher : Trap(l)
    BY <1>9 DEF Trap, Goes, Leaves
  <1>10. CASE \E l \in Launcher : Reap(l)
    BY <1>10 DEF Reap, Goes, Leaves, Ends, Ended, Alive
  <1>11. CASE \E l \in Launcher : Term(l)
    BY <1>11 DEF Term
  <1>12. CASE \E l \in Launcher : KillLauncher(l)
    BY <1>12 DEF KillLauncher, Goes, Leaves, Casualty
  <1>13. CASE \E s \in Launcher : Exec(s)
    BY <1>13 DEF Exec
  <1>14. CASE \E s \in Launcher : Bind(s)
    BY <1>14 DEF Bind
  <1>15. CASE \E s \in Launcher : ServerCrash(s)
    BY <1>15 DEF ServerCrash, Ends, Ended, Casualty, Alive
  <1>16. CASE StopBegins
    BY <1>16 DEF StopBegins
  <1>17. CASE StopScans
    BY <1>17 DEF StopScans, Listing
  <1>18. CASE StopKills
    BY <1>18 DEF StopKills, Killing, Ends, Ended, Alive
  <1>19. CASE StopTriesLock
    BY <1>19 DEF StopTriesLock, StopBusy
  <1>20. CASE StopRescans
    BY <1>20 DEF StopRescans, Listing
  <1>21. CASE StopKillsLast
    BY <1>21 DEF StopKillsLast, Killing, Ends, Ended, Alive
  <1>22. CASE StopChecks
    BY <1>22 DEF StopChecks
  <1>23. CASE StopUnlinks
    BY <1>23 DEF StopUnlinks
  <1>24. CASE StartOne
    BY <1>24 DEF StartOne, Goes
  <1>25. CASE ReadOwner
    BY <1>25 DEF ReadOwner
  <1>26. CASE Probe
    BY <1>26 DEF Probe
  <1>27. CASE Interrupt
    BY <1>27 DEF Interrupt
  <1>28. CASE UNCHANGED serverVars
    BY <1>28 DEF serverVars
  <1> QED
    BY <1>1, <1>2, <1>3, <1>4, <1>5, <1>6, <1>7, <1>8, <1>9, <1>10, <1>11, <1>12, <1>13, <1>14,
       <1>15, <1>16, <1>17, <1>18, <1>19, <1>20, <1>21, <1>22, <1>23, <1>24, <1>25, <1>26,
       <1>27, <1>28
       DEF ServerNext, LauncherStep, StopStep

-----------------------------------------------------------------------------
(* The servers *)

\* As long as no launcher was killed over a child that cannot be seen yet, every step
\* leaves at most one server alive and the path its own.
LEMMA OrderlyStep ==
    ServerTypes /\ LockInv /\ Orderly /\ [ServerNext]_serverVars /\ ~unseen' => Orderly'
  <1> SUFFICES ASSUME ServerTypes, LockInv, Orderly, [ServerNext]_serverVars, ~unseen'
               PROVE  Orderly'
    OBVIOUS
  <1> USE Places DEF ServerTypes, LockInv, Orderly, ForkedHeld, OneServer, SeenUnderLock,
                     NoneGivenUp, Alive, Undecided, starter
  <1>1. CASE \E l \in Launcher : Begin(l)
    BY <1>1 DEF Begin, Command, Goes
  <1>2. CASE \E l \in Launcher : Look(l)
    BY <1>2 DEF Look, Command, Goes, Leaves, Candidates, Visible
  <1>3. CASE \E l \in Launcher : TryLock(l)
    BY <1>3 DEF TryLock, Command, Goes
  <1>4. CASE \E l \in Launcher : Recheck(l)
    BY <1>4 DEF Recheck, Command, Goes, Leaves, Candidates, Visible
  <1>5. CASE \E l \in Launcher : Unlink(l)
    BY <1>5 DEF Unlink, Command, Goes
  <1>6. CASE \E l \in Launcher : Fork(l)
    BY <1>6 DEF Fork, Command, Goes, Leaves
  <1>7. CASE \E l \in Launcher : Await(l)
    BY <1>7 DEF Await, Command, Goes, RunningOwn, Candidates, Visible
  <1>8. CASE \E l \in Launcher : Return(l)
    BY <1>8 DEF Return, Command, Goes, Leaves
  <1>9. CASE \E l \in Launcher : Trap(l)
    BY <1>9 DEF Trap, Goes, Leaves, Owned, Visible
  <1>10. CASE \E l \in Launcher : Reap(l)
    BY <1>10 DEF Reap, Goes, Leaves, Ends, Ended
  <1>11. CASE \E l \in Launcher : Term(l)
    BY <1>11 DEF Term
  <1>12. CASE \E l \in Launcher : KillLauncher(l)
    <2> PICK l \in Launcher : KillLauncher(l)
      BY <1>12
    <2>1. child[l] # "forked" /\ child' = child /\ socket' = socket /\ stop' = stop
      BY DEF KillLauncher
    <2>2. casualties' > 0
      BY LaunchersAssumption DEF KillLauncher, Casualty
    <2>3. at' = [at EXCEPT ![l] = "exit"] /\ doomed' = [doomed EXCEPT ![l] = {}]
      BY DEF KillLauncher, Leaves, Goes
    <2>4. lock' = IF lock = l THEN Nobody ELSE lock
      BY DEF KillLauncher, Leaves
    <2>5. ForkedHeld'
      BY <2>1, <2>3, <2>4
    <2>6. OneServer' /\ SeenUnderLock'
      BY <2>1, <2>3
    <2>7. NoneGivenUp'
      BY <2>1, <2>2, <2>3
    <2> QED
      BY <2>5, <2>6, <2>7
  <1>13. CASE \E s \in Launcher : Exec(s)
    BY <1>13 DEF Exec
  <1>14. CASE \E s \in Launcher : Bind(s)
    BY <1>14 DEF Bind
  <1>15. CASE \E s \in Launcher : ServerCrash(s)
    BY <1>15 DEF ServerCrash, Ends, Ended, Casualty
  <1>16. CASE StopBegins
    BY <1>16 DEF StopBegins
  <1>17. CASE StopScans
    BY <1>17 DEF StopScans, Listing, Owned, Visible
  <1>18. CASE StopKills
    BY <1>18 DEF StopKills, Killing, Ends, Ended
  <1>19. CASE StopTriesLock
    BY <1>19 DEF StopTriesLock, StopBusy, Owned, Visible
  <1>20. CASE StopRescans
    BY <1>20 DEF StopRescans, Listing, Owned, Visible
  <1>21. CASE StopKillsLast
    BY <1>21 DEF StopKillsLast, Killing, Ends, Ended
  <1>22. CASE StopChecks
    BY <1>22 DEF StopChecks, RunningOwn, RunningForeign, Candidates, Visible
  <1>23. CASE StopUnlinks
    BY <1>23 DEF StopUnlinks
  <1>24. CASE StartOne
    BY <1>24 DEF StartOne, Goes
  <1>25. CASE ReadOwner
    BY <1>25 DEF ReadOwner
  <1>26. CASE Probe
    BY <1>26 DEF Probe
  <1>27. CASE Interrupt
    BY <1>27 DEF Interrupt
  <1>28. CASE UNCHANGED serverVars
    BY <1>28 DEF serverVars
  <1> QED
    BY <1>1, <1>2, <1>3, <1>4, <1>5, <1>6, <1>7, <1>8, <1>9, <1>10, <1>11, <1>12, <1>13, <1>14,
       <1>15, <1>16, <1>17, <1>18, <1>19, <1>20, <1>21, <1>22, <1>23, <1>24, <1>25, <1>26,
       <1>27, <1>28
       DEF ServerNext, LauncherStep, StopStep

\* Every reachable state has the invariant.
THEOREM ServerInvariant == ServerSpec => []ServerInv
  <1>1. ServerInit => LockInv /\ Orderly
    BY Places DEF ServerInit, LockInv, Orderly, ForkedHeld, OneServer, SeenUnderLock,
                  NoneGivenUp, Alive, Undecided
  <1>2. ServerTypes /\ ServerInv /\ [ServerNext]_serverVars => ServerInv'
    <2> SUFFICES ASSUME ServerInv, [ServerNext]_serverVars PROVE ServerInv'
      BY DEF ServerInv
    <2>1. ServerTypes' /\ LockInv'
      BY TypesStep, LockStep DEF ServerInv
    <2>2. ASSUME ~unseen' PROVE ~unseen
      BY <2>2 DEF ServerInv, ServerTypes, ServerNext, LauncherStep, StopStep, serverVars,
         Begin, Look, TryLock, Recheck, Unlink, Fork, Await, Return, Trap, Reap, Term,
         KillLauncher, Exec, Bind, ServerCrash, StopBegins, StopScans, StopKills, Listing,
         Killing, StopTriesLock, StopRescans, StopKillsLast, StopChecks, StopUnlinks,
         StartOne, ReadOwner, Probe, Interrupt
    <2>3. ASSUME ~unseen' PROVE Orderly'
      BY <2>2, <2>3, OrderlyStep DEF ServerInv
    <2> QED
      BY <2>1, <2>3 DEF ServerInv
  <1>3. ServerInit /\ ServerTypes => ServerInv
    BY <1>1 DEF ServerInv
  <1> QED
    BY <1>2, <1>3, ServerTypeCorrect, PTL DEF ServerSpec

\* A server keeps the socket it bound: no start and no stop unlinks it, whichever of them
\* race, are signalled or die.
THEOREM SocketAlwaysKept == ServerSpec => []SocketKept
  <1>1. ServerInv => SocketKept
    BY DEF ServerInv, Orderly, OneServer, SocketKept
  <1> QED
    BY <1>1, ServerInvariant, PTL

\* A stop that ends has left no server of its checkout, and launchers end after theirs.
THEOREM NothingEverLeftBehind == ServerSpec => []NothingLeftBehind
  <1>1. ServerInv => NothingLeftBehind
    BY DEF ServerInv, Orderly, SeenUnderLock, NoneGivenUp, NothingLeftBehind
  <1> QED
    BY <1>1, ServerInvariant, PTL

=============================================================================
