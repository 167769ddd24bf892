------------------------------- MODULE CodexMC -------------------------------
\* Codex on one host: the delivery of notifications into a thread, the launchers that keep
\* a thread connected, and the shared app-server with the scripts that start and stop it.
\* They meet only in the connections that each of them loses anyway: in one behaviour one
\* is at work, and of the scripts beside those of the server only the stop or only the start.
EXTENDS CodexSink, CodexServer, CodexHost

CONSTANT MaxBegun \* bound: launchers of the app-server that begin

VARIABLE part

codexVars == <<vars, serverVars, hostVars, part>>

CodexInit ==
    /\ Init
    /\ ServerInit
    /\ HostInit
    /\ part \in {"sink", "server", "host"}
    /\ part # "server" => socket = NoFile

CodexNext ==
    \/ /\ part = "sink"
       /\ Next
       /\ UNCHANGED <<serverVars, hostVars, part>>
    \/ /\ part = "server"
       /\ ServerNext
       /\ Cardinality({l \in Launcher : at'[l] # "off"}) <= MaxBegun
       /\ start' = "off" \/ stop' = "off"
       /\ UNCHANGED <<vars, hostVars, part>>
    \/ /\ part = "host"
       /\ HostNext
       /\ UNCHANGED <<vars, serverVars, part>>

\* The fairness of CodexSink, asked of it when it is at work; the scripts have no step
\* to take before one of them is started.
SinkFairness ==
    /\ WF_vars(part = "sink" /\ Deliver) /\ WF_vars(part = "sink" /\ SendDone)
    /\ WF_vars(part = "sink" /\ Retry) /\ WF_vars(part = "sink" /\ Receive)
    /\ SF_vars(part = "sink" /\ Reconnect) /\ WF_vars(part = "sink" /\ Register)
    /\ WF_vars(part = "sink" /\ Serve /\ UNCHANGED bounds) /\ WF_vars(part = "sink" /\ Complete)

\* That of CodexHost: its disturbances are only those of a launcher at work.
LauncherFairness ==
    /\ WF_hostVars(part = "host" /\ (Connect \/ Received \/ Backoff)) /\ WF_hostVars(part = "host" /\ Hydrate)
    /\ WF_hostVars(part = "host" /\ Handle /\ UNCHANGED disturbances)
    /\ WF_hostVars(part = "host" /\ \E t \in Thread, n \in Server : Settle(t, n))

CodexSpec == CodexInit /\ [][CodexNext]_codexVars /\ SinkFairness /\ ServerFairness /\ LauncherFairness

=============================================================================
