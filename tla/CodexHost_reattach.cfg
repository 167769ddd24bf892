SPECIFICATION HostSpec
CONSTANTS
    MaxLaunches = 1
    MaxDisturbance = 2
    Forks = 0
    MaxServer = 1
    OrphansResumed = FALSE
INVARIANTS ReconnectResumes

CHECK_DEADLOCK FALSE
