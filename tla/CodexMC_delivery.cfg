SPECIFICATION CodexSpec
CONSTANTS
    MaxRow = 3
    MaxBatch = 2
    MaxFaults = 0
    MaxFailed = 0
    MaxOther = 1
    MaxDrops = 0
    MaxCrashes = 1
    MaxTrouble = 2
    Ours = 2
    Theirs = 1
    MaxCasualty = 1
    MaxBegun = 2
    MaxLaunches = 2
    MaxDisturbance = 2
    Forks = 1
    MaxServer = 2
    OrphansResumed = FALSE
INVARIANTS OneIdentity SocketKept NothingLeftBehind
PROPERTIES AnnouncedReady EventuallyReached EventuallyCommitted EverybodySettles
CHECK_DEADLOCK FALSE
