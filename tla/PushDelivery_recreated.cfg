CONSTANTS
    MaxSeq = 4
    MaxProc = 1
    MaxQueue = 4
    MaxRequests = 1
    MaxFaults = 1
    HydrationFails = FALSE
    Inactivity = FALSE
    Prompt = TRUE
SPECIFICATION Spec
INVARIANT NeverLost
