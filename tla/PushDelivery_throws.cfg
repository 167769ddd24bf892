CONSTANTS
    MaxSeq = 2
    MaxProc = 1
    MaxQueue = 2
    MaxRequests = 1
    MaxFaults = 2
    HydrationFails = TRUE
    Inactivity = FALSE
    Prompt = TRUE
SPECIFICATION Spec
INVARIANT NoSkip
