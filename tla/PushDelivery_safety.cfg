CONSTANTS
    MaxSeq = 3
    MaxProc = 2
    MaxQueue = 3
    MaxRequests = 2
    MaxFaults = 2
    HydrationFails = FALSE
    Inactivity = FALSE
    Prompt = FALSE
SPECIFICATION Spec
INVARIANTS NoSkip NoCutoverGap
PROPERTIES CursorMonotone AbsSpec
