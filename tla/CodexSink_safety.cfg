SPECIFICATION Spec
CONSTANTS
    MaxRow = 3
    MaxBatch = 2
    MaxFaults = 2
    MaxFailed = 2
    MaxOther = 1
    MaxDrops = 1
    MaxCrashes = 1
    MaxTrouble = 2
INVARIANTS
    CommittedWasRead
    StillHeld
    InOrder
    NoDoubleInjection
