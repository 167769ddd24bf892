SPECIFICATION Spec
CONSTANTS
    MaxRow = 3
    MaxBatch = 2
    MaxFaults = 1
    MaxFailed = 1
    MaxOther = 0
    MaxDrops = 0
    MaxCrashes = 0
    MaxTrouble = 2
INVARIANTS
    NoLoss
