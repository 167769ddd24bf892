SPECIFICATION FairSpec
CONSTANTS
    MaxRow = 3
    MaxBatch = 2
    MaxFaults = 0
    MaxFailed = 0
    MaxOther = 0
    MaxDrops = 1
    MaxCrashes = 0
    MaxTrouble = 2
PROPERTIES
    Reconnects
