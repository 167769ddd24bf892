CONSTANTS
    MaxSeq = 2
    MaxProc = 2
    MaxQueue = 2
    MaxRequests = 1
    MaxFaults = 2
    HydrationFails = FALSE
    Inactivity = TRUE
    Prompt = FALSE
SPECIFICATION FairSpec
PROPERTY DeliveryRecovers
