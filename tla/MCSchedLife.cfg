CONSTANTS
    MaxPid = 4
    MaxQueue = 4
    MaxJoiners = 1
    Codes <- MCCodes
    Workloads <- LifeWorkload
SPECIFICATION FairSpec
CHECK_DEADLOCK FALSE
PROPERTY StarvationFree
