CONSTANTS
    MaxPid = 3
    MaxQueue = 3
    MaxJoiners = 1
    Codes <- MCCodes
    Workloads <- JoinWorkload
SPECIFICATION Spec
CHECK_DEADLOCK FALSE
INVARIANT JoinResult
