CONSTANTS
    MaxPid = 4
    MaxQueue = 4
    MaxJoiners = 1
    Codes <- MCCodes
    Workloads <- MCWorkloads
SPECIFICATION Spec
CHECK_DEADLOCK FALSE
INVARIANTS TypeOK RunningIsCurrent CurrentInTable WaitersInTable 
PROPERTY ExitedIsFinal
