SPECIFICATION Spec
CONSTANTS
    InodeCount = 4
    NBlocks = 5
    Words = 6
    NDirect = 2
    Names <- MCNames
    Values = {201}
    Offsets = {0, 12, 30}
    Lengths = {1, 7}
    MaxLinks = 2
    MaxCrashes = 1
    Workloads <- MCWorkloads
INVARIANTS TypeOK BlocksOwned   
 
CHECK_DEADLOCK FALSE
