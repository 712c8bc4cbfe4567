SPECIFICATION Spec
CONSTANTS
    InodeCount = 4
    NBlocks = 5
    Words = 12
    NDirect = 2
    Names <- MCAllNames
    Values = {201}
    Offsets = {0, 12, 30}
    Lengths = {1, 7}
    MaxLinks = 2
    MaxCrashes = 1
    Workloads <- MCLongNames
PROPERTY NamesKept
CHECK_DEADLOCK FALSE
