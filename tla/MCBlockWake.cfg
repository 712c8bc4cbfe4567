SPECIFICATION BlockSpec
CONSTANTS
  MaxPid = 3
  MaxQueue = 4
  MaxJoiners = 1
  Codes = {0}
  Workloads <- WakeWorkload
  MaxSleepers = 2
  Delays = {0, 15}
  Addrs = {4096, 4100}
  Values = {0, 1}
  Bits = {b1}
  MaxItems = 2
  MaxWaiters = 2
INVARIANT NoLostProcess
CHECK_DEADLOCK FALSE
