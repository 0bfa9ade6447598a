SPECIFICATION FairSpec
CONSTANTS
  Calls = {c1}
  LogOuts = {l1}
  ClientDues = {2}
  MaxPairs = 1
  MaxFaults = 1
CHECK_DEADLOCK FALSE
PROPERTIES FailedRefreshLogsOut
