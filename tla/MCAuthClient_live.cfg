SPECIFICATION FairSpec
CONSTANTS
  Calls = {c1, c2}
  LogOuts = {l1}
  ClientDues = {0, 4}
  MaxPairs = 2
  MaxFaults = 0
CHECK_DEADLOCK FALSE
INVARIANT SignedOutNotLoading
PROPERTIES CallsEnd InvalidLogsOut
