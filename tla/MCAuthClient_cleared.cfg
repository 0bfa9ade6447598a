SPECIFICATION Spec
CONSTANTS
  Calls = {c1}
  LogOuts = {l1}
  ClientDues = {2}
  MaxPairs = 2
  MaxFaults = 0
CHECK_DEADLOCK FALSE
INVARIANT SignedOutHasNoTokens
