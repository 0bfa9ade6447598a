SPECIFICATION Spec
CONSTANTS
  Calls = {c1, c2}
  LogOuts = {l1}
  ClientDues = {2}
  MaxPairs = 3
  MaxFaults = 1
SYMMETRY Symmetry
VIEW View
CHECK_DEADLOCK FALSE
INVARIANTS NobodyLeftWaiting SignedInHasTokens HeldIsLive
PROPERTIES SignedOutForCause
