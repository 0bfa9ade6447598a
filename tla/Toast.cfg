SPECIFICATION FairSpec
CONSTANTS
  Messages = {m1, m2}
  MaxToasts = 4
  MaxCloses = 2
CHECK_DEADLOCK FALSE
INVARIANTS UnseenGoes TimerFits
PROPERTIES AutoGoes
