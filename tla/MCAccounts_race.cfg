SPECIFICATION FairSpec
CONSTANTS
  Requests = {r1, r2}
  Phones = {p1}
  Subjects = {s1, s2}
  Emails = {e1}
  MaxIds = 2
  MaxLost = 1
CHECK_DEADLOCK FALSE
INVARIANTS TypeOK SessionHasProfile  OrphanAccountedFor
PROPERTIES SignedInAccountKept OrphanResolved
