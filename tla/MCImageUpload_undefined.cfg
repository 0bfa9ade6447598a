SPECIFICATION Spec
CONSTANTS
  maxImages = 2
  Sizes = {s1, s2}
  Uploads = {u1, u2}
  MaxPicks = 2
  MaxIds = 3
CHECK_DEADLOCK FALSE
INVARIANTS ImagesAreUrls
