SPECIFICATION Spec
CONSTANTS
  maxImages = 2
  Sizes = {s1, s2}
  Uploads = {u1, u2}
  MaxPicks = 3
  MaxIds = 4
SYMMETRY Symmetry
CHECK_DEADLOCK FALSE
INVARIANTS IdsComplete LimitKept UniqueKeys SpinnerStops ChangesNoticed
