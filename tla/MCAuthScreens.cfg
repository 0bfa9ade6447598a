SPECIFICATION Spec
CONSTANTS
  Phones = {p1, p2}
  Registered = {p1}
  Providers = {google}
  Cooldown = 1
  Requests = {q1, q2}
  MaxScreens = 3
  MaxFaults = 1
SYMMETRY Symmetry
CHECK_DEADLOCK FALSE
INVARIANTS SignupDataComplete ScreensMatchPhone OneAtATime PickerOnTop
  ResendGranted
