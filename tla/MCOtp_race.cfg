SPECIFICATION Spec
CONSTANTS
  Phones = {p1}
  Codes = {c1, c2}
  Requests = {r1, r2}
  OTP_EXPIRY = 1
  OTP_COOLDOWN = 1
  OTP_MAX_ATTEMPTS = 2
  MaxOtps = 2
  MaxUncounted = 1
  MaxClock = 2
SYMMETRY Symmetry
VIEW View
CHECK_DEADLOCK FALSE
INVARIANTS TypeOK NoLateAccept GuessLimit AcceptedOnce TextedWasStored CooldownKept
