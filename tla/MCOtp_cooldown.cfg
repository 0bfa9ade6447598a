SPECIFICATION Spec
CONSTANTS
  Phones = {p1}
  Codes = {c1, c2}
  Requests = {r1}
  OTP_EXPIRY = 2
  OTP_COOLDOWN = 1
  OTP_MAX_ATTEMPTS = 2
  MaxOtps = 2
  MaxUncounted = 0
  MaxClock = 2
CHECK_DEADLOCK FALSE
INVARIANT TextsSpaced
