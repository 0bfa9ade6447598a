SPECIFICATION Spec
CONSTANTS
  Accounts = {a1, a2}
  Requests = {r1, r2}
  REFRESH_TOKEN_EXPIRY = 1
  REFRESH_COOLDOWN = 1
  MaxTokens = 3
  MaxClock = 2
SYMMETRY Symmetry
VIEW View
CHECK_DEADLOCK FALSE
INVARIANTS TypeOK NoLateGrant TokenSeparation
PROPERTIES RotationSpacing RevocationFinal RefreshStoresToken LogoutRevokes ImplementsService
