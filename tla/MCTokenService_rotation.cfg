SPECIFICATION TokensSpec
CONSTANTS
  ACCESS_TOKEN_LIFETIME = 1
  REFRESH_TOKEN_LIFETIME = 1
  LEEWAY = 0
  CHECK_REVOKE_TOKEN = FALSE
  ROTATE_REFRESH_TOKENS = TRUE
  BLACKLIST_AFTER_ROTATION = TRUE
  TokenWorkers = {w1, w2}
  MaxTime = 2
  MaxJti = 5
  MaxRows = 2
  Names = {n1}
  Spellings = {TRUE}
  Passwords = {p1}
  AccountWorkers = {a1}
  MaxUsers = 1
  MaxSalt = 1
  NoUser = NoUser
SYMMETRY Symmetry
INVARIANTS TypeOK DBIntegrity RevokedStaysRefused RotationFanOut AccessOutlivesRefreshBriefly
PROPERTIES ImplementsLedger
\* The service may stop: it is idle between requests, and the bounds end them.
CHECK_DEADLOCK FALSE
