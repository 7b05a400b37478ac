SPECIFICATION Spec
CONSTANTS
  ACCESS_TOKEN_LIFETIME = 1
  REFRESH_TOKEN_LIFETIME = 1
  SLIDING_TOKEN_LIFETIME = 2
  SLIDING_TOKEN_REFRESH_LIFETIME = 3
  LEEWAY = 0
  CHECK_REVOKE_TOKEN = FALSE
  TokenWorkers = {w1}
  MaxTime = 4
  MaxJti = 1
  MaxRows = 1
  Names = {n1}
  Spellings = {TRUE}
  Passwords = {p1}
  AccountWorkers = {a1}
  MaxUsers = 1
  MaxSalt = 1
  NoUser = NoUser
INVARIANTS RevokedSlidingRefused
\* The service may stop: it is idle between requests, and the bounds end them.
CHECK_DEADLOCK FALSE
