SPECIFICATION Spec
CONSTANTS
  ACCESS_TOKEN_LIFETIME = 1
  REFRESH_TOKEN_LIFETIME = 2
  LEEWAY = 1
  CHECK_REVOKE_TOKEN = TRUE
  ROTATE_REFRESH_TOKENS = FALSE
  BLACKLIST_AFTER_ROTATION = FALSE
  TokenWorkers = {w1}
  MaxTime = 2
  MaxJti = 3
  MaxRows = 2
  Names = {n1}
  Spellings = {TRUE}
  Passwords = {p1, p2}
  AccountWorkers = {a1}
  MaxUsers = 1
  MaxSalt = 2
  NoUser = NoUser
INVARIANTS StalePasswordRefused
\* The service may stop: it is idle between requests, and the bounds end them.
CHECK_DEADLOCK FALSE
