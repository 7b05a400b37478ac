SPECIFICATION Spec
CONSTANTS
  ACCESS_TOKEN_LIFETIME = 1
  REFRESH_TOKEN_LIFETIME = 1
  SLIDING_TOKEN_LIFETIME = 2
  SLIDING_TOKEN_REFRESH_LIFETIME = 3
  LEEWAY = 1
  CHECK_REVOKE_TOKEN = TRUE
  TokenWorkers = {w1}
  MaxTime = 5
  MaxJti = 1
  MaxRows = 1
  Names = {n1}
  Spellings = {TRUE}
  Passwords = {p1, p2}
  AccountWorkers = {a1}
  MaxUsers = 1
  MaxSalt = 2
  NoUser = NoUser
INVARIANTS SlidingTypeOK RevocationCoversFamily FamilyStaysListed SessionBounded StalePasswordRefused
\* The service may stop: it is idle between requests, and the bounds end them.
CHECK_DEADLOCK FALSE
