SPECIFICATION Spec
CONSTANTS
  ROTATE_REFRESH_TOKENS = TRUE
  BLACKLIST_AFTER_ROTATION = TRUE
  BLACKLIST_ON_LOGOUT = TRUE
  MaxRequests = 3
INVARIANTS TypeOK SpentCookieExplained LogoutLeftoversExplained
PROPERTIES EveryRequestEnds
\* The browser may stop sending, and the bound ends its requests.
CHECK_DEADLOCK FALSE
