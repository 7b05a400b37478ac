SPECIFICATION MCSpec
CONSTANTS
  u1 = u1
  a1 = a1
  RemoteUsers = {u1, u2}
  Addresses = {a1, a2}
  Workers = {w1, w2}
  MaxRows = 2
  MaxEdits = 2
  None = None
INVARIANTS SyncTypeOK LocalAddressUnique
PROPERTIES LocalFlagSurvives LocalFollowsRemote
\* The service may stop: it is idle between requests.
CHECK_DEADLOCK FALSE
