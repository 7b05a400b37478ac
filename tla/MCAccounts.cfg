SPECIFICATION AccountsSpec
CONSTANTS
  Names = {n1}
  Spellings = {TRUE, FALSE}
  Passwords = {p1, p2}
  AccountWorkers = {a1, a2}
  MaxUsers = 2
  MaxSalt = 3
  NoUser = NoUser
SYMMETRY Symmetry
INVARIANTS AccountsTypeOK EmailUnique
PROPERTIES DeletionSettles SaveChangesOnlyItsFields
\* The service may stop: it is idle between requests, and the bounds end them.
CHECK_DEADLOCK FALSE
