SPECIFICATION RetrySpec
CONSTANTS
  Users = {u1}
  Names = {n1}
  Requests = {r1, r2}
  MaxDids = 2
  NoUser = NoUser
  NoName = NoName
INVARIANT
  ActiveVerified
PROPERTIES
  RetriesActivate
  ImplementsRegistry
CHECK_DEADLOCK FALSE
