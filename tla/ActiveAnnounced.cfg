SPECIFICATION Spec
CONSTANTS
  Users = {u1}
  Names = {n1}
  Requests = {r1, r2}
  MaxDids = 2
  NoUser = NoUser
  NoName = NoName
INVARIANT ActiveAnnounced
