SPECIFICATION Spec
CONSTANTS
  PublicHosts <- MCPublicHosts
  Supported = {"atproto"}
  Clients <- MCClients
  Redirects <- MCRedirects
  Scopes <- MCScopes
  Pushes = {p1, p2}
  Challenges = {c1}
  States = {s1}
  Browsers = {b1, b2}
  Users = {u1, u2}
  Dids = {d1, d2}
  MaxRecords = 4
  NoUser = NoUser
  NoDid = NoDid
SYMMETRY Symmetry
INVARIANTS
  InOnePlace
  ShownAndAllowed
  SentToClient
