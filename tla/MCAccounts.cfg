SPECIFICATION AccountsSpec
CONSTANTS
  Passwords = {p1}
  Requests = {r1, r2}
  Life = 3
  Grace = 2
  MaxTokens = 3
  MaxTime = 4
  NoPassword = NoPassword
  Keys = {k1, k2}
  NoKey = NoKey
  Names = {n1, n2}
  MaxCreates = 2
  Unloaded = Unloaded
SYMMETRY Symmetry
INVARIANTS
  SameSuccessor
  RetryServed
  TokensVerifiable
  ToldIsListed
INVARIANT RevocationEnds
CHECK_DEADLOCK FALSE
