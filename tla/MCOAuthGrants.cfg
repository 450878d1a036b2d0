SPECIFICATION Spec
CONSTANTS
  Holders = {h1, h2}
  Codes = {c1}
  Requests = {r1, r2}
  CodeLife = 0
  AccessLife = 1
  SessionLife = 2
  ProofLife = 0
  ClaimLife = 1
  MaxMessages = 3
  MaxTokens = 2
  MaxTime = 3
SYMMETRY Symmetry
INVARIANTS
  ExchangedOnce
  ReplayRecognised
  ReplayNeedsTwo
  RevokedEnds
  ProofServesOnce
  HeldByOne
CHECK_DEADLOCK FALSE
