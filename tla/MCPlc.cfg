SPECIFICATION Spec
CONSTANTS
  m = m
  k = k
  Keys <- MCKeys
  Rotations <- MCRotations
  Managed = m
  Endpoints = {e1, e2, e3}
  Window = 0
  MaxOps = 3
  MaxTime = 1
  Posts = {s1, s2}
  Patches = {u1, u2}
SYMMETRY Symmetry
INVARIANTS
  OneUpdatePerHead
PROPERTIES
  ImplementsLog
  NoAccidentalRecovery
  ConflictIsFinal
