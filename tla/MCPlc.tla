------------------------------- MODULE MCPlc ---------------------------------
(* An instance of PlcUpdate for TLC: one more key, k, before or after the     *)
(* managed key m.                                                             *)
EXTENDS PlcUpdate, TLC
CONSTANTS m, k
MCKeys == {m, k}
MCRotations == {<<k, m>>, <<m, k>>}
Symmetry == Permutations(Posts) \cup Permutations(Patches)
              \cup Permutations(Endpoints)
=============================================================================
