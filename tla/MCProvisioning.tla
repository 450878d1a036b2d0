--------------------------- MODULE MCProvisioning ----------------------------
(* An instance of Provisioning for TLC, which takes its symmetry from here. *)
EXTENDS Provisioning, TLC
Symmetry == Permutations(Users) \cup Permutations(Requests)
=============================================================================
