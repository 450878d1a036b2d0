---------------------------- MODULE MCOAuthGrants ----------------------------
(* An instance of OAuthGrants for TLC, which takes its symmetry here. *)
EXTENDS OAuthGrants, TLC
Symmetry == Permutations(Requests) \cup Permutations(Holders)
=============================================================================
