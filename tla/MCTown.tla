-------------------------------- MODULE MCTown --------------------------------
(* Posts and the profile meet in the composer, which cannot be used while the *)
(* editor is open, and when the page is loaded again.  So what posts go       *)
(* through they also go through with the editor closed, and TLC explores one  *)
(* of the two at a time, while the other is not used.                         *)
EXTENDS Town, TLC

CONSTANTS x1, x2, x3, p1, p2

VARIABLE part

MCSymmetry == Permutations({x1, x2, x3}) \cup Permutations({p1, p2})

MCInit == part \in {"posts", "profile"} /\ TownInit

MCNext ==
  /\ part' = part
  /\ \/ part = "posts" /\ TownNext /\ UNCHANGED editor
     \/ part = "profile" /\ TownNext /\ UNCHANGED <<repository, composer>>

MCSpec == MCInit /\ [][MCNext]_<<part, townVars>>
===============================================================================
