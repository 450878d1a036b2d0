--------------------------- MODULE MCBlockReclaim ----------------------------
(* Two trees: p has a record and a subtree, q has a record of that subtree, *)
(* and x occurs in p twice.                                                 *)
EXTENDS BlockReclaim
CONSTANTS p, q, l, x, y
MCNodes == {p, q, l}
MCRecords == {x, y}
MCValues == [n \in MCNodes |-> CASE n = p -> {x} [] n = q -> {y} [] n = l -> {x, y}]
MCSubtrees == [n \in MCNodes |-> IF n = p THEN <<l>> ELSE <<>>]
MCBelow[n \in MCNodes] ==
  {n} \cup MCValues[n] \cup UNION {MCBelow[MCSubtrees[n][i]] : i \in DOMAIN MCSubtrees[n]}
MCRoots == {p, q}
=============================================================================
