---------------------------- MODULE MCRepoRecords ----------------------------
(***************************************************************************)
(* Instances for TLC of the records of a repository, one of which mentions *)
(* a blob, and of the lists that clients read.  A list reads a tree that   *)
(* any commits may have left, so TLC explores a behaviour of one of the    *)
(* two at a time, while the other waits, and in the lists only what the    *)
(* client's list may depend on: for a list of records they mention         *)
(* nothing, for one of blobs each record mentions one.                     *)
(***************************************************************************)
EXTENDS RepoRecords, Listings, TLC

CONSTANTS p1, p2, x, y, b1, u1, u2, v1, v2

VARIABLE part

MCMentions == [r \in {x, y} |-> IF r = x THEN {b1} ELSE {}]
MCScopes == {{"create"}, {"create", "delete"}, {"create", "update", "delete"}}
Symmetry == Permutations({p1, p2}) \cup Permutations({u1, u2})
            \cup Permutations({v1, v2})

Relevant(ls) ==
  /\ what = "repos" => DOMAIN ls = {}
  /\ what \in {"newest", "oldest"} => Mentioned(ls) = {}
  /\ what = "blobs" => \A k \in DOMAIN ls : ls[k].cid # 0

RecordsInit ==
  /\ Init /\ ListInit /\ Relevant(leaves)
  /\ \/ part = "records" /\ what = "repos"
     \/ part = "lists" /\ scope = {"create"}

RecordsNext ==
  /\ part' = part
  /\ \/ part = "records" /\ Next /\ UNCHANGED listVars
     \/ /\ part = "lists" /\ ListNext /\ UNCHANGED vars
        /\ Relevant(leaves')
        /\ IF what = "repos" THEN UNCHANGED head ELSE UNCHANGED accounts

RecordsSpec == RecordsInit /\ [][RecordsNext]_<<part, vars, listVars>>
=============================================================================
