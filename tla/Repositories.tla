---------------------------- MODULE Repositories -----------------------------
(* The repositories of the PDS, by DID, and the events each may emit. *)
EXTENDS Integers, FiniteSets

CONSTANTS
  Dids,        \* the repositories of the PDS
  MaxEventId   \* bound: outbox ids a repository may use

ASSUME RepositoriesAssumption == MaxEventId \in Nat
=============================================================================
