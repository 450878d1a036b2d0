-------------------------- MODULE IdentityRegistry ---------------------------
(***************************************************************************)
(* What account creation promises (ADR 0004): a username gets one identity *)
(* for ever, no other identity has effects outside Accounts, and the       *)
(* account is active only when its identity has had them.                  *)
(***************************************************************************)
CONSTANTS Names, Dids, NoDid

VARIABLES
  identity,  \* the DID a username has been given, or NoDid
  produced,  \* the DIDs some other service knows
  active     \* the usernames whose account is active

Init ==
  /\ identity = [n \in Names |-> NoDid]
  /\ produced = {}
  /\ active = {}

Choose(n, d) ==
  /\ identity[n] = NoDid
  /\ \A m \in Names : identity[m] # d
  /\ identity' = [identity EXCEPT ![n] = d]
  /\ UNCHANGED <<produced, active>>

Produce(n) ==
  /\ identity[n] # NoDid
  /\ produced' = produced \cup {identity[n]}
  /\ UNCHANGED <<identity, active>>

Activate(n) ==
  /\ identity[n] \in produced
  /\ active' = active \cup {n}
  /\ UNCHANGED <<identity, produced>>

Next ==
  \E n \in Names : \/ \E d \in Dids : Choose(n, d)
                   \/ Produce(n)
                   \/ Activate(n)

Spec == Init /\ [][Next]_<<identity, produced, active>>
=============================================================================
