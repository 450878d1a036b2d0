-------------------------------- MODULE MCPds --------------------------------
(* What the PDS keeps outside the repositories: the sequenced events, for   *)
(* two repositories and two subscribers, the preferences of an account, and *)
(* the reserved signing keys.  They share no state, so TLC explores a       *)
(* behaviour of one of them at a time, while the others wait.  Likewise     *)
(* what clients do with preferences and what the page does, which meet in   *)
(* the birth date only: while the clients act it is saved elsewhere.        *)
EXTENDS Sequencer, KeyReservations, Preferences, TLC

CONSTANTS alice, bob, relay, appview

VARIABLE part

MCDids == {alice, bob}
MCSubscribers == {relay, appview}
MCSymmetry == Permutations(MCDids) \cup Permutations(MCSubscribers)

MCAges == {13, 16, 18}
Date(y, m, d) == [year |-> y, month |-> m, day |-> d]
MCEntered == {Date(2008, 2, 29), Date(2003, 3, 1), Date(2021, 2, 29),
              Date(1899, 12, 31), Date(2021, 3, 2)}
MCDays == <<Date(2021, 2, 28), Date(2021, 3, 1)>>

PdsInit ==
  /\ part \in {"sequencer", "clients", "page", "keys"}
  /\ SeqInit /\ PrefInit /\ KeyInit

PdsNext ==
  /\ part' = part
  /\ \/ part = "sequencer" /\ SeqNext /\ UNCHANGED <<prefVars, keyVars>>
     \/ /\ part = "clients" /\ PrefNext
        /\ UNCHANGED <<page, seqVars, keyVars>>
     \/ /\ part = "page" /\ PrefNext
        /\ UNCHANGED <<preferences, got, seqVars, keyVars>>
     \/ part = "keys" /\ KeyNext /\ UNCHANGED <<seqVars, prefVars>>

PdsSpec == PdsInit /\ [][PdsNext]_<<part, seqVars, prefVars, keyVars>>
=============================================================================
