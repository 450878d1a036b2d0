------------------------------- MODULE PlcLog --------------------------------
(***************************************************************************)
(* What a PLC directory promises of the log of a DID: operations are       *)
(* stored one at a time, each valid for the log it is added to.            *)
(***************************************************************************)
EXTENDS PlcRules

VARIABLES
  made,  \* the operations that have been signed
  log    \* the stored operations, in the order of their insertion

Sign(o) ==
  /\ made' = Append(made, o)
  /\ UNCHANGED log

Add(c, at) ==
  /\ c \in DOMAIN made
  /\ ~ Stored(log, c)
  /\ ValidNext(made, log, made[c], at)
  /\ log' = Extended(log, made[c], c, at)
  /\ UNCHANGED made

Next ==
  \/ \E o \in Operations : Sign(o)
  \/ \E c \in Cids : \E at \in Times : Add(c, at)

Spec == log = <<>> /\ made = <<>> /\ [][Next]_<<made, log>>
=============================================================================
