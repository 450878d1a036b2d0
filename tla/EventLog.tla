------------------------------- MODULE EventLog ------------------------------
(***************************************************************************)
(* What the PDS promises of its firehose: each repository commits a        *)
(* sequence of events, and the stream, one sequence for the whole PDS,     *)
(* carries every event exactly once and those of one repository in the     *)
(* order it committed them, sooner or later.                               *)
(***************************************************************************)
EXTENDS Integers, Sequences, FiniteSets

CONSTANT Dids

VARIABLES
  committed,   \* the number of events each repository has committed
  stream       \* the published events; the position of an event is its seq

vars == <<committed, stream>>

Done(d) == Cardinality({n \in DOMAIN stream : stream[n].did = d})

Init ==
  /\ committed = [d \in Dids |-> 0]
  /\ stream = <<>>

\* A commit has one event, the announcement of an account three.
Commit(d) ==
  \E n \in {1, 3} :
    /\ committed' = [committed EXCEPT ![d] = @ + n]
    /\ UNCHANGED stream

\* Publish the next n events of d, in order.
Publish(d) ==
  /\ \E n \in 1..(committed[d] - Done(d)) :
       stream' = stream \o [i \in 1..n |-> [did |-> d, id |-> Done(d) + i]]
  /\ UNCHANGED committed

Next == \E d \in Dids : Commit(d) \/ Publish(d)

Spec == Init /\ [][Next]_vars
=============================================================================
