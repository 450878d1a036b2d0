------------------------------ MODULE PlcRules -------------------------------
(***************************************************************************)
(* When a PLC operation may follow a log: assureValidNextOp of             *)
(* @did-plc/lib, as the directory calls it, for one DID.                   *)
(*                                                                         *)
(* An operation is made by signing it.  Operations are numbered in the     *)
(* order in which they are made; the number stands for the CID, a hash of  *)
(* the content, so that equal content has the same number.                 *)
(***************************************************************************)
EXTENDS Naturals, Sequences

CONSTANTS
  Keys,       \* rotation keys
  Rotations,  \* lists of rotation keys an operation may name
  Endpoints,  \* the rest of an operation's data
  Window,     \* 72 hours, in which a key outranks those after it
  MaxOps,     \* bound: operations made
  MaxTime     \* bound: the clock, in the unit of Window

NoCid == 0
Cids == 1..MaxOps
Times == 0..MaxTime

ASSUME PlcAssumption ==
  /\ MaxOps \in Nat \ {0} /\ MaxTime \in Nat /\ Window \in Nat
  /\ Rotations \subseteq Seq(Keys)
  /\ \A ks \in Rotations : \A i, j \in DOMAIN ks : ks[i] = ks[j] => i = j

Operations == [prev : Cids \cup {NoCid}, by : Keys, keys : Rotations,
               endpoint : Endpoints, tomb : BOOLEAN]
Entries == [cid : Cids, at : Times, nullified : BOOLEAN]

\* The stored operations that still count.
Live(log) == {i \in DOMAIN log : ~ log[i].nullified}
Stored(log, c) == \E i \in DOMAIN log : log[i].cid = c

\* The last of them.
IsHead(log, i) == i \in Live(log) /\ \A j \in Live(log) : j <= i
HeadIs(log, c) ==
  IF c = NoCid THEN Live(log) = {} ELSE \E i \in Live(log) : IsHead(log, i) /\ log[i].cid = c

\* The one that operation o builds on, and those it would nullify.
Base(log, o) == {i \in Live(log) : log[i].cid = o.prev}
After(log, i) == {j \in Live(log) : j > i}

Signs(o, ks) == \E i \in DOMAIN ks : ks[i] = o.by

\* Fault: the same key may replace, too.
OutranksEqual(o, p, ks) ==
  \E i, j \in DOMAIN ks : i <= j /\ ks[i] = o.by /\ ks[j] = p.by

\* o is signed with a key listed before the key that signed p.
Outranks(o, p, ks) ==
  \E i, j \in DOMAIN ks : i < j /\ ks[i] = o.by /\ ks[j] = p.by

\* o, received at the time at, may follow log.  made has the content of the CIDs.
ValidNext(made, log, o, at) ==
  IF Live(log) = {}
  THEN o.prev = NoCid /\ ~ o.tomb /\ Signs(o, o.keys)
  ELSE \E i \in Base(log, o) :
         /\ ~ made[log[i].cid].tomb
         /\ \/ After(log, i) = {} /\ Signs(o, made[log[i].cid].keys)
            \/ \E j \in After(log, i) :
                 /\ \A k \in After(log, i) : j <= k
                 /\ Outranks(o, made[log[j].cid], made[log[i].cid].keys)
                 /\ at <= log[j].at + Window

\* The CIDs of what o replaces.
Replaced(log, o) ==
  {c \in Cids : \E b \in Base(log, o) : \E j \in After(log, b) : log[j].cid = c}

\* The log with what o replaces marked as nullified.
Nullify(log, o) ==
  [i \in DOMAIN log |->
     IF \E b \in Base(log, o) : i \in After(log, b)
     THEN [log[i] EXCEPT !.nullified = TRUE] ELSE log[i]]

Extended(log, o, c, at) ==
  Append(Nullify(log, o), [cid |-> c, at |-> at, nullified |-> FALSE])
=============================================================================
