------------------------------ MODULE PlcUpdate ------------------------------
(***************************************************************************)
(* Users correct the PDS endpoint of their DID through Accounts, which     *)
(* signs with the key it manages, while the holders of the other rotation  *)
(* keys submit what they like (ADR 0011).  The DID, the directory and the  *)
(* holders are those of PlcDirectory; a slot u stands for one PATCH        *)
(* request.                                                                *)
(***************************************************************************)
EXTENDS PlcDirectory

CONSTANTS
  Patches,  \* slots for concurrent requests to Accounts
  Managed   \* the rotation key of Accounts

ASSUME ManagedAssumption == Managed \in Keys

VARIABLE patch  \* Accounts: the requests

vars == <<made, sent, directory, patch>>

NoPatch == [pc |-> "idle", head |-> NoCid, cid |-> NoCid]
Ended == {"idle", "changed", "conflict", "unknown"}

TypeOK ==
  /\ DirectoryTypeOK
  /\ patch \in [Patches -> [pc : Ended \cup {"signed", "submitted"},
                            head : Cids \cup {NoCid}, cid : Cids \cup {NoCid}]]

\* The genesis operation is made when the DID is.
Init ==
  /\ DirectoryInit
  /\ \E ks \in Rotations, e \in Endpoints, k \in Keys :
       /\ Signs([by |-> k], ks)
       /\ made = <<[prev |-> NoCid, by |-> k, keys |-> ks, endpoint |-> e, tomb |-> FALSE]>>
  /\ sent = {1}
  /\ patch = [u \in Patches |-> NoPatch]

\* Signing: equal content has one CID.
Signed(o, c) ==
  IF \E d \in DOMAIN made : made[d] = o
  THEN c \in DOMAIN made /\ made[c] = o /\ UNCHANGED made
  ELSE Len(made) < MaxOps /\ c = Len(made) + 1 /\ made' = Append(made, o)

-----------------------------------------------------------------------------
(* The holders of rotation keys, with tools of their own *)

\* An operation on top of any stored one.
Hold(k, p, ks, tomb) ==
  /\ Stored(rows, p)
  /\ k # Managed
  /\ \E c \in Cids :
       /\ Signed([prev |-> p, by |-> k, keys |-> ks, endpoint |-> made[p].endpoint,
                  tomb |-> tomb], c)
       /\ sent' = sent \cup {c}
  /\ UNCHANGED <<directory, patch>>

-----------------------------------------------------------------------------
(* Accounts: patch *)

EndPatch(u) == patch' = [patch EXCEPT ![u] = NoPatch]

\* Fault: the managed key may be anywhere in the list.
SignUpdateAny(u, e) ==
  /\ patch[u].pc \in Ended
  /\ \E i \in Resolved(rows) :
       LET h == rows[i].cid
           ks == made[h].keys
       IN  /\ made[h].endpoint # e
           /\ \E j \in DOMAIN ks : ks[j] = Managed
           /\ \E c \in Cids :
                /\ Signed([made[h] EXCEPT !.prev = h, !.by = Managed, !.endpoint = e], c)
                /\ patch' = [patch EXCEPT ![u] = [pc |-> "signed", head |-> h, cid |-> c]]
  /\ UNCHANGED <<sent, directory>>

\* The head is the one the user saw, has another endpoint, and lists the managed
\* key last; what is signed differs from it in the endpoint only.  Otherwise the
\* request ends here.
SignUpdate(u, e) ==
  /\ patch[u].pc \in Ended
  /\ \E i \in Resolved(rows) :
       LET h == rows[i].cid
           ks == made[h].keys
       IN  /\ made[h].endpoint # e
           /\ ks # <<>> /\ ks[Len(ks)] = Managed
           /\ \E c \in Cids :
                /\ Signed([made[h] EXCEPT !.prev = h, !.by = Managed, !.endpoint = e], c)
                /\ patch' = [patch EXCEPT ![u] = [pc |-> "signed", head |-> h, cid |-> c]]
  /\ UNCHANGED <<sent, directory>>

\* The head is read again, and the operation is submitted.
Submit(u) ==
  /\ patch[u].pc = "signed"
  /\ IF \E i \in Resolved(rows) : rows[i].cid = patch[u].head
     THEN /\ sent' = sent \cup {patch[u].cid}
          /\ patch' = [patch EXCEPT ![u].pc = "submitted"]
     ELSE EndPatch(u) /\ sent' = sent
  /\ UNCHANGED <<made, directory>>

\* Fault: a failed submission counts as refused.
ObserveRefused(u) ==
  /\ patch[u].pc = "submitted"
  /\ \E i \in Resolved(rows) :
       patch' = [patch EXCEPT ![u].pc =
         IF rows[i].cid = patch[u].cid THEN "changed" ELSE "conflict"]
  /\ UNCHANGED <<made, sent, directory>>

\* Whatever became of the submission, one read decides the answer.
Observe(u) ==
  /\ patch[u].pc = "submitted"
  /\ \E i \in Resolved(rows) :
       patch' = [patch EXCEPT ![u].pc =
         IF rows[i].cid = patch[u].cid THEN "changed"
         ELSE IF rows[i].cid # patch[u].head THEN "conflict" ELSE "unknown"]
  /\ UNCHANGED <<made, sent, directory>>

\* A read fails, or finds a tombstone, or the request is cut off.
PatchLost(u) ==
  /\ patch[u].pc \notin Ended
  /\ EndPatch(u)
  /\ UNCHANGED <<made, sent, directory>>

Next ==
  \/ DirectoryNext /\ UNCHANGED patch
  \/ \E k \in Keys, p \in Cids, ks \in Rotations, tomb \in BOOLEAN : Hold(k, p, ks, tomb)
  \/ \E u \in Patches :
       \/ \E e \in Endpoints : SignUpdate(u, e)
       \/ Submit(u) \/ Observe(u) \/ PatchLost(u)

Spec == Init /\ [][Next]_vars

-----------------------------------------------------------------------------

\* Reading, validating and storing in separate steps is as good as validating and
\* storing at once (did-service.ts 39-90).  The operations start as those of Init.
Log == INSTANCE PlcLog WITH log <- rows
ImplementsLog == [][Log!Next]_<<made, rows>>

\* What Accounts signs never takes an operation of somebody else out of the log,
\* however late it arrives (plc.ts 97-103, ADR 0011).
NoAccidentalRecovery ==
  [][\A i \in DOMAIN rows :
       rows'[i].nullified # rows[i].nullified =>
         made[rows'[Len(rows')].cid].by # Managed]_rows

\* Two updates for one head are never both stored, whichever was submitted first
\* and whichever retried (plc.ts 76, 128; expectedHead).
OneUpdatePerHead ==
  \A i, j \in DOMAIN rows :
    /\ made[rows[i].cid].by = Managed /\ made[rows[j].cid].by = Managed
    /\ made[rows[i].cid].prev # NoCid
    /\ made[rows[i].cid].prev = made[rows[j].cid].prev
    => i = j

\* A user who is told that the head changed can sign the change anew: the update
\* is stored already or never will be (plc.ts 145-147).
ConflictIsFinal ==
  [][\A u \in Patches :
       patch[u].pc = "conflict" /\ patch'[u] = patch[u] /\ ~ Stored(rows, patch[u].cid)
         => ~ Stored(rows', patch[u].cid)]_vars
=============================================================================
