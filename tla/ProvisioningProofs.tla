------------------------- MODULE ProvisioningProofs --------------------------
(***************************************************************************)
(* Proofs about Provisioning, for every number of users, usernames,        *)
(* concurrent requests and keys.                                           *)
(***************************************************************************)
EXTENDS Provisioning, TLAPS

USE ProvisioningAssumption DEF Dids, NoDid

-----------------------------------------------------------------------------
(* The inductive invariant.  Its parts are about one row, one request, one *)
(* call, given what they depend on: the stored DIDs S, the usernames h of  *)
(* the DIDs, the repositories R, the directory P and the accounts H.       *)

RowType == [name : Names \cup {NoName}, did : Dids \cup {NoDid},
            status : {"none", "provisioning", "active"}]
RequestPc == {"idle", "insert", "find", "key", "save", "reread", "release",
              "status", "plc", "invite", "create", "wait", "activate"}
RequestType == [pc : RequestPc, user : Users \cup {NoUser},
                name : Names \cup {NoName}, did : Dids \cup {NoDid},
                called : BOOLEAN]
CallPc == {"none", "invite", "key", "commit"} \cup Remote
CallType == [pc : CallPc, did : Dids \cup {NoDid}]

Chosen == {"status", "plc", "invite", "create", "wait", "activate"}

\* The DIDs some row has.
Stored == {accounts[u].did : u \in Users} \ {NoDid}

\* A stored DID was made for the username of its row, and an active row has an
\* account at the PDS.
RowOK(a, h, H) ==
  /\ a.did # NoDid => a.did \in 1..Len(h) /\ h[a.did] = a.name
  /\ a.status = "active" => a.did \in H

\* A request has a user and a username; the DID it is about to save was made for
\* that username, the one it goes on with is stored, and where it has found the
\* account, there is one.
RequestOK(q, S, h, H) ==
  /\ q.pc # "idle" => q.user \in Users /\ q.name \in Names
  /\ q.pc = "save" => q.did \in 1..Len(h) /\ h[q.did] = q.name
  /\ q.pc \in Chosen => q.did \in S
  /\ q.pc \in {"plc", "activate"} => q.did \in H

\* A call is for a stored DID and has done what comes before its control point.
CallOK(c, S, R, P, H) ==
  /\ c.pc # "none" => c.did \in S
  /\ c.pc \in {"submit", "commit", "announce"} => c.did \in R
  /\ c.pc \in {"commit", "announce"} => c.did \in P
  /\ c.pc = "announce" => c.did \in H

RowsOK ==
  /\ accounts \in [Users -> RowType]
  /\ \A u \in Users : RowOK(accounts[u], handles, hosted)
  /\ \A u, v \in Users :
       accounts[u].name = accounts[v].name /\ accounts[u].name # NoName => u = v

RequestsOK ==
  /\ req \in [Requests -> RequestType]
  /\ \A r \in Requests : RequestOK(req[r], Stored, handles, hosted)

CallsOK ==
  /\ call \in [Requests -> CallType]
  /\ \A r \in Requests : CallOK(call[r], Stored, repos, plc, hosted)

ServicesOK ==
  /\ handles \in Seq(Names) /\ Len(handles) <= MaxDids
  /\ keys \subseteq Dids
  /\ repos \subseteq Stored /\ plc \subseteq Stored
  /\ hosted \subseteq repos /\ hosted \subseteq plc
  /\ announced \subseteq hosted
  /\ sent \subseteq Remote \X Stored
  /\ \A d \in Stored : <<"announce", d>> \in sent => d \in hosted

IInv == RowsOK /\ RequestsOK /\ CallsOK /\ ServicesOK

LEMMA StoredDids == RowsOK => Stored \subseteq Dids
  BY DEF RowsOK, Stored, RowType

LEMMA InvImplies ==
  ASSUME IInv
  PROVE  TypeOK /\ OneIdentityPerUsername /\ ActiveVerified /\ AnnouncedAfterRecord
  <1> USE DEF IInv
  <1>1. Stored \subseteq Dids
    BY StoredDids
  <1>2. TypeOK
    BY <1>1 DEF TypeOK, RowsOK, RequestsOK, CallsOK, ServicesOK, RowType,
      RequestType, RequestPc, CallType, CallPc
  <1>3. OneIdentityPerUsername
    <2> SUFFICES ASSUME NEW d \in Produced, NEW e \in Produced,
                        handles[d] = handles[e]
                 PROVE  d = e
      BY DEF OneIdentityPerUsername
    <2>1. d \in Stored /\ e \in Stored
      BY DEF Produced, ServicesOK
    <2>2. PICK u \in Users : d = accounts[u].did /\ d # NoDid
      BY <2>1 DEF Stored
    <2>3. PICK v \in Users : e = accounts[v].did /\ e # NoDid
      BY <2>1 DEF Stored
    <2>4. handles[d] = accounts[u].name /\ handles[e] = accounts[v].name
          /\ d \in 1..Len(handles)
      BY <2>2, <2>3 DEF RowsOK, RowOK
    <2>5. accounts[u].name \in Names
      BY <2>4 DEF ServicesOK
    <2>6. u = v
      BY <2>4, <2>5 DEF RowsOK
    <2>7. QED
      BY <2>2, <2>3, <2>6
  <1>4. ActiveVerified
    BY DEF ActiveVerified, RowsOK, RowOK, ServicesOK
  <1>5. AnnouncedAfterRecord
    BY DEF AnnouncedAfterRecord, ServicesOK
  <1>6. QED
    BY <1>2, <1>3, <1>4, <1>5

-----------------------------------------------------------------------------
(* What holds in the beginning, and what more stored DIDs, more operations *)
(* and more effects leave alone.                                           *)

LEMMA InitInv == Init => IInv
  BY DEF Init, IInv, RowsOK, RequestsOK, CallsOK, ServicesOK, RowOK, RequestOK,
    CallOK, RowType, RequestType, RequestPc, CallType, CallPc, NoRow, NoRequest,
    NoCall, Stored, Chosen

Extends(h, g) == Len(h) <= Len(g) /\ \A i \in 1..Len(h) : g[i] = h[i]

LEMMA RowMonotone ==
  ASSUME NEW a, NEW h \in Seq(Names), NEW g \in Seq(Names), NEW H, NEW K,
         Extends(h, g), H \subseteq K, RowOK(a, h, H)
  PROVE  RowOK(a, g, K)
  BY DEF RowOK, Extends

LEMMA RequestMonotone ==
  ASSUME NEW q, NEW S, NEW T, NEW h \in Seq(Names), NEW g \in Seq(Names), NEW H, NEW K,
         S \subseteq T, Extends(h, g), H \subseteq K, RequestOK(q, S, h, H)
  PROVE  RequestOK(q, T, g, K)
  BY DEF RequestOK, Extends

LEMMA CallMonotone ==
  ASSUME NEW c, NEW S, NEW T, NEW R, NEW Q, NEW P, NEW O, NEW H, NEW K,
         S \subseteq T, R \subseteq Q, P \subseteq O, H \subseteq K,
         CallOK(c, S, R, P, H)
  PROVE  CallOK(c, T, Q, O, K)
  BY DEF CallOK

-----------------------------------------------------------------------------
(* Steps that change one request and nothing else *)

OthersWait(r) == \A s \in Requests \ {r} : req'[s] = req[s]

LEMMA GotoRequest ==
  ASSUME req \in [Requests -> RequestType], NEW r \in Requests,
         NEW p \in RequestPc, Goto(r, p)
  PROVE  /\ req' \in [Requests -> RequestType]
         /\ req'[r].pc = p /\ req'[r].user = req[r].user
         /\ req'[r].name = req[r].name /\ req'[r].did = req[r].did
         /\ OthersWait(r)
  BY DEF Goto, RequestType, RequestPc, OthersWait

LEMMA EndRequest ==
  ASSUME req \in [Requests -> RequestType], NEW r \in Requests, End(r)
  PROVE  /\ req' \in [Requests -> RequestType]
         /\ \A S, h, H : RequestOK(req'[r], S, h, H)
         /\ OthersWait(r)
  BY DEF End, NoRequest, RequestType, RequestPc, OthersWait, RequestOK, Chosen

LEMMA OneRequest ==
  ASSUME IInv, NEW r \in Requests,
         UNCHANGED <<accounts, handles, pds, others>>,
         req' \in [Requests -> RequestType], OthersWait(r),
         RequestOK(req'[r], Stored, handles, hosted)
  PROVE  IInv'
  <1>1. /\ accounts' = accounts /\ handles' = handles /\ keys' = keys
        /\ hosted' = hosted /\ call' = call /\ sent' = sent /\ repos' = repos
        /\ announced' = announced /\ plc' = plc
    BY DEF pds, others
  <1>2. Stored' = Stored
    BY <1>1 DEF Stored
  <1>3. RowsOK' /\ CallsOK' /\ ServicesOK'
    BY <1>1, <1>2 DEF IInv, RowsOK, CallsOK, ServicesOK
  <1>4. RequestsOK'
    BY <1>1, <1>2 DEF IInv, RequestsOK, OthersWait
  <1>5. QED
    BY <1>3, <1>4 DEF IInv

LEMMA StartInv ==
  ASSUME IInv, NEW r \in Requests, NEW u \in Users, NEW n \in Names, Start(r, u, n)
  PROVE  IInv'
  <1>1. /\ req' \in [Requests -> RequestType]
        /\ req'[r].pc = "insert" /\ req'[r].user = u /\ req'[r].name = n
        /\ OthersWait(r)
    BY DEF IInv, RequestsOK, Start, NoRequest, RequestType, RequestPc, OthersWait
  <1>2. RequestOK(req'[r], Stored, handles, hosted)
    BY <1>1 DEF RequestOK, Chosen
  <1>3. QED
    BY <1>1, <1>2, OneRequest DEF Start

LEMMA EndInv ==
  ASSUME IInv, NEW r \in Requests, End(r),
         UNCHANGED <<accounts, handles, pds, others>>
  PROVE  IInv'
  BY EndRequest, OneRequest DEF IInv, RequestsOK

\* Going on needs nothing but what the next control point relies on.
LEMMA GotoInv ==
  ASSUME IInv, NEW r \in Requests, NEW p \in RequestPc \ {"save"}, Goto(r, p),
         req[r].pc # "idle",
         p \in Chosen => req[r].did \in Stored,
         p \in {"plc", "activate"} => req[r].did \in hosted,
         UNCHANGED <<accounts, handles, pds, others>>
  PROVE  IInv'
  <1>1. /\ req' \in [Requests -> RequestType]
        /\ req'[r].pc = p /\ req'[r].user = req[r].user
        /\ req'[r].name = req[r].name /\ req'[r].did = req[r].did
        /\ OthersWait(r)
    BY GotoRequest DEF IInv, RequestsOK
  <1>2. RequestOK(req'[r], Stored, handles, hosted)
    BY <1>1 DEF IInv, RequestsOK, RequestOK
  <1>3. QED
    BY <1>1, <1>2, OneRequest

\* The call or its preparation has failed: its status is looked at again.
LEMMA CalledInv ==
  ASSUME IInv, NEW r \in Requests, req[r].pc \in Chosen,
         req' = [req EXCEPT ![r].pc = "status", ![r].called = TRUE],
         UNCHANGED <<accounts, handles, pds, others>>
  PROVE  IInv'
  <1>1. /\ req' \in [Requests -> RequestType]
        /\ req'[r].pc = "status" /\ req'[r].user = req[r].user
        /\ req'[r].name = req[r].name /\ req'[r].did = req[r].did
        /\ OthersWait(r)
    BY Zenon DEF IInv, RequestsOK, RequestType, RequestPc, OthersWait
  <1>2. RequestOK(req'[r], Stored, handles, hosted)
    BY <1>1 DEF IInv, RequestsOK, RequestOK, Chosen
  <1>3. QED
    BY <1>1, <1>2, OneRequest

LEMMA UseStoredInv ==
  ASSUME IInv, NEW r \in Requests, UseStored(r), req[r].pc # "idle",
         UNCHANGED <<accounts, handles, pds, others>>
  PROVE  IInv'
  <1>1. CASE End(r)
    BY <1>1, EndInv
  <1>2. CASE /\ Row(r).did # NoDid
             /\ req' = [req EXCEPT ![r].pc = "status", ![r].did = Row(r).did]
    <2>1. req[r].user \in Users /\ req[r].name \in Names
      BY DEF IInv, RequestsOK, RequestOK
    <2>2. Row(r).did \in Dids /\ Row(r).did \in Stored
      BY <1>2, <2>1 DEF IInv, RowsOK, RowType, Row, Stored
    <2>3. /\ req' \in [Requests -> RequestType]
          /\ req'[r].pc = "status" /\ req'[r].user = req[r].user
          /\ req'[r].name = req[r].name /\ req'[r].did = Row(r).did
          /\ OthersWait(r)
      BY Zenon, <1>2, <2>2 DEF IInv, RequestsOK, RequestType, RequestPc, OthersWait
    <2>4. RequestOK(req'[r], Stored, handles, hosted)
      BY <2>1, <2>2, <2>3 DEF RequestOK
    <2>5. QED
      BY <2>3, <2>4, OneRequest
  <1>3. QED
    BY <1>1, <1>2 DEF UseStored

-----------------------------------------------------------------------------
(* Steps that change a row as well *)

\* No stored DID is lost, and the username the row gets is nobody's.
LEMMA OneRow ==
  ASSUME IInv, NEW r \in Requests, NEW u \in Users, NEW a \in RowType,
         accounts' = [accounts EXCEPT ![u] = a],
         RowOK(a, handles, hosted),
         accounts[u].did = NoDid \/ accounts[u].did = a.did,
         \/ a.name = accounts[u].name
         \/ a.name = NoName
         \/ \A v \in Users : accounts[v].name # a.name,
         req' \in [Requests -> RequestType], OthersWait(r),
         RequestOK(req'[r], Stored, handles, hosted),
         UNCHANGED <<handles, pds, others>>
  PROVE  IInv'
  <1>1. /\ handles' = handles /\ keys' = keys /\ hosted' = hosted
        /\ call' = call /\ sent' = sent /\ repos' = repos
        /\ announced' = announced /\ plc' = plc
    BY DEF pds, others
  <1>2. /\ accounts' \in [Users -> RowType]
        /\ accounts'[u] = a
        /\ \A v \in Users \ {u} : accounts'[v] = accounts[v]
    BY DEF IInv, RowsOK
  <1>3. Stored \subseteq Stored'
    <2> SUFFICES ASSUME NEW v \in Users, accounts[v].did # NoDid
                 PROVE  accounts'[v].did = accounts[v].did
      BY DEF Stored
    <2>1. QED
      BY <1>2
  <1>4. RowsOK'
    <2>1. \A v \in Users : RowOK(accounts'[v], handles, hosted)
      BY <1>2 DEF IInv, RowsOK
    <2>2. \A v, w \in Users :
            accounts'[v].name = accounts'[w].name /\ accounts'[v].name # NoName
              => v = w
      BY <1>2 DEF IInv, RowsOK
    <2>3. QED
      BY <1>1, <1>2, <2>1, <2>2 DEF RowsOK
  <1>5. RequestsOK'
    <2>1. \A s \in Requests : RequestOK(req'[s], Stored, handles, hosted)
      BY DEF IInv, RequestsOK, OthersWait
    <2>2. handles \in Seq(Names) /\ Extends(handles, handles)
      BY DEF IInv, ServicesOK, Extends
    <2>3. \A s \in Requests : RequestOK(req'[s], Stored', handles, hosted)
      BY <1>3, <2>1, <2>2, RequestMonotone
    <2>4. QED
      BY <1>1, <2>3 DEF RequestsOK
  <1>6. CallsOK'
    <2>1. \A s \in Requests : CallOK(call[s], Stored', repos, plc, hosted)
      BY <1>3, CallMonotone DEF IInv, CallsOK
    <2>2. QED
      BY <1>1, <2>1 DEF IInv, CallsOK
  <1>7. ServicesOK'
    BY <1>1, <1>3 DEF IInv, ServicesOK
  <1>8. QED
    BY <1>4, <1>5, <1>6, <1>7 DEF IInv

LEMMA InsertInv == ASSUME IInv, NEW r \in Requests, Insert(r) PROVE IInv'
  <1> DEFINE u == req[r].user
             n == req[r].name
             a == [name |-> n, did |-> NoDid, status |-> "provisioning"]
  <1>1. u \in Users /\ n \in Names
    BY DEF IInv, RequestsOK, RequestOK, Insert
  <1>2. Goto(r, "find") /\ UNCHANGED <<handles, pds, others>>
    BY DEF Insert
  <1>3. CASE UNCHANGED accounts
    BY <1>2, <1>3, GotoInv DEF RequestPc, Chosen, Insert
  <1>4. CASE accounts[u] = NoRow /\ (\A v \in Users : accounts[v].name # n)
             /\ accounts' = [accounts EXCEPT ![u] = a]
    <2>1. /\ req' \in [Requests -> RequestType] /\ OthersWait(r)
          /\ req'[r].pc = "find" /\ req'[r].user = u /\ req'[r].name = n
      BY <1>2, GotoRequest DEF IInv, RequestsOK, RequestPc
    <2>2. RequestOK(req'[r], Stored, handles, hosted)
      BY <1>1, <2>1 DEF RequestOK, Chosen
    <2>3. a \in RowType /\ RowOK(a, handles, hosted) /\ accounts[u].did = NoDid
          /\ a.name = n
      BY <1>1, <1>4 DEF RowType, RowOK, NoRow
    <2>4. QED
      BY <1>1, <1>2, <1>4, <2>1, <2>2, <2>3, OneRow
  <1>5. QED
    BY <1>3, <1>4 DEF Insert

LEMMA SaveInv == ASSUME IInv, NEW r \in Requests, Save(r) PROVE IInv'
  <1> DEFINE u == req[r].user
             a == [accounts[u] EXCEPT !.did = req[r].did]
  <1>1. u \in Users /\ req[r].did \in 1..Len(handles)
        /\ handles[req[r].did] = req[r].name /\ req[r].did \in Dids
    BY DEF IInv, RequestsOK, RequestOK, Save, ServicesOK
  <1>2. Goto(r, "reread") /\ UNCHANGED <<handles, pds, others>>
    BY DEF Save
  <1>3. CASE UNCHANGED accounts
    BY <1>2, <1>3, GotoInv DEF RequestPc, Chosen, Save
  <1>4. CASE Empty(accounts[u], req[r].name) /\ accounts' = [accounts EXCEPT ![u] = a]
    <2>1. /\ req' \in [Requests -> RequestType] /\ OthersWait(r)
          /\ req'[r].pc = "reread" /\ req'[r].user = u
          /\ req'[r].name = req[r].name
      BY <1>2, GotoRequest DEF IInv, RequestsOK, RequestPc
    <2>2. RequestOK(req'[r], Stored, handles, hosted)
      BY <2>1 DEF IInv, RequestsOK, RequestOK, Chosen, Save
    <2>3. accounts[u] \in RowType
      BY <1>1 DEF IInv, RowsOK
    <2>4. /\ a \in RowType /\ a.did = req[r].did
          /\ a.name = accounts[u].name /\ a.status = accounts[u].status
      BY <1>1, <2>3 DEF RowType
    <2>5. RowOK(a, handles, hosted) /\ accounts[u].did = NoDid
      BY <1>1, <1>4, <2>4 DEF RowOK, Empty
    <2>6. QED
      BY <1>1, <1>2, <1>4, <2>1, <2>2, <2>4, <2>5, OneRow
  <1>5. QED
    <2>1. [accounts EXCEPT ![u].did = req[r].did] = [accounts EXCEPT ![u] = a]
      OBVIOUS
    <2>2. QED
      BY <1>3, <1>4, <2>1 DEF Save, Row

LEMMA ReleaseInv == ASSUME IInv, NEW r \in Requests, Release(r) PROVE IInv'
  <1> DEFINE u == req[r].user
  <1>1. u \in Users
    BY DEF IInv, RequestsOK, RequestOK, Release
  <1>2. End(r) /\ UNCHANGED <<handles, pds, others>>
    BY DEF Release
  <1>3. CASE UNCHANGED accounts
    BY <1>2, <1>3, EndInv
  <1>4. CASE Empty(accounts[u], req[r].name) /\ accounts' = [accounts EXCEPT ![u] = NoRow]
    <2>1. /\ req' \in [Requests -> RequestType] /\ OthersWait(r)
          /\ RequestOK(req'[r], Stored, handles, hosted)
      BY <1>2, EndRequest DEF IInv, RequestsOK
    <2>2. NoRow \in RowType /\ RowOK(NoRow, handles, hosted)
          /\ accounts[u].did = NoDid /\ NoRow.name = NoName
      BY <1>4 DEF NoRow, RowType, RowOK, Empty
    <2>3. QED
      BY <1>1, <1>2, <1>4, <2>1, <2>2, OneRow
  <1>5. QED
    BY <1>3, <1>4 DEF Release, Row

LEMMA ActivateInv == ASSUME IInv, NEW r \in Requests, Activate(r) PROVE IInv'
  <1> DEFINE u == req[r].user
             a == [accounts[u] EXCEPT !.status = "active"]
  <1>1. u \in Users /\ req[r].did \in hosted
    BY DEF IInv, RequestsOK, RequestOK, Activate
  <1>2. End(r) /\ UNCHANGED <<handles, pds, others>>
    BY DEF Activate
  <1>3. CASE UNCHANGED accounts
    BY <1>2, <1>3, EndInv
  <1>4. CASE accounts[u].did = req[r].did /\ accounts' = [accounts EXCEPT ![u] = a]
    <2>1. /\ req' \in [Requests -> RequestType] /\ OthersWait(r)
          /\ RequestOK(req'[r], Stored, handles, hosted)
      BY <1>2, EndRequest DEF IInv, RequestsOK
    <2>2. accounts[u] \in RowType /\ RowOK(accounts[u], handles, hosted)
      BY <1>1 DEF IInv, RowsOK
    <2>3. /\ a \in RowType /\ a.did = accounts[u].did
          /\ a.name = accounts[u].name
      BY <2>2 DEF RowType
    <2>4. RowOK(a, handles, hosted)
      BY <1>1, <1>4, <2>2, <2>3 DEF RowOK
    <2>5. QED
      BY <1>1, <1>2, <1>4, <2>1, <2>3, <2>4, OneRow
  <1>5. QED
    <2>1. [accounts EXCEPT ![u].status = "active"] = [accounts EXCEPT ![u] = a]
      OBVIOUS
    <2>2. QED
      BY <1>3, <1>4, <2>1 DEF Activate, Row

-----------------------------------------------------------------------------
(* A new key: the operations get longer *)

LEMMA NewKey ==
  ASSUME IInv, NEW r \in Requests, NEW p \in {"save", "release"},
         req[r].pc = "key", Len(handles) < MaxDids,
         handles' = Append(handles, req[r].name),
         keys' = keys \cup {Len(handles) + 1},
         req' \in [Requests -> RequestType], OthersWait(r),
         req'[r].pc = p, req'[r].user = req[r].user,
         req'[r].name = req[r].name,
         p = "save" => req'[r].did = Len(handles) + 1,
         UNCHANGED <<accounts, hosted, call, others>>
  PROVE  IInv'
  <1>1. /\ accounts' = accounts /\ hosted' = hosted
        /\ call' = call /\ sent' = sent /\ repos' = repos
        /\ announced' = announced /\ plc' = plc
    BY DEF others
  <1>2. Stored' = Stored
    BY <1>1 DEF Stored
  <1>3. req[r].user \in Users /\ req[r].name \in Names
    BY DEF IInv, RequestsOK, RequestOK
  <1>4. /\ handles \in Seq(Names) /\ handles' \in Seq(Names)
        /\ Len(handles') = Len(handles) + 1
        /\ handles'[Len(handles) + 1] = req[r].name
        /\ Extends(handles, handles')
    BY <1>3 DEF IInv, ServicesOK, Extends
  <1>5. RowsOK'
    <2>1. \A u \in Users : RowOK(accounts[u], handles', hosted)
      BY <1>4, RowMonotone DEF IInv, RowsOK
    <2>2. QED
      BY <1>1, <2>1 DEF IInv, RowsOK
  <1>6. RequestsOK'
    <2>1. \A s \in Requests \ {r} : RequestOK(req'[s], Stored, handles', hosted)
      BY <1>4, RequestMonotone DEF IInv, RequestsOK, OthersWait
    <2>2. RequestOK(req'[r], Stored, handles', hosted)
      BY <1>3, <1>4 DEF RequestOK, Chosen
    <2>3. QED
      BY <1>1, <1>2, <2>1, <2>2 DEF RequestsOK
  <1>7. CallsOK'
    BY <1>1, <1>2 DEF IInv, CallsOK
  <1>8. ServicesOK'
    <2>1. handles' \in Seq(Names) /\ Len(handles') <= MaxDids
          /\ Len(handles) + 1 \in Dids
      BY <1>4
    <2>2. keys' \subseteq Dids
      BY <2>1 DEF IInv, ServicesOK
    <2>3. QED
      BY <1>1, <1>2, <2>1, <2>2 DEF IInv, ServicesOK
  <1>9. QED
    BY <1>5, <1>6, <1>7, <1>8 DEF IInv

LEMMA ReserveKeyInv ==
  ASSUME IInv, NEW r \in Requests, ReserveKey(r) \/ ReserveKeyFails(r)
  PROVE  IInv'
  <1>1. req \in [Requests -> RequestType] /\ Len(handles) \in Nat
    BY DEF IInv, RequestsOK, ServicesOK
  <1>2. CASE ReserveKey(r)
    <2>1. Len(handles) + 1 \in Dids
      BY <1>1, <1>2 DEF ReserveKey
    <2>2. /\ req' \in [Requests -> RequestType] /\ OthersWait(r)
          /\ req'[r].pc = "save" /\ req'[r].user = req[r].user
          /\ req'[r].name = req[r].name /\ req'[r].did = Len(handles) + 1
      BY Zenon, <1>1, <1>2, <2>1 DEF ReserveKey, RequestType, RequestPc, OthersWait
    <2>3. QED
      BY <1>2, <2>2, NewKey DEF ReserveKey
  <1>3. CASE ReserveKeyFails(r)
    <2>1. /\ req' \in [Requests -> RequestType] /\ OthersWait(r)
          /\ req'[r].pc = "release" /\ req'[r].user = req[r].user
          /\ req'[r].name = req[r].name
      BY <1>1, <1>3, GotoRequest DEF ReserveKeyFails, RequestPc
    <2>2. CASE UNCHANGED <<handles, keys>>
      BY <1>3, <2>2, GotoInv DEF ReserveKeyFails, RequestPc, Chosen, pds
    <2>3. CASE Len(handles) < MaxDids /\ handles' = Append(handles, req[r].name)
               /\ keys' = keys \cup {Len(handles) + 1}
      BY <1>3, <2>1, <2>3, NewKey DEF ReserveKeyFails
    <2>4. QED
      BY <1>3, <2>2, <2>3 DEF ReserveKeyFails
  <1>4. QED
    BY <1>2, <1>3

-----------------------------------------------------------------------------
(* Steps of a call *)

OthersGoOn(r) == \A s \in Requests \ {r} : call'[s] = call[s]

LEMMA CallGotoCall ==
  ASSUME call \in [Requests -> CallType], NEW r \in Requests, NEW p \in CallPc,
         call' = [call EXCEPT ![r].pc = p]
  PROVE  /\ call' \in [Requests -> CallType]
         /\ call'[r].pc = p /\ call'[r].did = call[r].did
         /\ OthersGoOn(r)
  BY DEF CallType, CallPc, OthersGoOn

LEMMA EndCallCall ==
  ASSUME call \in [Requests -> CallType], NEW r \in Requests, EndCall(r)
  PROVE  /\ call' \in [Requests -> CallType]
         /\ \A S, R, P, H : CallOK(call'[r], S, R, P, H)
         /\ OthersGoOn(r)
  BY DEF EndCall, NoCall, CallType, CallPc, OthersGoOn, CallOK

\* One call, and what it has sent; the account is there from Commit on.
LEMMA OneCall ==
  ASSUME IInv, NEW r \in Requests,
         UNCHANGED <<accounts, req, handles, repos, announced, plc>>,
         call' \in [Requests -> CallType], OthersGoOn(r),
         keys' \subseteq keys,
         hosted \subseteq hosted', hosted' \subseteq repos, hosted' \subseteq plc,
         CallOK(call'[r], Stored, repos, plc, hosted'),
         sent' \subseteq Remote \X Stored,
         \A d \in Stored : <<"announce", d>> \in sent' => d \in hosted'
  PROVE  IInv'
  <1>1. Stored' = Stored
    BY DEF Stored
  <1>2. handles \in Seq(Names) /\ Extends(handles, handles)
    BY DEF IInv, ServicesOK, Extends
  <1>3. RowsOK'
    <2>1. \A u \in Users : RowOK(accounts[u], handles, hosted')
      BY DEF IInv, RowsOK, RowOK
    <2>2. QED
      BY <2>1 DEF IInv, RowsOK
  <1>4. RequestsOK'
    <2>1. \A s \in Requests : RequestOK(req[s], Stored, handles, hosted')
      BY DEF IInv, RequestsOK, RequestOK
    <2>2. QED
      BY <1>1, <2>1 DEF IInv, RequestsOK
  <1>5. CallsOK'
    <2>1. \A s \in Requests : CallOK(call'[s], Stored, repos, plc, hosted')
      BY CallMonotone DEF IInv, CallsOK, OthersGoOn
    <2>2. QED
      BY <1>1, <2>1 DEF CallsOK
  <1>6. ServicesOK'
    BY <1>1 DEF IInv, ServicesOK
  <1>7. QED
    BY <1>3, <1>4, <1>5, <1>6 DEF IInv

LEMMA EndCallInv ==
  ASSUME IInv, NEW r \in Requests, EndCall(r),
         UNCHANGED <<accounts, req, handles, keys, hosted, others>>
  PROVE  IInv'
  <1>1. /\ call' \in [Requests -> CallType] /\ OthersGoOn(r)
        /\ CallOK(call'[r], Stored, repos, plc, hosted)
    BY EndCallCall DEF IInv, CallsOK
  <1>2. QED
    BY <1>1, OneCall DEF IInv, ServicesOK, others

\* Going on with what the next control point relies on.
LEMMA CallGotoInv ==
  ASSUME IInv, NEW r \in Requests, NEW p \in CallPc \ {"none", "announce"},
         NEW ms \in SUBSET ({"reserveRepo", "submit"} \X {call[r].did}),
         CallGoto(r, p, ms),
         call[r].pc # "none",
         p \in {"submit", "commit"} => call[r].did \in repos,
         p = "commit" => call[r].did \in plc,
         UNCHANGED <<accounts, req, handles, keys, hosted, repos, announced, plc>>
  PROVE  IInv'
  <1>1. /\ call' \in [Requests -> CallType]
        /\ call'[r].pc = p /\ call'[r].did = call[r].did /\ OthersGoOn(r)
    BY CallGotoCall DEF IInv, CallsOK, CallGoto
  <1>2. call[r].did \in Stored
    BY DEF IInv, CallsOK, CallOK
  <1>3. CallOK(call'[r], Stored, repos, plc, hosted)
    BY <1>1, <1>2 DEF CallOK
  <1>4. /\ sent' \subseteq Remote \X Stored
        /\ \A d \in Stored : <<"announce", d>> \in sent' => <<"announce", d>> \in sent
    BY <1>2 DEF CallGoto, IInv, ServicesOK, Remote
  <1>5. QED
    BY <1>1, <1>3, <1>4, OneCall DEF IInv, ServicesOK

LEMMA CommitInv == ASSUME IInv, NEW r \in Requests, Commit(r) PROVE IInv'
  <1> DEFINE d == call[r].did
  <1>1. d \in Stored /\ d \in repos /\ d \in plc
    BY DEF IInv, CallsOK, CallOK, Commit
  <1>2. /\ call' \in [Requests -> CallType]
        /\ call'[r].pc = "announce" /\ call'[r].did = d /\ OthersGoOn(r)
    BY CallGotoCall DEF IInv, CallsOK, Commit, CallGoto, CallPc, Remote
  <1>3. /\ hosted' = hosted \cup {d} /\ keys' \subseteq keys
        /\ sent' = sent \cup {<<"announce", d>>}
    BY DEF Commit, CallGoto
  <1>4. CallOK(call'[r], Stored, repos, plc, hosted')
    BY <1>1, <1>2, <1>3 DEF CallOK
  <1>5. /\ hosted \subseteq hosted' /\ hosted' \subseteq repos /\ hosted' \subseteq plc
    BY <1>1, <1>3 DEF IInv, ServicesOK
  <1>6. sent' \subseteq Remote \X Stored
    BY <1>1, <1>3 DEF IInv, ServicesOK, Remote
  <1>7. \A e \in Stored : <<"announce", e>> \in sent' => e \in hosted'
    BY <1>3 DEF IInv, ServicesOK
  <1>8. QED
    BY <1>2, <1>3, <1>4, <1>5, <1>6, <1>7, OneCall DEF Commit

LEMMA CreateInv == ASSUME IInv, NEW r \in Requests, Create(r) PROVE IInv'
  <1>1. /\ req' \in [Requests -> RequestType] /\ OthersWait(r)
        /\ req'[r].pc = "wait" /\ req'[r].user = req[r].user
        /\ req'[r].name = req[r].name /\ req'[r].did = req[r].did
    BY GotoRequest DEF IInv, RequestsOK, Create, RequestPc
  <1>2. req[r].did \in Stored /\ req[r].did \in Dids
    BY StoredDids DEF IInv, RequestsOK, RequestOK, Create, Chosen
  <1>3. /\ accounts' = accounts /\ handles' = handles /\ keys' = keys
        /\ hosted' = hosted /\ sent' = sent /\ repos' = repos
        /\ announced' = announced /\ plc' = plc
        /\ call' = [call EXCEPT ![r] = [pc |-> "invite", did |-> req[r].did]]
    BY DEF Create, others
  <1>4. Stored' = Stored
    BY <1>3 DEF Stored
  <1>5. RequestsOK'
    <2>1. RequestOK(req'[r], Stored, handles, hosted)
      BY <1>1, <1>2 DEF IInv, RequestsOK, RequestOK, Create
    <2>2. \A s \in Requests : RequestOK(req'[s], Stored, handles, hosted)
      BY <1>1, <2>1 DEF IInv, RequestsOK, OthersWait
    <2>3. QED
      BY <1>1, <1>3, <1>4, <2>2 DEF RequestsOK
  <1>6. CallsOK'
    <2>1. /\ call' \in [Requests -> CallType] /\ OthersGoOn(r)
          /\ call'[r] = [pc |-> "invite", did |-> req[r].did]
      BY <1>2, <1>3 DEF IInv, CallsOK, CallType, CallPc, OthersGoOn
    <2>2. \A s \in Requests : CallOK(call'[s], Stored, repos, plc, hosted)
      BY <1>2, <2>1 DEF IInv, CallsOK, CallOK, OthersGoOn
    <2>3. QED
      BY <1>3, <1>4, <2>1, <2>2 DEF CallsOK
  <1>7. RowsOK' /\ ServicesOK'
    BY <1>3, <1>4 DEF IInv, RowsOK, ServicesOK
  <1>8. QED
    BY <1>5, <1>6, <1>7 DEF IInv

-----------------------------------------------------------------------------
(* What RepoDO and the directory do with what was sent *)

LEMMA Executed ==
  ASSUME IInv, UNCHANGED <<accounts, req, handles, pds>>,
         repos \subseteq repos', repos' \subseteq Stored,
         plc \subseteq plc', plc' \subseteq Stored,
         announced' \subseteq hosted, sent' \subseteq sent
  PROVE  IInv'
  <1>1. /\ accounts' = accounts /\ req' = req /\ handles' = handles
        /\ keys' = keys /\ hosted' = hosted /\ call' = call
    BY DEF pds
  <1>2. Stored' = Stored
    BY <1>1 DEF Stored
  <1>3. RowsOK' /\ RequestsOK'
    BY <1>1, <1>2 DEF IInv, RowsOK, RequestsOK
  <1>4. CallsOK'
    <2>1. \A s \in Requests : CallOK(call[s], Stored, repos', plc', hosted)
      BY CallMonotone DEF IInv, CallsOK
    <2>2. QED
      BY <1>1, <1>2, <2>1 DEF IInv, CallsOK
  <1>5. ServicesOK'
    BY <1>1, <1>2 DEF IInv, ServicesOK
  <1>6. QED
    BY <1>3, <1>4, <1>5 DEF IInv

LEMMA ExecuteInv ==
  ASSUME IInv, Execute \/ \E m \in Remote \X Dids : SentLost(m)
  PROVE  IInv'
  <1>1. /\ sent \subseteq Remote \X Stored
        /\ \A d \in Stored : <<"announce", d>> \in sent => d \in hosted
        /\ repos \subseteq Stored /\ plc \subseteq Stored /\ announced \subseteq hosted
    BY DEF IInv, ServicesOK
  <1>2. ASSUME NEW d \in Dids, ExecReserveRepo(d)
        PROVE  IInv'
    BY <1>1, <1>2, Executed DEF ExecReserveRepo
  <1>3. ASSUME NEW d \in Dids, ExecSubmit(d)
        PROVE  IInv'
    BY <1>1, <1>3, Executed DEF ExecSubmit
  <1>4. ASSUME NEW d \in Dids, ExecAnnounce(d)
        PROVE  IInv'
    BY <1>1, <1>4, Executed DEF ExecAnnounce
  <1>5. ASSUME NEW m \in Remote \X Dids, SentLost(m)
        PROVE  IInv'
    BY <1>1, <1>5, Executed DEF SentLost
  <1>6. QED
    BY <1>2, <1>3, <1>4, <1>5 DEF Execute

-----------------------------------------------------------------------------
(* Every step *)

LEMMA RequestInv ==
  ASSUME IInv, NEW r \in Requests,
    \/ RequestStep(r)
    \/ ReserveKeyFails(r) \/ SaveFails(r) \/ StatusFails(r) \/ InviteFails(r)
    \/ AnswerLost(r) \/ Abort(r)
  PROVE IInv'
  <1> USE DEF RequestPc, Chosen
  <1>1. CASE Insert(r) \/ Save(r) \/ Release(r) \/ Activate(r) \/ Create(r)
    BY <1>1, InsertInv, SaveInv, ReleaseInv, ActivateInv, CreateInv
  <1>2. CASE ReserveKey(r) \/ ReserveKeyFails(r)
    BY <1>2, ReserveKeyInv
  <1>3. CASE Find(r)
    <2>1. CASE End(r)
      BY <1>3, <2>1, EndInv DEF Find
    <2>2. CASE Goto(r, "key")
      BY <1>3, <2>2, GotoInv DEF Find
    <2>3. CASE UseStored(r)
      BY <1>3, <2>3, UseStoredInv DEF Find
    <2>4. QED
      BY <1>3, <2>1, <2>2, <2>3 DEF Find
  <1>4. CASE Reread(r)
    BY <1>4, EndInv, UseStoredInv DEF Reread
  <1>5. CASE RepoStatus(r) \/ PlcState(r) \/ Invite(r)
    <2>1. req[r].did \in Stored
      BY <1>5 DEF IInv, RequestsOK, RequestOK, RepoStatus, PlcState, Invite
    <2>2. CASE RepoStatus(r)
      BY <2>1, <2>2, EndInv, GotoInv DEF RepoStatus
    <2>3. CASE PlcState(r)
      <3>1. req[r].did \in hosted
        BY <2>3 DEF PlcState, IInv, RequestsOK, RequestOK
      <3>2. QED
        BY <2>1, <2>3, <3>1, EndInv, GotoInv DEF PlcState
    <2>4. CASE Invite(r)
      BY <2>1, <2>4, GotoInv DEF Invite
    <2>5. QED
      BY <1>5, <2>2, <2>3, <2>4
  <1>5a. CASE Answered(r) \/ AnswerLost(r) \/ InviteFails(r)
    BY <1>5a, CalledInv DEF Answered, AnswerLost, InviteFails
  <1>6. CASE SaveFails(r)
    BY <1>6, GotoInv DEF SaveFails
  <1>7. CASE StatusFails(r) \/ Abort(r)
    BY <1>7, EndInv DEF StatusFails, Abort
  <1>8. QED
    BY <1>1, <1>2, <1>3, <1>4, <1>5, <1>5a, <1>6, <1>7 DEF RequestStep

LEMMA CallInv ==
  ASSUME IInv, NEW r \in Requests,
    CallStep(r) \/ InviteExpired(r) \/ CallLost(r)
  PROVE IInv'
  <1> USE DEF CallPc, Remote
  <1>1. CASE ClaimInvite(r)
    BY <1>1, CallGotoInv DEF ClaimInvite
  <1>2. CASE ClaimKey(r)
    <2>1. CASE CallGoto(r, "reserveRepo", {<<"reserveRepo", call[r].did>>})
      BY <1>2, <2>1, CallGotoInv DEF ClaimKey
    <2>2. CASE EndCall(r) /\ sent' = sent
      BY <1>2, <2>2, EndCallInv DEF ClaimKey, others
    <2>3. QED
      BY <1>2, <2>1, <2>2 DEF ClaimKey
  <1>3. CASE RepoReserved(r)
    BY <1>3, CallGotoInv DEF RepoReserved
  <1>4. CASE Submitted(r)
    <2>1. call[r].did \in repos
      BY <1>4 DEF Submitted, IInv, CallsOK, CallOK
    <2>2. QED
      BY <1>4, <2>1, CallGotoInv DEF Submitted
  <1>5. CASE Commit(r)
    BY <1>5, CommitInv
  <1>6. CASE Announced(r) \/ CallFails(r) \/ InviteExpired(r) \/ CallLost(r)
    BY <1>6, EndCallInv DEF Announced, CallFails, InviteExpired, CallLost
  <1>7. QED
    BY <1>1, <1>2, <1>3, <1>4, <1>5, <1>6 DEF CallStep

LEMMA NextInv == IInv /\ [Next]_vars => IInv'
  <1> SUFFICES ASSUME IInv, [Next]_vars
               PROVE  IInv'
    OBVIOUS
  <1>1. CASE Next
    BY <1>1, StartInv, RequestInv, CallInv, ExecuteInv DEF Next, Progress, Failure
  <1>2. CASE UNCHANGED vars
    BY <1>2 DEF vars, IInv, RowsOK, RequestsOK, CallsOK, ServicesOK, Stored
  <1>3. QED
    BY <1>1, <1>2

LEMMA Inductive == Spec => []IInv
  BY InitInv, NextInv, PTL DEF Spec

-----------------------------------------------------------------------------

\* Every variable of account creation keeps its type.
THEOREM ProvisioningTypeCorrect == Spec => []TypeOK
  BY Inductive, InvImplies, PTL

\* One username never has two identities at the PDS or in the directory, with
\* any number of users, concurrent requests, failures and late calls.
THEOREM UsernameHasOneIdentity == Spec => []OneIdentityPerUsername
  BY Inductive, InvImplies, PTL

\* Accounts activates only accounts that exist at the PDS, in their repository
\* and in the directory.
THEOREM ActiveIsVerified == Spec => []ActiveVerified
  BY Inductive, InvImplies, PTL

\* The PDS announces an account only after its identity and record exist.
THEOREM AnnouncedLast == Spec => []AnnouncedAfterRecord
  BY Inductive, InvImplies, PTL

-----------------------------------------------------------------------------
(* Provisioning implements IdentityRegistry *)

Identity == [n \in Names |-> IdentityOf(n)]
Active == {accounts[u].name : u \in {v \in Users : accounts[v].status = "active"}}
RegistryStutters == UNCHANGED <<Identity, Produced, Active>>

\* Usernames are unique, so the row of a username decides its identity.
Registered ==
  \A n \in Names :
    /\ \A u \in Users : accounts[u].name = n => IdentityOf(n) = accounts[u].did
    /\ (\A u \in Users : accounts[u].name # n) => IdentityOf(n) = NoDid

LEMMA RowsRegister == RowsOK => Registered
  <1> SUFFICES ASSUME RowsOK, NEW n \in Names
               PROVE  /\ \A u \in Users : accounts[u].name = n =>
                           IdentityOf(n) = accounts[u].did
                      /\ (\A u \in Users : accounts[u].name # n) =>
                           IdentityOf(n) = NoDid
    BY DEF Registered
  <1>1. ASSUME NEW u \in Users, accounts[u].name = n
        PROVE  IdentityOf(n) = accounts[u].did
    <2>1. \A v \in Users : accounts[v].name = n => v = u
      BY <1>1 DEF RowsOK
    <2>2. (CHOOSE v \in Users : accounts[v].name = n) = u
      BY <1>1, <2>1
    <2>3. QED
      BY <1>1, <2>2 DEF IdentityOf
  <1>2. QED
    BY <1>1 DEF IdentityOf

LEMMA SameAccounts ==
  ASSUME accounts' = accounts, Produced' = Produced
  PROVE  RegistryStutters
  BY DEF RegistryStutters, Identity, Active, IdentityOf

\* A row that changes while it has no DID, or that keeps its username and DID,
\* changes no identity.
LEMMA SameIdentities ==
  ASSUME RowsOK, RowsOK', NEW u \in Users,
         \A v \in Users \ {u} : accounts'[v] = accounts[v],
         \/ accounts[u].did = NoDid /\ accounts'[u].did = NoDid
         \/ accounts'[u].name = accounts[u].name /\ accounts'[u].did = accounts[u].did
  PROVE  Identity' = Identity
  <1>1. Registered
    BY RowsRegister
  <1>2. Registered'
    BY RowsRegister, PTL
  <1>3. ASSUME NEW n \in Names
        PROVE  IdentityOf(n)' = IdentityOf(n)
    BY <1>1, <1>2 DEF Registered
  <1>4. QED
    BY <1>3 DEF Identity

LEMMA InsertStutters ==
  ASSUME IInv, IInv', NEW r \in Requests, Insert(r)
  PROVE  RegistryStutters
  <1> DEFINE u == req[r].user
  <1>1. Produced' = Produced
    BY DEF Insert, Produced, pds, others
  <1>2. CASE accounts' = accounts
    BY <1>1, <1>2, SameAccounts
  <1>3. CASE accounts[u] = NoRow /\ accounts' = [accounts EXCEPT ![u] =
               [name |-> req[r].name, did |-> NoDid, status |-> "provisioning"]]
    <2>1. u \in Users
      BY DEF IInv, RequestsOK, RequestOK, Insert
    <2>2. /\ \A v \in Users \ {u} : accounts'[v] = accounts[v]
          /\ accounts[u].did = NoDid /\ accounts'[u].did = NoDid
          /\ accounts[u].status # "active" /\ accounts'[u].status # "active"
      BY <1>3, <2>1 DEF IInv, RowsOK, NoRow
    <2>3. Identity' = Identity
      BY <2>1, <2>2, SameIdentities DEF IInv
    <2>4. Active' = Active
      BY <2>2 DEF Active
    <2>5. QED
      BY <1>1, <2>3, <2>4 DEF RegistryStutters
  <1>4. QED
    BY <1>2, <1>3 DEF Insert

LEMMA ReleaseStutters ==
  ASSUME IInv, IInv', NEW r \in Requests, Release(r)
  PROVE  RegistryStutters
  <1> DEFINE u == req[r].user
  <1>1. Produced' = Produced
    BY DEF Release, Produced, pds, others
  <1>2. CASE accounts' = accounts
    BY <1>1, <1>2, SameAccounts
  <1>3. CASE Empty(accounts[u], req[r].name) /\ accounts' = [accounts EXCEPT ![u] = NoRow]
    <2>1. u \in Users
      BY DEF IInv, RequestsOK, RequestOK, Release
    <2>2. /\ \A v \in Users \ {u} : accounts'[v] = accounts[v]
          /\ accounts[u].did = NoDid /\ accounts'[u].did = NoDid
          /\ accounts[u].status # "active" /\ accounts'[u].status # "active"
      BY <1>3, <2>1 DEF IInv, RowsOK, NoRow, Empty
    <2>3. Identity' = Identity
      BY <2>1, <2>2, SameIdentities DEF IInv
    <2>4. Active' = Active
      BY <2>2 DEF Active
    <2>5. QED
      BY <1>1, <2>3, <2>4 DEF RegistryStutters
  <1>4. QED
    BY <1>2, <1>3 DEF Release, Row

\* The DID was made for the username, so no other username has it.
LEMMA SaveChooses ==
  ASSUME IInv, IInv', NEW r \in Requests, Save(r)
  PROVE  RegistryStutters \/ Registry!Next
  <1>0. PICK u \in Users, n \in Names, d \in Dids :
          /\ u = req[r].user /\ n = req[r].name /\ d = req[r].did
          /\ d \in 1..Len(handles) /\ handles[d] = n
    BY DEF IInv, RequestsOK, RequestOK, Save, ServicesOK
  <1>1. Produced' = Produced
    BY DEF Save, Produced, pds, others
  <1>2. CASE accounts' = accounts
    BY <1>1, <1>2, SameAccounts
  <1>3. CASE Empty(accounts[u], n) /\ accounts' = [accounts EXCEPT ![u].did = d]
    <2>1. u \in Users /\ n \in Names /\ d \in 1..Len(handles) /\ handles[d] = n
          /\ d \in Dids
      BY <1>0
    <2>2. /\ \A v \in Users \ {u} : accounts'[v] = accounts[v]
          /\ accounts'[u].name = n /\ accounts'[u].did = d
          /\ accounts'[u].status = "provisioning"
      BY <1>3, <2>1 DEF IInv, RowsOK, RowType, Empty
    <2>3. accounts[u].name = n /\ accounts[u].did = NoDid
          /\ accounts[u].status = "provisioning"
      BY <1>3 DEF Empty
    <2>4. Registered /\ Registered'
      BY RowsRegister, PTL DEF IInv
    <2>5. IdentityOf(n) = NoDid /\ IdentityOf(n)' = d
      BY <2>1, <2>2, <2>3, <2>4 DEF Registered
    <2>6. ASSUME NEW m \in Names, m # n
          PROVE  IdentityOf(m)' = IdentityOf(m) /\ IdentityOf(m) # d
      <3>1. IdentityOf(m)' = IdentityOf(m)
        BY <2>1, <2>2, <2>3, <2>4, <2>6 DEF Registered
      <3>2. CASE \E v \in Users : accounts[v].name = m
        <4>1. PICK v \in Users : accounts[v].name = m
          BY <3>2
        <4>2. IdentityOf(m) = accounts[v].did
          BY <2>4, <4>1 DEF Registered
        <4>3. accounts[v].did # d
          BY <2>1, <2>6, <4>1 DEF IInv, RowsOK, RowOK
        <4>4. QED
          BY <3>1, <4>2, <4>3
      <3>3. CASE \A v \in Users : accounts[v].name # m
        <4>1. IdentityOf(m) = NoDid
          BY <2>4, <3>3 DEF Registered
        <4>2. QED
          BY <2>1, <3>1, <4>1
      <3>4. QED
        BY <3>2, <3>3
    <2>7. Identity' = [Identity EXCEPT ![n] = d]
      BY <2>1, <2>5, <2>6 DEF Identity
    <2>8. \A m \in Names : Identity[m] # d
      BY <2>1, <2>5, <2>6 DEF Identity
    <2>9. Active' = Active
      BY <2>2, <2>3 DEF Active
    <2>10. Registry!Choose(n, d)
      BY <1>1, <2>1, <2>5, <2>7, <2>8, <2>9 DEF Registry!Choose, Identity, Active
    <2>11. QED
      BY <2>1, <2>10 DEF Registry!Next
  <1>4. QED
    BY <1>0, <1>2, <1>3 DEF Save, Row

LEMMA ActivateActivates ==
  ASSUME IInv, IInv', NEW r \in Requests, Activate(r)
  PROVE  RegistryStutters \/ Registry!Next
  <1>0. PICK u \in Users : u = req[r].user
    BY DEF IInv, RequestsOK, RequestOK, Activate
  <1>0a. PICK n : n = accounts[u].name
    OBVIOUS
  <1>1. Produced' = Produced
    BY DEF Activate, Produced, pds, others
  <1>2. CASE accounts' = accounts
    BY <1>1, <1>2, SameAccounts
  <1>3. CASE accounts[u].did = req[r].did
             /\ accounts' = [accounts EXCEPT ![u].status = "active"]
    <2>1. u \in Users /\ req[r].did \in hosted /\ req[r].did \in Dids
      BY StoredDids DEF IInv, RequestsOK, RequestOK, Activate, ServicesOK
    <2>2. /\ \A v \in Users \ {u} : accounts'[v] = accounts[v]
          /\ accounts'[u].name = n /\ accounts'[u].did = accounts[u].did
          /\ accounts'[u].status = "active"
      BY <1>0a, <1>3, <2>1 DEF IInv, RowsOK, RowType
    <2>3. n \in Names
      BY <1>0a, <1>3, <2>1 DEF IInv, RowsOK, RowOK, ServicesOK
    <2>4. IdentityOf(n) = accounts[u].did
      BY <1>0a, <2>1, <2>3, RowsRegister DEF Registered, IInv
    <2>5. Identity' = Identity
      BY <1>0a, <2>1, <2>2, SameIdentities DEF IInv
    <2>6. Active' = Active \cup {n}
      BY <1>0a, <2>1, <2>2 DEF Active
    <2>7. Identity[n] \in Produced
      BY <1>3, <2>1, <2>3, <2>4 DEF Identity, Produced
    <2>8. Registry!Activate(n)
      BY <1>1, <2>5, <2>6, <2>7 DEF Registry!Activate, Identity, Active
    <2>9. QED
      BY <2>3, <2>8 DEF Registry!Next
  <1>4. QED
    BY <1>0, <1>2, <1>3 DEF Activate, Row

\* What is executed at RepoDO or the directory is for a stored DID.
LEMMA ExecuteProduces ==
  ASSUME IInv, NEW d \in Dids, ExecReserveRepo(d) \/ ExecSubmit(d)
  PROVE  RegistryStutters \/ Registry!Next
  <1>1. accounts' = accounts /\ Produced' = Produced \cup {d}
    BY DEF ExecReserveRepo, ExecSubmit, Produced, pds
  <1>2. d \in Stored
    BY DEF IInv, ServicesOK, ExecReserveRepo, ExecSubmit
  <1>3. PICK u \in Users : accounts[u].did = d /\ d # NoDid
    BY <1>2 DEF Stored
  <1> DEFINE n == accounts[u].name
  <1>4. n \in Names
    BY <1>3 DEF IInv, RowsOK, RowOK, ServicesOK
  <1>5. Identity[n] = d
    BY <1>3, <1>4, RowsRegister DEF Registered, IInv, Identity
  <1>6. Identity' = Identity /\ Active' = Active
    BY <1>1 DEF Identity, Active, IdentityOf
  <1>7. Registry!Produce(n)
    BY <1>1, <1>3, <1>5, <1>6 DEF Registry!Produce, Identity, Active
  <1>8. QED
    BY <1>4, <1>7 DEF Registry!Next

LEMMA CommitStutters ==
  ASSUME IInv, NEW r \in Requests, Commit(r)
  PROVE  RegistryStutters
  <1>1. call[r].did \in repos
    BY DEF IInv, CallsOK, CallOK, Commit
  <1>2. Produced' = Produced /\ accounts' = accounts
    BY <1>1 DEF Commit, Produced
  <1>3. QED
    BY <1>2, SameAccounts

\* The other steps of a request, and all of its failures.
LEMMA RequestStutters ==
  ASSUME NEW r \in Requests,
    \/ \E u \in Users, n \in Names : Start(r, u, n)
    \/ Find(r) \/ ReserveKey(r) \/ Reread(r) \/ RepoStatus(r) \/ PlcState(r)
    \/ Invite(r) \/ Create(r) \/ Answered(r)
    \/ ReserveKeyFails(r) \/ SaveFails(r) \/ StatusFails(r) \/ InviteFails(r)
    \/ AnswerLost(r) \/ Abort(r)
  PROVE  RegistryStutters
  <1>1. accounts' = accounts /\ hosted' = hosted /\ repos' = repos /\ plc' = plc
    BY DEF Start, Find, ReserveKey, Reread, RepoStatus, PlcState, Invite, Create,
      Answered, ReserveKeyFails, SaveFails, StatusFails, InviteFails, AnswerLost,
      Abort, pds, others
  <1>2. QED
    BY <1>1, SameAccounts DEF Produced

LEMMA CallStutters ==
  ASSUME NEW r \in Requests,
    \/ ClaimInvite(r) \/ ClaimKey(r) \/ RepoReserved(r) \/ Submitted(r)
    \/ Announced(r) \/ CallFails(r) \/ InviteExpired(r) \/ CallLost(r)
  PROVE  RegistryStutters
  <1>1. accounts' = accounts /\ hosted' = hosted /\ repos' = repos /\ plc' = plc
    BY DEF ClaimInvite, ClaimKey, RepoReserved, Submitted, Announced, CallFails,
      InviteExpired, CallLost, others
  <1>2. QED
    BY <1>1, SameAccounts DEF Produced

LEMMA SentStutters ==
  ASSUME \/ \E d \in Dids : ExecAnnounce(d)
         \/ \E m \in Remote \X Dids : SentLost(m)
  PROVE  RegistryStutters
  <1>1. accounts' = accounts /\ hosted' = hosted /\ repos' = repos /\ plc' = plc
    BY DEF ExecAnnounce, SentLost, pds
  <1>2. QED
    BY <1>1, SameAccounts DEF Produced

LEMMA NextRegistry ==
  ASSUME IInv, IInv', [Next]_vars
  PROVE  RegistryStutters \/ Registry!Next
  <1>1. CASE \E r \in Requests : RequestStep(r)
    BY <1>1, InsertStutters, ReleaseStutters, SaveChooses, ActivateActivates,
      RequestStutters DEF RequestStep
  <1>2. CASE \E r \in Requests : CallStep(r)
    BY <1>2, CommitStutters, CallStutters DEF CallStep
  <1>3. CASE Execute
    BY <1>3, ExecuteProduces, SentStutters DEF Execute
  <1>4. CASE Failure
    BY <1>4, RequestStutters, CallStutters, SentStutters DEF Failure
  <1>5. CASE \E r \in Requests, u \in Users, n \in Names : Start(r, u, n)
    BY <1>5, RequestStutters
  <1>6. CASE UNCHANGED vars
    BY <1>6, SameAccounts DEF vars, Produced
  <1>7. QED
    BY <1>1, <1>2, <1>3, <1>4, <1>5, <1>6 DEF Next, Progress

LEMMA InitRegistry == Init => Registry!Init
  <1> SUFFICES ASSUME Init
               PROVE  Registry!Init
    OBVIOUS
  <1>1. \A u \in Users : accounts[u].name = NoName /\ accounts[u].status = "none"
    BY DEF Init, NoRow
  <1>2. \A n \in Names : IdentityOf(n) = NoDid
    BY <1>1 DEF IdentityOf
  <1>3. QED
    BY <1>1, <1>2 DEF Init, Registry!Init, Produced

\* Account creation implements the promise of ADR 0004: a username keeps the
\* identity it was given, no other identity has effects outside Accounts, and
\* the account is active only after its identity had some.
THEOREM ProvisioningImplementsRegistry == Spec => ImplementsRegistry
  <1>1. IInv /\ IInv' /\ [Next]_vars =>
          [Registry!Next]_<<Identity, Produced, Active>>
    BY NextRegistry DEF RegistryStutters
  <1>2. QED
    BY <1>1, InitRegistry, Inductive, PTL
      DEF Spec, ImplementsRegistry, Registry!Spec, Identity, Active
=============================================================================
