---------------------------- MODULE Provisioning -----------------------------
(***************************************************************************)
(* Account creation: Accounts, the PDS, the repository's Durable Object    *)
(* and the PLC directory, without a common transaction.  A slot r stands   *)
(* for one request to Accounts, req[r], and for the createAccount call it  *)
(* makes to the PDS, call[r], which goes on when its caller has ended.     *)
(*                                                                         *)
(* A DID is derived from the genesis operation, which names the username,  *)
(* a fresh rotation key and the signing key the PDS reserved.  DIDs are    *)
(* numbered in the order of those reservations, keys have the number of    *)
(* their DID, and handles[d] is the username in d's operation.             *)
(***************************************************************************)
EXTENDS Naturals, Sequences

CONSTANTS
  Users, Names,
  Requests,   \* slots for concurrent requests
  MaxDids,    \* bound: signing keys reserved
  NoUser, NoName

Dids == 1..MaxDids
NoDid == 0

ASSUME ProvisioningAssumption ==
  /\ MaxDids \in Nat
  /\ NoUser \notin Users /\ NoName \notin Names

VARIABLES
  accounts,   \* Accounts: the row of each user
  req,        \* Accounts: the requests
  handles,    \* the operations made so far
  keys,       \* PDS: the reserved signing keys
  hosted,     \* PDS: the accounts
  call,       \* PDS: the createAccount calls
  sent,       \* calls on their way to RepoDO and the directory
  repos,      \* RepoDO: the repositories
  announced,  \* RepoDO: the repositories that queued their introduction
  plc         \* directory: the DIDs whose genesis operation is stored

vars == <<accounts, req, handles, keys, hosted, call, sent, repos,
          announced, plc>>
pds == <<keys, hosted, call>>
others == <<sent, repos, announced, plc>>

NoRow == [name |-> NoName, did |-> NoDid, status |-> "none"]
NoRequest == [pc |-> "idle", user |-> NoUser, name |-> NoName, did |-> NoDid,
              called |-> FALSE]
NoCall == [pc |-> "none", did |-> NoDid]
Remote == {"reserveRepo", "submit", "announce"}

TypeOK ==
  /\ accounts \in [Users -> [name : Names \cup {NoName}, did : Dids \cup {NoDid},
                             status : {"none", "provisioning", "active"}]]
  /\ req \in [Requests ->
       [pc : {"idle", "insert", "find", "key", "save", "reread", "release",
              "status", "plc", "invite", "create", "wait", "activate"},
        user : Users \cup {NoUser}, name : Names \cup {NoName},
        did : Dids \cup {NoDid}, called : BOOLEAN]]
  /\ handles \in Seq(Names) /\ Len(handles) <= MaxDids
  /\ call \in [Requests -> [pc : {"none", "invite", "key", "commit"} \cup Remote,
                            did : Dids \cup {NoDid}]]
  /\ keys \cup hosted \cup repos \cup announced \cup plc \subseteq Dids
  /\ sent \subseteq Remote \X Dids

Init ==
  /\ accounts = [u \in Users |-> NoRow]
  /\ req = [r \in Requests |-> NoRequest]
  /\ handles = <<>>
  /\ keys = {} /\ hosted = {}
  /\ call = [r \in Requests |-> NoCall]
  /\ sent = {} /\ repos = {} /\ announced = {} /\ plc = {}

-----------------------------------------------------------------------------
(* Accounts: createAccount, from one await to the next *)

Goto(r, pc) == req' = [req EXCEPT ![r].pc = pc]
End(r) == req' = [req EXCEPT ![r] = NoRequest]
Row(r) == accounts[req[r].user]

Start(r, u, n) ==
  /\ req[r].pc = "idle" /\ call[r].pc = "none"
  /\ req' = [req EXCEPT ![r] =
       [NoRequest EXCEPT !.pc = "insert", !.user = u, !.name = n]]
  /\ UNCHANGED <<accounts, handles, pds, others>>

\* reserveAccount: insert unless the user or the username has a row.
Insert(r) ==
  LET u == req[r].user
      n == req[r].name
  IN  /\ req[r].pc = "insert"
      /\ accounts' = IF accounts[u] = NoRow /\ \A v \in Users : accounts[v].name # n
                     THEN [accounts EXCEPT ![u] =
                             [name |-> n, did |-> NoDid, status |-> "provisioning"]]
                     ELSE accounts
      /\ Goto(r, "find")
      /\ UNCHANGED <<handles, pds, others>>

\* The condition of saveProvisioningIdentity and releaseEmptyProvisioningAccount.
Empty(row, n) ==
  row.name = n /\ row.status = "provisioning" /\ row.did = NoDid

\* The stored material, which has to be of the handle, is what counts; without
\* it the request fails.
UseStored(r) ==
  IF Row(r).did # NoDid /\ handles[Row(r).did] = req[r].name
  THEN req' = [req EXCEPT ![r].pc = "status", ![r].did = Row(r).did]
  ELSE End(r)

\* The row of reserveAccount decides: refused, active already, or go on.
Find(r) ==
  /\ req[r].pc = "find"
  /\ \/ /\ Row(r).name # req[r].name \/ Row(r).status = "active"
        /\ End(r)
     \/ /\ Empty(Row(r), req[r].name)
        /\ Goto(r, "key")
     \/ /\ Row(r).name = req[r].name /\ Row(r).status = "provisioning"
        /\ Row(r).did # NoDid
        /\ UseStored(r)
  /\ UNCHANGED <<accounts, handles, pds, others>>

\* reserveSigningKey of the PDS, and createPlcAccountMaterial.
ReserveKey(r) ==
  /\ req[r].pc = "key"
  /\ Len(handles) < MaxDids
  /\ handles' = Append(handles, req[r].name)
  /\ keys' = keys \cup {Len(handles) + 1}
  /\ req' = [req EXCEPT ![r].pc = "save", ![r].did = Len(handles) + 1]
  /\ UNCHANGED <<accounts, hosted, call, others>>

\* It fails, or its answer is lost.
ReserveKeyFails(r) ==
  /\ req[r].pc = "key"
  /\ \/ UNCHANGED <<handles, keys>>
     \/ /\ Len(handles) < MaxDids
        /\ handles' = Append(handles, req[r].name)
        /\ keys' = keys \cup {Len(handles) + 1}
  /\ Goto(r, "release")
  /\ UNCHANGED <<accounts, hosted, call, others>>

\* The update of saveProvisioningIdentity.
Save(r) ==
  /\ req[r].pc = "save"
  /\ accounts' = IF Empty(Row(r), req[r].name)
                 THEN [accounts EXCEPT ![req[r].user].did = req[r].did]
                 ELSE accounts
  /\ Goto(r, "reread")
  /\ UNCHANGED <<handles, pds, others>>

\* The update, or the read after it, fails.
SaveFails(r) ==
  /\ req[r].pc \in {"save", "reread"}
  /\ Goto(r, "release")
  /\ UNCHANGED <<accounts, handles, pds, others>>

\* Fault: a request goes on with the material it made.
RereadOwn(r) ==
  /\ req[r].pc = "reread"
  /\ IF Row(r).name = req[r].name THEN Goto(r, "status") ELSE End(r)
  /\ UNCHANGED <<accounts, handles, pds, others>>

\* The row as it is now, whoever saved it.
Reread(r) ==
  /\ req[r].pc = "reread"
  /\ IF Row(r).name = req[r].name THEN UseStored(r) ELSE End(r)
  /\ UNCHANGED <<accounts, handles, pds, others>>

\* releaseEmptyProvisioningAccount.
Release(r) ==
  /\ req[r].pc = "release"
  /\ accounts' = IF Empty(Row(r), req[r].name)
                 THEN [accounts EXCEPT ![req[r].user] = NoRow]
                 ELSE accounts
  /\ End(r)
  /\ UNCHANGED <<handles, pds, others>>

\* Fault: the repository alone counts, not the record of the account.
RepoStatusOfRepo(r) ==
  LET d == req[r].did
  IN  /\ req[r].pc = "status"
      /\ \/ d \in repos /\ Goto(r, "plc")
         \/ d \notin repos /\ req[r].called /\ End(r)
         \/ d \notin repos /\ ~ req[r].called /\ Goto(r, "invite")
      /\ UNCHANGED <<accounts, handles, pds, others>>

\* The first half of getProvisioningStatus, getRepoStatus of the PDS.
RepoStatus(r) ==
  LET d == req[r].did
  IN  /\ req[r].pc = "status"
      /\ \/ d \in hosted /\ d \in repos /\ Goto(r, "plc")
         \/ d \in hosted /\ d \notin repos /\ End(r)
         \/ d \notin hosted /\ req[r].called /\ End(r)
         \/ d \notin hosted /\ ~ req[r].called /\ Goto(r, "invite")
      /\ UNCHANGED <<accounts, handles, pds, others>>

\* The second half, getState of the directory.
PlcState(r) ==
  /\ req[r].pc = "plc"
  /\ IF req[r].did \in plc THEN Goto(r, "activate") ELSE End(r)
  /\ UNCHANGED <<accounts, handles, pds, others>>

\* Either does not answer: the status is pending.
StatusFails(r) ==
  /\ req[r].pc \in {"status", "plc"}
  /\ End(r)
  /\ UNCHANGED <<accounts, handles, pds, others>>

\* generateInviteCode: a fresh code, of which only this request's call knows.
Invite(r) ==
  /\ req[r].pc = "invite"
  /\ Goto(r, "create")
  /\ UNCHANGED <<accounts, handles, pds, others>>

InviteFails(r) ==
  /\ req[r].pc = "invite"
  /\ req' = [req EXCEPT ![r].pc = "status", ![r].called = TRUE]
  /\ UNCHANGED <<accounts, handles, pds, others>>

\* The call of createAccount leaves for the PDS.
Create(r) ==
  /\ req[r].pc = "create"
  /\ call' = [call EXCEPT ![r] = [pc |-> "invite", did |-> req[r].did]]
  /\ Goto(r, "wait")
  /\ UNCHANGED <<accounts, handles, keys, hosted, others>>

\* An answer or an error response; either way the status decides.
Answered(r) ==
  /\ req[r].pc = "wait" /\ call[r].pc = "none"
  /\ req' = [req EXCEPT ![r].pc = "status", ![r].called = TRUE]
  /\ UNCHANGED <<accounts, handles, pds, others>>

\* No answer, while the call may go on.
AnswerLost(r) ==
  /\ req[r].pc = "wait" /\ call[r].pc # "none"
  /\ req' = [req EXCEPT ![r].pc = "status", ![r].called = TRUE]
  /\ UNCHANGED <<accounts, handles, pds, others>>

\* activateAccount.
Activate(r) ==
  LET u == req[r].user
  IN  /\ req[r].pc = "activate"
      /\ accounts' = IF Row(r).did = req[r].did /\ Row(r).status = "provisioning"
                     THEN [accounts EXCEPT ![u].status = "active"]
                     ELSE accounts
      /\ End(r)
      /\ UNCHANGED <<handles, pds, others>>

\* The request is cut off, or a query outside its try block fails.
Abort(r) ==
  /\ req[r].pc # "idle"
  /\ End(r)
  /\ UNCHANGED <<accounts, handles, pds, others>>

-----------------------------------------------------------------------------
(* PDS: com.atproto.server.createAccount *)

EndCall(r) == call' = [call EXCEPT ![r] = NoCall]

Effects == [reserveRepo |-> repos, submit |-> plc, announce |-> announced]

\* It goes on at pc, after the calls ms have left.
CallGoto(r, pc, ms) ==
  /\ call' = [call EXCEPT ![r].pc = pc]
  /\ sent' = sent \cup ms

\* InviteCodeRepository.claim: the invitation is spent, whatever follows.
ClaimInvite(r) ==
  /\ call[r].pc = "invite"
  /\ CallGoto(r, "key", {})
  /\ UNCHANGED <<accounts, req, handles, keys, hosted, repos, announced, plc>>

\* It has reached its two hours.
InviteExpired(r) ==
  /\ call[r].pc = "invite"
  /\ EndCall(r)
  /\ UNCHANGED <<accounts, req, handles, keys, hosted, others>>

\* Fault: claiming the key deletes its reservation.
ClaimKeyOnce(r) ==
  LET d == call[r].did
  IN  /\ call[r].pc = "key"
      /\ \/ d \in keys /\ CallGoto(r, "reserveRepo", {<<"reserveRepo", d>>})
         \/ d \notin keys /\ EndCall(r) /\ sent' = sent
      /\ keys' = keys \ {d}
      /\ UNCHANGED <<accounts, req, handles, hosted, repos, announced, plc>>

\* SigningKeyReservationRepository.claim; the reservation stays until the end.
ClaimKey(r) ==
  LET d == call[r].did
  IN  /\ call[r].pc = "key"
      /\ \/ d \in keys /\ CallGoto(r, "reserveRepo", {<<"reserveRepo", d>>})
         \/ d \notin keys /\ EndCall(r) /\ sent' = sent
      /\ UNCHANGED <<accounts, req, handles, keys, hosted, repos,
                     announced, plc>>

\* reserveRepo has initialised the repository, now or earlier.
RepoReserved(r) ==
  LET d == call[r].did
  IN  /\ call[r].pc = "reserveRepo"
      /\ d \in repos
      /\ CallGoto(r, "submit", {<<"submit", d>>})
      /\ UNCHANGED <<accounts, req, handles, keys, hosted, repos,
                     announced, plc>>

\* ensureDirectoryOperation: the directory took the operation, or has it in its
\* log.
Submitted(r) ==
  /\ call[r].pc = "submit"
  /\ call[r].did \in plc
  /\ CallGoto(r, "commit", {})
  /\ UNCHANGED <<accounts, req, handles, keys, hosted, repos,
                 announced, plc>>

\* The batch, then the call of rpcAnnounceAccount.
Commit(r) ==
  LET d == call[r].did
  IN  /\ call[r].pc = "commit"
      /\ hosted' = hosted \cup {d}
      /\ keys' = keys \ {d}
      /\ CallGoto(r, "announce", {<<"announce", d>>})
      /\ UNCHANGED <<accounts, req, handles, repos, announced, plc>>

Announced(r) ==
  /\ call[r].pc = "announce"
  /\ call[r].did \in announced
  /\ EndCall(r)
  /\ UNCHANGED <<accounts, req, handles, keys, hosted, others>>

\* What it waits for has failed without effect.
CallFails(r) ==
  /\ call[r].pc \in Remote
  /\ <<call[r].pc, call[r].did>> \notin sent
  /\ call[r].did \notin Effects[call[r].pc]
  /\ EndCall(r)
  /\ UNCHANGED <<accounts, req, handles, keys, hosted, others>>

\* It is cut off or fails anywhere, an answer it waits for may be lost; what it
\* has sent may still be executed.
CallLost(r) ==
  /\ call[r].pc # "none"
  /\ EndCall(r)
  /\ UNCHANGED <<accounts, req, handles, keys, hosted, others>>

-----------------------------------------------------------------------------
(* RepoDO and the directory execute what was sent, whoever still waits *)

\* reserveRepo: of two concurrent first calls one fails, and a later one finds
\* the repository.
ExecReserveRepo(d) ==
  /\ <<"reserveRepo", d>> \in sent
  /\ sent' = sent \ {<<"reserveRepo", d>>}
  /\ repos' = repos \cup {d}
  /\ UNCHANGED <<accounts, req, handles, pds, announced, plc>>

\* validateAndAddOp: the first genesis operation is stored, a second refused.
ExecSubmit(d) ==
  /\ <<"submit", d>> \in sent
  /\ sent' = sent \ {<<"submit", d>>}
  /\ plc' = plc \cup {d}
  /\ UNCHANGED <<accounts, req, handles, pds, repos, announced>>

\* rpcAnnounceAccount queues the events that introduce the account.
ExecAnnounce(d) ==
  /\ <<"announce", d>> \in sent
  /\ sent' = sent \ {<<"announce", d>>}
  /\ announced' = announced \cup {d}
  /\ UNCHANGED <<accounts, req, handles, pds, repos, plc>>

SentLost(m) ==
  /\ m \in sent
  /\ sent' = sent \ {m}
  /\ UNCHANGED <<accounts, req, handles, pds, repos, announced, plc>>

-----------------------------------------------------------------------------

RequestStep(r) ==
  \/ Insert(r) \/ Find(r) \/ ReserveKey(r) \/ Save(r) \/ Reread(r) \/ Release(r)
  \/ RepoStatus(r) \/ PlcState(r) \/ Invite(r) \/ Create(r) \/ Answered(r)
  \/ Activate(r)

CallStep(r) ==
  \/ ClaimInvite(r) \/ ClaimKey(r) \/ RepoReserved(r) \/ Submitted(r)
  \/ Commit(r) \/ Announced(r) \/ CallFails(r)

Execute == \E d \in Dids : ExecReserveRepo(d) \/ ExecSubmit(d) \/ ExecAnnounce(d)

Progress ==
  \/ \E r \in Requests : \/ \E u \in Users, n \in Names : Start(r, u, n)
                         \/ RequestStep(r)
                         \/ CallStep(r)
  \/ Execute

Failure ==
  \/ \E r \in Requests :
       \/ ReserveKeyFails(r) \/ SaveFails(r) \/ StatusFails(r) \/ InviteFails(r)
       \/ AnswerLost(r) \/ Abort(r)
       \/ InviteExpired(r) \/ CallLost(r)
  \/ \E m \in Remote \X Dids : SentLost(m)

Next == Progress \/ Failure

Spec == Init /\ [][Next]_vars

-----------------------------------------------------------------------------
(* Properties *)

\* The DIDs that exist outside Accounts.
Produced == repos \cup plc \cup hosted

\* "One username never produces two identities, even with concurrent requests
\* and unknown outcomes" (ADR 0004).
OneIdentityPerUsername ==
  \A d, e \in Produced : handles[d] = handles[e] => d = e

\* Accounts activates an account when the PDS, its repository and the directory
\* have its identity (account.ts 145-147).
ActiveVerified ==
  \A u \in Users : accounts[u].status = "active" =>
    accounts[u].did \in hosted \cap repos \cap plc

\* "Relays learn about the account only after its identity and record exist"
\* (server.ts 169).
AnnouncedAfterRecord == announced \subseteq hosted \cap repos \cap plc

\* "A new account emits #identity, #account (active), and #sync" (PDS README):
\* an active account was announced, or a call that will do so is under way.
ActiveAnnounced ==
  \A u \in Users :
    LET d == accounts[u].did
    IN  accounts[u].status = "active" /\ <<"announce", d>> \notin sent
          /\ (\A r \in Requests : call[r].did # d)
        => d \in announced

\* Who has the username decides its identity.
IdentityOf(n) ==
  IF \E u \in Users : accounts[u].name = n
  THEN accounts[CHOOSE u \in Users : accounts[u].name = n].did
  ELSE NoDid

Registry == INSTANCE IdentityRegistry WITH
  identity <- [n \in Names |-> IdentityOf(n)],
  produced <- Produced,
  active <- {accounts[u].name : u \in {v \in Users : accounts[v].status = "active"}}

\* A username keeps the identity it was given, no other identity of it has
\* effects at the PDS or the directory, and it is active only after it had some:
\* Accounts implements the promise of ADR 0004 (account.ts 104-183).
ImplementsRegistry == Registry!Spec
=============================================================================
