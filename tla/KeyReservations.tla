--------------------------- MODULE KeyReservations ---------------------------
(***************************************************************************)
(* The signing keys that the PDS reserves, for anybody or for one DID, and *)
(* the createAccount calls that use them.  A slot r stands for one request *)
(* to the PDS, which goes from one call of the database or of the          *)
(* repository's Durable Object to the next.                                *)
(***************************************************************************)
CONSTANTS
  Owners,    \* DIDs
  Keys,      \* signing keys
  Requests,  \* slots for concurrent requests
  NoDid, NoKey

ASSUME KeyAssumption == NoDid \notin Owners /\ NoKey \notin Keys

VARIABLES
  reservations,  \* the rows: a function from their keys to their DID or NoDid
  hosted,        \* the accounts
  repoKey,       \* the key with which RepoDO initialised the repository of a DID
  request,       \* the requests
  answered       \* history: the keys that reserve answered, and for whom

keyVars == <<reservations, hosted, repoKey, request, answered>>

NoRequest == [pc |-> "idle", did |-> NoDid, key |-> NoKey]

KeyTypeOK ==
  /\ DOMAIN reservations \subseteq Keys
  /\ reservations \in [DOMAIN reservations -> Owners \cup {NoDid}]
  /\ hosted \subseteq Owners
  /\ repoKey \in [Owners -> Keys \cup {NoKey}]
  /\ request \in [Requests ->
       [pc : {"idle", "find", "insert", "claim", "repo", "commit"},
        did : Owners \cup {NoDid}, key : Keys \cup {NoKey}]]
  /\ answered \subseteq [did : Owners \cup {NoDid}, key : Keys]

KeyInit ==
  /\ reservations = [k \in {} |-> NoDid]
  /\ hosted = {}
  /\ repoKey = [d \in Owners |-> NoKey]
  /\ request = [r \in Requests |-> NoRequest]
  /\ answered = {}

Bound(k, d) == k \in DOMAIN reservations /\ reservations[k] = d
Bind(k, d) == [j \in DOMAIN reservations \cup {k} |-> IF j = k THEN d ELSE reservations[j]]
Answer(d, k) == answered' = answered \cup {[did |-> d, key |-> k]}
End(r) == request' = [request EXCEPT ![r] = NoRequest]
Goto(r, pc) == request' = [request EXCEPT ![r].pc = pc]

\* A new key pair is none that has been seen before.
Fresh(k) ==
  /\ k \notin DOMAIN reservations
  /\ \A d \in Owners : repoKey[d] # k
  /\ \A r \in Requests : request[r].key # k

-----------------------------------------------------------------------------
(* reserveSigningKey *)

\* Without a DID the key is for whoever claims it.
Reserve(k) ==
  /\ Fresh(k)
  /\ reservations' = Bind(k, NoDid)
  /\ Answer(NoDid, k)
  /\ UNCHANGED <<hosted, repoKey, request>>

ReserveFor(r, d) ==
  /\ request[r].pc = "idle"
  /\ request' = [request EXCEPT ![r] = [NoRequest EXCEPT !.pc = "find", !.did = d]]
  /\ UNCHANGED <<reservations, hosted, repoKey, answered>>

\* The key that is reserved for the DID, or a new one.
Find(r) ==
  LET d == request[r].did
  IN  /\ request[r].pc = "find"
      /\ \/ \E k \in Keys : Bound(k, d) /\ Answer(d, k) /\ End(r)
         \/ /\ \A k \in Keys : ~ Bound(k, d)
            /\ \E k \in Keys :
                 /\ Fresh(k)
                 /\ request' = [request EXCEPT ![r].pc = "insert", ![r].key = k]
            /\ answered' = answered
      /\ UNCHANGED <<reservations, hosted, repoKey>>

\* Fault: the new key is answered whether or not its row was inserted.
InsertUnchecked(r) ==
  LET d == request[r].did
      k == request[r].key
  IN  /\ request[r].pc = "insert"
      /\ reservations' = IF \E j \in Keys : Bound(j, d) THEN reservations ELSE Bind(k, d)
      /\ Answer(d, k) /\ End(r)
      /\ UNCHANGED <<hosted, repoKey>>

\* The DIDs of the rows are unique: when another request was faster, its key is
\* found the next time.
Insert(r) ==
  LET d == request[r].did
      k == request[r].key
  IN  /\ request[r].pc = "insert"
      /\ \/ /\ \A j \in Keys : ~ Bound(j, d)
            /\ reservations' = Bind(k, d) /\ Answer(d, k) /\ End(r)
         \/ /\ \E j \in Keys : Bound(j, d)
            /\ request' = [request EXCEPT ![r].pc = "find", ![r].key = NoKey]
            /\ UNCHANGED <<reservations, answered>>
      /\ UNCHANGED <<hosted, repoKey>>

-----------------------------------------------------------------------------
(* createAccount *)

\* The operation may name any key that anybody was told of.
CreateAccount(r, d, k) ==
  /\ request[r].pc = "idle"
  /\ \E a \in answered : a.key = k
  /\ request' = [request EXCEPT ![r] = [pc |-> "claim", did |-> d, key |-> k]]
  /\ UNCHANGED <<reservations, hosted, repoKey, answered>>

\* The condition of the update, which fails too when the DID has another key.
Claimable(k, d) ==
  /\ Bound(k, NoDid) \/ Bound(k, d)
  /\ \A j \in Keys \ {k} : ~ Bound(j, d)

Claim(r) ==
  LET d == request[r].did
      k == request[r].key
  IN  /\ request[r].pc = "claim"
      /\ \/ /\ Claimable(k, d)
            /\ reservations' = Bind(k, d)
            /\ Goto(r, "repo")
         \/ /\ ~ Claimable(k, d)
            /\ End(r)
            /\ reservations' = reservations
      /\ UNCHANGED <<hosted, repoKey, answered>>

\* RepoDO initialises the repository once; a repository keeps its key.
ReserveRepo(r) ==
  LET d == request[r].did
      k == request[r].key
  IN  /\ request[r].pc = "repo"
      /\ \/ /\ repoKey[d] \in {NoKey, k}
            /\ repoKey' = [repoKey EXCEPT ![d] = k]
            /\ Goto(r, "commit")
         \/ /\ repoKey[d] \notin {NoKey, k}
            /\ End(r)
            /\ repoKey' = repoKey
      /\ UNCHANGED <<reservations, hosted, answered>>

\* The directory has the operation.  The batch adds the account and deletes the
\* reservation.
Commit(r) ==
  LET d == request[r].did
      k == request[r].key
  IN  /\ request[r].pc = "commit"
      /\ hosted' = hosted \cup {d}
      /\ reservations' =
           [j \in {j \in DOMAIN reservations : ~ (j = k /\ Bound(k, d))} |-> reservations[j]]
      /\ End(r)
      /\ UNCHANGED <<repoKey, answered>>

\* The request is cut off, or a call fails.
RequestFails(r) ==
  /\ request[r].pc # "idle"
  /\ End(r)
  /\ UNCHANGED <<reservations, hosted, repoKey, answered>>

KeyNext ==
  \/ \E k \in Keys : Reserve(k)
  \/ \E r \in Requests :
       \/ \E d \in Owners : ReserveFor(r, d)
       \/ \E d \in Owners, k \in Keys : CreateAccount(r, d, k)
       \/ Find(r) \/ Insert(r) \/ Claim(r) \/ ReserveRepo(r) \/ Commit(r)
       \/ RequestFails(r)

KeySpec == KeyInit /\ [][KeyNext]_keyVars

-----------------------------------------------------------------------------

\* The keys that a DID relies on: those it was answered, and that of its repository.
Promised ==
  {a \in answered : a.did # NoDid}
  \cup {[did |-> d, key |-> repoKey[d]] : d \in {e \in Owners : repoKey[e] # NoKey}}

\* No two repositories have one key; and whatever requests race or are cut off, a key
\* that a DID was promised, or that its repository has already, stays reserved for
\* it until it has its account, so that createAccount can be repeated
\* (signing-key-reservation.ts 108-159, 185-200, server.ts 158-168).
KeyForOneDid ==
  /\ \A d, e \in Owners : repoKey[d] = repoKey[e] /\ repoKey[d] # NoKey => d = e
  /\ \A p \in Promised : p.did \in hosted \/ Bound(p.key, p.did)
=============================================================================
