---------------------------- MODULE OAuthGrants ------------------------------
(***************************************************************************)
(* The token and revocation endpoints of the OAuth provider, and the PDS   *)
(* that lets a request in for one of its access tokens.  A client          *)
(* message is sent once and may be delivered any number of times; a slot r *)
(* handles one delivery, from one query of the database to the next.       *)
(* Holders stand for a client id with its DPoP key and PKCE verifier.  The *)
(* random names of sessions and tokens are numbers, in order of creation.  *)
(***************************************************************************)
EXTENDS Naturals, Sequences, FiniteSets

CONSTANTS
  Holders,     \* clients, each with its key
  Codes,       \* authorization codes
  Requests,    \* slots for concurrent requests
  CodeLife,    \* 1 minute
  AccessLife,  \* 5 minutes
  SessionLife, \* 14 days
  ProofLife,   \* 1 minute, of a DPoP proof at the PDS
  ClaimLife,   \* 5 minutes, of a row of dpop_state
  MaxMessages, \* bound: messages that clients send
  MaxTokens,   \* bound: token sets issued
  MaxTime      \* bound: the clock

Messages == 1..MaxMessages
Ids == 1..MaxTokens
None == 0
Grants == {"code", "refresh", "revoke access", "revoke refresh", "use"}

ASSUME GrantsAssumption ==
  /\ MaxMessages \in Nat /\ MaxTokens \in Nat /\ MaxTime \in Nat
  /\ CodeLife \in Nat /\ AccessLife \in Nat /\ SessionLife \in Nat
  /\ ProofLife \in Nat /\ ClaimLife \in Nat /\ ProofLife < ClaimLife
  /\ Codes \cap Nat = {}

VARIABLES
  granted,   \* what each authorization code holds, or held
  codes,     \* authorization-code records: the codes that exist
  sessions,  \* session records: the ids of those that exist
  records,   \* what each session record holds, or held
  tokens,    \* what each token set was issued for
  refresh,   \* refresh-token records: the ids of those that exist
  used,      \* used-refresh-token records, with their expiry
  sent,      \* the clients' messages, each with a DPoP proof of its own
  spent,     \* DPoP replay records: the proofs that were accepted
  claimed,   \* dpop_state at the PDS: the proofs in it, with their expiry
  req,       \* the requests
  now,       \* the clock
  answered,  \* history: the tokens that clients were answered with
  served,    \* history: how often the PDS let a message in
  dropped,   \* history: why sessions were deleted that had not expired
  revoked    \* history: sessions that their holders were told are revoked

database == <<granted, codes, sessions, records, tokens, refresh, used>>
proofs == <<sent, spent, claimed>>
history == <<answered, served, dropped, revoked>>
pds == <<claimed, served>>
vars == <<database, proofs, req, now, history>>

NoRequest == [pc |-> "idle", message |-> None, session |-> None, replay |-> FALSE,
              live |-> FALSE, id |-> None]

Steps == {"idle", "used", "session", "dpop", "consume", "start", "found", "record",
          "access", "refresh", "proof", "claim", "drop replay", "drop failed", "drop revoke"}

TypeOK ==
  /\ DOMAIN granted \subseteq Codes /\ codes \subseteq DOMAIN granted
  /\ granted \in [DOMAIN granted -> [holder : Holders, renew : BOOLEAN, expires : Nat]]
  /\ records \in Seq([holder : Holders, expires : Nat])
  /\ sessions \subseteq 1..Len(records)
  /\ tokens \in Seq([session : Ids, from : Codes \cup Ids, expires : Nat])
  /\ refresh \subseteq 1..Len(tokens)
  /\ DOMAIN used \subseteq 1..Len(tokens) /\ used \in [DOMAIN used -> Nat]
  /\ sent \in Seq([grant : Grants, token : Codes \cup Ids, holder : Holders, at : Nat])
  /\ spent \subseteq 1..Len(sent)
  /\ DOMAIN claimed \subseteq 1..Len(sent) /\ claimed \in [DOMAIN claimed -> Nat]
  /\ served \in [Messages -> Nat]
  /\ req \in [Requests -> [pc : Steps, message : 0..Len(sent), session : 0..Len(records),
                           replay : BOOLEAN, live : BOOLEAN, id : 0..Len(tokens)]]
  /\ now \in 0..MaxTime
  /\ answered \subseteq {"access", "refresh"} \X Ids
  /\ dropped \subseteq [session : Ids, why : {"replay", "failed", "revoke"}]
  /\ revoked \subseteq [session : Ids, live : BOOLEAN]

Init ==
  /\ granted = [c \in {} |-> None] /\ codes = {}
  /\ records = <<>> /\ sessions = {}
  /\ tokens = <<>> /\ refresh = {} /\ used = [t \in {} |-> None]
  /\ sent = <<>> /\ spent = {} /\ claimed = [k \in {} |-> None]
  /\ req = [r \in Requests |-> NoRequest]
  /\ now = 0 /\ answered = {} /\ served = [k \in Messages |-> 0] /\ dropped = {} /\ revoked = {}

\* findRecord, of each kind of record.
FoundCode(c) == c \in codes /\ granted[c].expires >= now
FoundSession(s) == s \in sessions /\ records[s].expires >= now
FoundAccess(i) == i \in DOMAIN tokens /\ tokens[i].expires >= now
FoundRefresh(i) == i \in refresh /\ records[tokens[i].session].expires >= now
FoundUsed(i) == i \in DOMAIN used /\ used[i] >= now

Message(r) == sent[req[r].message]
Subject(r) == Message(r).token
Go(r, pc) == req' = [req EXCEPT ![r].pc = pc]
End(r) == req' = [req EXCEPT ![r] = NoRequest]
Put(f, k, v) == [x \in DOMAIN f \cup {k} |-> IF x = k THEN v ELSE f[x]]

-----------------------------------------------------------------------------
(* Requests *)

\* Consent: a code for the holder that pushed the request, with refresh tokens or not.
Authorize(c, h, renew) ==
  /\ c \notin DOMAIN granted
  /\ granted' = Put(granted, c, [holder |-> h, renew |-> renew, expires |-> now + CodeLife])
  /\ codes' = codes \cup {c}
  /\ UNCHANGED <<sessions, records, tokens, refresh, used, proofs, req, now, history>>

\* verifyOAuthAccessToken.
Valid(i) == tokens[i].expires > now

\* The first lookup that can succeed.  A token that has a record is live.
Begin(r, k, m) ==
  LET i == m.token
      next(pc) == [NoRequest EXCEPT !.pc = pc, !.message = k]
      found == [next("session") EXCEPT !.session = tokens[i].session, !.live = TRUE]
  IN  /\ req[r].pc = "idle"
      /\ req' = [req EXCEPT ![r] =
           CASE m.grant = "code" ->
                  IF FoundCode(i) /\ granted[i].holder = m.holder
                  THEN next("dpop") ELSE NoRequest
             [] m.grant = "revoke access" ->
                  IF FoundAccess(i) THEN found ELSE next("dpop")
             [] m.grant = "use" ->
                  IF Valid(i) THEN next("proof") ELSE NoRequest
             [] OTHER ->
                  IF FoundRefresh(i) THEN found ELSE next("used")]

\* What a client, or whoever got hold of its answers, can present.
Known(m) ==
  CASE m.grant = "code" -> m.token \in DOMAIN granted
    [] m.grant \in {"revoke access", "use"} -> <<"access", m.token>> \in answered
    [] OTHER -> <<"refresh", m.token>> \in answered

\* A message with a new proof, whose age matters at the PDS only.
Send(r, m) ==
  /\ Len(sent) < MaxMessages
  /\ Known(m)
  /\ sent' = Append(sent, m)
  /\ Begin(r, Len(sent) + 1, m)
  /\ UNCHANGED <<database, spent, claimed, now, history>>

\* A message is delivered again.
Redeliver(r, k) ==
  /\ Begin(r, k, sent[k])
  /\ UNCHANGED <<database, proofs, now, history>>

Revokes(r) == Message(r).grant \in {"revoke access", "revoke refresh"}

\* What a request is after the lookup of its token among those that were used.
Looked(r, found) ==
  LET i == Subject(r)
      next == [req[r] EXCEPT !.live = i \in refresh \cup DOMAIN used]
  IN  IF found
      THEN [next EXCEPT !.pc = "session", !.session = tokens[i].session, !.replay = TRUE]
      ELSE [next EXCEPT !.pc = "dpop"]

\* Fault: only a refresh request looks there.
FindUsedToRefresh(r) ==
  /\ req[r].pc = "used"
  /\ req' = [req EXCEPT ![r] = Looked(r, ~ Revokes(r) /\ FoundUsed(Subject(r)))]
  /\ UNCHANGED <<database, proofs, now, history>>

\* The next lookup: a token that was used.
FindUsed(r) ==
  /\ req[r].pc = "used"
  /\ req' = [req EXCEPT ![r] = Looked(r, FoundUsed(Subject(r)))]
  /\ UNCHANGED <<database, proofs, now, history>>

\* The session of the token, which is needed to know its key.
FindSession(r) ==
  /\ req[r].pc = "session"
  /\ req' = [req EXCEPT ![r].pc = "dpop",
                        ![r].session = IF FoundSession(@) THEN @ ELSE None]
  /\ UNCHANGED <<database, proofs, now, history>>

\* Fault: proofs are not recorded.
AnyProof(k) == TRUE

FreshProof(k) == k \notin spent

\* Fault: the proof need not be of the session's key.
AnyHolder(r) == TRUE

HolderMatches(r) ==
  req[r].session = None \/ records[req[r].session].holder = Message(r).holder

\* What the session's holder knows from the answer to r: of every session, found or not.
Told(r) ==
  {v \in {[session |-> tokens[Subject(r)].session, live |-> req[r].live]} :
     records[v.session].holder = Message(r).holder}

\* verifyAtprotoDpop, and the client id.  The server's nonce may have expired.
Verify(r) ==
  /\ req[r].pc = "dpop"
  /\ IF FreshProof(req[r].message) /\ HolderMatches(r)
     THEN /\ spent' = spent \cup {req[r].message}
          /\ \/ /\ Message(r).grant = "code" \/ req[r].session # None
                /\ Go(r, IF Revokes(r) THEN "drop revoke"
                         ELSE IF req[r].replay THEN "drop replay" ELSE "consume")
                /\ UNCHANGED revoked
             \/ /\ Revokes(r) /\ req[r].session = None
                /\ revoked' = revoked \cup Told(r)
                /\ End(r)
             \/ End(r) /\ UNCHANGED revoked
     ELSE End(r) /\ UNCHANGED <<spent, revoked>>
  /\ UNCHANGED <<database, sent, now, answered, dropped, pds>>

-----------------------------------------------------------------------------
(* The grants *)

\* Fault: a record that is gone by now is taken for consumed.
TakesRead(present) == TRUE

\* consumeRecord: one of several requests gets the record, unless it has expired.
Takes(present) == present

ConsumeCode(r) ==
  /\ req[r].pc = "consume" /\ Message(r).grant = "code"
  /\ IF Takes(FoundCode(Subject(r))) THEN Go(r, "start") ELSE End(r)
  /\ codes' = codes \ {Subject(r)}
  /\ UNCHANGED <<granted, sessions, records, tokens, refresh, used, proofs, now, history>>

StartSession(r) ==
  LET s == Len(records) + 1
  IN  /\ req[r].pc = "start" /\ s \in Ids
      /\ records' = Append(records, [holder |-> granted[Subject(r)].holder, expires |-> now + SessionLife])
      /\ sessions' = sessions \cup {s}
      /\ req' = [req EXCEPT ![r].pc = "access", ![r].session = s]
      /\ UNCHANGED <<granted, codes, tokens, refresh, used, proofs, now, history>>

ConsumeRefresh(r) ==
  /\ req[r].pc = "consume" /\ Message(r).grant = "refresh"
  /\ Go(r, IF Takes(FoundRefresh(Subject(r))) THEN "found" ELSE "drop replay")
  /\ refresh' = refresh \ {Subject(r)}
  /\ UNCHANGED <<granted, codes, sessions, records, tokens, used, proofs, now, history>>

FindSessionAgain(r) ==
  /\ req[r].pc = "found"
  /\ IF FoundSession(req[r].session) THEN Go(r, "record") ELSE End(r)
  /\ UNCHANGED <<database, proofs, now, history>>

\* Fault: the token is remembered as long as an access token.
UsedBriefly(s) == now + AccessLife

\* Until when a used token is remembered.
UsedUntil(s) == records[s].expires

RecordUsed(r) ==
  /\ req[r].pc = "record"
  /\ IF Subject(r) \in DOMAIN used
     THEN Go(r, "drop replay") /\ UNCHANGED used
     ELSE /\ used' = Put(used, Subject(r), UsedUntil(req[r].session))
          /\ Go(r, "access")
  /\ UNCHANGED <<granted, codes, sessions, records, tokens, refresh, proofs, now, history>>

\* issueTokenSet: the access token and its record.  A client without refresh tokens
\* has its answer.
IssueAccess(r) ==
  LET i == Len(tokens) + 1
      renews == Message(r).grant = "refresh" \/ granted[Subject(r)].renew
  IN  /\ req[r].pc = "access" /\ i \in Ids
      /\ tokens' = Append(tokens, [session |-> req[r].session, from |-> Subject(r),
                                   expires |-> now + AccessLife])
      /\ IF renews
         THEN req' = [req EXCEPT ![r].pc = "refresh", ![r].id = i] /\ UNCHANGED answered
         ELSE End(r) /\ answered' = answered \cup {<<"access", i>>}
      /\ UNCHANGED <<granted, codes, sessions, records, refresh, used, sent, spent, now,
                     dropped, revoked, pds>>

IssueRefresh(r) ==
  LET i == req[r].id
  IN  /\ req[r].pc = "refresh"
      /\ refresh' = refresh \cup {i}
      /\ answered' = answered \cup {<<"access", i>>, <<"refresh", i>>}
      /\ End(r)
      /\ UNCHANGED <<granted, codes, sessions, records, tokens, used, sent, spent, now,
                     dropped, revoked, pds>>

\* A token cannot be signed or recorded.
IssueFails(r) ==
  /\ req[r].pc \in {"access", "refresh"}
  /\ Go(r, "drop failed")
  /\ UNCHANGED <<database, proofs, now, history>>

-----------------------------------------------------------------------------
(* Ends of sessions *)

Drop(r, why) ==
  /\ sessions' = sessions \ {req[r].session}
  /\ dropped' = IF FoundSession(req[r].session)
                THEN dropped \cup {[session |-> req[r].session, why |-> why]}
                ELSE dropped
  /\ End(r)
  /\ UNCHANGED <<granted, codes, records, tokens, refresh, used, sent, spent, now, answered, pds>>

\* A token was presented again, or its successor could not be issued.
Punish(r) ==
  \/ req[r].pc = "drop replay" /\ Drop(r, "replay") /\ UNCHANGED revoked
  \/ req[r].pc = "drop failed" /\ Drop(r, "failed") /\ UNCHANGED revoked

\* handleRevoke deletes the session, whichever of its tokens is presented.
Revoke(r) ==
  /\ req[r].pc = "drop revoke"
  /\ Drop(r, "revoke")
  /\ revoked' = revoked \cup Told(r)

-----------------------------------------------------------------------------
(* The PDS *)

\* verifyProof: of the key in the token's cnf claim, and made in the last minute.
ProofAccepted(r) ==
  /\ Message(r).holder = records[tokens[Subject(r)].session].holder
  /\ now <= Message(r).at + ProofLife

\* The account is hosted, and the proof is the token holder's.
CheckProof(r) ==
  /\ req[r].pc = "proof"
  /\ IF ProofAccepted(r) THEN Go(r, "claim") ELSE End(r)
  /\ UNCHANGED <<database, proofs, now, history>>

\* Fault: a row is kept no longer than the proof is valid when it is new.
ClaimedBriefly == now

\* Until when a claimed proof is kept.
ClaimedUntil == now + ClaimLife

\* claimProof inserts a row, unless there is one.
ClaimProof(r) ==
  LET k == req[r].message
  IN  /\ req[r].pc = "claim"
      /\ IF k \in DOMAIN claimed
         THEN UNCHANGED <<claimed, served>>
         ELSE /\ claimed' = Put(claimed, k, ClaimedUntil)
              /\ served' = [served EXCEPT ![k] = @ + 1]
      /\ End(r)
      /\ UNCHANGED <<database, sent, spent, now, answered, dropped, revoked>>

\* createNonce deletes what has expired.
CreateNonce ==
  LET kept == {k \in DOMAIN claimed : claimed[k] > now}
  IN  /\ kept # DOMAIN claimed
      /\ claimed' = [k \in kept |-> claimed[k]]
      /\ UNCHANGED <<database, sent, spent, req, now, history>>

\* The request is cut off, or a query fails.
RequestLost(r) ==
  /\ req[r].pc # "idle"
  /\ End(r)
  /\ UNCHANGED <<database, proofs, now, history>>

\* The PDS does not take the rest of a row's life between checking a proof and claiming it.
Tick ==
  /\ now < MaxTime
  /\ \A r \in Requests : req[r].pc = "claim" => now + 1 < Message(r).at + ClaimLife
  /\ now' = now + 1
  /\ UNCHANGED <<database, proofs, req, history>>

Next ==
  \/ \E c \in Codes, h \in Holders, renew \in BOOLEAN : Authorize(c, h, renew)
  \/ \E r \in Requests :
       \/ \E g \in Grants, h \in Holders :
            \E t \in IF g = "code" THEN Codes ELSE Ids :
              Send(r, [grant |-> g, token |-> t, holder |-> h, at |-> IF g = "use" THEN now ELSE 0])
       \/ \E k \in DOMAIN sent : Redeliver(r, k)
       \/ FindUsed(r) \/ FindSession(r) \/ Verify(r)
       \/ ConsumeCode(r) \/ StartSession(r)
       \/ ConsumeRefresh(r) \/ FindSessionAgain(r) \/ RecordUsed(r)
       \/ IssueAccess(r) \/ IssueRefresh(r) \/ IssueFails(r)
       \/ Punish(r) \/ Revoke(r) \/ RequestLost(r)
       \/ CheckProof(r) \/ ClaimProof(r)
  \/ CreateNonce
  \/ Tick

Spec == Init /\ [][Next]_vars

-----------------------------------------------------------------------------

\* A code and a refresh token are exchanged for one token set each, however many
\* requests present them at the same time (token.ts 152-161, 242-256).
ExchangedOnce ==
  \A i, j \in DOMAIN tokens : tokens[i].from = tokens[j].from => i = j

\* Whoever presents a refresh token that was exchanged for another is recognised as
\* long as the session lasts, wherever the exchange was cut off (token.ts 266-280).
ReplayRecognised ==
  \A i \in DOMAIN tokens :
    FoundSession(tokens[i].session) /\ tokens[i].from \in Ids => FoundUsed(tokens[i].from)

\* A session is not taken from a client for what the network does: it takes two messages,
\* each with a proof of its own, that present one token (token.ts 224-256).
ReplayNeedsTwo ==
  \A d \in dropped : d.why = "replay" =>
    \E k, l \in spent :
      /\ k # l /\ sent[k].grant = "refresh" /\ sent[l].grant = "refresh"
      /\ sent[k].token = sent[l].token
      /\ tokens[sent[k].token].session = d.session

\* A client that was told that its session is revoked has no session, if the token that it
\* presented was live: the access token had not expired; the refresh token was one to
\* exchange or one that was used, also when it became a used one between the two lookups.
\* The endpoint answers the same for others (revocation.ts 31-69), and their sessions may
\* live on: of an expired access token, and of a refresh token that an exchange consumed
\* (token.ts 242) and did not record as used yet (266), or never will as it was cut off.
RevokedEnds ==
  \A v \in revoked : v.live => ~ FoundSession(v.session)

\* The PDS lets one request in for a proof, however often and when it is delivered
\* (resource.ts 97-103, dpop-state.ts 13-49).
ProofServesOnce ==
  \A k \in Messages : served[k] <= 1

\* A session is used, renewed and ended by the client and key to which the user gave the
\* code, not by others that learn its tokens (dpop.ts 65-81, token.ts 128-150, 218-223,
\* resource.ts 133-171).
HeldByOne ==
  /\ \A k \in DOMAIN sent : served[k] > 0 =>
       sent[k].holder = records[tokens[sent[k].token].session].holder
  /\ \A i \in DOMAIN tokens : tokens[i].from \in Ids =>
       \E k \in spent : /\ sent[k].token = tokens[i].from
                        /\ sent[k].grant = "refresh"
                        /\ sent[k].holder = records[tokens[i].session].holder
  /\ \A d \in dropped : d.why \in {"replay", "revoke"} =>
       \E k \in spent : sent[k].holder = records[d.session].holder /\ sent[k].grant # "code"
=============================================================================
