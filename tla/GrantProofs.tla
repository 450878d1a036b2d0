------------------------------ MODULE GrantProofs -----------------------------
(* The grants of the OAuth provider and the proofs at the PDS: what one     *)
(* code, one refresh token, one session and one proof are good for, for any *)
(* number of clients, messages, requests, sessions and tokens.              *)
EXTENDS OAuthGrants, SequenceTheorems, TLAPS

USE GrantsAssumption DEF None, Messages, Ids

-----------------------------------------------------------------------------
(* What the records, the messages and the requests have to do with each other *)

Bounds ==
  Len(records) <= MaxTokens /\ Len(tokens) <= MaxTokens /\ Len(sent) <= MaxMessages

\* A token names a session, and a token that replaces another one the same session.
TokensLinked ==
  \A i \in DOMAIN tokens :
    /\ tokens[i].session \in DOMAIN records
    /\ tokens[i].from \in Codes => tokens[i].from \in DOMAIN granted
    /\ tokens[i].from \in Ids =>
         /\ <<"refresh", tokens[i].from>> \in answered
         /\ tokens[tokens[i].from].session = tokens[i].session

Revocations(S) == [session : S, live : BOOLEAN]

\* What is presented, can be exchanged or was used has been answered.
AnswersLinked ==
  /\ \A a \in answered : a[2] \in DOMAIN tokens
  /\ \A k \in DOMAIN sent : Known(sent[k]) /\ sent[k].at <= now
  /\ \A i \in refresh \cup DOMAIN used : <<"refresh", i>> \in answered
  /\ revoked \subseteq Revocations(DOMAIN records)

\* The steps after the proof of the message was accepted.
ActiveSteps == {"consume", "start", "found", "record", "access", "refresh",
                "drop replay", "drop failed", "drop revoke"}
Active(r) == req[r].pc \in ActiveSteps

\* Which message the request v handles at which step, and for which session.
HandledBy(v) ==
  LET m == sent[v.message]
  IN  v.pc # "idle" =>
        /\ v.message \in DOMAIN sent
        /\ v.pc \in {"proof", "claim"} <=> m.grant = "use"
        /\ v.pc \in {"used", "session", "found", "record", "drop replay", "drop revoke"} =>
             m.grant # "code"
        /\ v.pc \in {"consume", "start", "found", "record", "access", "refresh",
                     "drop replay", "drop failed"} => m.grant \in {"code", "refresh"}
        /\ v.pc = "used" => m.grant \in {"refresh", "revoke refresh"} /\ v.session = None
        /\ v.pc = "start" => m.grant = "code"
        /\ v.pc = "drop revoke" => m.grant \in {"revoke access", "revoke refresh"}
        /\ v.pc = "session" => v.session = tokens[m.token].session
        /\ v.pc = "dpop" /\ v.session # None =>
             m.grant # "code" /\ v.session = tokens[m.token].session
        /\ v.replay => m.grant \in {"refresh", "revoke refresh"} /\ m.token \in DOMAIN used
        /\ v.pc \in ActiveSteps => v.message \in spent
        /\ v.pc \in ActiveSteps /\ m.grant # "code" =>
             /\ v.session = tokens[m.token].session
             /\ records[v.session].holder = m.holder
        /\ v.pc \in {"access", "refresh", "drop failed"} => v.session \in DOMAIN records
        /\ v.pc = "refresh" => v.id \in DOMAIN tokens

Base ==
  /\ TypeOK /\ Bounds /\ TokensLinked /\ AnswersLinked
  /\ \A r \in Requests : HandledBy(req[r])

-----------------------------------------------------------------------------

\* The request has taken the code or token of its message, and nobody else can.
Holds(r) == req[r].pc \in {"start", "found", "record", "access"}

TakenOnce ==
  /\ \A q, r \in Requests : Holds(q) /\ Holds(r) /\ Subject(q) = Subject(r) => q = r
  /\ \A r \in Requests : Holds(r) =>
       /\ Subject(r) \notin codes \cup refresh
       /\ \A i \in DOMAIN tokens : tokens[i].from # Subject(r)
  /\ \A i \in DOMAIN tokens : tokens[i].from \notin codes \cup refresh
  /\ ExchangedOnce

\* A refresh token is known to nobody until its record is written.
NewTokens ==
  /\ \A r \in Requests : req[r].pc = "refresh" => <<"refresh", req[r].id>> \notin answered
  /\ \A q, r \in Requests :
       req[q].pc = "refresh" /\ req[r].pc = "refresh" /\ req[q].id = req[r].id => q = r

\* A token that was exchanged, or is about to be, is remembered as long as its session.
Remembered ==
  /\ \A i \in DOMAIN tokens : tokens[i].from \in Ids =>
       /\ tokens[i].from \in DOMAIN used
       /\ used[tokens[i].from] = records[tokens[i].session].expires
  /\ \A r \in Requests : req[r].pc = "access" /\ Message(r).grant = "refresh" =>
       Subject(r) \in DOMAIN used /\ used[Subject(r)] = records[req[r].session].expires
  /\ \A r \in Requests : req[r].pc \in {"found", "record"} => Subject(r) \notin DOMAIN used
  /\ refresh \cap DOMAIN used = {}

-----------------------------------------------------------------------------

Presents(k, i) == sent[k].grant = "refresh" /\ sent[k].token = i

Expired(s) == records[s].expires < now

\* A refresh token that is gone was presented with a proof that no request is about to
\* use for consuming a token.
GoneWasPresented ==
  /\ \A q, r \in Requests :
       Active(q) /\ Active(r) /\ req[q].message = req[r].message => q = r
  /\ \A i \in Ids : <<"refresh", i>> \in answered /\ i \notin refresh =>
       \E l \in spent : /\ Presents(l, i)
                        /\ \A q \in Requests : req[q].pc = "consume" => req[q].message # l

TwoPresented(i) ==
  \E k, l \in spent : k # l /\ Presents(k, i) /\ Presents(l, i)

ReplayIsReal ==
  /\ \A r \in Requests : req[r].pc = "drop replay" =>
       Expired(req[r].session) \/ TwoPresented(Subject(r))
  /\ ReplayNeedsTwo

\* A request to revoke that finds nothing to exchange, while it looks among the used
\* tokens: one that is still there is too old.
LooksOn(r) ==
  req[r].pc = "used" /\ Message(r).grant = "revoke refresh" /\ Subject(r) \in refresh =>
    Expired(tokens[Subject(r)].session)

\* Afterwards, no session that a live token is of.
LooksInVain(r) ==
  req[r].pc = "dpop" /\ req[r].session = None /\ Revokes(r) /\ req[r].live =>
    ~ FoundSession(tokens[Subject(r)].session)

\* A used token is remembered as long as its session.
UsedLast ==
  \A i \in DOMAIN used : used[i] = records[tokens[i].session].expires

RevocationSure ==
  /\ UsedLast
  /\ \A r \in Requests : LooksOn(r) /\ LooksInVain(r)
  /\ RevokedEnds

-----------------------------------------------------------------------------

\* A proof that was claimed has a row for as long as it would be accepted.
ClaimsKept ==
  /\ \A k \in Messages : served[k] > 0 =>
       k \in DOMAIN sent /\ (k \in DOMAIN claimed \/ now >= sent[k].at + ClaimLife)
  /\ \A k \in DOMAIN claimed : claimed[k] >= sent[k].at + ClaimLife
  /\ \A r \in Requests : req[r].pc = "claim" => now < Message(r).at + ClaimLife
  /\ ProofServesOnce

HeldToTheEnd ==
  /\ \A r \in Requests : req[r].pc = "claim" =>
       Message(r).holder = records[tokens[Subject(r)].session].holder
  /\ \A k \in DOMAIN sent : served[k] > 0 => sent[k].grant = "use"
  /\ \A d \in dropped : d.session \in DOMAIN records
  /\ HeldByOne

-----------------------------------------------------------------------------
(* The types *)

GrantRows == [holder : Holders, renew : BOOLEAN, expires : Nat]
SessionRows == [holder : Holders, expires : Nat]
TokenRows == [session : Ids, from : Codes \cup Ids, expires : Nat]
MessageRows == [grant : Grants, token : Codes \cup Ids, holder : Holders, at : Nat]
RowsOf(M, S, I) == [pc : Steps, message : M, session : S, replay : BOOLEAN, live : BOOLEAN, id : I]
RequestRows == RowsOf(0..Len(sent), 0..Len(records), 0..Len(tokens))

LEMMA TypeFacts ==
  ASSUME TypeOK
  PROVE  /\ granted \in [DOMAIN granted -> GrantRows]
         /\ records \in Seq(SessionRows) /\ tokens \in Seq(TokenRows) /\ sent \in Seq(MessageRows)
         /\ req \in [Requests -> RequestRows]
         /\ Len(records) \in Nat /\ Len(tokens) \in Nat /\ Len(sent) \in Nat
         /\ DOMAIN records = 1..Len(records) /\ DOMAIN tokens = 1..Len(tokens)
         /\ DOMAIN sent = 1..Len(sent)
         /\ now \in Nat
BY LenProperties DEF TypeOK, GrantRows, SessionRows, TokenRows, MessageRows, RequestRows, RowsOf

LEMMA RecordFacts ==
  ASSUME TypeOK, NEW s \in DOMAIN records
  PROVE  records[s] \in SessionRows /\ records[s].holder \in Holders /\ records[s].expires \in Nat
<1>1. records[s] \in SessionRows
  BY TypeFacts, ElementOfSeq
<1> QED
  BY <1>1 DEF SessionRows

LEMMA TokenFacts ==
  ASSUME TypeOK, NEW i \in DOMAIN tokens
  PROVE  /\ tokens[i].session \in Ids /\ tokens[i].expires \in Nat
         /\ tokens[i].from \in Codes \cup Ids /\ i \in Nat
<1>1. tokens[i] \in TokenRows /\ i \in Nat
  BY TypeFacts, ElementOfSeq
<1> QED
  BY <1>1 DEF TokenRows

LEMMA MessageFacts ==
  ASSUME TypeOK, AnswersLinked, NEW k \in DOMAIN sent
  PROVE  /\ sent[k] \in MessageRows /\ k \in Nat
         /\ sent[k].grant \in Grants /\ sent[k].at \in Nat /\ sent[k].holder \in Holders
         /\ sent[k].grant = "code" => sent[k].token \in DOMAIN granted /\ sent[k].token \in Codes
         /\ sent[k].grant # "code" => sent[k].token \in DOMAIN tokens
         /\ sent[k].grant \in {"refresh", "revoke refresh"} =>
              <<"refresh", sent[k].token>> \in answered
<1>1. sent[k] \in MessageRows /\ k \in Nat
  BY TypeFacts, ElementOfSeq
<1>2. sent[k].grant \in Grants /\ sent[k].at \in Nat /\ sent[k].holder \in Holders
  BY <1>1 DEF MessageRows
<1>3. Known(sent[k]) /\ DOMAIN granted \subseteq Codes
  BY DEF AnswersLinked, TypeOK
<1>4. sent[k].grant = "code" => sent[k].token \in DOMAIN granted /\ sent[k].token \in Codes
  BY <1>3 DEF Known
<1>5. sent[k].grant \in {"refresh", "revoke refresh"} => <<"refresh", sent[k].token>> \in answered
  BY <1>3 DEF Known
<1>6. sent[k].grant \in {"revoke access", "use"} => <<"access", sent[k].token>> \in answered
  BY <1>3 DEF Known
<1>7. \A g, t : <<g, t>> \in answered => t \in DOMAIN tokens
  BY DEF AnswersLinked
<1> QED
  BY <1>1, <1>2, <1>4, <1>5, <1>6, <1>7 DEF Grants

LEMMA RequestTypes ==
  ASSUME TypeOK, NEW r \in Requests
  PROVE  /\ req[r] \in RequestRows
         /\ req[r].pc \in Steps /\ req[r].message \in 0..Len(sent)
         /\ req[r].session \in 0..Len(records) /\ req[r].id \in 0..Len(tokens)
         /\ req[r].replay \in BOOLEAN /\ req[r].live \in BOOLEAN
<1>1. req[r] \in RequestRows
  BY TypeFacts
<1> QED
  BY <1>1 DEF RequestRows, RowsOf

LEMMA RequestFacts ==
  ASSUME TypeOK, NEW r \in Requests, NEW v, req' = [req EXCEPT ![r] = v]
  PROVE  /\ req'[r] = v
         /\ \A q \in Requests : q # r => req'[q] = req[q]
BY DEF TypeOK

\* Requests whose step, and whose session, mark or id changes.
SameRow(v, x, pc, s, b, i) ==
  /\ v.pc = pc /\ v.message = x.message /\ v.session = s /\ v.replay = b
  /\ v.live = x.live /\ v.id = i

LEMMA StepRow ==
  ASSUME NEW M, NEW S, NEW I, NEW x \in RowsOf(M, S, I), NEW pc \in Steps,
         NEW v, v = [x EXCEPT !.pc = pc]
  PROVE  v \in RowsOf(M, S, I) /\ SameRow(v, x, pc, x.session, x.replay, x.id)
BY DEF RowsOf, SameRow

LEMMA SessionRow ==
  ASSUME NEW M, NEW S, NEW I, NEW x \in RowsOf(M, S, I), NEW pc \in Steps, NEW s \in S,
         NEW v, v = [x EXCEPT !.pc = pc, !.session = s]
  PROVE  v \in RowsOf(M, S, I) /\ SameRow(v, x, pc, s, x.replay, x.id)
BY DEF RowsOf, SameRow

LEMMA ReplayRow ==
  ASSUME NEW M, NEW S, NEW I, NEW x \in RowsOf(M, S, I), NEW v, v = [x EXCEPT !.replay = TRUE]
  PROVE  v \in RowsOf(M, S, I) /\ SameRow(v, x, x.pc, x.session, TRUE, x.id)
BY DEF RowsOf, SameRow

LEMMA IdRow ==
  ASSUME NEW M, NEW S, NEW I, NEW x \in RowsOf(M, S, I), NEW pc \in Steps, NEW i \in I,
         NEW v, v = [x EXCEPT !.pc = pc, !.id = i]
  PROVE  v \in RowsOf(M, S, I) /\ SameRow(v, x, pc, x.session, x.replay, i)
BY DEF RowsOf, SameRow

SameButLive(v, x) ==
  /\ v.pc = x.pc /\ v.message = x.message /\ v.session = x.session /\ v.replay = x.replay
  /\ v.id = x.id

LEMMA LiveRow ==
  ASSUME NEW M, NEW S, NEW I, NEW x \in RowsOf(M, S, I), NEW b \in BOOLEAN,
         NEW v, v = [x EXCEPT !.live = b]
  PROVE  v \in RowsOf(M, S, I) /\ SameButLive(v, x) /\ v.live = b
BY DEF RowsOf, SameButLive

\* Records, tokens and messages are only added.
Grows ==
  /\ \A c \in DOMAIN granted : c \in DOMAIN granted' /\ granted'[c] = granted[c]
  /\ \A s \in DOMAIN records :
       s \in DOMAIN records' /\ records'[s] = records[s] /\ (s \in sessions' => s \in sessions)
  /\ \A i \in DOMAIN tokens : i \in DOMAIN tokens' /\ tokens'[i] = tokens[i]
  /\ \A k \in DOMAIN sent : k \in DOMAIN sent' /\ sent'[k] = sent[k]
  /\ \A i \in DOMAIN used : i \in DOMAIN used' /\ used'[i] = used[i]
  /\ spent \subseteq spent' /\ answered \subseteq answered'
  /\ now' \in Nat /\ now <= now'

LongerRows ==
  /\ Len(records') \in Nat /\ Len(tokens') \in Nat /\ Len(sent') \in Nat
  /\ Len(records) <= Len(records') /\ Len(tokens) <= Len(tokens') /\ Len(sent) <= Len(sent')

LEMMA AppendGrows ==
  ASSUME NEW S, NEW seq \in Seq(S), NEW e \in S
  PROVE  /\ Append(seq, e) \in Seq(S)
         /\ Len(Append(seq, e)) = Len(seq) + 1 /\ Len(seq) \in Nat
         /\ DOMAIN Append(seq, e) = 1..(Len(seq) + 1)
         /\ \A i \in 1..Len(seq) : Append(seq, e)[i] = seq[i]
         /\ Append(seq, e)[Len(seq) + 1] = e
BY AppendProperties, LenProperties

LEMMA RequestRowsNext ==
  ASSUME TypeOK, LongerRows, NEW r \in Requests, NEW v \in RequestRows', req' = [req EXCEPT ![r] = v]
  PROVE  req' \in [Requests -> RequestRows']
<1>1. \A q \in Requests : req[q] \in RequestRows'
  <2> SUFFICES ASSUME NEW q \in Requests
               PROVE  req[q] \in RequestRows'
    OBVIOUS
  <2>1. req[q] \in RequestRows
    BY TypeFacts
  <2>2. /\ 0..Len(sent) \subseteq 0..Len(sent') /\ 0..Len(records) \subseteq 0..Len(records')
        /\ 0..Len(tokens) \subseteq 0..Len(tokens')
    <3>1. \A a, b \in Nat : a <= b => 0..a \subseteq 0..b
      OBVIOUS
    <3>2. Len(records) \in Nat /\ Len(tokens) \in Nat /\ Len(sent) \in Nat
      BY TypeFacts
    <3> QED
      BY ONLY <3>1, <3>2, LongerRows DEF LongerRows
  <2> QED
    BY ONLY <2>1, <2>2 DEF RequestRows, RowsOf
<1>2. req \in [Requests -> RequestRows]
  BY TypeFacts
<1> HIDE DEF RequestRows
<1> QED
  BY <1>1, <1>2

LEMMA HandledGrows ==
  ASSUME Base, Grows, NEW v, HandledBy(v)
  PROVE  HandledBy(v)'
<1> SUFFICES ASSUME v.pc # "idle"
             PROVE  HandledBy(v)'
  BY DEF HandledBy
<1> DEFINE m == sent[v.message]
<1>1. HandledBy(v) /\ v.message \in DOMAIN sent
  BY DEF Base, HandledBy
<1>2. /\ v.message \in DOMAIN sent' /\ sent'[v.message] = m
      /\ m.grant # "code" => /\ tokens'[m.token] = tokens[m.token]
                             /\ tokens[m.token].session \in DOMAIN records
  <2>1. sent'[v.message] = m /\ v.message \in DOMAIN sent'
    BY <1>1 DEF Grows
  <2>2. m.grant # "code" => m.token \in DOMAIN tokens
    BY <1>1, MessageFacts DEF Base
  <2> QED
    BY <2>1, <2>2 DEF Base, Grows, TokensLinked
<1>3. \A s \in DOMAIN records : s \in DOMAIN records' /\ records'[s] = records[s]
  BY DEF Grows
<1>4. \A i : i \in DOMAIN used => i \in DOMAIN used'
  BY DEF Grows
<1>5. spent \subseteq spent'
  BY DEF Grows
<1>6. \A i : i \in DOMAIN tokens => i \in DOMAIN tokens'
  BY DEF Grows
<1> QED
  BY ONLY <1>1, <1>2, <1>3, <1>4, <1>5, <1>6 DEF HandledBy

-----------------------------------------------------------------------------
(* What the steps do to a request *)

LEMMA NoRequestFacts ==
  ASSUME TypeOK
  PROVE  NoRequest \in RequestRows /\ NoRequest.pc = "idle"
<1>1. 0 \in 0..Len(sent) /\ 0 \in 0..Len(records) /\ 0 \in 0..Len(tokens)
  BY TypeFacts
<1> QED
  BY ONLY <1>1 DEF NoRequest, RequestRows, RowsOf, Steps, None

FreshRows(k) ==
  [pc : Steps, message : {None, k}, session : {None} \cup DOMAIN records, replay : {FALSE},
   live : BOOLEAN, id : {None}]

\* The request that handles message m, the k-th, at its first lookup.
Begins(v, k, m) ==
  \/ v = NoRequest
  \/ /\ v \in FreshRows(k) /\ v.message = k
     /\ \/ v.pc = "dpop" /\ v.session = None /\ m.grant = "code"
        \/ v.pc = "dpop" /\ v.session = None /\ ~ v.live /\ m.grant = "revoke access"
        \/ /\ v.pc = "session" /\ m.grant \in {"refresh", "revoke refresh", "revoke access"}
           /\ v.session = tokens[m.token].session
        \/ /\ v.pc = "used" /\ m.grant \in {"refresh", "revoke refresh"}
           /\ v.session = None /\ ~ FoundRefresh(m.token)
        \/ v.pc = "proof" /\ m.grant = "use"

LEMMA BeginFacts ==
  ASSUME TypeOK, TokensLinked, AnswersLinked, NEW r \in Requests, NEW k, NEW m \in MessageRows,
         Known(m), Begin(r, k, m)
  PROVE  \E v : req' = [req EXCEPT ![r] = v] /\ Begins(v, k, m)
<1> DEFINE i == m.token
           to(pc) == [NoRequest EXCEPT !.pc = pc, !.message = k]
           found == [to("session") EXCEPT !.session = tokens[i].session, !.live = TRUE]
           v == CASE m.grant = "code" ->
                       IF FoundCode(i) /\ granted[i].holder = m.holder
                       THEN to("dpop") ELSE NoRequest
                  [] m.grant = "revoke access" -> IF FoundAccess(i) THEN found ELSE to("dpop")
                  [] m.grant = "use" -> IF Valid(i) THEN to("proof") ELSE NoRequest
                  [] OTHER -> IF FoundRefresh(i) THEN found ELSE to("used")
<1>1. req' = [req EXCEPT ![r] = v]
  BY DEF Begin
<1>2. m.grant # "code" => tokens[i].session \in DOMAIN records
  BY DEF Known, AnswersLinked, TokensLinked
<1>3. m.grant \in Grants
  BY DEF MessageRows
<1>4. NoRequest \in FreshRows(k) /\ NoRequest.session = None /\ NoRequest.live = FALSE
  BY DEF NoRequest, FreshRows, Steps
<1>5. ASSUME NEW pc \in Steps
      PROVE  /\ to(pc) \in FreshRows(k)
             /\ to(pc).pc = pc /\ to(pc).message = k /\ to(pc).session = None
             /\ to(pc).live = FALSE
  BY <1>4 DEF FreshRows
<1> HIDE DEF to
<1>6. {"dpop", "session", "used", "proof"} \subseteq Steps
  BY DEF Steps
<1>7. m.grant # "code" =>
        /\ found \in FreshRows(k) /\ found.pc = "session" /\ found.message = k
        /\ found.session = tokens[i].session
  <2>1. PICK x, s : x = to("session") /\ s = tokens[i].session
    OBVIOUS
  <2>2. x \in FreshRows(k) /\ x.pc = "session" /\ x.message = k
    BY <1>5, <1>6, <2>1
  <2>3. PICK f : f = [x EXCEPT !.session = s, !.live = TRUE]
    OBVIOUS
  <2>4. s \in DOMAIN records =>
          f \in FreshRows(k) /\ f.pc = "session" /\ f.message = k /\ f.session = s
    BY ONLY <2>2, <2>3 DEF FreshRows
  <2>5. found = f
    BY <2>1, <2>3
  <2> HIDE DEF found
  <2> QED
    BY <1>2, <2>1, <2>4, <2>5
<1> HIDE DEF found
<1>8. CASE m.grant = "code"
  <2>1. v = to("dpop") \/ v = NoRequest
    BY <1>8
  <2> HIDE DEF v
  <2> QED
    BY <1>1, <1>5, <1>6, <1>8, <2>1 DEF Begins
<1>9. CASE m.grant = "revoke access"
  <2>1. v = to("dpop") \/ v = found
    BY <1>9
  <2> HIDE DEF v
  <2> QED
    BY <1>1, <1>5, <1>6, <1>7, <1>9, <2>1 DEF Begins
<1>10. CASE m.grant = "use"
  <2>1. v = to("proof") \/ v = NoRequest
    BY <1>10
  <2> HIDE DEF v
  <2> QED
    BY <1>1, <1>5, <1>6, <1>10, <2>1 DEF Begins
<1>11. CASE m.grant \in {"refresh", "revoke refresh"}
  <2>1. v = IF FoundRefresh(i) THEN found ELSE to("used")
    BY <1>11
  <2> HIDE DEF v
  <2>2. CASE FoundRefresh(i)
    <3>1. v = found
      BY <2>1, <2>2
    <3> QED
      BY <1>1, <1>7, <1>11, <3>1 DEF Begins
  <2>3. CASE ~ FoundRefresh(i)
    <3>1. v = to("used")
      BY <2>1, <2>3
    <3>2. v \in FreshRows(k) /\ v.pc = "used" /\ v.message = k /\ v.session = None
      BY <1>5, <1>6, <3>1
    <3> QED
      BY <1>1, <1>11, <2>3, <3>2 DEF Begins
  <2> QED
    BY <2>2, <2>3
<1> QED
  BY <1>3, <1>8, <1>9, <1>10, <1>11 DEF Grants

\* A request goes on to the step pc.
LEMMA GoFacts ==
  ASSUME TypeOK, NEW r \in Requests, NEW pc \in Steps, Go(r, pc)
  PROVE  \E v \in RequestRows :
           /\ req' = [req EXCEPT ![r] = v]
           /\ SameRow(v, req[r], pc, req[r].session, req[r].replay, req[r].id)
<1> DEFINE v == [req[r] EXCEPT !.pc = pc]
<1>1. req' = [req EXCEPT ![r] = v]
  BY DEF Go, TypeOK
<1>2. v = [req[r] EXCEPT !.pc = pc]
  OBVIOUS
<1> HIDE DEF v
<1>3. req[r] \in RowsOf(0..Len(sent), 0..Len(records), 0..Len(tokens))
  BY RequestTypes DEF RequestRows
<1>4. v \in RowsOf(0..Len(sent), 0..Len(records), 0..Len(tokens))
      /\ SameRow(v, req[r], pc, req[r].session, req[r].replay, req[r].id)
  BY ONLY <1>2, <1>3, StepRow, pc \in Steps
<1> QED
  BY <1>1, <1>4 DEF RequestRows

LEMMA RequestOnly ==
  ASSUME Base, NEW r \in Requests, NEW v \in RequestRows, HandledBy(v),
         req' = [req EXCEPT ![r] = v],
         UNCHANGED <<database, proofs, now, history>>
  PROVE  Base' /\ Grows
<1>1. req' \in [Requests -> RequestRows]
  <2>1. req \in [Requests -> RequestRows]
    BY TypeFacts DEF Base
  <2> HIDE DEF RequestRows
  <2> QED
    BY <2>1
<1>2. TypeOK'
  BY <1>1 DEF Base, TypeOK, RequestRows, RowsOf, database, proofs, history
<1>3. Bounds' /\ TokensLinked' /\ AnswersLinked'
  BY DEF Base, Bounds, TokensLinked, AnswersLinked, Known, database, proofs, history
<1>5. \A q \in Requests : HandledBy(req[q])'
  <2> SUFFICES ASSUME NEW q \in Requests
               PROVE  HandledBy(req[q])'
    OBVIOUS
  <2>1. HandledBy(req'[q])
    BY RequestFacts DEF Base
  <2> QED
    BY <2>1 DEF HandledBy, database, proofs
<1>6. Grows
  BY TypeFacts DEF Base, Grows, database, proofs, history
<1> QED
  BY <1>2, <1>3, <1>5, <1>6 DEF Base

-----------------------------------------------------------------------------
(* Every step only adds, and keeps Base: the lookups *)

LEMMA BegunHandled ==
  ASSUME Base, NEW k \in DOMAIN sent, NEW v, Begins(v, k, sent[k])
  PROVE  v \in RequestRows /\ HandledBy(v)
<1> DEFINE m == sent[k]
<1>1. CASE v = NoRequest
  BY <1>1, NoRequestFacts DEF Base, HandledBy
<1>2. CASE v # NoRequest
  <2>1. /\ v \in FreshRows(k) /\ v.message = k
        /\ \/ v.pc = "dpop" /\ v.session = None /\ m.grant \in {"code", "revoke access"}
           \/ /\ v.pc = "session" /\ m.grant \in {"refresh", "revoke refresh", "revoke access"}
              /\ v.session = tokens[m.token].session
           \/ v.pc = "used" /\ m.grant \in {"refresh", "revoke refresh"} /\ v.session = None
           \/ v.pc = "proof" /\ m.grant = "use"
    BY <1>2 DEF Begins
  <2>2. v.pc \in Steps /\ v.replay = FALSE
    BY <2>1 DEF FreshRows
  <2>3. /\ {None, k} \subseteq 0..Len(sent) /\ {None} \cup DOMAIN records \subseteq 0..Len(records)
        /\ {None} \subseteq 0..Len(tokens) /\ {FALSE} \subseteq BOOLEAN
    BY TypeFacts DEF Base
  <2>4. v \in RequestRows
    BY ONLY <2>1, <2>3 DEF FreshRows, RequestRows, RowsOf
  <2>5. HandledBy(v)
    BY <2>1, <2>2 DEF HandledBy, ActiveSteps
  <2> QED
    BY <2>4, <2>5
<1> QED
  BY <1>1, <1>2

LEMMA RedeliverBase ==
  ASSUME Base, NEW r \in Requests, NEW k \in DOMAIN sent, Redeliver(r, k)
  PROVE  Base' /\ Grows
<1>1. sent[k] \in MessageRows /\ Known(sent[k])
  BY MessageFacts DEF Base, AnswersLinked
<1>2. PICK v : req' = [req EXCEPT ![r] = v] /\ Begins(v, k, sent[k])
  BY <1>1, BeginFacts DEF Base, Redeliver
<1> QED
  BY <1>2, BegunHandled, RequestOnly DEF Redeliver

\* What is known of the message of a request.
LEMMA Subjects ==
  ASSUME Base, NEW r \in Requests, req[r].pc # "idle"
  PROVE  /\ req[r].message \in DOMAIN sent /\ HandledBy(req[r])
         /\ Message(r) = sent[req[r].message] /\ Subject(r) = Message(r).token
         /\ Message(r).grant \in Grants /\ Message(r).at \in Nat
         /\ Message(r).grant = "code" => Subject(r) \in DOMAIN granted /\ Subject(r) \in Codes
         /\ Message(r).grant # "code" =>
              /\ Subject(r) \in DOMAIN tokens /\ tokens[Subject(r)].session \in DOMAIN records
         /\ Message(r).grant \in {"refresh", "revoke refresh"} =>
              <<"refresh", Subject(r)>> \in answered
<1>1. req[r].message \in DOMAIN sent
  BY DEF Base, HandledBy
<1> QED
  BY <1>1, MessageFacts DEF Base, Message, Subject, TokensLinked

LEMMA EndBase ==
  ASSUME Base, NEW r \in Requests, End(r), UNCHANGED <<database, proofs, now, history>>
  PROVE  Base' /\ Grows
<1>1. NoRequest \in RequestRows /\ HandledBy(NoRequest)
  BY NoRequestFacts DEF Base, HandledBy
<1> QED
  BY <1>1, RequestOnly DEF End

LEMMA FindUsedBase ==
  ASSUME Base, NEW r \in Requests, FindUsed(r)
  PROVE  Base' /\ Grows
<1> DEFINE i == Subject(r)
           old == req[r]
           s == tokens[i].session
<1>1. /\ old \in RequestRows /\ old.pc = "used" /\ HandledBy(old)
      /\ "session" \in Steps /\ "dpop" \in Steps
  BY RequestTypes, Subjects DEF FindUsed, Base, Steps
<1>2. /\ Message(r).grant \in {"refresh", "revoke refresh"}
      /\ Message(r) = sent[old.message] /\ i = sent[old.message].token
      /\ s \in DOMAIN records /\ old.message \in DOMAIN sent /\ old.session = None
  BY <1>1, Subjects DEF HandledBy
<1>3. PICK w : w = [old EXCEPT !.live = i \in refresh \cup DOMAIN used]
  OBVIOUS
<1>4. w \in RequestRows /\ SameButLive(w, old)
  <2>1. PICK b : b = (i \in refresh \cup DOMAIN used)
    OBVIOUS
  <2>2. b \in BOOLEAN /\ w = [old EXCEPT !.live = b]
    BY <1>3, <2>1
  <2> HIDE DEF old
  <2> QED
    BY ONLY <1>1, <2>2, LiveRow DEF RequestRows
<1>5. CASE FoundUsed(i)
  <2>1. PICK u, v : /\ u = [w EXCEPT !.pc = "session", !.session = s]
                    /\ v = [w EXCEPT !.pc = "session", !.session = s, !.replay = TRUE]
    OBVIOUS
  <2>2. req' = [req EXCEPT ![r] = v]
    BY <1>3, <1>5, <2>1 DEF FindUsed, Looked
  <2>3. i \in DOMAIN used /\ s \in 0..Len(records)
    <3>1. DOMAIN records \subseteq 0..Len(records)
      BY TypeFacts DEF Base
    <3>2. i \in DOMAIN used
      BY <1>5 DEF FoundUsed
    <3> QED
      BY ONLY <1>2, <3>1, <3>2
  <2>4. v = [u EXCEPT !.replay = TRUE]
    BY <2>1
  <2>5. s = tokens[i].session
    OBVIOUS
  <2> HIDE DEF s, i, old
  <2>6. u \in RequestRows /\ SameRow(u, w, "session", s, w.replay, w.id)
    BY ONLY <1>1, <1>4, <2>1, <2>3, SessionRow DEF RequestRows
  <2>7. v \in RequestRows /\ SameRow(v, u, u.pc, u.session, TRUE, u.id)
    BY ONLY <2>4, <2>6, ReplayRow DEF RequestRows
  <2>8. HandledBy(v)
    BY ONLY <1>1, <1>2, <1>4, <2>3, <2>5, <2>6, <2>7
       DEF HandledBy, ActiveSteps, SameRow, SameButLive
  <2> QED
    BY <2>2, <2>7, <2>8, RequestOnly DEF FindUsed
<1>6. CASE ~ FoundUsed(i)
  <2>1. PICK v : v = [w EXCEPT !.pc = "dpop"]
    OBVIOUS
  <2>2. req' = [req EXCEPT ![r] = v]
    BY <1>3, <1>6, <2>1 DEF FindUsed, Looked
  <2> HIDE DEF s, i, old
  <2>3. v \in RequestRows /\ SameRow(v, w, "dpop", w.session, w.replay, w.id)
    BY ONLY <1>1, <1>4, <2>1, StepRow DEF RequestRows
  <2>4. HandledBy(v)
    BY ONLY <1>1, <1>2, <1>4, <2>3 DEF HandledBy, ActiveSteps, SameRow, SameButLive, None
  <2> QED
    BY <2>2, <2>3, <2>4, RequestOnly DEF FindUsed
<1> QED
  BY <1>5, <1>6

LEMMA FindSessionBase ==
  ASSUME Base, NEW r \in Requests, FindSession(r)
  PROVE  Base' /\ Grows
<1> DEFINE old == req[r]
           s == IF FoundSession(old.session) THEN old.session ELSE None
           v == [old EXCEPT !.pc = "dpop", !.session = s]
<1>1. /\ old \in RequestRows /\ old.pc = "session" /\ HandledBy(old) /\ "dpop" \in Steps
      /\ old.session \in 0..Len(records) /\ old.message \in DOMAIN sent
  BY RequestTypes, Subjects DEF FindSession, Base, Steps
<1>2. req' = [req EXCEPT ![r] = v]
  BY DEF FindSession, Base, TypeOK
<1>3. s \in 0..Len(records) /\ (s = None \/ s = old.session)
  BY <1>1, TypeFacts DEF Base
<1>4. v = [old EXCEPT !.pc = "dpop", !.session = s]
  OBVIOUS
<1> HIDE DEF s, old, v
<1>5. v \in RequestRows /\ SameRow(v, old, "dpop", s, old.replay, old.id)
  BY ONLY <1>1, <1>3, <1>4, SessionRow DEF RequestRows
<1>6. old.message \in DOMAIN sent => sent[old.message].grant # "code"
  BY <1>1 DEF HandledBy
<1>7. HandledBy(v)
  BY ONLY <1>1, <1>3, <1>5, <1>6 DEF HandledBy, ActiveSteps, SameRow, None
<1> QED
  BY <1>2, <1>5, <1>7, RequestOnly DEF FindSession

\* A request that goes on, when only its step changes.
LEMMA GoBase ==
  ASSUME Base, NEW r \in Requests, NEW pc \in Steps, Go(r, pc), req[r].pc # "idle",
         UNCHANGED <<database, proofs, now, history>>,
         \/ req[r].pc = "found" /\ pc = "record"
         \/ req[r].pc \in {"access", "refresh"} /\ pc = "drop failed"
         \/ req[r].pc = "proof" /\ pc = "claim"
  PROVE  Base' /\ Grows
<1>1. PICK v \in RequestRows :
        /\ req' = [req EXCEPT ![r] = v]
        /\ SameRow(v, req[r], pc, req[r].session, req[r].replay, req[r].id)
  <2>1. TypeOK
    BY DEF Base
  <2> QED
    BY <2>1, GoFacts
<1> DEFINE old == req[r]
<1>2. /\ HandledBy(old) /\ SameRow(v, old, pc, old.session, old.replay, old.id)
      /\ old.pc # "idle"
      /\ \/ old.pc = "found" /\ pc = "record"
         \/ old.pc \in {"access", "refresh"} /\ pc = "drop failed"
         \/ old.pc = "proof" /\ pc = "claim"
  BY <1>1 DEF Base
<1> HIDE DEF old
<1>3. HandledBy(v)
  BY ONLY <1>2 DEF HandledBy, ActiveSteps, SameRow
<1> QED
  BY <1>1, <1>3, RequestOnly

LEMMA FindSessionAgainBase ==
  ASSUME Base, NEW r \in Requests, FindSessionAgain(r)
  PROVE  Base' /\ Grows
BY GoBase, EndBase DEF FindSessionAgain, Steps

LEMMA IssueFailsBase ==
  ASSUME Base, NEW r \in Requests, IssueFails(r)
  PROVE  Base' /\ Grows
BY GoBase DEF IssueFails, Steps

LEMMA CheckProofBase ==
  ASSUME Base, NEW r \in Requests, CheckProof(r)
  PROVE  Base' /\ Grows
BY GoBase, EndBase DEF CheckProof, Steps

-----------------------------------------------------------------------------
(* Steps that write no record and no token *)

Unadded ==
  /\ codes' \subseteq codes /\ refresh' \subseteq refresh /\ sessions' \subseteq sessions
  /\ spent \subseteq spent' /\ spent' \subseteq DOMAIN sent
  /\ revoked \subseteq revoked' /\ revoked' \subseteq Revocations(DOMAIN records)
  /\ UNCHANGED <<granted, records, tokens, used, sent, now, answered>>

Noted ==
  /\ dropped' \subseteq [session : Ids, why : {"replay", "failed", "revoke"}]
  /\ DOMAIN claimed' \subseteq DOMAIN sent /\ claimed' \in [DOMAIN claimed' -> Nat]
  /\ served' \in [Messages -> Nat]

LEMMA LessBase ==
  ASSUME Base, Unadded, Noted, req' \in [Requests -> RequestRows],
         \A q \in Requests : HandledBy(req[q])'
  PROVE  Base' /\ Grows
<1>1. TypeOK'
  <2>1. /\ codes' \subseteq DOMAIN granted /\ refresh' \subseteq 1..Len(tokens)
        /\ sessions' \subseteq 1..Len(records) /\ spent' \subseteq 1..Len(sent)
        /\ revoked' \subseteq Revocations(Ids) /\ DOMAIN claimed' \subseteq 1..Len(sent)
    <3>1. /\ codes \subseteq DOMAIN granted /\ refresh \subseteq 1..Len(tokens)
          /\ sessions \subseteq 1..Len(records)
      BY DEF Base, TypeOK
    <3>2. /\ DOMAIN sent = 1..Len(sent) /\ DOMAIN records \subseteq Ids
          /\ \A S : S \subseteq Ids => Revocations(S) \subseteq Revocations(Ids)
      <4>1. /\ DOMAIN records = 1..Len(records) /\ DOMAIN sent = 1..Len(sent)
            /\ Len(records) \in Nat /\ Len(records) <= MaxTokens
        BY TypeFacts DEF Base, Bounds
      <4>2. \A S : S \subseteq Ids => Revocations(S) \subseteq Revocations(Ids)
        BY DEF Revocations
      <4> QED
        BY <4>1, <4>2
    <3> QED
      BY ONLY <3>1, <3>2, Unadded, Noted DEF Unadded, Noted
  <2>2. UNCHANGED <<granted, records, tokens, used, sent, now, answered>>
    BY DEF Unadded
  <2> QED
    BY <2>1, <2>2 DEF Base, TypeOK, Noted, RequestRows, RowsOf, Revocations
<1>2. Bounds' /\ TokensLinked'
  BY DEF Base, Bounds, TokensLinked, Unadded
<1>3. AnswersLinked'
  <2>1. UNCHANGED <<granted, records, tokens, used, sent, now, answered>>
    BY DEF Unadded
  <2>2. \A k \in DOMAIN sent : Known(sent[k])'
    BY <2>1 DEF Base, AnswersLinked, Known
  <2> QED
    BY <2>1, <2>2 DEF Base, AnswersLinked, Unadded
<1>4. Grows
  BY TypeFacts DEF Base, Grows, Unadded
<1> QED
  BY <1>1, <1>2, <1>3, <1>4 DEF Base

LEMMA HandledLess ==
  ASSUME Unadded, NEW v, HandledBy(v)
  PROVE  HandledBy(v)'
BY DEF Unadded, HandledBy

LEMMA RowBase ==
  ASSUME Base, Unadded, Noted, NEW r \in Requests, NEW v \in RequestRows, HandledBy(v)',
         req' = [req EXCEPT ![r] = v]
  PROVE  Base' /\ Grows
<1>1. req' \in [Requests -> RequestRows]
  <2>1. req \in [Requests -> RequestRows]
    BY TypeFacts DEF Base
  <2> HIDE DEF RequestRows
  <2> QED
    BY <2>1
<1>2. ASSUME NEW q \in Requests
      PROVE  HandledBy(req[q])'
  <2>1. CASE q = r
    <3>1. req'[q] = v
      BY <2>1, RequestFacts DEF Base
    <3> QED
      BY <3>1 DEF HandledBy
  <2>2. CASE q # r
    <3>1. req'[q] = req[q]
      BY <2>2, RequestFacts DEF Base
    <3> DEFINE w == req[q]
    <3>2. HandledBy(w)
      BY DEF Base
    <3>3. HandledBy(w)'
      BY <3>1, <3>2 DEF HandledBy, Unadded
    <3> QED
      BY <3>3
  <2> QED
    BY <2>1, <2>2
<1> QED
  BY <1>1, <1>2, LessBase

LEMMA EndLess ==
  ASSUME Base, Unadded, Noted, NEW r \in Requests, End(r)
  PROVE  Base' /\ Grows
<1>1. NoRequest \in RequestRows /\ HandledBy(NoRequest)'
  BY NoRequestFacts DEF Base, HandledBy
<1> QED
  BY <1>1, RowBase DEF End

LEMMA NotedKept ==
  ASSUME Base, UNCHANGED <<dropped, claimed, served>>
  PROVE  Noted
BY TypeFacts DEF Base, TypeOK, Noted

LEMMA UnaddedKept ==
  ASSUME Base
  PROVE  codes \subseteq codes /\ spent \subseteq DOMAIN sent
         /\ revoked \subseteq Revocations(DOMAIN records)
BY TypeFacts DEF Base, TypeOK, AnswersLinked

\* A request that goes on in a step that writes no record and no token.
LEMMA GoLess ==
  ASSUME Base, Unadded, Noted, NEW r \in Requests, NEW pc \in Steps, Go(r, pc),
         \A v : SameRow(v, req[r], pc, req[r].session, req[r].replay, req[r].id) => HandledBy(v)'
  PROVE  Base' /\ Grows
<1>1. PICK v \in RequestRows :
        /\ req' = [req EXCEPT ![r] = v]
        /\ SameRow(v, req[r], pc, req[r].session, req[r].replay, req[r].id)
  <2>1. TypeOK
    BY DEF Base
  <2> QED
    BY <2>1, GoFacts
<1>2. HandledBy(v)'
  BY <1>1
<1> HIDE DEF RequestRows
<1> QED
  BY <1>1, <1>2, RowBase

LEMMA ConsumeCodeBase ==
  ASSUME Base, NEW r \in Requests, ConsumeCode(r)
  PROVE  Base' /\ Grows
<1>1. Unadded /\ Noted
  BY UnaddedKept, NotedKept DEF ConsumeCode, Unadded, proofs, history
<1>2. CASE Go(r, "start")
  <2> DEFINE old == req[r]
  <2>1. HandledBy(old) /\ old.pc = "consume" /\ sent[old.message].grant = "code"
    BY DEF Base, ConsumeCode, Message
  <2>2. "start" \in Steps
    BY DEF Steps
  <2> HIDE DEF old
  <2>3. \A v : SameRow(v, old, "start", old.session, old.replay, old.id) => HandledBy(v)
    BY ONLY <2>1 DEF HandledBy, ActiveSteps, SameRow
  <2>4. \A v : SameRow(v, old, "start", old.session, old.replay, old.id) => HandledBy(v)'
    BY <1>1, <2>3, HandledLess
  <2> QED
    BY <1>1, <1>2, <2>2, <2>4, GoLess DEF old
<1>3. CASE End(r)
  BY <1>1, <1>3, EndLess
<1> QED
  BY <1>2, <1>3 DEF ConsumeCode

LEMMA ConsumeRefreshBase ==
  ASSUME Base, NEW r \in Requests, ConsumeRefresh(r)
  PROVE  Base' /\ Grows
<1>1. Unadded /\ Noted
  BY UnaddedKept, NotedKept DEF ConsumeRefresh, Unadded, proofs, history
<1>2. ASSUME NEW pc \in {"found", "drop replay"}, Go(r, pc)
      PROVE  Base' /\ Grows
  <2> DEFINE old == req[r]
  <2>1. HandledBy(old) /\ old.pc = "consume" /\ sent[old.message].grant = "refresh"
    BY DEF Base, ConsumeRefresh, Message
  <2>2. pc \in Steps
    BY DEF Steps
  <2> HIDE DEF old
  <2>3. \A v : SameRow(v, old, pc, old.session, old.replay, old.id) => HandledBy(v)
    BY ONLY <2>1, pc \in {"found", "drop replay"} DEF HandledBy, ActiveSteps, SameRow
  <2>4. \A v : SameRow(v, old, pc, old.session, old.replay, old.id) => HandledBy(v)'
    BY <1>1, <2>3, HandledLess
  <2> QED
    BY <1>1, <1>2, <2>2, <2>4, GoLess DEF old
<1> QED
  BY <1>2 DEF ConsumeRefresh

LEMMA DropBase ==
  ASSUME Base, NEW r \in Requests, NEW why \in {"replay", "failed", "revoke"}, Drop(r, why),
         revoked \subseteq revoked', revoked' \subseteq Revocations(DOMAIN records)
  PROVE  Base' /\ Grows
<1>1. Unadded
  BY UnaddedKept DEF Drop, Unadded, pds
<1>2. Noted
  <2>1. FoundSession(req[r].session) => req[r].session \in Ids
    BY TypeFacts DEF FoundSession, Base, Bounds, TypeOK
  <2>2. dropped' \subseteq [session : Ids, why : {"replay", "failed", "revoke"}]
    BY <2>1 DEF Drop, Base, TypeOK
  <2> QED
    BY <2>2, TypeFacts DEF Drop, Noted, Base, TypeOK, pds
<1> QED
  BY <1>1, <1>2, EndLess DEF Drop

LEMMA PunishBase ==
  ASSUME Base, NEW r \in Requests, Punish(r)
  PROVE  Base' /\ Grows
BY UnaddedKept, DropBase DEF Punish

LEMMA ToldBounds ==
  ASSUME Base, NEW r \in Requests, req[r].pc \in {"dpop", "drop revoke"}, Revokes(r)
  PROVE  /\ Told(r) \subseteq Revocations(DOMAIN records)
         /\ \A v \in Told(r) : v.session = tokens[Subject(r)].session /\ v.live = req[r].live
<1>1. tokens[Subject(r)].session \in DOMAIN records /\ req[r].live \in BOOLEAN
  BY Subjects, RequestTypes DEF Revokes, Base
<1>2. PICK x : x = [session |-> tokens[Subject(r)].session, live |-> req[r].live]
  OBVIOUS
<1>3. x \in Revocations(DOMAIN records)
  BY <1>1, <1>2 DEF Revocations
<1>4. Told(r) \subseteq {x}
  BY <1>2 DEF Told
<1>5. x.session = tokens[Subject(r)].session /\ x.live = req[r].live
  BY <1>2
<1> QED
  BY <1>3, <1>4, <1>5

LEMMA RevokeBase ==
  ASSUME Base, NEW r \in Requests, Revoke(r)
  PROVE  Base' /\ Grows
<1>1. Revokes(r)
  <2>1. HandledBy(req[r]) /\ req[r].pc = "drop revoke"
    BY DEF Base, Revoke
  <2> QED
    BY <2>1 DEF HandledBy, Revokes, Message
<1> QED
  BY <1>1, ToldBounds, UnaddedKept, DropBase DEF Revoke

LEMMA VerifyBase ==
  ASSUME Base, NEW r \in Requests, Verify(r)
  PROVE  Base' /\ Grows
<1> DEFINE old == req[r]
           m == sent[old.message]
<1>1. /\ HandledBy(old) /\ old.pc = "dpop" /\ old.message \in DOMAIN sent
      /\ m.grant \in Grants /\ Message(r) = m
  BY Subjects DEF Verify
<1>2. Noted
  BY NotedKept DEF Verify, pds
<1>3. /\ spent' = spent \cup {old.message} \/ spent' = spent
      /\ revoked' = revoked \/ (Revokes(r) /\ revoked' = revoked \cup Told(r))
  BY DEF Verify
<1>4. Unadded
  BY <1>1, <1>3, UnaddedKept, ToldBounds DEF Verify, Unadded, database
<1>5. CASE End(r)
  BY <1>2, <1>4, <1>5, EndLess
<1>6. CASE ~ End(r)
  <2> DEFINE pc == IF Revokes(r) THEN "drop revoke"
                   ELSE IF old.replay THEN "drop replay" ELSE "consume"
  <2>1. /\ spent' = spent \cup {old.message} /\ HolderMatches(r)
        /\ m.grant = "code" \/ old.session # None
        /\ Go(r, pc)
    BY <1>1, <1>6 DEF Verify
  <2>2. pc \in Steps
    BY DEF Steps
  <2>3. m.grant # "code" => records[old.session].holder = m.holder
    BY <1>1, <2>1 DEF HolderMatches
  <2>4. Revokes(r) <=> m.grant \in {"revoke access", "revoke refresh"}
    BY <1>1 DEF Revokes
  <2>5. old.replay \in BOOLEAN
    BY RequestTypes DEF Base
  <2>6. UNCHANGED <<records, tokens, used, sent>>
    BY <1>4 DEF Unadded
  <2>7. \/ pc = "drop revoke" /\ m.grant \in {"revoke access", "revoke refresh"}
        \/ pc = "drop replay" /\ m.grant = "refresh"
        \/ pc = "consume" /\ m.grant \in {"code", "refresh"}
    BY <1>1, <2>4, <2>5 DEF HandledBy, Grants
  <2>8. m.grant # "code" => old.session = tokens[m.token].session
    BY <1>1, <2>1 DEF HandledBy
  <2> HIDE DEF pc
  <2>9. \A v : SameRow(v, old, pc, old.session, old.replay, old.id) => HandledBy(v)'
    <3> SUFFICES ASSUME NEW v, SameRow(v, old, pc, old.session, old.replay, old.id)
                 PROVE  HandledBy(v)'
      OBVIOUS
    <3>1. m = sent[old.message]
      OBVIOUS
    <3>2. /\ v.pc = pc /\ v.message = old.message /\ v.session = old.session
          /\ v.replay = old.replay
      BY DEF SameRow
    <3>3. v.replay => m.grant \in {"refresh", "revoke refresh"} /\ m.token \in DOMAIN used
      BY <1>1, <3>2 DEF HandledBy
    <3> HIDE DEF old, m
    <3> QED
      BY ONLY <1>1, <2>1, <2>3, <2>6, <2>7, <2>8, <3>1, <3>2, <3>3 DEF HandledBy, ActiveSteps
  <2> HIDE DEF old
  <2> QED
    BY <1>2, <1>4, <2>1, <2>2, <2>9, GoLess DEF old
<1> QED
  BY <1>5, <1>6

LEMMA RequestLostBase ==
  ASSUME Base, NEW r \in Requests, RequestLost(r)
  PROVE  Base' /\ Grows
BY EndBase DEF RequestLost

LEMMA PutFacts ==
  ASSUME NEW S, NEW f, f \in [DOMAIN f -> S], NEW k, NEW v \in S
  PROVE  /\ Put(f, k, v) \in [DOMAIN f \cup {k} -> S]
         /\ DOMAIN Put(f, k, v) = DOMAIN f \cup {k}
         /\ \A x \in DOMAIN f : x # k => Put(f, k, v)[x] = f[x]
         /\ Put(f, k, v)[k] = v
BY DEF Put

LEMMA ClaimProofBase ==
  ASSUME Base, NEW r \in Requests, ClaimProof(r)
  PROVE  Base' /\ Grows
<1> DEFINE k == req[r].message
<1>1. k \in DOMAIN sent /\ k \in Messages
  <2>1. k \in DOMAIN sent
    BY Subjects DEF ClaimProof
  <2> QED
    BY <2>1, TypeFacts DEF Base, Bounds
<1>2. Unadded
  BY UnaddedKept DEF ClaimProof, Unadded, database
<1>3. Noted
  <2>1. CASE k \in DOMAIN claimed
    BY <2>1, NotedKept DEF ClaimProof
  <2>2. CASE k \notin DOMAIN claimed
    <3>1. ClaimedUntil \in Nat
      BY TypeFacts DEF Base, ClaimedUntil
    <3>2. /\ claimed' = Put(claimed, k, ClaimedUntil) /\ served' = [served EXCEPT ![k] = @ + 1]
          /\ dropped' = dropped
      BY <2>2 DEF ClaimProof
    <3>3. claimed \in [DOMAIN claimed -> Nat] /\ DOMAIN claimed \subseteq DOMAIN sent
      BY TypeFacts DEF Base, TypeOK
    <3>4. DOMAIN claimed' \subseteq DOMAIN sent /\ claimed' \in [DOMAIN claimed' -> Nat]
      <4> DEFINE j == k
      <4>1. j \in DOMAIN sent /\ claimed' = Put(claimed, j, ClaimedUntil)
        BY <1>1, <3>2
      <4> HIDE DEF j
      <4>2. /\ Put(claimed, j, ClaimedUntil) \in [DOMAIN claimed \cup {j} -> Nat]
            /\ DOMAIN Put(claimed, j, ClaimedUntil) = DOMAIN claimed \cup {j}
        BY ONLY <3>1, <3>3 DEF Put
      <4> QED
        BY ONLY <3>3, <4>1, <4>2
    <3>5. served' \in [Messages -> Nat]
      <4>1. served \in [Messages -> Nat]
        BY DEF Base, TypeOK
      <4> DEFINE j == k
      <4>2. j \in Messages /\ served' = [served EXCEPT ![j] = @ + 1]
        BY <1>1, <3>2
      <4> HIDE DEF j
      <4> QED
        BY ONLY <4>1, <4>2
    <3> QED
      BY <3>2, <3>4, <3>5 DEF Noted, Base, TypeOK
  <2> QED
    BY <2>1, <2>2
<1> QED
  BY <1>2, <1>3, EndLess DEF ClaimProof

LEMMA CreateNonceBase ==
  ASSUME Base, CreateNonce
  PROVE  Base' /\ Grows
<1>1. Unadded /\ req' = req
  BY UnaddedKept DEF CreateNonce, Unadded, database, history
<1>2. Noted
  BY TypeFacts DEF CreateNonce, Noted, Base, TypeOK, history
<1>3. \A q \in Requests : HandledBy(req[q])'
  <2> SUFFICES ASSUME NEW q \in Requests
               PROVE  HandledBy(req[q])'
    OBVIOUS
  <2> DEFINE v == req[q]
  <2>1. HandledBy(v)
    BY DEF Base
  <2>2. HandledBy(v)'
    BY <1>1, <2>1 DEF HandledBy, Unadded
  <2> QED
    BY <2>2
<1>4. req' \in [Requests -> RequestRows]
  BY <1>1, TypeFacts DEF Base
<1> QED
  BY <1>1, <1>2, <1>3, <1>4, LessBase

-----------------------------------------------------------------------------
(* Steps that write a record, a token or a message *)

LEMMA KnownGrows ==
  ASSUME Grows
  PROVE  /\ \A m : Known(m) => Known(m)'
         /\ \A k, m : sent'[k] = m /\ Known(m) => Known(sent[k])'
BY DEF Grows, Known

\* All of TypeOK but the requests.
DataOK ==
  /\ DOMAIN granted \subseteq Codes /\ codes \subseteq DOMAIN granted
  /\ granted \in [DOMAIN granted -> GrantRows]
  /\ records \in Seq(SessionRows) /\ sessions \subseteq 1..Len(records)
  /\ tokens \in Seq(TokenRows) /\ refresh \subseteq 1..Len(tokens)
  /\ DOMAIN used \subseteq 1..Len(tokens) /\ used \in [DOMAIN used -> Nat]
  /\ sent \in Seq(MessageRows) /\ spent \subseteq 1..Len(sent)
  /\ DOMAIN claimed \subseteq 1..Len(sent) /\ claimed \in [DOMAIN claimed -> Nat]
  /\ served \in [Messages -> Nat]
  /\ now \in 0..MaxTime
  /\ answered \subseteq {"access", "refresh"} \X Ids
  /\ dropped \subseteq [session : Ids, why : {"replay", "failed", "revoke"}]
  /\ revoked \subseteq Revocations(Ids)

LEMMA DataFacts ==
  /\ TypeOK => DataOK
  /\ DataOK' /\ req' \in [Requests -> RequestRows'] => TypeOK'
<1>1. TypeOK => DataOK
  BY DEF TypeOK, DataOK, GrantRows, SessionRows, TokenRows, MessageRows, Revocations
<1>2. DataOK' /\ req' \in [Requests -> RequestRows'] => TypeOK'
  BY DEF TypeOK, DataOK, GrantRows, SessionRows, TokenRows, MessageRows, RequestRows, RowsOf,
     Revocations
<1> QED
  BY <1>1, <1>2

LEMMA TokensStayLinked ==
  ASSUME Base, Grows, DOMAIN tokens' = DOMAIN tokens
  PROVE  TokensLinked'
<1> SUFFICES ASSUME NEW i \in DOMAIN tokens
             PROVE  /\ tokens'[i].session \in DOMAIN records'
                    /\ tokens'[i].from \in Codes => tokens'[i].from \in DOMAIN granted'
                    /\ tokens'[i].from \in Ids =>
                         /\ <<"refresh", tokens'[i].from>> \in answered'
                         /\ tokens'[tokens'[i].from].session = tokens'[i].session
  BY DEF TokensLinked
<1>1. tokens'[i] = tokens[i]
  BY DEF Grows
<1>2. /\ tokens[i].session \in DOMAIN records
      /\ tokens[i].from \in Codes => tokens[i].from \in DOMAIN granted
      /\ tokens[i].from \in Ids =>
           /\ <<"refresh", tokens[i].from>> \in answered
           /\ tokens[tokens[i].from].session = tokens[i].session
  BY DEF Base, TokensLinked
<1>3. tokens[i].from \in Ids => tokens[i].from \in DOMAIN tokens
  <2>1. \A t : <<"refresh", t>> \in answered => t \in DOMAIN tokens
    BY DEF Base, AnswersLinked
  <2> QED
    BY <1>2, <2>1
<1> QED
  BY <1>1, <1>2, <1>3 DEF Grows

LEMMA AnswersStayLinked ==
  ASSUME Base, Grows,
         \A a \in answered' : a \in answered \/ a[2] \in DOMAIN tokens',
         \A k \in DOMAIN sent' : k \in DOMAIN sent \/ (Known(sent[k])' /\ sent'[k].at <= now'),
         \A i \in refresh' \cup DOMAIN used' :
           i \in refresh \cup DOMAIN used \/ <<"refresh", i>> \in answered',
         revoked' = revoked
  PROVE  AnswersLinked'
<1>1. \A a \in answered' : a[2] \in DOMAIN tokens'
  BY DEF Base, AnswersLinked, Grows
<1>2. ASSUME NEW k \in DOMAIN sent'
      PROVE  Known(sent[k])' /\ sent'[k].at <= now'
  <2>1. CASE k \in DOMAIN sent
    <3>1. sent'[k] = sent[k] /\ Known(sent[k])
      BY <2>1 DEF Base, AnswersLinked, Grows
    <3>2. sent[k].at <= now /\ sent[k].at \in Nat /\ now \in Nat /\ now' \in Nat /\ now <= now'
      BY <2>1, MessageFacts, TypeFacts DEF Base, AnswersLinked, Grows
    <3>3. sent[k].at <= now'
      BY ONLY <3>2
    <3> QED
      BY <3>1, <3>3, KnownGrows
  <2> QED
    BY <2>1
<1>3. \A i \in refresh' \cup DOMAIN used' : <<"refresh", i>> \in answered'
  BY DEF Base, AnswersLinked, Grows
<1>4. revoked' \subseteq Revocations(DOMAIN records)'
  BY DEF Base, AnswersLinked, Grows, Revocations
<1> QED
  BY <1>1, <1>2, <1>3, <1>4 DEF AnswersLinked

LEMMA MoreBase ==
  ASSUME Base, Grows, DataOK', Bounds', TokensLinked', AnswersLinked',
         req' \in [Requests -> RequestRows'],
         \A q \in Requests : req'[q] = req[q] \/ HandledBy(req[q])'
  PROVE  Base'
<1>1. ASSUME NEW q \in Requests
      PROVE  HandledBy(req[q])'
  <2>1. CASE req'[q] = req[q]
    <3>1. PICK v : v = req[q]
      OBVIOUS
    <3>2. HandledBy(v)
      BY <3>1 DEF Base
    <3>3. HandledBy(v)'
      BY <3>2, HandledGrows
    <3>4. req'[q] = v
      BY <2>1, <3>1
    <3> QED
      BY <3>3, <3>4 DEF HandledBy
  <2> QED
    BY <2>1
<1> QED
  BY <1>1, DataFacts DEF Base

LEMMA MoreRow ==
  ASSUME Base, Grows, LongerRows, DataOK', Bounds', TokensLinked', AnswersLinked',
         NEW r \in Requests, NEW v \in RequestRows', HandledBy(v)', req' = [req EXCEPT ![r] = v]
  PROVE  Base'
<1>1. req' \in [Requests -> RequestRows']
  BY RequestRowsNext DEF Base
<1>2. ASSUME NEW q \in Requests
      PROVE  req'[q] = req[q] \/ HandledBy(req[q])'
  <2>1. CASE q = r
    <3>1. req'[q] = v
      BY <2>1, RequestFacts DEF Base
    <3> QED
      BY <3>1 DEF HandledBy
  <2>2. CASE q # r
    BY <2>2, RequestFacts DEF Base
  <2> QED
    BY <2>1, <2>2
<1> HIDE DEF RequestRows
<1> QED
  BY <1>1, <1>2, MoreBase

LEMMA AuthorizeBase ==
  ASSUME Base, NEW c \in Codes, NEW h \in Holders, NEW renew \in BOOLEAN, Authorize(c, h, renew)
  PROVE  Base' /\ Grows
<1> DEFINE row == [holder |-> h, renew |-> renew, expires |-> now + CodeLife]
<1>1. /\ c \notin DOMAIN granted /\ granted' = Put(granted, c, row) /\ codes' = codes \cup {c}
      /\ UNCHANGED <<sessions, records, tokens, refresh, used, proofs, req, now, history>>
  BY DEF Authorize
<1>2. row \in GrantRows
  BY TypeFacts DEF Base, GrantRows
<1>3. granted \in [DOMAIN granted -> GrantRows] /\ DataOK /\ now \in Nat
  BY TypeFacts, DataFacts DEF Base
<1> HIDE DEF row
<1>4. /\ DOMAIN granted' = DOMAIN granted \cup {c}
      /\ granted' \in [DOMAIN granted' -> GrantRows]
      /\ \A x \in DOMAIN granted : granted'[x] = granted[x]
  BY ONLY <1>1, <1>2, <1>3 DEF Put
<1>5. Grows
  BY <1>1, <1>3, <1>4 DEF Grows, proofs, history
<1>6. DataOK'
  BY <1>1, <1>3, <1>4 DEF DataOK, proofs, history
<1>7. Bounds' /\ TokensLinked'
  BY <1>1, <1>5, TokensStayLinked DEF Base, Bounds, proofs
<1>8. AnswersLinked'
  BY <1>1, <1>5, AnswersStayLinked DEF proofs, history
<1>9. req' \in [Requests -> RequestRows']
  BY <1>1, TypeFacts DEF Base, RequestRows, proofs
<1> QED
  BY <1>1, <1>5, <1>6, <1>7, <1>8, <1>9, MoreBase

LEMMA TickBase ==
  ASSUME Base, Tick
  PROVE  Base' /\ Grows
<1>1. now < MaxTime /\ now' = now + 1 /\ UNCHANGED <<database, proofs, req, history>>
  BY DEF Tick
<1>2. DataOK /\ now \in Nat
  BY TypeFacts, DataFacts DEF Base
<1>3. Grows
  BY <1>1, <1>2 DEF Grows, database, proofs, history
<1>4. now' \in 0..MaxTime
  BY <1>1, <1>2
<1>5. DataOK'
  BY <1>1, <1>2, <1>4 DEF DataOK, database, proofs, history
<1>6. Bounds' /\ TokensLinked'
  BY <1>1, <1>3, TokensStayLinked DEF Base, Bounds, database, proofs
<1>7. AnswersLinked'
  BY <1>1, <1>3, AnswersStayLinked DEF database, proofs, history
<1>8. req' \in [Requests -> RequestRows']
  BY <1>1, TypeFacts DEF Base, RequestRows, database, proofs
<1> QED
  BY <1>1, <1>3, <1>5, <1>6, <1>7, <1>8, MoreBase

LEMMA StartSessionBase ==
  ASSUME Base, NEW r \in Requests, StartSession(r)
  PROVE  Base' /\ Grows
<1> DEFINE s == Len(records) + 1
           row == [holder |-> granted[Subject(r)].holder, expires |-> now + SessionLife]
           old == req[r]
<1>1. /\ s \in Ids /\ records' = Append(records, row) /\ sessions' = sessions \cup {s}
      /\ UNCHANGED <<granted, codes, tokens, refresh, used, proofs, now, history>>
  BY DEF StartSession
<1>2. PICK v : req' = [req EXCEPT ![r] = v] /\ v = [old EXCEPT !.pc = "access", !.session = s]
  BY DEF StartSession, Base, TypeOK
<1>3. /\ old.pc = "start" /\ HandledBy(old) /\ old.message \in DOMAIN sent
      /\ sent[old.message].grant = "code" /\ Subject(r) \in DOMAIN granted
      /\ old.message \in spent
  <2>1. old.pc = "start"
    BY DEF StartSession
  <2> QED
    BY <2>1, Subjects DEF HandledBy, ActiveSteps
<1>4. /\ DataOK /\ now \in Nat /\ records \in Seq(SessionRows) /\ Len(records) \in Nat
      /\ DOMAIN records = 1..Len(records)
      /\ Len(sent) \in Nat /\ Len(tokens) \in Nat
      /\ granted \in [DOMAIN granted -> GrantRows]
  BY TypeFacts, DataFacts DEF Base
<1>5. row \in SessionRows
  BY <1>3, <1>4 DEF GrantRows, SessionRows
<1>6. v = [old EXCEPT !.pc = "access", !.session = s]
  BY <1>2
<1>7. old \in RowsOf(0..Len(sent), 0..Len(records), 0..Len(tokens)) /\ "access" \in Steps
  BY RequestTypes DEF Base, RequestRows, Steps
<1> HIDE DEF row, old
<1>8. /\ records' \in Seq(SessionRows) /\ Len(records') = s /\ DOMAIN records' = 1..s
      /\ \A x \in DOMAIN records : records'[x] = records[x]
  BY <1>1, <1>4, <1>5, AppendGrows
<1>9. Grows /\ LongerRows
  BY <1>1, <1>4, <1>8 DEF Grows, LongerRows, proofs, history, DataOK
<1>10. DataOK' /\ Bounds'
  <2>1. 1..Len(records) \subseteq 1..Len(records') /\ s \in 1..Len(records')
    BY <1>4, <1>8
  <2>2. sessions' \subseteq 1..Len(records')
    BY <1>1, <1>4, <2>1 DEF DataOK
  <2>3. DataOK'
    BY <1>1, <1>4, <1>8, <2>2 DEF DataOK, proofs, history
  <2>4. Len(records') <= MaxTokens
    BY <1>1, <1>4, <1>8
  <2> QED
    BY <1>1, <2>3, <2>4 DEF Base, Bounds, proofs
<1>11. TokensLinked' /\ AnswersLinked'
  BY <1>1, <1>9, TokensStayLinked, AnswersStayLinked DEF proofs, history
<1>12. v \in RowsOf(0..Len(sent), 0..s, 0..Len(tokens))
       /\ SameRow(v, old, "access", s, old.replay, old.id)
  <2>1. s \in 0..s /\ 0..Len(records) \subseteq 0..s
    BY <1>4
  <2> HIDE DEF s
  <2>2. old \in RowsOf(0..Len(sent), 0..s, 0..Len(tokens))
    BY ONLY <1>7, <2>1 DEF RowsOf
  <2> QED
    BY ONLY <1>6, <1>7, <2>1, <2>2, SessionRow
<1>13. v \in RequestRows'
  BY <1>1, <1>8, <1>12 DEF RequestRows, proofs
<1>14. HandledBy(v)'
  <2>1. s \in DOMAIN records' /\ UNCHANGED <<tokens, sent, spent, used>>
    BY <1>1, <1>4, <1>8 DEF proofs
  <2> HIDE DEF s
  <2> QED
    BY ONLY <1>3, <1>12, <2>1 DEF HandledBy, ActiveSteps, SameRow
<1> HIDE DEF s
<1> QED
  BY <1>2, <1>9, <1>10, <1>11, <1>13, <1>14, MoreRow

LEMMA RecordUsedBase ==
  ASSUME Base, NEW r \in Requests, RecordUsed(r)
  PROVE  Base' /\ Grows
<1> DEFINE i == Subject(r)
           old == req[r]
<1>1. /\ HandledBy(old) /\ old.pc = "record" /\ old.message \in DOMAIN sent
      /\ sent[old.message].grant = "refresh" /\ i = sent[old.message].token
      /\ i \in DOMAIN tokens /\ tokens[i].session \in DOMAIN records
      /\ <<"refresh", i>> \in answered
      /\ old.session = tokens[i].session
  <2>1. old.pc = "record"
    BY DEF RecordUsed
  <2>2. /\ HandledBy(old) /\ old.message \in DOMAIN sent /\ Message(r) = sent[old.message]
        /\ i = sent[old.message].token
    BY <2>1, Subjects
  <2>3. Message(r).grant = "refresh" /\ old.session = tokens[i].session
    BY <2>1, <2>2 DEF HandledBy, ActiveSteps
  <2> QED
    BY <2>1, <2>2, <2>3, Subjects
<1>2. UNCHANGED <<granted, codes, sessions, records, tokens, refresh, proofs, now, history>>
  BY DEF RecordUsed
<1>3. "drop replay" \in Steps /\ "access" \in Steps
  BY DEF Steps
<1>4. CASE Go(r, "drop replay") /\ used' = used
  <2>1. Unadded /\ Noted
    BY <1>2, <1>4, UnaddedKept, NotedKept DEF Unadded, proofs, history
  <2> HIDE DEF old
  <2>2. \A v : SameRow(v, old, "drop replay", old.session, old.replay, old.id) => HandledBy(v)
    BY ONLY <1>1 DEF HandledBy, ActiveSteps, SameRow
  <2>3. \A v : SameRow(v, old, "drop replay", old.session, old.replay, old.id) => HandledBy(v)'
    BY <2>1, <2>2, HandledLess
  <2> QED
    BY <1>3, <1>4, <2>1, <2>3, GoLess DEF old
<1>5. CASE i \notin DOMAIN used /\ Go(r, "access") /\ used' = Put(used, i, UsedUntil(old.session))
  <2>1. PICK v \in RequestRows :
          /\ req' = [req EXCEPT ![r] = v]
          /\ SameRow(v, old, "access", old.session, old.replay, old.id)
    <3>1. TypeOK
      BY DEF Base
    <3> QED
      BY <1>3, <1>5, <3>1, GoFacts
  <2> DEFINE u == UsedUntil(old.session)
  <2>2. u \in Nat
    BY <1>1, RecordFacts DEF UsedUntil, Base
  <2>3. /\ DataOK /\ now \in Nat /\ used \in [DOMAIN used -> Nat] /\ DOMAIN used \subseteq DOMAIN tokens
        /\ Len(records) \in Nat /\ Len(tokens) \in Nat /\ Len(sent) \in Nat
        /\ DOMAIN tokens = 1..Len(tokens)
    BY TypeFacts, DataFacts DEF Base, DataOK
  <2>4. used' = Put(used, i, u)
    BY <1>5
  <2> HIDE DEF u, old, i
  <2>5. /\ DOMAIN used' = DOMAIN used \cup {i} /\ used' \in [DOMAIN used' -> Nat]
        /\ \A x \in DOMAIN used : used'[x] = used[x]
    <3>1. i \notin DOMAIN used
      BY <1>5
    <3> QED
      BY ONLY <2>2, <2>3, <2>4, <3>1 DEF Put
  <2>6. Grows /\ LongerRows
    BY <1>2, <2>3, <2>5 DEF Grows, LongerRows, proofs, history
  <2>7. DataOK' /\ Bounds'
    <3>1. DOMAIN used' \subseteq 1..Len(tokens)
      BY <1>1, <2>3, <2>5
    <3> QED
      BY <1>2, <2>3, <2>5, <3>1 DEF DataOK, Base, Bounds, proofs, history
  <2>8. TokensLinked'
    BY <1>2, <2>6, TokensStayLinked
  <2>9. AnswersLinked'
    BY <1>1, <1>2, <2>5, <2>6, AnswersStayLinked DEF proofs, history
  <2>10. v \in RequestRows'
    BY <1>2, <2>1 DEF RequestRows, proofs
  <2>11. HandledBy(v)'
    <3>1. HandledBy(v)
      BY ONLY <1>1, <2>1 DEF HandledBy, ActiveSteps, SameRow
    <3> QED
      BY <2>6, <3>1, HandledGrows
  <2> QED
    BY <2>1, <2>6, <2>7, <2>8, <2>9, <2>10, <2>11, MoreRow
<1> QED
  BY <1>4, <1>5 DEF RecordUsed

LEMMA IssueRefreshBase ==
  ASSUME Base, NEW r \in Requests, IssueRefresh(r)
  PROVE  Base' /\ Grows
<1> DEFINE i == req[r].id
<1>1. /\ refresh' = refresh \cup {i}
      /\ answered' = answered \cup {<<"access", i>>, <<"refresh", i>>}
      /\ req' = [req EXCEPT ![r] = NoRequest]
      /\ UNCHANGED <<granted, codes, sessions, records, tokens, used, sent, spent, now,
                     dropped, revoked, pds>>
  BY DEF IssueRefresh, End
<1>2. /\ DataOK /\ now \in Nat /\ i \in DOMAIN tokens
      /\ Len(records) \in Nat /\ Len(tokens) \in Nat /\ Len(sent) \in Nat
      /\ DOMAIN tokens = 1..Len(tokens) /\ Len(tokens) <= MaxTokens
  <2>1. HandledBy(req[r]) /\ req[r].pc = "refresh"
    BY DEF Base, IssueRefresh
  <2>2. i \in DOMAIN tokens
    BY <2>1 DEF HandledBy
  <2> QED
    BY <2>2, TypeFacts, DataFacts DEF Base, DataOK, Bounds
<1> HIDE DEF i
<1>3. Grows /\ LongerRows
  BY <1>1, <1>2 DEF Grows, LongerRows
<1>4. DataOK' /\ Bounds'
  <2>1. i \in Ids /\ i \in 1..Len(tokens)
    BY <1>2
  <2>2. /\ refresh' \subseteq 1..Len(tokens)
        /\ answered' \subseteq {"access", "refresh"} \X Ids
    BY <1>1, <1>2, <2>1 DEF DataOK
  <2> QED
    BY <1>1, <1>2, <2>2 DEF DataOK, Base, Bounds, pds
<1>5. TokensLinked'
  BY <1>1, <1>3, TokensStayLinked
<1>6. AnswersLinked'
  BY <1>1, <1>2, <1>3, AnswersStayLinked
<1>7. NoRequest \in RequestRows' /\ HandledBy(NoRequest)'
  BY <1>1, NoRequestFacts DEF Base, HandledBy, RequestRows
<1> QED
  BY <1>1, <1>3, <1>4, <1>5, <1>6, <1>7, MoreRow

LEMMA SendBase ==
  ASSUME Base, NEW r \in Requests, NEW m \in MessageRows, m.at <= now, Send(r, m)
  PROVE  Base' /\ Grows
<1>0. PICK k : k = Len(sent) + 1
  OBVIOUS
<1>1. /\ Len(sent) < MaxMessages /\ Known(m) /\ sent' = Append(sent, m)
      /\ UNCHANGED <<database, spent, claimed, now, history>>
  BY DEF Send
<1>2. PICK v : req' = [req EXCEPT ![r] = v] /\ Begins(v, k, m)
  BY <1>0, BeginFacts DEF Base, Send
<1>3. /\ DataOK /\ now \in Nat /\ sent \in Seq(MessageRows)
      /\ Len(records) \in Nat /\ Len(tokens) \in Nat /\ Len(sent) \in Nat
      /\ DOMAIN sent = 1..Len(sent)
      /\ DOMAIN records = 1..Len(records)
  BY TypeFacts, DataFacts DEF Base, DataOK, Bounds
<1>4. /\ sent' \in Seq(MessageRows) /\ Len(sent') = k /\ DOMAIN sent' = 1..k
      /\ sent'[k] = m /\ \A x \in DOMAIN sent : sent'[x] = sent[x]
  BY <1>0, <1>1, <1>3, AppendGrows
<1>5. k \in DOMAIN sent' /\ k \in Nat /\ \A x \in DOMAIN sent : x \in DOMAIN sent'
  BY <1>0, <1>3, <1>4
<1>6. Grows /\ LongerRows
  BY <1>0, <1>1, <1>3, <1>4, <1>5 DEF Grows, LongerRows, database, history
<1>7. DataOK' /\ Bounds'
  <2>1. 1..Len(sent) \subseteq 1..Len(sent')
    BY <1>0, <1>3, <1>4
  <2>2. spent' \subseteq 1..Len(sent') /\ DOMAIN claimed' \subseteq 1..Len(sent')
    BY <1>1, <1>3, <2>1 DEF DataOK
  <2>3. Bounds'
    BY <1>0, <1>1, <1>3, <1>4 DEF Base, Bounds, database
  <2> QED
    BY <1>1, <1>3, <1>4, <2>2, <2>3 DEF DataOK, database, history
<1>8. TokensLinked'
  BY <1>1, <1>6, TokensStayLinked DEF database
<1>9. AnswersLinked'
  <2>1. Known(sent[k])'
    BY <1>1, <1>4, <1>6, KnownGrows
  <2>2. Known(sent[k])' /\ sent'[k].at <= now'
    BY <1>1, <1>4, <2>1
  <2>3. \A x \in DOMAIN sent' : x \in DOMAIN sent \/ x = k
    BY <1>0, <1>3, <1>4
  <2>4. \A x \in DOMAIN sent' : x \in DOMAIN sent \/ (Known(sent[x])' /\ sent'[x].at <= now')
    BY <2>2, <2>3
  <2> QED
    BY <1>1, <1>6, <2>4, AnswersStayLinked DEF database, history
<1>10. v \in RequestRows' /\ HandledBy(v)'
  <2>1. CASE v = NoRequest
    BY <1>0, <1>1, <1>3, <1>4, <2>1 DEF NoRequest, HandledBy, RequestRows, RowsOf, Steps, database
  <2>2. CASE v # NoRequest
    <3>1. /\ v \in FreshRows(k) /\ v.message = k
          /\ \/ v.pc = "dpop" /\ v.session = None /\ m.grant \in {"code", "revoke access"}
             \/ /\ v.pc = "session" /\ m.grant \in {"refresh", "revoke refresh", "revoke access"}
                /\ v.session = tokens[m.token].session
             \/ v.pc = "used" /\ m.grant \in {"refresh", "revoke refresh"} /\ v.session = None
             \/ v.pc = "proof" /\ m.grant = "use"
      BY <1>2, <2>2 DEF Begins
    <3>2. v.pc \in Steps /\ v.replay = FALSE
      BY <3>1 DEF FreshRows
    <3>3. /\ {None, k} \subseteq 0..k /\ {None} \cup DOMAIN records \subseteq 0..Len(records)
          /\ {None} \subseteq 0..Len(tokens) /\ {FALSE} \subseteq BOOLEAN
      BY <1>0, <1>3
    <3>4. Len(sent') = k /\ records' = records /\ tokens' = tokens /\ sent'[k] = m
          /\ k \in DOMAIN sent'
      BY <1>1, <1>4, <1>5 DEF database
    <3>5. v \in RequestRows'
      BY ONLY <3>1, <3>3, <3>4 DEF FreshRows, RequestRows, RowsOf
    <3>6. HandledBy(v)'
      BY ONLY <3>1, <3>2, <3>4 DEF HandledBy, ActiveSteps
    <3> QED
      BY <3>5, <3>6
  <2> QED
    BY <2>1, <2>2
<1> QED
  BY <1>2, <1>6, <1>7, <1>8, <1>9, <1>10, MoreRow

LEMMA IssueAccessBase ==
  ASSUME Base, NEW r \in Requests, IssueAccess(r)
  PROVE  Base' /\ Grows
<1>0. PICK i, old, c : i = Len(tokens) + 1 /\ old = req[r] /\ c = Subject(r)
  OBVIOUS
<1> DEFINE row == [session |-> old.session, from |-> c, expires |-> now + AccessLife]
<1>1. /\ i \in Ids /\ tokens' = Append(tokens, row) /\ old.pc = "access"
      /\ UNCHANGED <<granted, codes, sessions, records, refresh, used, sent, spent, now,
                     dropped, revoked, pds>>
      /\ \/ answered' = answered
         \/ answered' = answered \cup {<<"access", i>>}
  BY <1>0 DEF IssueAccess
<1>2. /\ DataOK /\ now \in Nat /\ tokens \in Seq(TokenRows)
      /\ Len(records) \in Nat /\ Len(tokens) \in Nat /\ Len(sent) \in Nat
      /\ DOMAIN tokens = 1..Len(tokens) /\ DOMAIN records = 1..Len(records)
      /\ Len(records) <= MaxTokens
  BY TypeFacts, DataFacts DEF Base, DataOK, Bounds
<1>3. /\ HandledBy(old) /\ old.message \in DOMAIN sent /\ old.message \in spent
      /\ old.session \in DOMAIN records /\ c = sent[old.message].token
      /\ \/ sent[old.message].grant = "code" /\ c \in DOMAIN granted /\ c \in Codes
         \/ /\ sent[old.message].grant = "refresh" /\ c \in DOMAIN tokens
            /\ <<"refresh", c>> \in answered /\ old.session = tokens[c].session
  <2>1. /\ HandledBy(old) /\ old.message \in DOMAIN sent /\ Message(r) = sent[old.message]
        /\ c = sent[old.message].token
    BY <1>0, <1>1, Subjects
  <2>2. Message(r).grant \in {"code", "refresh"} /\ old.session \in DOMAIN records
        /\ old.message \in spent
    BY <1>1, <2>1 DEF HandledBy, ActiveSteps
  <2>3. Message(r).grant = "refresh" => old.session = tokens[c].session
    BY <1>1, <2>1 DEF HandledBy, ActiveSteps
  <2> QED
    BY <1>0, <1>1, <2>1, <2>2, <2>3, Subjects
<1>4. row \in TokenRows
  <2>1. c \in Codes \cup Ids /\ old.session \in Ids
    <3>1. Len(tokens) <= MaxTokens
      BY DEF Base, Bounds
    <3>2. DOMAIN tokens \subseteq Ids /\ DOMAIN records \subseteq Ids
      BY <1>2, <3>1
    <3> QED
      BY ONLY <1>3, <3>2
  <2> QED
    BY <1>2, <2>1 DEF TokenRows
<1> HIDE DEF row
<1>5. /\ tokens' \in Seq(TokenRows) /\ Len(tokens') = i /\ DOMAIN tokens' = 1..i
      /\ tokens'[i] = row /\ \A x \in DOMAIN tokens : tokens'[x] = tokens[x]
  BY <1>0, <1>1, <1>2, <1>4, AppendGrows
<1>6. /\ i \in DOMAIN tokens' /\ i \in Nat /\ \A x \in DOMAIN tokens : x \in DOMAIN tokens'
      /\ \A x \in DOMAIN tokens' : x = i \/ x \in DOMAIN tokens
  BY <1>0, <1>2, <1>5
<1>7. Grows /\ LongerRows
  BY <1>0, <1>1, <1>2, <1>5, <1>6 DEF Grows, LongerRows
<1>8. DataOK' /\ Bounds'
  <2>1. 1..Len(tokens) \subseteq 1..Len(tokens')
    BY <1>0, <1>2, <1>5
  <2>2. refresh' \subseteq 1..Len(tokens') /\ DOMAIN used' \subseteq 1..Len(tokens')
    BY <1>1, <1>2, <2>1 DEF DataOK
  <2>3. Bounds'
    BY <1>0, <1>1, <1>2, <1>5 DEF Base, Bounds
  <2>4. answered' \subseteq {"access", "refresh"} \X Ids
    BY <1>1, <1>2 DEF DataOK
  <2> QED
    BY <1>1, <1>2, <1>5, <2>2, <2>3, <2>4 DEF DataOK, pds
<1>9. TokensLinked'
  <2> SUFFICES ASSUME NEW x \in DOMAIN tokens'
               PROVE  /\ tokens'[x].session \in DOMAIN records
                      /\ tokens'[x].from \in Codes => tokens'[x].from \in DOMAIN granted
                      /\ tokens'[x].from \in Ids =>
                           /\ <<"refresh", tokens'[x].from>> \in answered'
                           /\ tokens'[tokens'[x].from].session = tokens'[x].session
    BY <1>1 DEF TokensLinked
  <2>1. CASE x \in DOMAIN tokens
    <3>1. tokens'[x] = tokens[x]
      BY <1>5, <2>1
    <3>2. /\ tokens[x].session \in DOMAIN records
          /\ tokens[x].from \in Codes => tokens[x].from \in DOMAIN granted
          /\ tokens[x].from \in Ids =>
               /\ <<"refresh", tokens[x].from>> \in answered
               /\ tokens[tokens[x].from].session = tokens[x].session
      BY <2>1 DEF Base, TokensLinked
    <3>3. tokens[x].from \in Ids => tokens[x].from \in DOMAIN tokens
      <4>1. \A t : <<"refresh", t>> \in answered => t \in DOMAIN tokens
        BY DEF Base, AnswersLinked
      <4> QED
        BY <3>2, <4>1
    <3> QED
      BY <1>1, <1>5, <3>1, <3>2, <3>3
  <2>2. CASE x = i
    <3>1. tokens'[x].session = old.session /\ tokens'[x].from = c
      BY <1>5, <2>2 DEF row
    <3>2. c \in Codes => c \notin Ids
      OBVIOUS
    <3>3. c \in DOMAIN tokens => c \in Ids /\ c \notin Codes
      <4>1. c \in DOMAIN tokens => c \in Nat /\ c \in Ids
        BY <1>2, TokenFacts DEF Base, Bounds
      <4> QED
        BY <4>1
    <3> QED
      BY <1>1, <1>3, <1>5, <3>1, <3>2, <3>3
  <2> QED
    BY <1>6, <2>1, <2>2
<1>10. AnswersLinked'
  <2>1. \A a \in answered' : a \in answered \/ a[2] \in DOMAIN tokens'
    BY <1>1, <1>6
  <2> QED
    BY <1>1, <1>7, <2>1, AnswersStayLinked
<1>11. CASE req' = [req EXCEPT ![r] = NoRequest]
  <2>1. NoRequest \in RequestRows' /\ HandledBy(NoRequest)'
    BY <1>0, <1>1, <1>2, <1>5 DEF NoRequest, HandledBy, RequestRows, RowsOf, Steps
  <2> QED
    BY <1>7, <1>8, <1>9, <1>10, <1>11, <2>1, MoreRow
<1>12. CASE req' = [req EXCEPT ![r].pc = "refresh", ![r].id = i]
  <2>1. PICK v : req' = [req EXCEPT ![r] = v] /\ v = [old EXCEPT !.pc = "refresh", !.id = i]
    BY <1>0, <1>12 DEF Base, TypeOK
  <2>2. old \in RowsOf(0..Len(sent), 0..Len(records), 0..i) /\ i \in 0..i /\ "refresh" \in Steps
    <3>1. old \in RowsOf(0..Len(sent), 0..Len(records), 0..Len(tokens))
      BY <1>0, RequestTypes DEF Base, RequestRows
    <3>2. 0..Len(tokens) \subseteq 0..i /\ i \in 0..i /\ "refresh" \in Steps
      BY <1>0, <1>2 DEF Steps
    <3> QED
      BY ONLY <3>1, <3>2 DEF RowsOf
  <2>3. /\ v \in RowsOf(0..Len(sent), 0..Len(records), 0..i)
        /\ SameRow(v, old, "refresh", old.session, old.replay, i)
    BY ONLY <2>1, <2>2, IdRow
  <2>4. v \in RequestRows'
    BY <1>1, <1>5, <2>3 DEF RequestRows
  <2>5. HandledBy(v)'
    <3>1. /\ UNCHANGED <<records, sent, spent, used>> /\ i \in DOMAIN tokens'
          /\ \A x \in DOMAIN tokens : tokens'[x] = tokens[x]
      BY <1>1, <1>5, <1>6
    <3>2. sent[old.message].grant # "code" => sent[old.message].token \in DOMAIN tokens
      BY <1>3
    <3> QED
      BY ONLY <1>1, <1>3, <2>3, <3>1, <3>2 DEF HandledBy, ActiveSteps, SameRow
  <2> QED
    BY <1>7, <1>8, <1>9, <1>10, <2>1, <2>4, <2>5, MoreRow
<1> QED
  BY <1>0, <1>11, <1>12 DEF IssueAccess, End

LEMMA InitBase ==
  ASSUME Init
  PROVE  Base
<1>1. /\ granted = [c \in {} |-> None] /\ used = [t \in {} |-> None]
      /\ claimed = [k \in {} |-> None] /\ codes = {} /\ refresh = {} /\ sessions = {}
      /\ spent = {} /\ answered = {} /\ dropped = {} /\ revoked = {} /\ now = 0
      /\ records = <<>> /\ tokens = <<>> /\ sent = <<>>
      /\ served = [k \in Messages |-> 0] /\ req = [r \in Requests |-> NoRequest]
  BY DEF Init
<1>2. /\ \A S : <<>> \in Seq(S)
      /\ Len(<<>>) = 0 /\ DOMAIN <<>> = {}
  BY EmptySeq
<1>3. Len(records) = 0 /\ Len(tokens) = 0 /\ Len(sent) = 0
      /\ DOMAIN records = {} /\ DOMAIN tokens = {} /\ DOMAIN sent = {}
  BY <1>1, <1>2
<1>4. TypeOK
  <2>1. NoRequest \in [pc : Steps, message : 0..Len(sent), session : 0..Len(records),
                       replay : BOOLEAN, live : BOOLEAN, id : 0..Len(tokens)]
    BY <1>3 DEF NoRequest, Steps
  <2>2. /\ records \in Seq([holder : Holders, expires : Nat])
        /\ tokens \in Seq([session : Ids, from : Codes \cup Ids, expires : Nat])
        /\ sent \in Seq([grant : Grants, token : Codes \cup Ids, holder : Holders, at : Nat])
    BY <1>1, <1>2
  <2>3. DOMAIN granted = {} /\ DOMAIN used = {} /\ DOMAIN claimed = {}
    BY <1>1
  <2>4. /\ granted \in [DOMAIN granted -> [holder : Holders, renew : BOOLEAN, expires : Nat]]
        /\ used \in [DOMAIN used -> Nat] /\ claimed \in [DOMAIN claimed -> Nat]
    BY <1>1, <2>3
  <2> QED
    BY <1>1, <2>1, <2>2, <2>3, <2>4 DEF TypeOK
<1>5. Bounds /\ TokensLinked /\ AnswersLinked
  BY <1>1, <1>3 DEF Bounds, TokensLinked, AnswersLinked
<1>6. \A r \in Requests : HandledBy(req[r])
  BY <1>1 DEF HandledBy, NoRequest
<1> QED
  BY <1>4, <1>5, <1>6 DEF Base

-----------------------------------------------------------------------------
(* Every step *)

LEMMA SentRows ==
  ASSUME TypeOK, NEW g \in Grants, NEW h \in Holders, NEW t \in IF g = "code" THEN Codes ELSE Ids,
         NEW m, m = [grant |-> g, token |-> t, holder |-> h, at |-> IF g = "use" THEN now ELSE 0]
  PROVE  m \in MessageRows /\ m.at <= now
<1>1. now \in Nat
  BY TypeFacts
<1>2. t \in Codes \cup Ids /\ (IF g = "use" THEN now ELSE 0) \in 0..now
  BY <1>1
<1> QED
  BY <1>1, <1>2 DEF MessageRows

\* A step of one request.
RequestStep(r) ==
  \/ \E m \in MessageRows : m.at <= now /\ Send(r, m)
  \/ \E k \in DOMAIN sent : Redeliver(r, k)
  \/ FindUsed(r) \/ FindSession(r) \/ Verify(r)
  \/ ConsumeCode(r) \/ StartSession(r)
  \/ ConsumeRefresh(r) \/ FindSessionAgain(r) \/ RecordUsed(r)
  \/ IssueAccess(r) \/ IssueRefresh(r) \/ IssueFails(r)
  \/ Punish(r) \/ Revoke(r) \/ RequestLost(r)
  \/ CheckProof(r) \/ ClaimProof(r)

OtherStep ==
  \/ \E c \in Codes, h \in Holders, renew \in BOOLEAN : Authorize(c, h, renew)
  \/ CreateNonce
  \/ Tick

LEMMA Steppings ==
  ASSUME Base, Next
  PROVE  OtherStep \/ \E r \in Requests : RequestStep(r)
<1>1. ASSUME NEW r \in Requests, NEW g \in Grants, NEW h \in Holders,
             NEW t \in IF g = "code" THEN Codes ELSE Ids,
             Send(r, [grant |-> g, token |-> t, holder |-> h,
                      at |-> IF g = "use" THEN now ELSE 0])
      PROVE  RequestStep(r)
  <2>1. PICK m : m = [grant |-> g, token |-> t, holder |-> h,
                      at |-> IF g = "use" THEN now ELSE 0]
    OBVIOUS
  <2>2. Send(r, m)
    BY <1>1, <2>1
  <2>3. m \in MessageRows /\ m.at <= now
    BY <2>1, SentRows DEF Base
  <2> QED
    BY <2>2, <2>3 DEF RequestStep
<1> QED
  BY <1>1 DEF Next, OtherStep, RequestStep

LEMMA BaseGrows ==
  ASSUME Base, Next
  PROVE  Base' /\ Grows
<1>1. CASE OtherStep
  BY <1>1, AuthorizeBase, CreateNonceBase, TickBase DEF OtherStep
<1>2. ASSUME NEW r \in Requests, RequestStep(r)
      PROVE  Base' /\ Grows
  BY <1>2, SendBase, RedeliverBase, FindUsedBase, FindSessionBase, VerifyBase, ConsumeCodeBase,
     StartSessionBase, ConsumeRefreshBase, FindSessionAgainBase, RecordUsedBase,
     IssueAccessBase, IssueRefreshBase, IssueFailsBase, PunishBase, RevokeBase,
     RequestLostBase, CheckProofBase, ClaimProofBase
     DEF RequestStep
<1> QED
  BY <1>1, <1>2, Steppings

LEMMA BaseStutters ==
  ASSUME Base, UNCHANGED vars
  PROVE  Base'
<1>1. UNCHANGED <<granted, codes, sessions, records, tokens, refresh, used, sent, spent, claimed,
                  req, now, answered, served, dropped, revoked>>
  BY DEF vars, database, proofs, history
<1>2. Unadded /\ Noted
  BY <1>1, UnaddedKept, NotedKept DEF Unadded
<1>3. req' \in [Requests -> RequestRows]
  BY <1>1, TypeFacts DEF Base
<1>4. ASSUME NEW q \in Requests
      PROVE  HandledBy(req[q])'
  BY <1>1 DEF Base, HandledBy
<1> QED
  BY <1>2, <1>3, <1>4, LessBase

LEMMA BaseAlways == Spec => []Base
<1>1. Init => Base
  BY InitBase
<1>2. Base /\ [Next]_vars => Base'
  BY BaseGrows, BaseStutters
<1> QED
  BY <1>1, <1>2, PTL DEF Spec

\* Type correctness of the token endpoint, the revocation endpoint and the PDS.
THEOREM GrantTypeCorrect == Spec => []TypeOK
<1>1. Base => TypeOK
  BY DEF Base
<1> QED
  BY <1>1, BaseAlways, PTL

-----------------------------------------------------------------------------
(* Where a request can go *)

Paths ==
  {<<"used", "session">>, <<"used", "dpop">>, <<"session", "dpop">>,
   <<"dpop", "drop revoke">>, <<"dpop", "drop replay">>, <<"dpop", "consume">>,
   <<"consume", "start">>, <<"start", "access">>,
   <<"consume", "found">>, <<"consume", "drop replay">>, <<"found", "record">>,
   <<"record", "drop replay">>, <<"record", "access">>,
   <<"access", "refresh">>, <<"access", "drop failed">>, <<"refresh", "drop failed">>,
   <<"proof", "claim">>}

Onward(r) ==
  /\ \A q \in Requests : q # r => req'[q] = req[q]
  /\ \/ req'[r].pc = "idle"
     \/ req[r].pc = "idle" /\ req'[r].pc \in {"used", "session", "dpop", "proof"}
     \/ req'[r].message = req[r].message /\ <<req[r].pc, req'[r].pc>> \in Paths

LEMMA GoTo ==
  ASSUME TypeOK, NEW r \in Requests, NEW pc \in Steps, Go(r, pc)
  PROVE  /\ \A q \in Requests : q # r => req'[q] = req[q]
         /\ SameRow(req'[r], req[r], pc, req[r].session, req[r].replay, req[r].id)
BY GoFacts, RequestFacts DEF SameRow

LEMMA EndTo ==
  ASSUME TypeOK, NEW r \in Requests, End(r)
  PROVE  /\ \A q \in Requests : q # r => req'[q] = req[q]
         /\ req'[r] = NoRequest /\ req'[r].pc = "idle"
BY RequestFacts, NoRequestFacts DEF End

LEMMA BeginTo ==
  ASSUME TypeOK, TokensLinked, AnswersLinked, NEW r \in Requests, NEW k, NEW m \in MessageRows,
         Known(m), Begin(r, k, m)
  PROVE  /\ \A q \in Requests : q # r => req'[q] = req[q]
         /\ req[r].pc = "idle" /\ Begins(req'[r], k, m)
<1>1. req[r].pc = "idle"
  BY DEF Begin
<1> QED
  BY <1>1, BeginFacts, RequestFacts

LEMMA FindUsedTo ==
  ASSUME TypeOK, NEW r \in Requests, FindUsed(r)
  PROVE  /\ \A q \in Requests : q # r => req'[q] = req[q]
         /\ req[r].pc = "used" /\ req'[r].message = req[r].message
         /\ \/ req'[r].pc = "session" /\ FoundUsed(Subject(r))
            \/ /\ req'[r].pc = "dpop" /\ ~ FoundUsed(Subject(r))
               /\ req'[r].session = req[r].session
               /\ req'[r].live => Subject(r) \in refresh \cup DOMAIN used
<1>1. PICK x, s, f, b : /\ x = req[r] /\ s = tokens[Subject(r)].session
                        /\ f = FoundUsed(Subject(r))
                        /\ b = (Subject(r) \in refresh \cup DOMAIN used)
  OBVIOUS
<1>2. PICK w : w = [x EXCEPT !.live = b]
  OBVIOUS
<1>3. PICK v : v = IF f THEN [w EXCEPT !.pc = "session", !.session = s, !.replay = TRUE]
                   ELSE [w EXCEPT !.pc = "dpop"]
  OBVIOUS
<1>4. req' = [req EXCEPT ![r] = v]
  BY <1>1, <1>2, <1>3 DEF FindUsed, Looked
<1>5. /\ \A q \in Requests : q # r => req'[q] = req[q]
      /\ req'[r] = v
  BY <1>4, RequestFacts
<1>6. w \in RequestRows /\ w.message = x.message /\ w.session = x.session /\ w.live = b
  <2>1. x \in RequestRows /\ b \in BOOLEAN
    BY <1>1, TypeFacts
  <2> QED
    BY ONLY <1>2, <2>1, LiveRow DEF RequestRows, SameButLive
<1>7. /\ v.message = w.message
      /\ \/ v.pc = "session" /\ f
         \/ v.pc = "dpop" /\ ~ f /\ v.session = w.session /\ v.live = w.live
  <2>1. CASE f
    <3>1. v = [w EXCEPT !.pc = "session", !.session = s, !.replay = TRUE]
      BY <1>3, <2>1
    <3> QED
      BY ONLY <1>6, <2>1, <3>1 DEF RequestRows, RowsOf
  <2>2. CASE ~ f
    <3>1. v = [w EXCEPT !.pc = "dpop"]
      BY <1>3, <2>2
    <3> QED
      BY ONLY <1>6, <2>2, <3>1 DEF RequestRows, RowsOf
  <2> QED
    BY <2>1, <2>2
<1> QED
  BY <1>1, <1>5, <1>6, <1>7 DEF FindUsed

LEMMA FindSessionTo ==
  ASSUME TypeOK, NEW r \in Requests, FindSession(r)
  PROVE  /\ \A q \in Requests : q # r => req'[q] = req[q]
         /\ req[r].pc = "session" /\ req'[r].message = req[r].message
         /\ req'[r].live = req[r].live /\ req'[r].pc = "dpop"
         /\ req'[r].session = None => req[r].session = None \/ ~ FoundSession(req[r].session)
<1>1. PICK x, s, v : /\ x = req[r] /\ s = IF FoundSession(x.session) THEN x.session ELSE None
                     /\ v = [x EXCEPT !.pc = "dpop", !.session = s]
  OBVIOUS
<1>2. req' = [req EXCEPT ![r] = v]
  BY <1>1 DEF FindSession, TypeOK
<1>3. /\ \A q \in Requests : q # r => req'[q] = req[q]
      /\ req'[r] = v
  BY <1>2, RequestFacts
<1>4. x \in RequestRows /\ v = [x EXCEPT !.pc = "dpop", !.session = s]
  BY <1>1, TypeFacts
<1>5. v.message = x.message /\ v.live = x.live /\ v.pc = "dpop" /\ v.session = s
  BY ONLY <1>4 DEF RequestRows, RowsOf
<1> QED
  BY <1>1, <1>3, <1>5 DEF FindSession

LEMMA StartSessionTo ==
  ASSUME TypeOK, NEW r \in Requests, StartSession(r)
  PROVE  /\ \A q \in Requests : q # r => req'[q] = req[q]
         /\ req[r].pc = "start" /\ req'[r].message = req[r].message /\ req'[r].pc = "access"
         /\ req'[r].session = Len(records) + 1
<1>1. PICK x, s, v : /\ x = req[r] /\ s = Len(records) + 1
                     /\ v = [x EXCEPT !.pc = "access", !.session = s]
  OBVIOUS
<1>2. req' = [req EXCEPT ![r] = v]
  BY <1>1 DEF StartSession, TypeOK
<1>3. /\ \A q \in Requests : q # r => req'[q] = req[q]
      /\ req'[r] = v
  BY <1>2, RequestFacts
<1>4. x \in RequestRows /\ v = [x EXCEPT !.pc = "access", !.session = s]
  BY <1>1, TypeFacts
<1>5. v.message = x.message /\ v.pc = "access" /\ v.session = s
  BY ONLY <1>4 DEF RequestRows, RowsOf
<1> QED
  BY <1>1, <1>3, <1>5 DEF StartSession

LEMMA IssueAccessTo ==
  ASSUME TypeOK, NEW r \in Requests, IssueAccess(r)
  PROVE  /\ \A q \in Requests : q # r => req'[q] = req[q]
         /\ req[r].pc = "access"
         /\ \/ req'[r].pc = "idle"
            \/ /\ req'[r].message = req[r].message /\ req'[r].pc = "refresh"
               /\ req'[r].id = Len(tokens) + 1 /\ answered' = answered
<1>1. CASE End(r)
  BY <1>1, EndTo DEF IssueAccess
<1>2. CASE ~ End(r)
  <2>1. PICK x, i, v : /\ x = req[r] /\ i = Len(tokens) + 1
                       /\ v = [x EXCEPT !.pc = "refresh", !.id = i]
    OBVIOUS
  <2>2. req' = [req EXCEPT ![r] = v] /\ answered' = answered
    BY <1>2, <2>1 DEF IssueAccess, TypeOK
  <2>3. /\ \A q \in Requests : q # r => req'[q] = req[q]
        /\ req'[r] = v
    BY <2>2, RequestFacts
  <2>4. x \in RequestRows /\ v = [x EXCEPT !.pc = "refresh", !.id = i]
    BY <2>1, TypeFacts
  <2>5. v.message = x.message /\ v.pc = "refresh" /\ v.id = i
    BY ONLY <2>4 DEF RequestRows, RowsOf
  <2> QED
    BY <2>1, <2>2, <2>3, <2>5 DEF IssueAccess
<1> QED
  BY <1>1, <1>2

LEMMA OnwardNext ==
  ASSUME Base, NEW r \in Requests, RequestStep(r)
  PROVE  Onward(r)
<1>1. TypeOK /\ TokensLinked /\ AnswersLinked
  BY DEF Base
<1>2. ASSUME End(r)
      PROVE  Onward(r)
  BY <1>1, <1>2, EndTo DEF Onward
<1>3. ASSUME NEW pc \in Steps, Go(r, pc), <<req[r].pc, pc>> \in Paths
      PROVE  Onward(r)
  BY <1>1, <1>3, GoTo DEF Onward, SameRow
<1>4. ASSUME NEW k, NEW m \in MessageRows, Known(m), Begin(r, k, m)
      PROVE  Onward(r)
  <2>1. /\ \A q \in Requests : q # r => req'[q] = req[q]
        /\ req[r].pc = "idle" /\ Begins(req'[r], k, m)
    BY <1>1, <1>4, BeginTo
  <2>2. req'[r].pc \in {"idle", "used", "session", "dpop", "proof"}
    BY <1>1, <2>1, NoRequestFacts DEF Begins
  <2> QED
    BY <2>1, <2>2 DEF Onward
<1>5. ASSUME NEW m \in MessageRows, Send(r, m)
      PROVE  Onward(r)
  BY <1>4, <1>5 DEF Send
<1>6. ASSUME NEW k \in DOMAIN sent, Redeliver(r, k)
      PROVE  Onward(r)
  BY <1>4, <1>6, MessageFacts DEF Redeliver, Base, AnswersLinked
<1>7. {"drop revoke", "drop replay", "consume", "start", "found", "record", "access",
       "drop failed", "claim"} \subseteq Steps
  BY DEF Steps
<1>8. FindUsed(r) => Onward(r)
  BY <1>1, FindUsedTo DEF Onward, Paths
<1>9. FindSession(r) => Onward(r)
  BY <1>1, FindSessionTo DEF Onward, Paths
<1>10. Verify(r) => Onward(r)
  <2> DEFINE pc == IF Revokes(r) THEN "drop revoke"
                   ELSE IF req[r].replay THEN "drop replay" ELSE "consume"
  <2>1. pc \in Steps /\ <<"dpop", pc>> \in Paths
    BY DEF Steps, Paths
  <2>2. Verify(r) => req[r].pc = "dpop" /\ (End(r) \/ Go(r, pc))
    BY DEF Verify
  <2> HIDE DEF pc
  <2> QED
    BY <1>2, <1>3, <2>1, <2>2
<1>11. ConsumeCode(r) => Onward(r)
  <2>1. ConsumeCode(r) => req[r].pc = "consume" /\ (End(r) \/ Go(r, "start"))
    BY DEF ConsumeCode
  <2>2. <<"consume", "start">> \in Paths
    BY DEF Paths
  <2> QED
    BY <1>2, <1>3, <1>7, <2>1, <2>2
<1>12. StartSession(r) => Onward(r)
  BY <1>1, StartSessionTo DEF Onward, Paths
<1>13. ConsumeRefresh(r) => Onward(r)
  <2>1. ConsumeRefresh(r) =>
          req[r].pc = "consume" /\ (Go(r, "found") \/ Go(r, "drop replay"))
    BY DEF ConsumeRefresh
  <2>2. <<"consume", "found">> \in Paths /\ <<"consume", "drop replay">> \in Paths
    BY DEF Paths
  <2> QED
    BY <1>3, <1>7, <2>1, <2>2
<1>14. FindSessionAgain(r) => Onward(r)
  <2>1. FindSessionAgain(r) => req[r].pc = "found" /\ (Go(r, "record") \/ End(r))
    BY DEF FindSessionAgain
  <2>2. <<"found", "record">> \in Paths
    BY DEF Paths
  <2> QED
    BY <1>2, <1>3, <1>7, <2>1, <2>2
<1>15. RecordUsed(r) => Onward(r)
  <2>1. RecordUsed(r) => req[r].pc = "record" /\ (Go(r, "drop replay") \/ Go(r, "access"))
    BY DEF RecordUsed
  <2>2. <<"record", "drop replay">> \in Paths /\ <<"record", "access">> \in Paths
    BY DEF Paths
  <2> QED
    BY <1>3, <1>7, <2>1, <2>2
<1>16. IssueAccess(r) => Onward(r)
  BY <1>1, IssueAccessTo DEF Onward, Paths
<1>17. IssueRefresh(r) \/ Punish(r) \/ Revoke(r) \/ RequestLost(r) \/ ClaimProof(r) => Onward(r)
  BY <1>2 DEF IssueRefresh, Punish, Revoke, Drop, RequestLost, ClaimProof
<1>18. IssueFails(r) => Onward(r)
  <2>1. IssueFails(r) => req[r].pc \in {"access", "refresh"} /\ Go(r, "drop failed")
    BY DEF IssueFails
  <2>2. <<"access", "drop failed">> \in Paths /\ <<"refresh", "drop failed">> \in Paths
    BY DEF Paths
  <2> QED
    BY <1>3, <1>7, <2>1, <2>2
<1>19. CheckProof(r) => Onward(r)
  <2>1. CheckProof(r) => req[r].pc = "proof" /\ (Go(r, "claim") \/ End(r))
    BY DEF CheckProof
  <2>2. <<"proof", "claim">> \in Paths
    BY DEF Paths
  <2> QED
    BY <1>2, <1>3, <1>7, <2>1, <2>2
<1> QED
  BY <1>5, <1>6, <1>8, <1>9, <1>10, <1>11, <1>12, <1>13, <1>14, <1>15, <1>16, <1>17, <1>18, <1>19
     DEF RequestStep

LEMMA SubjectKept ==
  ASSUME Base, Grows, NEW q \in Requests, req[q].pc # "idle", req'[q].message = req[q].message
  PROVE  Message(q)' = Message(q) /\ Subject(q)' = Subject(q)
<1>1. req[q].message \in DOMAIN sent
  BY Subjects
<1>2. sent'[req'[q].message] = sent[req[q].message]
  BY <1>1 DEF Grows
<1> QED
  BY <1>2 DEF Message, Subject

-----------------------------------------------------------------------------
(* A code and a refresh token are taken by one request *)

HeldBefore ==
  \A q \in Requests : Holds(q)' => Holds(q) /\ Subject(q)' = Subject(q)

LEMMA HeldQuiet ==
  ASSUME Base, Grows, NEW r \in Requests, Onward(r), req[r].pc # "consume"
  PROVE  HeldBefore
<1> SUFFICES ASSUME NEW q \in Requests, Holds(q)'
             PROVE  Holds(q) /\ Subject(q)' = Subject(q)
  BY DEF HeldBefore
<1>1. req'[q].pc \in {"start", "found", "record", "access"}
  BY DEF Holds
<1>2. CASE q # r
  <2>1. req'[q] = req[q]
    BY <1>2 DEF Onward
  <2>2. Holds(q) /\ req[q].pc # "idle"
    BY <1>1, <2>1 DEF Holds
  <2> QED
    BY <2>1, <2>2, SubjectKept
<1>3. CASE q = r
  <2>1. req'[r].message = req[r].message /\ <<req[r].pc, req'[r].pc>> \in Paths
    BY <1>1, <1>3 DEF Onward
  <2>2. req[r].pc \in {"start", "found", "record", "access"}
    BY <1>1, <1>3, <2>1 DEF Paths
  <2> QED
    BY <1>3, <2>1, <2>2, SubjectKept DEF Holds
<1> QED
  BY <1>2, <1>3

\* When r starts to hold what it presents, nobody else held it.
LEMMA HeldOnce ==
  ASSUME Base, Grows, NEW r \in Requests, Onward(r), req[r].pc = "consume"
  PROVE  \A q \in Requests : Holds(q)' =>
           Subject(q)' = Subject(q) /\ (Holds(q) \/ q = r)
<1> SUFFICES ASSUME NEW q \in Requests, Holds(q)'
             PROVE  Subject(q)' = Subject(q) /\ (Holds(q) \/ q = r)
  OBVIOUS
<1>1. req'[q].pc \in {"start", "found", "record", "access"}
  BY DEF Holds
<1>2. CASE q # r
  <2>1. req'[q] = req[q]
    BY <1>2 DEF Onward
  <2>2. Holds(q) /\ req[q].pc # "idle"
    BY <1>1, <2>1 DEF Holds
  <2> QED
    BY <2>1, <2>2, SubjectKept
<1>3. CASE q = r
  <2>1. req'[r].message = req[r].message
    BY <1>1, <1>3 DEF Onward
  <2> QED
    BY <1>3, <2>1, SubjectKept
<1> QED
  BY <1>2, <1>3

LEMMA TakenKept ==
  ASSUME TakenOnce, HeldBefore, codes' \subseteq codes, refresh' \subseteq refresh, tokens' = tokens
  PROVE  TakenOnce'
<1>1. \A q \in Requests : Holds(q)' => Holds(q) /\ Subject(q)' = Subject(q)
  BY DEF HeldBefore
<1>2. ASSUME NEW q \in Requests, NEW r \in Requests, Holds(q)', Holds(r)',
             Subject(q)' = Subject(r)'
      PROVE  q = r
  BY <1>1, <1>2 DEF TakenOnce
<1>3. ASSUME NEW r \in Requests, Holds(r)'
      PROVE  /\ Subject(r)' \notin codes' \cup refresh'
             /\ \A i \in DOMAIN tokens' : tokens'[i].from # Subject(r)'
  BY <1>1, <1>3 DEF TakenOnce
<1>4. \A i \in DOMAIN tokens' : tokens'[i].from \notin codes' \cup refresh'
  BY DEF TakenOnce
<1>5. ExchangedOnce'
  BY DEF TakenOnce, ExchangedOnce
<1> QED
  BY <1>2, <1>3, <1>4, <1>5 DEF TakenOnce

LEMMA ConsumedOnce ==
  ASSUME Base, TakenOnce, Grows, NEW r \in Requests, Onward(r), req[r].pc = "consume",
         Subject(r) \in codes \cup refresh, tokens' = tokens,
         codes' \subseteq codes, refresh' \subseteq refresh,
         Subject(r) \notin codes' \cup refresh'
  PROVE  TakenOnce'
<1>1. \A q \in Requests : Holds(q)' => Subject(q)' = Subject(q) /\ (Holds(q) \/ q = r)
  BY HeldOnce
<1>2. /\ \A q \in Requests : Holds(q) => Subject(q) # Subject(r)
      /\ \A i \in DOMAIN tokens : tokens[i].from # Subject(r)
  BY DEF TakenOnce
<1>3. ASSUME NEW q \in Requests, NEW p \in Requests, Holds(q)', Holds(p)',
             Subject(q)' = Subject(p)'
      PROVE  q = p
  BY <1>1, <1>2, <1>3 DEF TakenOnce
<1>4. ASSUME NEW q \in Requests, Holds(q)'
      PROVE  /\ Subject(q)' \notin codes' \cup refresh'
             /\ \A i \in DOMAIN tokens' : tokens'[i].from # Subject(q)'
  <2>1. CASE q = r
    BY <1>1, <1>2, <1>4, <2>1
  <2>2. CASE q # r
    BY <1>1, <1>4, <2>2 DEF TakenOnce
  <2> QED
    BY <2>1, <2>2
<1>5. \A i \in DOMAIN tokens' : tokens'[i].from \notin codes' \cup refresh'
  BY DEF TakenOnce
<1>6. ExchangedOnce'
  BY DEF TakenOnce, ExchangedOnce
<1> QED
  BY <1>3, <1>4, <1>5, <1>6 DEF TakenOnce

LEMMA AuthorizeTakes ==
  ASSUME Base, TakenOnce, Grows,
         NEW c \in Codes, NEW h \in Holders, NEW renew \in BOOLEAN, Authorize(c, h, renew)
  PROVE  TakenOnce'
<1>1. /\ c \notin DOMAIN granted /\ codes' = codes \cup {c}
      /\ UNCHANGED <<refresh, tokens, req, sent>>
  BY DEF Authorize, proofs
<1>2. \A q \in Requests : (Holds(q)' <=> Holds(q)) /\ Subject(q)' = Subject(q)
  BY <1>1 DEF Holds, Subject, Message
<1>3. \A i \in DOMAIN tokens : tokens[i].from # c
  BY <1>1 DEF Base, TokensLinked
<1>4. ASSUME NEW q \in Requests, Holds(q)
      PROVE  Subject(q) # c
  <2>1. req[q].pc # "idle" /\ HandledBy(req[q])
    BY <1>4 DEF Holds, Base
  <2>2. Message(q).grant \in {"code", "refresh"}
    BY <1>4, <2>1 DEF HandledBy, Holds, Message
  <2>3. Message(q).grant = "refresh" => Subject(q) \in Nat
    <3>1. DOMAIN tokens \subseteq Nat
      BY TypeFacts DEF Base
    <3>2. Message(q).grant = "refresh" => Subject(q) \in DOMAIN tokens
      BY <2>1, Subjects
    <3> QED
      BY ONLY <3>1, <3>2
  <2>4. Message(q).grant = "code" => Subject(q) \in DOMAIN granted
    BY <2>1, Subjects
  <2>5. c \notin Nat
    OBVIOUS
  <2> QED
    BY <1>1, <2>2, <2>3, <2>4, <2>5
<1>5. ASSUME NEW q \in Requests, Holds(q)'
      PROVE  /\ Subject(q)' \notin codes' \cup refresh'
             /\ \A i \in DOMAIN tokens' : tokens'[i].from # Subject(q)'
  BY <1>1, <1>2, <1>4, <1>5 DEF TakenOnce
<1>6. ASSUME NEW q \in Requests, NEW r \in Requests, Holds(q)', Holds(r)',
             Subject(q)' = Subject(r)'
      PROVE  q = r
  BY <1>2, <1>6 DEF TakenOnce
<1>7. \A i \in DOMAIN tokens' : tokens'[i].from \notin codes' \cup refresh'
  BY <1>1, <1>3 DEF TakenOnce
<1>8. ExchangedOnce'
  BY <1>1 DEF TakenOnce, ExchangedOnce
<1> QED
  BY <1>5, <1>6, <1>7, <1>8 DEF TakenOnce

LEMMA IssueAccessTakes ==
  ASSUME Base, TakenOnce, Grows, NEW r \in Requests, Onward(r), IssueAccess(r)
  PROVE  TakenOnce'
<1>1. PICK i, c : i = Len(tokens) + 1 /\ c = Subject(r)
  OBVIOUS
<1>2. /\ UNCHANGED <<codes, refresh>> /\ req[r].pc = "access" /\ req'[r].pc \in {"idle", "refresh"}
      /\ tokens' = Append(tokens, [session |-> req[r].session, from |-> c,
                                   expires |-> now + AccessLife])
  BY <1>1, IssueAccessTo DEF IssueAccess, Base
<1>3. /\ \A x \in DOMAIN tokens : tokens'[x] = tokens[x]
      /\ \A x \in DOMAIN tokens' : x = i \/ x \in DOMAIN tokens
      /\ tokens'[i].from = c
  <2>1. tokens \in Seq(TokenRows) /\ DOMAIN tokens = 1..Len(tokens) /\ Len(tokens) \in Nat
    BY TypeFacts DEF Base
  <2>2. PICK e : e = [session |-> req[r].session, from |-> c, expires |-> now + AccessLife]
    OBVIOUS
  <2>3. tokens' = Append(tokens, e) /\ e.from = c
    BY <1>2, <2>2
  <2>4. tokens \in Seq(TokenRows \cup {e}) /\ e \in TokenRows \cup {e}
    BY <2>1, ElementOfSeq, SeqDef
  <2>5. DOMAIN tokens' = 1..(Len(tokens) + 1) /\ tokens'[Len(tokens) + 1] = e
        /\ \A x \in 1..Len(tokens) : tokens'[x] = tokens[x]
    BY <2>3, <2>4, AppendGrows
  <2> QED
    BY <1>1, <2>1, <2>3, <2>5
<1>4. HeldBefore /\ ~ Holds(r)'
  <2>1. req[r].pc # "consume"
    BY <1>2
  <2> QED
    BY <1>2, <2>1, HeldQuiet DEF Holds
<1>5. /\ Holds(r) /\ c \notin codes \cup refresh
      /\ \A x \in DOMAIN tokens : tokens[x].from # c
  BY <1>1, <1>2 DEF Holds, TakenOnce
<1>6. \A q \in Requests : Holds(q)' => Holds(q) /\ Subject(q)' = Subject(q) /\ Subject(q) # c
  BY <1>1, <1>4, <1>5 DEF HeldBefore, TakenOnce
<1>7. ASSUME NEW q \in Requests, Holds(q)'
      PROVE  /\ Subject(q)' \notin codes' \cup refresh'
             /\ \A x \in DOMAIN tokens' : tokens'[x].from # Subject(q)'
  BY <1>2, <1>3, <1>6, <1>7 DEF TakenOnce
<1>8. ASSUME NEW q \in Requests, NEW p \in Requests, Holds(q)', Holds(p)',
             Subject(q)' = Subject(p)'
      PROVE  q = p
  BY <1>6, <1>8 DEF TakenOnce
<1>9. \A x \in DOMAIN tokens' : tokens'[x].from \notin codes' \cup refresh'
  BY <1>2, <1>3, <1>5 DEF TakenOnce
<1>10. ExchangedOnce'
  BY <1>3, <1>5 DEF TakenOnce, ExchangedOnce
<1> QED
  BY <1>7, <1>8, <1>9, <1>10 DEF TakenOnce

LEMMA IssueRefreshTakes ==
  ASSUME Base, TakenOnce, NewTokens, Grows, NEW r \in Requests, Onward(r), IssueRefresh(r)
  PROVE  TakenOnce'
<1>1. PICK i : i = req[r].id
  OBVIOUS
<1>2. /\ UNCHANGED <<codes, tokens>> /\ req[r].pc = "refresh" /\ refresh' = refresh \cup {i}
  BY <1>1 DEF IssueRefresh
<1>3. <<"refresh", i>> \notin answered /\ i \in DOMAIN tokens /\ i \in Ids
  <2>1. HandledBy(req[r])
    BY DEF Base
  <2>2. i \in DOMAIN tokens
    BY <1>1, <1>2, <2>1 DEF HandledBy
  <2>3. i \in Ids
    BY <2>2, TypeFacts DEF Base, Bounds
  <2> QED
    BY <1>1, <1>2, <2>2, <2>3 DEF NewTokens
<1>4. HeldBefore
  BY <1>2, HeldQuiet
<1>5. \A x \in DOMAIN tokens : tokens[x].from # i
  BY <1>3 DEF Base, TokensLinked
<1>6. ASSUME NEW q \in Requests, Holds(q)'
      PROVE  Holds(q) /\ Subject(q)' = Subject(q) /\ Subject(q) # i
  <2>1. Holds(q) /\ Subject(q)' = Subject(q)
    BY <1>4, <1>6 DEF HeldBefore
  <2>2. req[q].pc # "idle" /\ HandledBy(req[q])
    BY <2>1 DEF Holds, Base
  <2>3. Message(q).grant \in {"code", "refresh"}
    BY <2>1, <2>2 DEF HandledBy, Holds, Message
  <2>4. Message(q).grant = "refresh" => <<"refresh", Subject(q)>> \in answered
    BY <2>2, Subjects
  <2>5. Message(q).grant = "code" => Subject(q) \notin Ids
    <3>1. Message(q).grant = "code" => Subject(q) \in Codes
      BY <2>2, Subjects
    <3> QED
      BY <3>1
  <2> QED
    BY <1>3, <2>1, <2>3, <2>4, <2>5
<1>7. ASSUME NEW q \in Requests, Holds(q)'
      PROVE  /\ Subject(q)' \notin codes' \cup refresh'
             /\ \A x \in DOMAIN tokens' : tokens'[x].from # Subject(q)'
  BY <1>2, <1>6, <1>7 DEF TakenOnce
<1>8. ASSUME NEW q \in Requests, NEW p \in Requests, Holds(q)', Holds(p)',
             Subject(q)' = Subject(p)'
      PROVE  q = p
  BY <1>6, <1>8 DEF TakenOnce
<1>9. \A x \in DOMAIN tokens' : tokens'[x].from \notin codes' \cup refresh'
  BY <1>2, <1>5 DEF TakenOnce
<1>10. ExchangedOnce'
  <2>1. tokens' = tokens
    BY ONLY <1>2
  <2>2. ExchangedOnce
    BY ONLY TakenOnce, Zenon DEF TakenOnce
  <2> QED
    BY ONLY <2>1, <2>2 DEF ExchangedOnce
<1> QED
  BY <1>7, <1>8, <1>9, <1>10 DEF TakenOnce

\* The steps that leave the grants alone.
Quiet(r) ==
  \/ \E m \in MessageRows : Send(r, m)
  \/ \E k \in DOMAIN sent : Redeliver(r, k)
  \/ FindUsed(r) \/ FindSession(r) \/ Verify(r) \/ FindSessionAgain(r) \/ IssueFails(r)
  \/ Punish(r) \/ Revoke(r) \/ RequestLost(r) \/ CheckProof(r) \/ ClaimProof(r)

LEMMA QuietFacts ==
  ASSUME NEW r \in Requests, Quiet(r)
  PROVE  UNCHANGED <<granted, codes, records, tokens, refresh, used, answered, now>>
BY DEF Quiet, Send, Redeliver, FindUsed, FindSession, Verify, FindSessionAgain, IssueFails,
       Punish, Revoke, Drop, RequestLost, CheckProof, ClaimProof, Begin, database, history

\* Other requests stay as they are, and the quiet steps do not take what is presented.
LEMMA QuietHeld ==
  ASSUME Base, Grows, NEW r \in Requests, Onward(r), Quiet(r)
  PROVE  HeldBefore
<1>1. CASE req[r].pc # "consume"
  BY <1>1, HeldQuiet
<1>2. CASE req[r].pc = "consume"
  <2>1. RequestLost(r)
    BY <1>2 DEF Quiet, Send, Redeliver, Begin, FindUsed, FindSession, Verify, FindSessionAgain,
                IssueFails, Punish, Revoke, CheckProof, ClaimProof
  <2>2. req'[r].pc = "idle"
    BY <2>1, EndTo DEF RequestLost, Base
  <2>3. ~ Holds(r)'
    BY <2>2 DEF Holds
  <2>4. \A q \in Requests : Holds(q)' => Subject(q)' = Subject(q) /\ (Holds(q) \/ q = r)
    BY <1>2, HeldOnce
  <2> QED
    BY <2>3, <2>4 DEF HeldBefore
<1> QED
  BY <1>1, <1>2

LEMMA TakenNext ==
  ASSUME Base, TakenOnce, NewTokens, Next
  PROVE  TakenOnce'
<1>1. Grows
  BY BaseGrows
<1>2. CASE OtherStep
  <2>1. CASE CreateNonce \/ Tick
    <3>1. UNCHANGED <<codes, refresh, tokens, req, sent>>
      BY <2>1 DEF CreateNonce, Tick, database, proofs
    <3>2. HeldBefore
      BY <3>1 DEF HeldBefore, Holds, Subject, Message
    <3> QED
      BY <3>1, <3>2, TakenKept
  <2> QED
    BY <1>1, <1>2, <2>1, AuthorizeTakes DEF OtherStep
<1>3. ASSUME NEW r \in Requests, RequestStep(r)
      PROVE  TakenOnce'
  <2>1. Onward(r)
    BY <1>3, OnwardNext
  <2>2. CASE Quiet(r)
    BY <1>1, <2>1, <2>2, QuietHeld, QuietFacts, TakenKept
  <2>3. CASE ConsumeCode(r) \/ ConsumeRefresh(r)
    <3>1. /\ req[r].pc = "consume" /\ tokens' = tokens
          /\ codes' \subseteq codes /\ refresh' \subseteq refresh
      BY <2>3 DEF ConsumeCode, ConsumeRefresh
    <3>2. CASE Holds(r)'
      <4>1. /\ Message(r).grant \in {"code", "refresh"}
            /\ Message(r).grant = "code" => Subject(r) \in codes /\ Subject(r) \notin codes'
            /\ Message(r).grant = "refresh" => Subject(r) \in refresh /\ Subject(r) \notin refresh'
        <5>1. CASE ConsumeCode(r)
          <6>1. ~ End(r)
            BY <3>2, EndTo DEF Holds, Base
          <6> QED
            BY <5>1, <6>1 DEF ConsumeCode, Takes, FoundCode
        <5>2. CASE ConsumeRefresh(r)
          <6>1. ~ Go(r, "drop replay")
            BY <3>2, GoTo DEF Holds, Base, SameRow, Steps
          <6> QED
            BY <5>2, <6>1 DEF ConsumeRefresh, Takes, FoundRefresh
        <5> QED
          BY <2>3, <5>1, <5>2
      <4>2. Message(r).grant = "code" => Subject(r) \notin refresh
        <5>1. Message(r).grant = "code" => Subject(r) \in Codes
          BY <3>1, Subjects
        <5>2. refresh \subseteq Nat
          BY TypeFacts DEF Base, TypeOK
        <5> QED
          BY <5>1, <5>2
      <4>3. Message(r).grant = "refresh" => Subject(r) \notin codes
        <5>1. Message(r).grant = "refresh" => Subject(r) \in DOMAIN tokens
          BY <3>1, Subjects
        <5>2. codes \subseteq Codes
          BY DEF Base, TypeOK
        <5>3. DOMAIN tokens \subseteq Nat
          BY TypeFacts DEF Base
        <5> QED
          BY <5>1, <5>2, <5>3
      <4> QED
        BY <1>1, <2>1, <3>1, <4>1, <4>2, <4>3, ConsumedOnce
    <3>3. CASE ~ Holds(r)'
      <4>1. HeldBefore
        BY <1>1, <2>1, <3>1, <3>3, HeldOnce DEF HeldBefore
      <4> QED
        BY <3>1, <4>1, TakenKept
    <3> QED
      BY <3>2, <3>3
  <2>4. CASE StartSession(r) \/ RecordUsed(r)
    <3>1. UNCHANGED <<codes, refresh, tokens>> /\ req[r].pc # "consume"
      BY <2>4 DEF StartSession, RecordUsed
    <3> QED
      BY <1>1, <2>1, <3>1, HeldQuiet, TakenKept
  <2>5. CASE IssueAccess(r)
    BY <1>1, <2>1, <2>5, IssueAccessTakes
  <2>6. CASE IssueRefresh(r)
    BY <1>1, <2>1, <2>6, IssueRefreshTakes
  <2> QED
    BY <1>3, <2>2, <2>3, <2>4, <2>5, <2>6 DEF RequestStep, Quiet
<1> QED
  BY <1>2, <1>3, Steppings

LEMMA NewTokensNext ==
  ASSUME Base, NewTokens, Next
  PROVE  NewTokens'
<1>1. TypeOK
  BY DEF Base
<1>2. CASE OtherStep
  BY <1>2 DEF OtherStep, Authorize, CreateNonce, Tick, NewTokens, history
<1>3. ASSUME NEW r \in Requests, RequestStep(r)
      PROVE  NewTokens'
  <2>1. Onward(r)
    BY <1>3, OnwardNext
  <2>2. CASE IssueAccess(r)
    <3>1. /\ \A q \in Requests : q # r => req'[q] = req[q]
          /\ \/ req'[r].pc = "idle"
             \/ /\ req'[r].message = req[r].message /\ req'[r].pc = "refresh"
                /\ req'[r].id = Len(tokens) + 1 /\ answered' = answered
      BY <1>1, <2>2, IssueAccessTo
    <3>2. \A t : <<"refresh", t>> \in answered' => <<"refresh", t>> \in answered
      BY <2>2 DEF IssueAccess
    <3>3. \A t : <<"refresh", t>> \in answered => t \in DOMAIN tokens
      BY DEF Base, AnswersLinked
    <3>4. \A q \in Requests : req[q].pc = "refresh" => req[q].id \in DOMAIN tokens
      BY DEF Base, HandledBy
    <3>5. Len(tokens) + 1 \notin DOMAIN tokens
      BY <1>1, TypeFacts
    <3> QED
      BY <3>1, <3>2, <3>3, <3>4, <3>5 DEF NewTokens
  <2>3. CASE IssueRefresh(r)
    <3>1. /\ \A q \in Requests : q # r => req'[q] = req[q]
          /\ req'[r].pc = "idle" /\ req[r].pc = "refresh"
      BY <1>1, <2>3, EndTo DEF IssueRefresh
    <3>2. \A t : <<"refresh", t>> \in answered' => <<"refresh", t>> \in answered \/ t = req[r].id
      BY <2>3 DEF IssueRefresh
    <3> QED
      BY <3>1, <3>2 DEF NewTokens
  <2>4. CASE ~ IssueAccess(r) /\ ~ IssueRefresh(r)
    <3>1. answered' = answered
      BY <1>3, <2>4, QuietFacts DEF RequestStep, Quiet, ConsumeCode, StartSession, ConsumeRefresh,
         RecordUsed, history
    <3>2. req'[r].pc # "refresh"
      <4>1. CASE req[r].pc # "access"
        BY <2>1, <4>1 DEF Onward, Paths
      <4>2. CASE req[r].pc = "access"
        <5>1. RequestLost(r) \/ IssueFails(r)
          BY <1>3, <2>4, <4>2 DEF RequestStep, Send, Redeliver, Begin, FindUsed, FindSession, Verify,
             ConsumeCode, StartSession, ConsumeRefresh, FindSessionAgain, RecordUsed, Punish, Revoke,
             CheckProof, ClaimProof
        <5>2. "drop failed" \in Steps
          BY DEF Steps
        <5> QED
          BY <1>1, <5>1, <5>2, EndTo, GoTo DEF RequestLost, IssueFails, SameRow
      <4> QED
        BY <4>1, <4>2
    <3> QED
      BY <2>1, <3>1, <3>2 DEF Onward, NewTokens
  <2> QED
    BY <2>2, <2>3, <2>4
<1> QED
  BY <1>2, <1>3, Steppings

Exchanging == Base /\ TakenOnce /\ NewTokens

LEMMA ExchangingInit == Init => Exchanging
<1> SUFFICES ASSUME Init
             PROVE  Exchanging
  OBVIOUS
<1>1. DOMAIN tokens = {}
  BY EmptySeq DEF Init
<1>2. \A r \in Requests : req[r].pc = "idle"
  BY DEF Init, NoRequest
<1> QED
  BY <1>1, <1>2, InitBase DEF Exchanging, TakenOnce, NewTokens, ExchangedOnce, Holds

LEMMA ExchangingNext == Exchanging /\ [Next]_vars => Exchanging'
<1>1. ASSUME Exchanging, UNCHANGED vars
      PROVE  Exchanging'
  <2>1. UNCHANGED <<codes, tokens, refresh, req, sent, answered>>
    BY <1>1 DEF vars, database, proofs, history
  <2>2. TakenOnce => TakenOnce'
    BY <2>1 DEF TakenOnce, Holds, Subject, Message, ExchangedOnce
  <2>3. NewTokens => NewTokens'
    BY <2>1 DEF NewTokens
  <2> QED
    BY <1>1, <2>2, <2>3, BaseStutters DEF Exchanging
<1> QED
  BY <1>1, BaseGrows, TakenNext, NewTokensNext DEF Exchanging

LEMMA ExchangingAlways == Spec => []Exchanging
  BY ExchangingInit, ExchangingNext, PTL DEF Spec

\* ExchangedOnce: a code and a refresh token are exchanged for one token set each, however
\* many requests present them at the same time.
THEOREM GrantsExchangedOnce == Spec => []ExchangedOnce
<1>1. Exchanging => ExchangedOnce
  BY DEF Exchanging, TakenOnce
<1> QED
  BY <1>1, ExchangingAlways, PTL

-----------------------------------------------------------------------------
(* A refresh token that was exchanged is remembered *)

\* Past its lookups, a request still handles the message that it came with.
LEMMA CameFrom ==
  ASSUME Base, Grows, NEW r \in Requests, Onward(r), NEW q \in Requests,
         req'[q].pc \notin {"idle", "used", "session", "dpop", "proof"}
  PROVE  /\ req'[q].message = req[q].message /\ req[q].pc # "idle"
         /\ Message(q)' = Message(q) /\ Subject(q)' = Subject(q)
         /\ req'[q] = req[q] \/ (q = r /\ <<req[q].pc, req'[q].pc>> \in Paths)
<1>1. /\ req'[q].message = req[q].message
      /\ req'[q] = req[q] \/ (q = r /\ <<req[q].pc, req'[q].pc>> \in Paths)
  BY DEF Onward
<1>2. req[q].pc # "idle"
  BY <1>1 DEF Paths
<1> QED
  BY <1>1, <1>2, SubjectKept

LEMMA RememberedNext ==
  ASSUME Base, TakenOnce, NewTokens, Remembered, Next
  PROVE  Remembered'
<1>1. Grows /\ TypeOK
  BY BaseGrows DEF Base
<1>2. ASSUME used' = used
      PROVE  \A i \in DOMAIN tokens : tokens[i].from \in Ids =>
               /\ tokens[i].from \in DOMAIN used'
               /\ used'[tokens[i].from] = records'[tokens[i].session].expires
  BY <1>1, <1>2 DEF Base, TokensLinked, Grows, Remembered
<1>3. CASE OtherStep
  <2>1. UNCHANGED <<records, tokens, refresh, used, req, sent>>
    BY <1>3 DEF OtherStep, Authorize, CreateNonce, Tick, database, proofs
  <2> QED
    BY <2>1 DEF Remembered, Message, Subject
<1>4. ASSUME NEW r \in Requests, RequestStep(r)
      PROVE  Remembered'
  <2>1. Onward(r)
    BY <1>4, OnwardNext
  <2>2. CASE RecordUsed(r) /\ Subject(r) \notin DOMAIN used
    <3>1. PICK i, s : i = Subject(r) /\ s = req[r].session
      OBVIOUS
    <3>2. /\ req[r].pc = "record" /\ used' = Put(used, i, records[s].expires) /\ Go(r, "access")
          /\ UNCHANGED <<records, tokens, refresh, sent>> /\ i \notin DOMAIN used
      BY <2>2, <3>1 DEF RecordUsed, UsedUntil, proofs
    <3>3. /\ req'[r].pc = "access" /\ req'[r].session = s
      BY <1>1, <3>1, <3>2, GoTo DEF SameRow, Steps
    <3>4. /\ DOMAIN used' = DOMAIN used \cup {i} /\ used'[i] = records[s].expires
          /\ \A x \in DOMAIN used : used'[x] = used[x]
      BY <3>2 DEF Put
    <3>5. Holds(r) /\ i \notin refresh
      BY <3>1, <3>2 DEF Holds, TakenOnce
    <3>6. ASSUME NEW q \in Requests, req'[q].pc = "access", Message(q)'.grant = "refresh"
          PROVE  Subject(q)' \in DOMAIN used' /\ used'[Subject(q)'] = records'[req'[q].session].expires
      <4>1. Subject(q)' = Subject(q) /\ Message(q)' = Message(q)
        BY <1>1, <2>1, <3>6, CameFrom
      <4>2. CASE q = r
        BY <3>1, <3>2, <3>3, <3>4, <4>1, <4>2
      <4>3. CASE q # r
        <5>1. req'[q] = req[q]
          BY <2>1, <4>3 DEF Onward
        <5>2. Subject(q) \in DOMAIN used /\ used[Subject(q)] = records[req[q].session].expires
          BY <3>6, <4>1, <5>1 DEF Remembered
        <5> QED
          BY <3>2, <3>4, <4>1, <5>1, <5>2
      <4> QED
        BY <4>2, <4>3
    <3>7. ASSUME NEW q \in Requests, req'[q].pc \in {"found", "record"}
          PROVE  Subject(q)' \notin DOMAIN used'
      <4>1. q # r
        BY <3>3, <3>7
      <4>2. req'[q] = req[q] /\ Subject(q)' = Subject(q)
        BY <1>1, <2>1, <3>7, <4>1, CameFrom
      <4>3. Subject(q) # i /\ Subject(q) \notin DOMAIN used
        BY <3>1, <3>5, <3>7, <4>1, <4>2 DEF TakenOnce, Remembered, Holds
      <4> QED
        BY <3>4, <4>2, <4>3
    <3>8. \A x \in DOMAIN tokens : tokens[x].from \in Ids =>
            /\ tokens[x].from \in DOMAIN used'
            /\ used'[tokens[x].from] = records[tokens[x].session].expires
      BY <3>4 DEF Remembered
    <3>9. refresh' \cap DOMAIN used' = {}
      BY <3>2, <3>4, <3>5 DEF Remembered
    <3> QED
      BY <3>2, <3>6, <3>7, <3>8, <3>9 DEF Remembered
  <2>3. CASE ~ (RecordUsed(r) /\ Subject(r) \notin DOMAIN used)
    <3>1. used' = used
      BY <1>4, <2>3, QuietFacts DEF RequestStep, Quiet, ConsumeCode, StartSession, ConsumeRefresh,
         RecordUsed, IssueAccess, IssueRefresh
    <3>2. ASSUME NEW q \in Requests, req'[q].pc = "access", Message(q)'.grant = "refresh"
          PROVE  Subject(q)' \in DOMAIN used' /\ used'[Subject(q)'] = records'[req'[q].session].expires
      <4>1. /\ Subject(q)' = Subject(q) /\ Message(q)' = Message(q)
            /\ req'[q] = req[q] \/ (q = r /\ <<req[q].pc, req'[q].pc>> \in Paths)
        BY <1>1, <2>1, <3>2, CameFrom
      <4>2. req'[q] = req[q]
        <5>1. CASE req'[q] # req[q]
          <6>1. req[r].pc \in {"start", "record"} /\ q = r /\ req'[r].pc = "access"
            <7>1. \A a : <<a, "access">> \in Paths => a \in {"start", "record"}
              BY DEF Paths
            <7>2. q = r /\ <<req[q].pc, req'[q].pc>> \in Paths /\ req'[q].pc = "access"
              BY ONLY <3>2, <4>1, <5>1, Zenon
            <7> QED
              BY ONLY <7>1, <7>2, Zenon
          <6>2. StartSession(r) \/ RecordUsed(r) \/ FindSession(r)
            BY <1>1, <1>4, <6>1, EndTo DEF RequestStep, Send, Redeliver, Begin, FindUsed, FindSession,
               Verify, ConsumeCode, ConsumeRefresh, FindSessionAgain, IssueAccess, IssueRefresh,
               IssueFails, Punish, Revoke, RequestLost, CheckProof, ClaimProof
          <6>3. CASE StartSession(r)
            <7>1. req[r].pc = "start" /\ HandledBy(req[r])
              BY <6>3 DEF StartSession, Base
            <7>2. Message(r).grant = "code"
              BY <7>1 DEF HandledBy, Message
            <7> QED
              BY <3>2, <4>1, <6>1, <7>2
          <6>4. CASE RecordUsed(r)
            <7>1. Go(r, "drop replay")
              BY <2>3, <6>4 DEF RecordUsed
            <7>2. req'[r].pc = "drop replay"
              BY <1>1, <7>1, GoTo DEF SameRow, Steps
            <7> QED
              BY <6>1, <7>2
          <6> QED
            BY <6>1, <6>2, <6>3, <6>4 DEF FindSession
        <5> QED
          BY <5>1
      <4>3. Subject(q) \in DOMAIN used /\ used[Subject(q)] = records[req[q].session].expires
        BY <3>2, <4>1, <4>2 DEF Remembered
      <4>4. req[q].session \in DOMAIN records
        <5>1. HandledBy(req[q]) /\ req[q].pc = "access"
          BY <3>2, <4>2 DEF Base
        <5> QED
          BY <5>1 DEF HandledBy
      <4> QED
        BY <1>1, <3>1, <4>1, <4>2, <4>3, <4>4 DEF Grows
    <3>3. ASSUME NEW q \in Requests, req'[q].pc \in {"found", "record"}
          PROVE  Subject(q)' \notin DOMAIN used'
      <4>1. /\ Subject(q)' = Subject(q)
            /\ req'[q] = req[q] \/ (q = r /\ <<req[q].pc, req'[q].pc>> \in Paths)
        BY <1>1, <2>1, <3>3, CameFrom
      <4>2. CASE req[q].pc \in {"found", "record"}
        BY <3>1, <4>1, <4>2 DEF Remembered
      <4>3. CASE req[q].pc \notin {"found", "record"}
        <5>1. q = r /\ req[r].pc = "consume" /\ req'[r].pc = "found"
          BY <3>3, <4>1, <4>3 DEF Paths
        <5>2. ConsumeRefresh(r) \/ ConsumeCode(r)
          BY <1>1, <1>4, <5>1, EndTo DEF RequestStep, Send, Redeliver, Begin, FindUsed, FindSession,
             Verify, StartSession, RecordUsed, FindSessionAgain, IssueAccess, IssueRefresh,
             IssueFails, Punish, Revoke, RequestLost, CheckProof, ClaimProof
        <5>3. ConsumeRefresh(r) /\ Go(r, "found")
          BY <1>1, <5>1, <5>2, EndTo, GoTo DEF ConsumeCode, ConsumeRefresh, SameRow, Steps
        <5>4. Subject(r) \in refresh
          <6>1. ~ Go(r, "drop replay")
            BY <1>1, <5>1, GoTo DEF SameRow, Steps
          <6> QED
            BY <5>3, <6>1 DEF ConsumeRefresh, Takes, FoundRefresh
        <5> QED
          BY <3>1, <4>1, <5>1, <5>4 DEF Remembered
      <4> QED
        BY <4>2, <4>3
    <3>4. ASSUME NEW i \in DOMAIN tokens', tokens'[i].from \in Ids
          PROVE  /\ tokens'[i].from \in DOMAIN used'
                 /\ used'[tokens'[i].from] = records'[tokens'[i].session].expires
      <4>1. CASE i \in DOMAIN tokens
        BY <1>1, <1>2, <3>1, <3>4, <4>1 DEF Grows
      <4>2. CASE i \notin DOMAIN tokens
        <5>1. IssueAccess(r)
          <6>1. tokens' # tokens
            BY <4>2
          <6> QED
            BY <1>4, <6>1, QuietFacts DEF RequestStep, Quiet, ConsumeCode, StartSession,
               ConsumeRefresh, RecordUsed, IssueRefresh
        <5>2. PICK c, s : c = Subject(r) /\ s = req[r].session
          OBVIOUS
        <5>3. /\ tokens'[i].from = c /\ tokens'[i].session = s
          <6>1. tokens \in Seq(TokenRows) /\ DOMAIN tokens = 1..Len(tokens) /\ Len(tokens) \in Nat
            BY <1>1, TypeFacts
          <6>2. PICK e : e = [session |-> s, from |-> c, expires |-> now + AccessLife]
            OBVIOUS
          <6>3. tokens' = Append(tokens, e) /\ e.from = c /\ e.session = s
            BY <5>1, <5>2, <6>2 DEF IssueAccess
          <6>4. tokens \in Seq(TokenRows \cup {e}) /\ e \in TokenRows \cup {e}
            BY <6>1, ElementOfSeq, SeqDef
          <6>5. DOMAIN tokens' = 1..(Len(tokens) + 1) /\ tokens'[Len(tokens) + 1] = e
            BY <6>3, <6>4, AppendGrows
          <6> QED
            BY <4>2, <6>1, <6>3, <6>5
        <5>4. req[r].pc = "access" /\ HandledBy(req[r]) /\ records' = records
          BY <5>1 DEF IssueAccess, Base
        <5>5. Message(r).grant \in {"code", "refresh"}
          BY <5>4 DEF HandledBy, Message
        <5>6. Message(r).grant = "code" => c \in Codes
          BY <5>2, <5>4, Subjects
        <5>7. Message(r).grant = "refresh"
          BY <3>4, <5>3, <5>5, <5>6
        <5> QED
          BY <3>1, <5>2, <5>3, <5>4, <5>7 DEF Remembered
      <4> QED
        BY <4>1, <4>2
    <3>5. refresh' \cap DOMAIN used' = {}
      <4>1. CASE IssueRefresh(r)
        <5>1. refresh' = refresh \cup {req[r].id} /\ req[r].pc = "refresh"
          BY <4>1 DEF IssueRefresh
        <5>2. req[r].id \notin DOMAIN used
          BY <5>1 DEF NewTokens, Base, AnswersLinked
        <5> QED
          BY <3>1, <5>1, <5>2 DEF Remembered
      <4>2. CASE ~ IssueRefresh(r)
        <5>1. refresh' \subseteq refresh
          BY <1>4, <4>2, QuietFacts DEF RequestStep, Quiet, ConsumeCode, StartSession,
             ConsumeRefresh, RecordUsed, IssueAccess
        <5> QED
          BY <3>1, <5>1 DEF Remembered
      <4> QED
        BY <4>1, <4>2
    <3> QED
      BY <3>2, <3>3, <3>4, <3>5 DEF Remembered
  <2> QED
    BY <2>2, <2>3
<1> QED
  BY <1>3, <1>4, Steppings

-----------------------------------------------------------------------------
(* What it takes to lose a session *)

\* A request passes the check of its proof once, and no other request did so with the proof.
LEMMA NewlyActive ==
  ASSUME Base, Grows, NEW r \in Requests, RequestStep(r), Onward(r), NEW q \in Requests, Active(q)'
  PROVE  /\ req'[q].message = req[q].message
         /\ \/ Active(q)
            \/ q = r /\ req[r].pc = "dpop" /\ Verify(r) /\ req[r].message \notin spent
               /\ spent' = spent \cup {req[r].message}
<1>1. req'[q].pc \in ActiveSteps
  BY DEF Active
<1>2. req'[q].pc \notin {"idle", "used", "session", "dpop", "proof"}
  BY <1>1 DEF ActiveSteps
<1>3. /\ req'[q].message = req[q].message
      /\ req'[q] = req[q] \/ (q = r /\ <<req[q].pc, req'[q].pc>> \in Paths)
  BY <1>2, CameFrom
<1>4. CASE req'[q] = req[q]
  BY <1>1, <1>3, <1>4 DEF Active
<1>5. CASE q = r /\ <<req[q].pc, req'[q].pc>> \in Paths
  <2>1. Active(q) \/ req[r].pc = "dpop"
    BY <1>1, <1>5 DEF Paths, Active, ActiveSteps
  <2>2. CASE req[r].pc = "dpop"
    <3>1. ~ End(r)
      BY <1>2, <1>5, EndTo DEF Base
    <3>2. Verify(r)
      BY <2>2, <3>1 DEF RequestStep, Send, Redeliver, Begin, FindUsed, FindSession,
         ConsumeCode, ConsumeRefresh, StartSession, RecordUsed, FindSessionAgain, IssueAccess,
         IssueRefresh, IssueFails, Punish, Revoke, RequestLost, CheckProof, ClaimProof
    <3>3. req[r].message \notin spent /\ spent' = spent \cup {req[r].message}
      BY <3>1, <3>2 DEF Verify, FreshProof
    <3> QED
      BY <1>3, <1>5, <2>2, <3>2, <3>3
  <2> QED
    BY <1>3, <2>1, <2>2
<1> QED
  BY <1>3, <1>4, <1>5

LEMMA ActiveSpent ==
  ASSUME Base, NEW q \in Requests, Active(q)
  PROVE  req[q].message \in spent /\ req[q].message \in DOMAIN sent /\ req[q].pc # "idle"
<1>1. HandledBy(req[q]) /\ req[q].pc \in ActiveSteps
  BY DEF Base, Active
<1> QED
  BY <1>1 DEF HandledBy, ActiveSteps

LEMMA SpentSent ==
  ASSUME Base, Grows
  PROVE  /\ \A k \in spent : k \in DOMAIN sent /\ k \in spent' /\ sent'[k] = sent[k]
         /\ \A k \in DOMAIN sent : sent'[k] = sent[k]
<1>1. spent \subseteq DOMAIN sent
  BY UnaddedKept
<1> QED
  BY <1>1 DEF Grows

LEMMA OneActive ==
  ASSUME Base, GoneWasPresented, Grows, NEW r \in Requests, RequestStep(r), Onward(r)
  PROVE  \A q, p \in Requests :
           Active(q)' /\ Active(p)' /\ req'[q].message = req'[p].message => q = p
<1> SUFFICES ASSUME NEW q \in Requests, NEW p \in Requests, Active(q)', Active(p)',
                    req'[q].message = req'[p].message
             PROVE  q = p
  OBVIOUS
<1>1. req[q].message = req[p].message
  BY NewlyActive
<1>2. \/ Active(q)
      \/ q = r /\ req[r].message \notin spent
  BY NewlyActive
<1>3. \/ Active(p)
      \/ p = r /\ req[r].message \notin spent
  BY NewlyActive
<1>4. Active(q) => req[q].message \in spent
  BY ActiveSpent
<1>5. Active(p) => req[p].message \in spent
  BY ActiveSpent
<1> QED
  BY <1>1, <1>2, <1>3, <1>4, <1>5 DEF GoneWasPresented

LEMMA GoneNext ==
  ASSUME Base, NewTokens, GoneWasPresented, Next
  PROVE  GoneWasPresented'
<1>1. Grows /\ TypeOK
  BY BaseGrows DEF Base
<1>2. CASE OtherStep
  <2>1. UNCHANGED <<req, refresh, answered, sent, spent>>
    BY <1>2 DEF OtherStep, Authorize, CreateNonce, Tick, database, proofs, history
  <2> QED
    BY <2>1 DEF GoneWasPresented, Active, Presents
<1>3. ASSUME NEW r \in Requests, RequestStep(r)
      PROVE  GoneWasPresented'
  <2>1. Onward(r)
    BY <1>3, OnwardNext
  <2>2. ASSUME NEW i \in Ids, <<"refresh", i>> \in answered', i \notin refresh'
        PROVE  \E l \in spent' : /\ Presents(l, i)'
                                 /\ \A q \in Requests : req'[q].pc = "consume" => req'[q].message # l
    <3>1. <<"refresh", i>> \in answered
      <4>1. CASE IssueRefresh(r)
        BY <2>2, <4>1 DEF IssueRefresh
      <4>2. CASE IssueAccess(r)
        BY <2>2, <4>2 DEF IssueAccess
      <4>3. CASE ~ IssueRefresh(r) /\ ~ IssueAccess(r)
        BY <1>3, <2>2, <4>3, QuietFacts DEF RequestStep, Quiet, ConsumeCode, StartSession,
           ConsumeRefresh, RecordUsed, history
      <4> QED
        BY <4>1, <4>2, <4>3
    <3>2. ASSUME NEW q \in Requests, req'[q].pc = "consume"
          PROVE  /\ Active(q)' /\ req'[q].message = req[q].message
                 /\ req[q].pc = "consume" \/ req[q].message \notin spent
      <4>1. Active(q)'
        BY <3>2 DEF Active, ActiveSteps
      <4>2. req'[q] = req[q] \/ (q = r /\ <<req[q].pc, req'[q].pc>> \in Paths)
        BY <1>1, <2>1, <3>2, CameFrom
      <4>3. req[q].pc = "consume" \/ (q = r /\ req[r].pc = "dpop")
        BY <3>2, <4>2 DEF Paths
      <4>4. req[r].pc = "dpop" => ~ Active(r)
        BY DEF Active, ActiveSteps
      <4> QED
        BY <1>1, <1>3, <2>1, <4>1, <4>3, <4>4, NewlyActive
    <3>3. CASE i \notin refresh
      <4>1. PICK l \in spent : /\ Presents(l, i)
                               /\ \A q \in Requests : req[q].pc = "consume" => req[q].message # l
        BY <3>1, <3>3 DEF GoneWasPresented
      <4>2. l \in spent' /\ Presents(l, i)'
        BY <1>1, <4>1, SpentSent DEF Presents
      <4>3. \A q \in Requests : req'[q].pc = "consume" => req'[q].message # l
        BY <3>2, <4>1
      <4> QED
        BY <4>2, <4>3
    <3>4. CASE i \in refresh
      <4>1. ConsumeRefresh(r) /\ i = Subject(r)
        <5>1. ConsumeRefresh(r)
          BY <1>3, <2>2, <3>4, QuietFacts DEF RequestStep, Quiet, ConsumeCode, StartSession,
             IssueAccess, IssueRefresh, RecordUsed
        <5> QED
          BY <2>2, <3>4, <5>1 DEF ConsumeRefresh
      <4>2. PICK l : l = req[r].message
        OBVIOUS
      <4>3. req[r].pc = "consume" /\ Active(r)
        BY <4>1 DEF ConsumeRefresh, Active, ActiveSteps
      <4>4. l \in spent /\ Presents(l, i)
        <5>1. l \in spent
          BY <4>2, <4>3, ActiveSpent
        <5> QED
          BY <4>1, <4>2, <5>1 DEF ConsumeRefresh, Presents, Message, Subject
      <4>5. l \in spent' /\ Presents(l, i)'
        BY <1>1, <4>4, SpentSent DEF Presents
      <4>6. req'[r].pc \in {"found", "drop replay"} /\ req'[r].message = l
        <5>1. ConsumeRefresh(r) => Go(r, "found") \/ Go(r, "drop replay")
          BY DEF ConsumeRefresh
        <5> QED
          BY <1>1, <4>1, <4>2, <5>1, GoTo DEF SameRow, Steps
      <4>7. Active(r)'
        BY <4>6 DEF Active, ActiveSteps
      <4>8. ASSUME NEW q \in Requests, req'[q].pc = "consume"
            PROVE  req'[q].message # l
        <5>1. q # r
          BY <4>6, <4>8
        <5>2. Active(q)'
          BY <3>2, <4>8
        <5> QED
          BY <1>1, <1>3, <2>1, <4>6, <4>7, <5>1, <5>2, OneActive
      <4> QED
        BY <4>5, <4>8
    <3> QED
      BY <3>3, <3>4
  <2> QED
    BY <1>1, <1>3, <2>1, <2>2, OneActive DEF GoneWasPresented
<1> QED
  BY <1>2, <1>3, Steppings

\* Nobody else's step, and no later time, brings a session back or unsays a message.
LEMMA StillTrue ==
  ASSUME Base, Grows
  PROVE  /\ \A i : TwoPresented(i) => TwoPresented(i)'
         /\ \A s \in DOMAIN records : Expired(s) => Expired(s)'
<1>1. \A i : TwoPresented(i) => TwoPresented(i)'
  BY SpentSent DEF TwoPresented, Presents
<1>2. ASSUME NEW s \in DOMAIN records, Expired(s)
      PROVE  Expired(s)'
  <2>1. records[s].expires \in Nat /\ now \in Nat /\ now' \in Nat /\ now <= now'
    BY RecordFacts, TypeFacts DEF Base, Grows
  <2>2. records'[s].expires = records[s].expires
    BY DEF Grows
  <2> QED
    BY <1>2, <2>1, <2>2 DEF Expired
<1> QED
  BY <1>1, <1>2

LEMMA UsedWasPresented ==
  ASSUME Base, Remembered, GoneWasPresented, NEW i \in DOMAIN used
  PROVE  \E l \in spent : Presents(l, i)
<1>1. <<"refresh", i>> \in answered /\ i \notin refresh
  BY DEF Remembered, Base, AnswersLinked
<1>2. i \in Ids
  BY <1>1 DEF Base, TypeOK
<1> QED
  BY <1>1, <1>2 DEF GoneWasPresented

LEMMA Drops ==
  ASSUME NEW r \in Requests, NEW why, Drop(r, why), NEW d \in dropped', d \notin dropped
  PROVE  d.session = req[r].session /\ d.why = why /\ FoundSession(req[r].session)
BY DEF Drop

LEMMA ReplayNext ==
  ASSUME Base, Remembered, GoneWasPresented, ReplayIsReal, Next
  PROVE  ReplayIsReal'
<1>1. Grows /\ TypeOK
  BY BaseGrows DEF Base
<1>2. ASSUME NEW s,
             \E k, l \in spent :
               /\ k # l /\ sent[k].grant = "refresh" /\ sent[l].grant = "refresh"
               /\ sent[k].token = sent[l].token
               /\ tokens[sent[k].token].session = s
      PROVE  \E k, l \in spent' :
               /\ k # l /\ sent'[k].grant = "refresh" /\ sent'[l].grant = "refresh"
               /\ sent'[k].token = sent'[l].token
               /\ tokens'[sent'[k].token].session = s
  <2>1. PICK k \in spent, l \in spent :
               /\ k # l /\ sent[k].grant = "refresh" /\ sent[l].grant = "refresh"
               /\ sent[k].token = sent[l].token
               /\ tokens[sent[k].token].session = s
    BY <1>2
  <2>2. /\ k \in spent' /\ l \in spent' /\ sent'[k] = sent[k] /\ sent'[l] = sent[l]
        /\ k \in DOMAIN sent
    BY <1>1, SpentSent
  <2>3. sent[k].token \in DOMAIN tokens
    BY <2>1, <2>2, MessageFacts DEF Base
  <2>4. tokens'[sent[k].token] = tokens[sent[k].token]
    BY <1>1, <2>3 DEF Grows
  <2> QED
    BY <2>1, <2>2, <2>4
<1>3. CASE OtherStep
  <2>1. UNCHANGED <<req, dropped, sent>>
    BY <1>3 DEF OtherStep, Authorize, CreateNonce, Tick, proofs, history
  <2>2. ReplayNeedsTwo'
    BY <1>2, <2>1 DEF ReplayIsReal, ReplayNeedsTwo
  <2>3. ASSUME NEW q \in Requests, req'[q].pc = "drop replay"
        PROVE  Expired(req[q].session)' \/ TwoPresented(Subject(q))'
    <3>1. req[q].pc = "drop replay" /\ HandledBy(req[q]) /\ req'[q] = req[q]
      BY <2>1, <2>3 DEF Base
    <3>2. req[q].session \in DOMAIN records
      BY <3>1, Subjects DEF HandledBy, ActiveSteps, Message, Subject
    <3>3. Subject(q)' = Subject(q)
      BY <2>1 DEF Subject, Message
    <3>4. Expired(req[q].session) \/ TwoPresented(Subject(q))
      BY <3>1 DEF ReplayIsReal
    <3>5. PICK s, i : s = req[q].session /\ i = Subject(q)
      OBVIOUS
    <3>6. Expired(s)' \/ TwoPresented(i)'
      BY <1>1, <3>2, <3>4, <3>5, StillTrue
    <3> QED
      BY <3>1, <3>3, <3>5, <3>6 DEF Expired, TwoPresented, Presents
  <2> QED
    BY <2>2, <2>3 DEF ReplayIsReal
<1>4. ASSUME NEW r \in Requests, RequestStep(r)
      PROVE  ReplayIsReal'
  <2>1. Onward(r)
    BY <1>4, OnwardNext
  <2>2. ASSUME NEW q \in Requests, req'[q].pc = "drop replay"
        PROVE  Expired(req[q].session)' \/ TwoPresented(Subject(q))'
    <3>1. /\ Subject(q)' = Subject(q) /\ Message(q)' = Message(q) /\ req[q].pc # "idle"
          /\ req'[q].message = req[q].message
          /\ req'[q] = req[q] \/ (q = r /\ <<req[q].pc, req'[q].pc>> \in Paths)
      BY <1>1, <2>1, <2>2, CameFrom
    <3>2. Base'
      BY BaseGrows
    <3>3. PICK i, k : i = Subject(q) /\ k = req[q].message
      OBVIOUS
    <3>4. /\ k \in DOMAIN sent /\ i = sent[k].token
          /\ sent'[k] = sent[k]
      BY <1>1, <3>1, <3>3, Subjects, SpentSent
    <3>5. k \in spent' /\ sent[k].grant = "refresh"
      <4>1. HandledBy(req[q])'
        BY <3>2 DEF Base
      <4>2. req'[q].message \in spent' /\ sent'[req'[q].message].grant = "refresh"
        BY <2>2, <4>1 DEF HandledBy, ActiveSteps
      <4> QED
        BY <3>1, <3>3, <3>4, <4>2
    <3>6. Presents(k, i)'
      BY <3>4, <3>5 DEF Presents
    <3>7. ASSUME TwoPresented(i)'
          PROVE  TwoPresented(Subject(q))'
      BY <3>1, <3>3, <3>7 DEF TwoPresented, Presents
    <3>8. ASSUME NEW l \in spent, Presents(l, i), l # k
          PROVE  TwoPresented(Subject(q))'
      <4>1. l \in spent' /\ Presents(l, i)'
        BY <1>1, <3>8, SpentSent DEF Presents
      <4>2. TwoPresented(i)'
        BY <3>5, <3>6, <3>8, <4>1 DEF TwoPresented
      <4> QED
        BY <3>7, <4>2
    <3>9. ASSUME NEW s \in DOMAIN records, Expired(s), req'[q].session = s
          PROVE  Expired(req[q].session)'
      BY <1>1, <3>9, StillTrue DEF Expired
    <3>10. HandledBy(req[q])
      BY DEF Base
    <3>11. tokens[i].session \in DOMAIN records
      BY <3>1, <3>3, <3>4, <3>5, MessageFacts DEF Base, TokensLinked
    <3>12. Active(q) => req[q].session = tokens[i].session
      BY <3>3, <3>4, <3>5, <3>10 DEF HandledBy, Active, ActiveSteps
    <3>13. CASE req'[q] = req[q]
      <4>1. Active(q) /\ req[q].pc = "drop replay"
        BY <2>2, <3>13 DEF Active, ActiveSteps
      <4>2. CASE Expired(req[q].session)
        BY <3>9, <3>11, <3>12, <3>13, <4>1, <4>2
      <4>3. CASE TwoPresented(i)
        BY <1>1, <3>7, <4>3, StillTrue
      <4> QED
        BY <3>3, <4>1, <4>2, <4>3 DEF ReplayIsReal
    <3>14. CASE req'[q] # req[q]
      <4>1. q = r /\ req[r].pc \in {"dpop", "consume", "record"}
        BY <2>2, <3>1, <3>14 DEF Paths
      <4>2. CASE req[r].pc = "dpop"
        <5>1. Active(q)' /\ ~ Active(q)
          BY <2>2, <4>1, <4>2 DEF Active, ActiveSteps
        <5>2. Verify(r) /\ req[r].message \notin spent
          BY <1>1, <1>4, <2>1, <5>1, NewlyActive
        <5>3. req[r].replay
          <6>1. ~ End(r)
            BY <1>1, <2>2, <4>1, EndTo
          <6>2. ~ Go(r, "drop revoke") /\ ~ Go(r, "consume")
            BY <1>1, <2>2, <4>1, GoTo DEF SameRow, Steps
          <6> QED
            BY <5>2, <6>1, <6>2 DEF Verify
        <5>4. i \in DOMAIN used
          BY <3>3, <3>4, <3>10, <4>1, <4>2, <5>3 DEF HandledBy
        <5>5. PICK l \in spent : Presents(l, i)
          BY <5>4, UsedWasPresented
        <5> QED
          BY <3>3, <3>8, <4>1, <5>2, <5>5
      <4>3. CASE req[r].pc = "consume"
        <5>1. ~ End(r) /\ ~ Go(r, "start") /\ ~ Go(r, "found")
          BY <1>1, <2>2, <4>1, EndTo, GoTo DEF SameRow, Steps
        <5>2. ConsumeRefresh(r)
          BY <1>4, <4>3, <5>1 DEF RequestStep, Send, Redeliver, Begin, FindUsed, FindSession, Verify,
             ConsumeCode, StartSession, RecordUsed, FindSessionAgain, IssueAccess, IssueRefresh,
             IssueFails, Punish, Revoke, RequestLost, CheckProof, ClaimProof
        <5>3. ~ FoundRefresh(i)
          BY <3>3, <4>1, <5>1, <5>2 DEF ConsumeRefresh, Takes
        <5>4. CASE i \in refresh
          <6>1. Expired(tokens[i].session)
            <7>1. ~ (records[tokens[i].session].expires >= now)
              BY <5>3, <5>4 DEF FoundRefresh
            <7>2. records[tokens[i].session].expires \in Nat /\ now \in Nat
              BY <1>1, <3>11, RecordFacts, TypeFacts
            <7> QED
              BY <7>1, <7>2 DEF Expired
          <6>2. req'[q].session = req[q].session /\ Active(q)
            <7>1. Go(r, "drop replay")
              BY <5>1, <5>2 DEF ConsumeRefresh
            <7> QED
              BY <1>1, <4>1, <4>3, <7>1, GoTo DEF SameRow, Steps, Active, ActiveSteps
          <6> QED
            BY <3>9, <3>11, <3>12, <6>1, <6>2
        <5>5. CASE i \notin refresh
          <6>1. <<"refresh", i>> \in answered
            BY <3>3, <3>4, <3>5, MessageFacts DEF Base
          <6>2. i \in Ids
            BY <1>1, <6>1 DEF TypeOK
          <6>3. PICK l \in spent : Presents(l, i) /\ req[r].message # l
            BY <4>3, <5>5, <6>1, <6>2 DEF GoneWasPresented
          <6> QED
            BY <3>3, <3>8, <4>1, <6>3
        <5> QED
          BY <5>4, <5>5
      <4>4. CASE req[r].pc = "record"
        <5>1. ~ End(r) /\ ~ Go(r, "access")
          BY <1>1, <2>2, <4>1, EndTo, GoTo DEF SameRow, Steps
        <5>2. RecordUsed(r)
          BY <1>4, <4>4, <5>1 DEF RequestStep, Send, Redeliver, Begin, FindUsed, FindSession, Verify,
             ConsumeCode, ConsumeRefresh, StartSession, FindSessionAgain, IssueAccess, IssueRefresh,
             IssueFails, Punish, Revoke, RequestLost, CheckProof, ClaimProof
        <5>3. Subject(r) \in DOMAIN used
          BY <5>1, <5>2 DEF RecordUsed
        <5> QED
          BY <4>4, <5>3 DEF Remembered
      <4> QED
        BY <4>1, <4>2, <4>3, <4>4
    <3> QED
      BY <3>13, <3>14
  <2>3. ReplayNeedsTwo'
    <3> SUFFICES ASSUME NEW d \in dropped', d.why = "replay"
                 PROVE  \E k, l \in spent' :
                          /\ k # l /\ sent'[k].grant = "refresh" /\ sent'[l].grant = "refresh"
                          /\ sent'[k].token = sent'[l].token
                          /\ tokens'[sent'[k].token].session = d.session
      BY DEF ReplayNeedsTwo
    <3>1. CASE d \in dropped
      BY <1>2, <3>1 DEF ReplayIsReal, ReplayNeedsTwo
    <3>2. CASE d \notin dropped
      <4>1. dropped' # dropped
        BY <3>2
      <4>2. Punish(r) \/ Revoke(r)
        BY <1>4, <4>1 DEF RequestStep, Send, Redeliver, FindUsed, FindSession, Verify,
           ConsumeCode, ConsumeRefresh, StartSession, RecordUsed, FindSessionAgain, IssueAccess,
           IssueRefresh, IssueFails, RequestLost, CheckProof, ClaimProof, history
      <4>3. \E why : Drop(r, why) /\ (why = "replay" => req[r].pc = "drop replay")
        <5>1. "failed" # "replay" /\ "revoke" # "replay"
          OBVIOUS
        <5> QED
          BY <4>2, <5>1 DEF Punish, Revoke
      <4>4. /\ d.session = req[r].session /\ req[r].pc = "drop replay" /\ HandledBy(req[r])
            /\ FoundSession(req[r].session)
        BY <3>2, <4>3, Drops DEF Base
      <4>5. /\ Message(r).grant = "refresh" /\ req[r].session = tokens[Subject(r)].session
            /\ req[r].session \in DOMAIN records
        <5>1. Message(r).grant = "refresh" /\ req[r].session = tokens[Subject(r)].session
          BY <4>4 DEF HandledBy, ActiveSteps, Message, Subject
        <5> QED
          BY <4>4, <5>1, Subjects
      <4>6. ~ Expired(req[r].session)
        <5>1. records[req[r].session].expires \in Nat /\ now \in Nat
          BY <1>1, <4>5, RecordFacts, TypeFacts
        <5>2. records[req[r].session].expires >= now
          BY <4>4 DEF FoundSession
        <5> QED
          BY ONLY <5>1, <5>2 DEF Expired
      <4>7. TwoPresented(Subject(r))
        BY <4>4, <4>6 DEF ReplayIsReal
      <4>8. \E k, l \in spent :
               /\ k # l /\ sent[k].grant = "refresh" /\ sent[l].grant = "refresh"
               /\ sent[k].token = sent[l].token
               /\ tokens[sent[k].token].session = d.session
        BY <4>4, <4>5, <4>7 DEF TwoPresented, Presents
      <4> QED
        BY <1>2, <4>8
    <3> QED
      BY <3>1, <3>2
  <2> QED
    BY <2>2, <2>3 DEF ReplayIsReal
<1> QED
  BY <1>3, <1>4, Steppings

-----------------------------------------------------------------------------
(* A client that was told that its session is revoked *)

LEMMA NotFoundAgain ==
  ASSUME Base, Grows, NEW s \in DOMAIN records
  PROVE  /\ ~ FoundSession(s) => ~ FoundSession(s)'
         /\ Expired(s) => ~ FoundSession(s)
<1>1. records[s].expires \in Nat /\ now \in Nat /\ now' \in Nat /\ now <= now'
  BY RecordFacts, TypeFacts DEF Base, Grows
<1>2. records'[s].expires = records[s].expires /\ (s \in sessions' => s \in sessions)
  BY DEF Grows
<1> QED
  BY <1>1, <1>2 DEF FoundSession, Expired

LEMMA UsedLastNext ==
  ASSUME Base, UsedLast, Next
  PROVE  UsedLast'
<1>1. Grows
  BY BaseGrows
<1>2. ASSUME NEW i \in DOMAIN used
      PROVE  used'[i] = records'[tokens'[i].session].expires
  <2>1. i \in DOMAIN tokens
    BY TypeFacts DEF Base, TypeOK
  <2>2. tokens[i].session \in DOMAIN records
    BY <2>1 DEF Base, TokensLinked
  <2>3. used[i] = records[tokens[i].session].expires
    BY DEF UsedLast
  <2> QED
    BY <1>1, <2>1, <2>2, <2>3 DEF Grows
<1>3. CASE used' = used
  BY <1>2, <1>3 DEF UsedLast
<1>4. CASE used' # used
  <2>1. ~ OtherStep
    BY <1>4 DEF OtherStep, Authorize, CreateNonce, Tick, database
  <2>2. PICK r \in Requests : RequestStep(r)
    BY <2>1, Steppings
  <2>3. RecordUsed(r)
    BY <1>4, <2>2, QuietFacts DEF RequestStep, Quiet, ConsumeCode, StartSession, ConsumeRefresh,
       IssueAccess, IssueRefresh
  <2>4. PICK i : i = Subject(r)
    OBVIOUS
  <2>5. /\ req[r].pc = "record" /\ used' = Put(used, i, records[req[r].session].expires)
        /\ UNCHANGED <<records, tokens>>
    BY <1>4, <2>3, <2>4 DEF RecordUsed, UsedUntil
  <2>6. req[r].session = tokens[i].session
    <3>1. HandledBy(req[r])
      BY DEF Base
    <3>2. Message(r).grant # "code"
      BY <2>5, <3>1 DEF HandledBy, Message
    <3> QED
      BY <2>4, <2>5, <3>1, <3>2 DEF HandledBy, ActiveSteps, Message, Subject
  <2>7. \A x \in DOMAIN used' : x = i \/ (x \in DOMAIN used /\ used'[x] = used[x])
    BY <2>5 DEF Put
  <2>8. used'[i] = records'[tokens'[i].session].expires
    BY <2>5, <2>6 DEF Put
  <2> QED
    BY <1>2, <2>7, <2>8 DEF UsedLast
<1> QED
  BY <1>3, <1>4

\* A token that a client knows is never put back among those to exchange.
LEMMA NotBack ==
  ASSUME Base, NewTokens, Next, NEW i, <<"refresh", i>> \in answered, i \in refresh'
  PROVE  i \in refresh
<1>1. CASE OtherStep
  BY <1>1 DEF OtherStep, Authorize, CreateNonce, Tick, database
<1>2. ASSUME NEW r \in Requests, RequestStep(r)
      PROVE  i \in refresh
  <2>1. CASE IssueRefresh(r)
    <3>1. refresh' = refresh \cup {req[r].id} /\ req[r].pc = "refresh"
      BY <2>1 DEF IssueRefresh
    <3> QED
      BY <3>1 DEF NewTokens
  <2>2. CASE ~ IssueRefresh(r)
    BY <1>2, <2>2, QuietFacts DEF RequestStep, Quiet, ConsumeCode, StartSession,
       ConsumeRefresh, RecordUsed, IssueAccess
  <2> QED
    BY <2>1, <2>2
<1> QED
  BY <1>1, <1>2, Steppings

LEMMA LookingKept ==
  ASSUME Base, NewTokens, Next, Grows, NEW q \in Requests, req'[q] = req[q],
         LooksOn(q), LooksInVain(q)
  PROVE  LooksOn(q)' /\ LooksInVain(q)'
<1> SUFFICES ASSUME req[q].pc \in {"used", "dpop"}, Message(q).grant # "code"
             PROVE  LooksOn(q)' /\ LooksInVain(q)'
  <2>1. req[q].pc \in {"used", "dpop"} => Message(q)' = Message(q)
    BY SubjectKept
  <2> QED
    BY <2>1 DEF LooksOn, LooksInVain, Revokes
<1>1. Message(q)' = Message(q) /\ Subject(q)' = Subject(q)
  BY SubjectKept
<1>2. PICK i, s : i = Subject(q) /\ s = tokens[i].session
  OBVIOUS
<1>3. i \in DOMAIN tokens /\ s \in DOMAIN records /\ tokens'[Subject(q)'].session = s
  BY <1>1, <1>2, Subjects DEF Grows
<1>4. LooksOn(q)'
  <2> SUFFICES ASSUME req[q].pc = "used", Message(q).grant = "revoke refresh", i \in refresh'
               PROVE  Expired(s)'
    BY <1>1, <1>2, <1>3 DEF LooksOn, Expired
  <2>1. <<"refresh", i>> \in answered
    BY <1>2, Subjects
  <2>2. Expired(s)
    BY <1>2, <2>1, NotBack DEF LooksOn
  <2> QED
    BY <1>3, <2>2, StillTrue
<1>5. LooksInVain(q)'
  <2> SUFFICES ASSUME req[q].pc = "dpop", req[q].session = None, Revokes(q), req[q].live
               PROVE  ~ FoundSession(s)'
    BY <1>1, <1>3 DEF LooksInVain, Revokes, FoundSession
  <2>1. ~ FoundSession(s)
    BY <1>2 DEF LooksInVain
  <2> QED
    BY <1>3, <2>1, NotFoundAgain
<1> QED
  BY <1>4, <1>5

LEMMA LookingBegun ==
  ASSUME Base, NEW r \in Requests, NEW k, NEW m \in MessageRows, Known(m),
         Begin(r, k, m), sent'[k] = m,
         UNCHANGED <<tokens, records, refresh, now>>
  PROVE  LooksOn(r)' /\ LooksInVain(r)'
<1>1. Begins(req'[r], k, m)
  BY BeginTo DEF Base
<1> SUFFICES ASSUME req'[r].pc \in {"used", "dpop"}
             PROVE  LooksOn(r)' /\ LooksInVain(r)'
  BY DEF LooksOn, LooksInVain
<1>2. req'[r] # NoRequest /\ req'[r].message = k
  <2>1. req'[r] # NoRequest
    BY NoRequestFacts DEF Base
  <2> QED
    BY <1>1, <2>1 DEF Begins
<1>3. Message(r)' = m /\ Subject(r)' = m.token
  BY <1>2 DEF Message, Subject
<1>4. LooksInVain(r)'
  <2>1. req'[r].pc = "dpop" => m.grant = "code" \/ ~ req'[r].live
    BY <1>1, <1>2 DEF Begins
  <2> QED
    BY <1>3, <2>1 DEF LooksInVain, Revokes
<1>5. LooksOn(r)'
  <2>1. PICK i : i = m.token
    OBVIOUS
  <2> SUFFICES ASSUME req'[r].pc = "used", i \in refresh
               PROVE  Expired(tokens[i].session)
    BY <1>3, <2>1 DEF LooksOn, Expired
  <2>2. i \in DOMAIN tokens
    BY TypeFacts DEF Base, TypeOK
  <2>3. records[tokens[i].session].expires \in Nat /\ now \in Nat
    BY <2>2, RecordFacts, TypeFacts DEF Base, TokensLinked
  <2>4. ~ (records[tokens[i].session].expires >= now)
    BY <1>1, <1>2, <2>1 DEF Begins, FoundRefresh
  <2> QED
    BY ONLY <2>3, <2>4 DEF Expired
<1> QED
  BY <1>4, <1>5

LEMMA LookingUsed ==
  ASSUME Base, Grows, UsedLast, NEW r \in Requests, FindUsed(r), LooksOn(r)
  PROVE  LooksOn(r)' /\ LooksInVain(r)'
<1>1. /\ req[r].pc = "used" /\ req'[r].message = req[r].message
      /\ \/ req'[r].pc = "session" /\ FoundUsed(Subject(r))
         \/ /\ req'[r].pc = "dpop" /\ ~ FoundUsed(Subject(r))
            /\ req'[r].live => Subject(r) \in refresh \cup DOMAIN used
  BY FindUsedTo DEF Base
<1>2. UNCHANGED <<tokens, records, now, sessions>>
  BY DEF FindUsed, database
<1>3. Message(r)' = Message(r) /\ Subject(r)' = Subject(r)
  BY <1>1, SubjectKept
<1>4. LooksOn(r)'
  BY <1>1 DEF LooksOn
<1>5. LooksInVain(r)'
  <2>1. PICK i, s : i = Subject(r) /\ s = tokens[i].session
    OBVIOUS
  <2> SUFFICES ASSUME req'[r].pc = "dpop", Revokes(r), req'[r].live
               PROVE  ~ FoundSession(s)
    BY <1>2, <1>3, <2>1 DEF LooksInVain, FoundSession, Revokes
  <2>2. Message(r).grant = "revoke refresh"
    <3>1. HandledBy(req[r])
      BY DEF Base
    <3>2. Message(r).grant \in {"refresh", "revoke refresh"}
      BY <1>1, <3>1 DEF HandledBy, Message
    <3> QED
      BY <3>2 DEF Revokes
  <2>3. s \in DOMAIN records
    BY <1>1, <2>1, <2>2, Subjects
  <2>4. CASE i \in refresh
    <3>1. Expired(s)
      BY <1>1, <2>1, <2>2, <2>4 DEF LooksOn
    <3> QED
      BY <2>3, <3>1, NotFoundAgain
  <2>5. CASE i \in DOMAIN used
    <3>1. used[i] = records[s].expires /\ ~ FoundUsed(i)
      BY <1>1, <2>1, <2>5 DEF UsedLast
    <3> QED
      BY <2>5, <3>1 DEF FoundUsed, FoundSession
  <2> QED
    BY <1>1, <2>1, <2>4, <2>5
<1> QED
  BY <1>4, <1>5

LEMMA LookingForSession ==
  ASSUME Base, Grows, NEW r \in Requests, FindSession(r)
  PROVE  LooksOn(r)' /\ LooksInVain(r)'
<1>1. /\ req[r].pc = "session" /\ req'[r].message = req[r].message /\ req'[r].pc = "dpop"
      /\ req'[r].session = None => req[r].session = None \/ ~ FoundSession(req[r].session)
  BY FindSessionTo DEF Base
<1>2. UNCHANGED <<tokens, records, now, sessions>>
  BY DEF FindSession, database
<1>3. Message(r)' = Message(r) /\ Subject(r)' = Subject(r)
  BY <1>1, SubjectKept
<1>4. req[r].session = tokens[Subject(r)].session
  <2>1. HandledBy(req[r])
    BY DEF Base
  <2> QED
    BY <1>1, <2>1 DEF HandledBy, Message, Subject
<1>5. req[r].session # None
  <2>1. HandledBy(req[r])
    BY DEF Base
  <2>2. Message(r).grant # "code"
    BY <1>1, <2>1 DEF HandledBy, Message
  <2>3. tokens[Subject(r)].session \in DOMAIN records
    BY <1>1, <2>2, Subjects
  <2>4. 0 \notin DOMAIN records
    BY TypeFacts DEF Base
  <2> QED
    BY <1>4, <2>3, <2>4
<1>6. LooksOn(r)'
  BY <1>1 DEF LooksOn
<1>7. LooksInVain(r)'
  BY <1>1, <1>2, <1>3, <1>4, <1>5 DEF LooksInVain, FoundSession
<1> QED
  BY <1>6, <1>7

\* Of what is answered as revoked for a live token, nothing is found.
LEMMA RevokedNext ==
  ASSUME Base, Grows, RevocationSure, NEW r \in Requests, RequestStep(r)
  PROVE  RevokedEnds'
<1> SUFFICES ASSUME NEW v \in revoked', v.live
             PROVE  ~ FoundSession(v.session)'
  BY DEF RevokedEnds
<1>1. PICK s : s = v.session
  OBVIOUS
<1>2. CASE v \in revoked
  <2>1. s \in DOMAIN records /\ ~ FoundSession(s)
    BY <1>1, <1>2 DEF Base, AnswersLinked, Revocations, RevocationSure, RevokedEnds
  <2> QED
    BY <1>1, <2>1, NotFoundAgain
<1>3. CASE v \notin revoked
  <2>1. revoked' # revoked
    BY <1>3
  <2>2. Verify(r) \/ Revoke(r)
    BY <2>1 DEF RequestStep, Send, Redeliver, FindUsed, FindSession, Punish,
       ConsumeCode, ConsumeRefresh, StartSession, RecordUsed, FindSessionAgain, IssueAccess,
       IssueRefresh, IssueFails, RequestLost, CheckProof, ClaimProof, history
  <2>3. CASE Verify(r)
    <3>1. /\ Revokes(r) /\ req[r].session = None /\ req[r].pc = "dpop" /\ v \in Told(r)
      BY <1>3, <2>3 DEF Verify
    <3>2. s = tokens[Subject(r)].session /\ req[r].live /\ s \in DOMAIN records
      BY <1>1, <3>1, ToldBounds DEF Revocations
    <3>3. LooksInVain(r)
      BY DEF RevocationSure
    <3>4. ~ FoundSession(s)
      BY <3>1, <3>2, <3>3 DEF LooksInVain
    <3> QED
      BY <1>1, <3>2, <3>4, NotFoundAgain
  <2>4. CASE Revoke(r)
    <3>1. /\ req[r].pc = "drop revoke" /\ v \in Told(r) /\ sessions' = sessions \ {req[r].session}
      BY <1>3, <2>4 DEF Revoke, Drop
    <3>2. HandledBy(req[r])
      BY DEF Base
    <3>3. req[r].session = tokens[Subject(r)].session /\ Revokes(r)
      BY <3>1, <3>2 DEF HandledBy, ActiveSteps, Message, Subject, Revokes
    <3>4. s = req[r].session
      BY <1>1, <3>1, <3>3, ToldBounds
    <3> QED
      BY <1>1, <3>1, <3>4 DEF FoundSession
  <2> QED
    BY <2>2, <2>3, <2>4
<1> QED
  BY <1>2, <1>3

LEMMA RevocationNext ==
  ASSUME Base, NewTokens, RevocationSure, Next
  PROVE  RevocationSure'
<1>1. Grows /\ TypeOK /\ UsedLast'
  BY BaseGrows, UsedLastNext DEF Base, RevocationSure
<1>2. CASE OtherStep
  <2>1. UNCHANGED <<req, revoked>>
    BY <1>2 DEF OtherStep, Authorize, CreateNonce, Tick, history
  <2>2. ASSUME NEW v \in revoked', v.live
        PROVE  ~ FoundSession(v.session)'
    <3>1. PICK s : s = v.session
      OBVIOUS
    <3>2. s \in DOMAIN records /\ ~ FoundSession(s)
      BY <2>1, <2>2, <3>1 DEF Base, AnswersLinked, Revocations, RevocationSure, RevokedEnds
    <3> QED
      BY <1>1, <3>1, <3>2, NotFoundAgain
  <2>3. \A q \in Requests : LooksOn(q)' /\ LooksInVain(q)'
    BY <1>1, <2>1, LookingKept DEF RevocationSure
  <2> QED
    BY <1>1, <2>2, <2>3 DEF RevocationSure, RevokedEnds
<1>3. ASSUME NEW r \in Requests, RequestStep(r)
      PROVE  RevocationSure'
  <2>1. Onward(r)
    BY <1>3, OnwardNext
  <2>2. ASSUME NEW q \in Requests, q # r
        PROVE  LooksOn(q)' /\ LooksInVain(q)'
    BY <1>1, <2>1, <2>2, LookingKept DEF RevocationSure, Onward
  <2>3. LooksOn(r)' /\ LooksInVain(r)'
    <3>1. CASE req'[r].pc \notin {"used", "dpop"}
      BY <3>1 DEF LooksOn, LooksInVain
    <3>2. CASE req'[r].pc \in {"used", "dpop"}
      <4>1. req[r].pc \in {"idle", "used", "session"}
        BY <2>1, <3>2 DEF Onward, Paths
      <4>2. \/ \E m \in MessageRows : Send(r, m)
            \/ \E k \in DOMAIN sent : Redeliver(r, k)
            \/ FindUsed(r) \/ FindSession(r)
        <5>1. ~ RequestLost(r)
          BY <1>1, <3>2, EndTo DEF RequestLost
        <5> QED
          BY <1>3, <4>1, <5>1 DEF RequestStep, Verify, ConsumeCode, ConsumeRefresh, StartSession,
             RecordUsed, FindSessionAgain, IssueAccess, IssueRefresh, IssueFails, Punish, Revoke,
             CheckProof, ClaimProof
      <4>3. ASSUME NEW m \in MessageRows, Send(r, m)
            PROVE  LooksOn(r)' /\ LooksInVain(r)'
        <5>1. PICK k : k = Len(sent) + 1
          OBVIOUS
        <5>2. /\ sent' = Append(sent, m) /\ Known(m) /\ Begin(r, k, m)
              /\ UNCHANGED <<tokens, records, refresh, now>>
          BY <4>3, <5>1 DEF Send, database
        <5>3. sent'[k] = m
          BY <1>1, <5>1, <5>2, TypeFacts, AppendGrows
        <5> QED
          BY <5>2, <5>3, LookingBegun
      <4>4. ASSUME NEW k \in DOMAIN sent, Redeliver(r, k)
            PROVE  LooksOn(r)' /\ LooksInVain(r)'
        <5>1. PICK m : m = sent[k]
          OBVIOUS
        <5>2. m \in MessageRows /\ Known(m) /\ Begin(r, k, m) /\ sent' = sent
              /\ UNCHANGED <<tokens, records, refresh, now>>
          BY <4>4, <5>1, MessageFacts DEF Redeliver, Base, AnswersLinked, database, proofs
        <5> QED
          BY <5>1, <5>2, LookingBegun
      <4> QED
        BY <1>1, <4>2, <4>3, <4>4, LookingUsed, LookingForSession DEF RevocationSure
    <3> QED
      BY <3>1, <3>2
  <2> QED
    BY <1>1, <1>3, <2>2, <2>3, RevokedNext DEF RevocationSure
<1> QED
  BY <1>2, <1>3, Steppings

-----------------------------------------------------------------------------

Revoking == Exchanging /\ Remembered /\ GoneWasPresented /\ ReplayIsReal /\ RevocationSure

LEMMA RevokingInit == Init => Revoking
<1> SUFFICES ASSUME Init
             PROVE  Revoking
  OBVIOUS
<1>1. DOMAIN tokens = {} /\ DOMAIN used = {}
  BY EmptySeq DEF Init
<1>2. \A r \in Requests : req[r].pc = "idle"
  BY DEF Init, NoRequest
<1>3. refresh = {} /\ answered = {} /\ dropped = {} /\ revoked = {}
  BY DEF Init
<1>4. Remembered
  BY <1>1, <1>2, <1>3 DEF Remembered
<1>5. GoneWasPresented
  BY <1>2, <1>3 DEF GoneWasPresented, Active, ActiveSteps
<1>6. ReplayIsReal
  BY <1>2, <1>3 DEF ReplayIsReal, ReplayNeedsTwo
<1>7. RevocationSure
  BY <1>1, <1>2, <1>3 DEF RevocationSure, UsedLast, RevokedEnds, LooksOn, LooksInVain
<1> QED
  BY <1>4, <1>5, <1>6, <1>7, ExchangingInit DEF Revoking

LEMMA RevokingStutters ==
  ASSUME Revoking, UNCHANGED vars
  PROVE  Remembered' /\ GoneWasPresented' /\ ReplayIsReal' /\ RevocationSure'
<1>1. UNCHANGED <<sessions, records, tokens, refresh, used, sent, spent, req, now,
                  answered, dropped, revoked>>
  BY DEF vars, database, proofs, history
<1>2. \A r : Message(r)' = Message(r) /\ Subject(r)' = Subject(r)
  BY <1>1 DEF Message, Subject
<1>3. Remembered'
  BY <1>1, <1>2 DEF Revoking, Remembered
<1>4. GoneWasPresented'
  BY <1>1 DEF Revoking, GoneWasPresented, Active, Presents
<1>5. ReplayIsReal'
  <2>1. ReplayIsReal
    BY DEF Revoking
  <2>2. ReplayNeedsTwo'
    <3>1. ReplayNeedsTwo /\ UNCHANGED <<dropped, spent, sent, tokens>>
      BY <1>1, <2>1 DEF ReplayIsReal
    <3> QED
      BY ONLY <3>1 DEF ReplayNeedsTwo
  <2>3. ASSUME NEW r \in Requests, req'[r].pc = "drop replay"
        PROVE  Expired(req[r].session)' \/ TwoPresented(Subject(r))'
    <3>1. PICK i : i = Subject(r)
      OBVIOUS
    <3>2. Expired(req[r].session) \/ TwoPresented(i)
      BY <1>1, <2>1, <2>3, <3>1 DEF ReplayIsReal
    <3>3. Expired(req[r].session)' \/ TwoPresented(i)'
      BY <1>1, <3>2 DEF Expired, TwoPresented, Presents
    <3>4. Subject(r)' = i
      BY <1>2, <3>1
    <3> QED
      BY <3>3, <3>4 DEF TwoPresented, Presents
  <2> QED
    BY <2>2, <2>3 DEF ReplayIsReal
<1>6. RevocationSure'
  <2>1. \A r \in Requests : LooksOn(r)'
    BY <1>1, <1>2 DEF Revoking, RevocationSure, LooksOn, Expired
  <2>2. \A r \in Requests : LooksInVain(r)'
    BY <1>1, <1>2 DEF Revoking, RevocationSure, LooksInVain, FoundSession, Revokes
  <2>3. RevokedEnds' /\ UsedLast'
    BY <1>1 DEF Revoking, RevocationSure, RevokedEnds, UsedLast, FoundSession
  <2> QED
    BY <2>1, <2>2, <2>3 DEF RevocationSure
<1> QED
  BY <1>3, <1>4, <1>5, <1>6

LEMMA RevokingAlways == Spec => []Revoking
<1>1. Init => Revoking
  BY RevokingInit
<1>2. Revoking /\ [Next]_vars => Revoking'
  <2>1. Revoking /\ [Next]_vars => Exchanging'
    BY ExchangingNext DEF Revoking
  <2>2. Revoking /\ Next => Remembered' /\ GoneWasPresented' /\ ReplayIsReal' /\ RevocationSure'
    BY RememberedNext, GoneNext, ReplayNext, RevocationNext DEF Revoking, Exchanging
  <2> QED
    BY <2>1, <2>2, RevokingStutters DEF Revoking
<1> QED
  BY <1>1, <1>2, PTL DEF Spec

\* ReplayRecognised: whoever presents a refresh token that was exchanged for another is
\* recognised as long as the session lasts, wherever the exchange was cut off.
THEOREM ReplaysRecognised == Spec => []ReplayRecognised
<1>1. Revoking => ReplayRecognised
  BY DEF Revoking, Remembered, ReplayRecognised, FoundSession, FoundUsed
<1> QED
  BY <1>1, RevokingAlways, PTL

\* ReplayNeedsTwo: no session is taken from a client as replayed unless two messages, each
\* with a proof of its own, presented one refresh token.
THEOREM ReplayTakesTwo == Spec => []ReplayNeedsTwo
<1>1. Revoking => ReplayNeedsTwo
  BY DEF Revoking, ReplayIsReal
<1> QED
  BY <1>1, RevokingAlways, PTL

\* RevokedEnds: a client that was told that its session is revoked has no session, if it
\* presented an access token that had not expired, or a refresh token that was to be
\* exchanged or was recorded as used when the endpoint looked it up, whatever else was under
\* way.  Of a token between the two, nothing is claimed.
THEOREM RevokedSessionsEnd == Spec => []RevokedEnds
<1>1. Revoking => RevokedEnds
  BY DEF Revoking, RevocationSure
<1> QED
  BY <1>1, RevokingAlways, PTL

-----------------------------------------------------------------------------
(* A proof serves once at the PDS *)

\* What the steps of a request leave alone of the proofs at the PDS.
LEMMA ClaimSteps ==
  ASSUME NEW r \in Requests, RequestStep(r)
  PROVE  now' = now /\ (UNCHANGED <<claimed, served>> \/ ClaimProof(r))
BY DEF RequestStep, Send, Redeliver, FindUsed, FindSession, Verify, ConsumeCode, ConsumeRefresh,
   StartSession, RecordUsed, FindSessionAgain, IssueAccess, IssueRefresh, IssueFails, Punish,
   Revoke, Drop, RequestLost, CheckProof, ClaimProof, proofs, history, pds

\* A request that is about to claim a proof was so before, or its proof was accepted just now.
LEMMA NewlyClaiming ==
  ASSUME Base, Grows, NEW r \in Requests, RequestStep(r), NEW q \in Requests,
         req'[q].pc = "claim"
  PROVE  /\ Message(q)' = Message(q) /\ Subject(q)' = Subject(q)
         /\ req'[q].message = req[q].message /\ req[q].pc # "idle"
         /\ req[q].pc = "claim" \/ (req[q].pc = "proof" /\ ProofAccepted(q))
<1>1. Onward(r)
  BY OnwardNext
<1>2. /\ Message(q)' = Message(q) /\ Subject(q)' = Subject(q)
      /\ req'[q].message = req[q].message /\ req[q].pc # "idle"
      /\ req'[q] = req[q] \/ (q = r /\ <<req[q].pc, req'[q].pc>> \in Paths)
  BY <1>1, CameFrom
<1>3. CASE q = r /\ req[q].pc = "proof"
  <2>1. ~ End(r)
    BY <1>3, EndTo DEF Base
  <2>2. CheckProof(r)
    BY <1>3, <2>1 DEF RequestStep, Send, Redeliver, Begin, FindUsed, FindSession, Verify,
       ConsumeCode, ConsumeRefresh, StartSession, RecordUsed, FindSessionAgain, IssueAccess,
       IssueRefresh, IssueFails, Punish, Revoke, RequestLost, ClaimProof
  <2> QED
    BY <1>2, <1>3, <2>1, <2>2 DEF CheckProof
<1> QED
  BY <1>2, <1>3 DEF Paths

LEMMA ClaimingInTime ==
  ASSUME Base, Grows, ClaimsKept, NEW r \in Requests, RequestStep(r), NEW q \in Requests,
         req'[q].pc = "claim"
  PROVE  now' < Message(q)'.at + ClaimLife
<1>1. PICK m : m = Message(q)
  OBVIOUS
<1>2. Message(q)' = m /\ now' = now
  BY <1>1, NewlyClaiming, ClaimSteps
<1>3. m.at \in Nat /\ now \in Nat
  BY <1>1, NewlyClaiming, Subjects, MessageFacts, TypeFacts DEF Base, Message
<1>4. now < m.at + ClaimLife \/ now <= m.at + ProofLife
  BY <1>1, NewlyClaiming DEF ClaimsKept, ProofAccepted
<1>5. now < m.at + ClaimLife
  BY ONLY <1>3, <1>4, GrantsAssumption DEF GrantsAssumption
<1> QED
  BY <1>2, <1>5

\* The row of a claimed proof outlives the proof.
LEMMA ClaimLasts ==
  ASSUME Base, Grows, ClaimsKept, NEW r \in Requests, ClaimProof(r)
  PROVE  /\ \A k \in Messages : served'[k] > 0 =>
              k \in DOMAIN sent /\ (k \in DOMAIN claimed' \/ now >= sent[k].at + ClaimLife)
         /\ \A k \in DOMAIN claimed' : claimed'[k] >= sent[k].at + ClaimLife
         /\ ProofServesOnce'
<1>1. PICK n : n = req[r].message
  OBVIOUS
<1>2. /\ req[r].pc = "claim" /\ sent' = sent /\ now' = now
      /\ \/ n \in DOMAIN claimed /\ UNCHANGED <<claimed, served>>
         \/ /\ n \notin DOMAIN claimed /\ claimed' = Put(claimed, n, now + ClaimLife)
            /\ served' = [served EXCEPT ![n] = @ + 1]
  BY <1>1 DEF ClaimProof, ClaimedUntil
<1>3. CASE UNCHANGED <<claimed, served>>
  BY <1>3 DEF ClaimsKept, ProofServesOnce
<1>4. CASE /\ n \notin DOMAIN claimed /\ claimed' = Put(claimed, n, now + ClaimLife)
           /\ served' = [served EXCEPT ![n] = @ + 1]
  <2>1. n \in DOMAIN sent /\ Message(r) = sent[n]
    BY <1>1, <1>2, Subjects DEF Message
  <2>2. sent[n].at \in Nat /\ sent[n].at <= now /\ now \in Nat
    BY <2>1, MessageFacts, TypeFacts DEF Base, AnswersLinked
  <2>3. n \in Messages
    <3>1. Len(sent) \in Nat /\ Len(sent) <= MaxMessages /\ n \in 1..Len(sent)
      BY <2>1, TypeFacts DEF Base, Bounds
    <3> QED
      BY ONLY <3>1, GrantsAssumption DEF GrantsAssumption, Messages
  <2>4. served \in [Messages -> Nat]
    BY DEF Base, TypeOK
  <2>5. served[n] = 0
    <3>1. now < sent[n].at + ClaimLife
      BY <1>2, <2>1 DEF ClaimsKept
    <3>2. served[n] > 0 => now >= sent[n].at + ClaimLife
      BY <1>4, <2>3 DEF ClaimsKept
    <3>3. served[n] \in Nat
      BY <2>3, <2>4
    <3> QED
      BY ONLY <2>2, <3>1, <3>2, <3>3, GrantsAssumption DEF GrantsAssumption
  <2>6. served'[n] = 1 /\ \A k \in Messages : k # n => served'[k] = served[k]
    BY ONLY <1>4, <2>3, <2>4, <2>5
  <2>7. /\ DOMAIN claimed' = DOMAIN claimed \cup {n} /\ claimed'[n] = now + ClaimLife
        /\ \A k \in DOMAIN claimed : claimed'[k] = claimed[k]
    BY ONLY <1>4 DEF Put
  <2>8. claimed'[n] >= sent[n].at + ClaimLife
    BY ONLY <2>2, <2>7, GrantsAssumption DEF GrantsAssumption
  <2>9. \A k \in DOMAIN claimed' : claimed'[k] >= sent[k].at + ClaimLife
    BY <2>7, <2>8 DEF ClaimsKept
  <2>10. ProofServesOnce'
    <3>1. \A k \in Messages : served[k] <= 1
      BY DEF ClaimsKept, ProofServesOnce
    <3>2. \A k \in Messages : served'[k] <= 1
      BY ONLY <2>6, <3>1
    <3> QED
      BY <3>2 DEF ProofServesOnce
  <2>11. ASSUME NEW k \in Messages, served'[k] > 0
         PROVE  k \in DOMAIN sent /\ (k \in DOMAIN claimed' \/ now >= sent[k].at + ClaimLife)
    BY <2>1, <2>6, <2>7, <2>11 DEF ClaimsKept
  <2> QED
    BY <2>9, <2>10, <2>11
<1> QED
  BY <1>2, <1>3, <1>4

LEMMA ClaimsNext ==
  ASSUME Base, ClaimsKept, Next
  PROVE  ClaimsKept'
<1>1. Grows /\ TypeOK
  BY BaseGrows DEF Base
<1>2. CASE \E c \in Codes, h \in Holders, renew \in BOOLEAN : Authorize(c, h, renew)
  <2>1. UNCHANGED <<claimed, served, sent, req, now>>
    BY <1>2 DEF Authorize, proofs, history
  <2> QED
    BY <2>1 DEF ClaimsKept, ProofServesOnce, Message
<1>3. CASE CreateNonce
  <2>1. UNCHANGED <<served, sent, req, now>>
    BY <1>3 DEF CreateNonce, history
  <2>2. claimed' = [k \in {k \in DOMAIN claimed : claimed[k] > now} |-> claimed[k]]
    BY <1>3 DEF CreateNonce
  <2>3. /\ \A k \in DOMAIN claimed' : k \in DOMAIN claimed /\ claimed'[k] = claimed[k]
        /\ \A k \in DOMAIN claimed : k \in DOMAIN claimed' \/ ~ (claimed[k] > now)
    BY ONLY <2>2
  <2>4. ASSUME NEW k \in DOMAIN claimed, k \notin DOMAIN claimed'
        PROVE  now >= sent[k].at + ClaimLife
    <3>1. ~ (claimed[k] > now) /\ claimed[k] >= sent[k].at + ClaimLife
      BY <2>3, <2>4 DEF ClaimsKept
    <3>2. claimed[k] \in Nat /\ now \in Nat /\ sent[k].at \in Nat
      BY <1>1, MessageFacts, TypeFacts DEF Base, TypeOK
    <3> QED
      BY ONLY <3>1, <3>2, GrantsAssumption DEF GrantsAssumption
  <2> QED
    BY <2>1, <2>3, <2>4 DEF ClaimsKept, ProofServesOnce, Message
<1>4. CASE Tick
  <2>1. UNCHANGED <<claimed, served, sent, req>> /\ now' = now + 1
    BY <1>4 DEF Tick, proofs, history
  <2>2. \A r \in Requests : req[r].pc = "claim" => now' < Message(r)'.at + ClaimLife
    BY <1>4, <2>1 DEF Tick, Message
  <2>3. ASSUME NEW k \in DOMAIN sent, now >= sent[k].at + ClaimLife
        PROVE  now' >= sent[k].at + ClaimLife
    <3>1. now \in Nat /\ sent[k].at \in Nat
      BY <1>1, MessageFacts, TypeFacts DEF Base
    <3> QED
      BY ONLY <2>1, <2>3, <3>1, GrantsAssumption DEF GrantsAssumption
  <2> QED
    BY <2>1, <2>2, <2>3 DEF ClaimsKept, ProofServesOnce
<1>5. ASSUME NEW r \in Requests, RequestStep(r)
      PROVE  ClaimsKept'
  <2>1. \A q \in Requests : req'[q].pc = "claim" => now' < Message(q)'.at + ClaimLife
    BY <1>1, <1>5, ClaimingInTime
  <2>2. now' = now /\ \A k \in DOMAIN sent : k \in DOMAIN sent' /\ sent'[k] = sent[k]
    BY <1>1, <1>5, ClaimSteps DEF Grows
  <2>3. DOMAIN claimed \subseteq DOMAIN sent /\ DOMAIN claimed' \subseteq DOMAIN claimed \cup {req[r].message}
    <3>1. DOMAIN claimed \subseteq DOMAIN sent
      BY <1>1, TypeFacts DEF TypeOK
    <3>2. ClaimProof(r) => DOMAIN claimed' \subseteq DOMAIN claimed \cup {req[r].message}
      BY DEF ClaimProof, Put
    <3> QED
      BY <1>5, <3>1, <3>2, ClaimSteps
  <2>4. CASE ClaimProof(r)
    <3>1. sent' = sent
      BY <2>4 DEF ClaimProof
    <3> QED
      BY <1>1, <2>1, <2>2, <2>4, <3>1, ClaimLasts DEF ClaimsKept
  <2>5. CASE UNCHANGED <<claimed, served>>
    BY <2>1, <2>2, <2>3, <2>5 DEF ClaimsKept, ProofServesOnce
  <2> QED
    BY <1>5, <2>4, <2>5, ClaimSteps
<1> QED
  BY <1>2, <1>3, <1>4, <1>5, Steppings DEF OtherStep

-----------------------------------------------------------------------------
(* A session is used, renewed and ended by its holder *)

\* What was true of tokens and records, and of the messages about them, stays true.
LEMMA HoldersStay ==
  ASSUME Base, Grows
  PROVE  /\ \A k \in DOMAIN sent : sent[k].grant # "code" =>
              /\ tokens'[sent[k].token] = tokens[sent[k].token]
              /\ records'[tokens[sent[k].token].session] = records[tokens[sent[k].token].session]
         /\ \A i \in DOMAIN tokens :
              tokens'[i] = tokens[i] /\ records'[tokens[i].session] = records[tokens[i].session]
<1>1. \A i \in DOMAIN tokens : tokens'[i] = tokens[i] /\ tokens[i].session \in DOMAIN records
  BY DEF Base, TokensLinked, Grows
<1>2. \A s \in DOMAIN records : records'[s] = records[s]
  BY DEF Grows
<1>3. \A k \in DOMAIN sent : sent[k].grant # "code" => sent[k].token \in DOMAIN tokens
  BY MessageFacts DEF Base
<1> QED
  BY <1>1, <1>2, <1>3

\* Steps that let nobody in, issue no token and delete no session.
LEMMA HeldStays ==
  ASSUME Base, Base', Grows, ClaimsKept, HeldToTheEnd
  PROVE  /\ served' = served =>
              /\ \A k \in DOMAIN sent' : served'[k] > 0 => sent'[k].grant = "use"
              /\ \A k \in DOMAIN sent' : served'[k] > 0 =>
                   sent'[k].holder = records'[tokens'[sent'[k].token].session].holder
         /\ \A i \in DOMAIN tokens : tokens'[i].from \in Ids =>
              \E k \in spent' : /\ sent'[k].token = tokens'[i].from
                                /\ sent'[k].grant = "refresh"
                                /\ sent'[k].holder = records'[tokens'[i].session].holder
         /\ \A d \in dropped :
              /\ d.session \in DOMAIN records'
              /\ d.why \in {"replay", "revoke"} =>
                   \E k \in spent' : /\ sent'[k].holder = records'[d.session].holder
                                     /\ sent'[k].grant # "code"
<1>1. \A k \in DOMAIN sent' : served[k] > 0 => k \in DOMAIN sent
  <2>1. Len(sent') \in Nat /\ Len(sent') <= MaxMessages /\ DOMAIN sent' = 1..Len(sent')
    BY LenProperties DEF Base, Bounds, TypeOK
  <2>2. DOMAIN sent' \subseteq Messages
    BY ONLY <2>1, GrantsAssumption DEF GrantsAssumption, Messages
  <2> QED
    BY <2>2 DEF ClaimsKept
<1>2. \A k \in DOMAIN sent : sent'[k] = sent[k]
  BY DEF Grows
<1>3. ASSUME served' = served, NEW k \in DOMAIN sent', served'[k] > 0
      PROVE  /\ sent'[k].grant = "use"
             /\ sent'[k].holder = records'[tokens'[sent'[k].token].session].holder
  <2>1. k \in DOMAIN sent /\ sent'[k] = sent[k]
    BY <1>1, <1>2, <1>3
  <2>2. sent[k].grant = "use" /\ sent[k].holder = records[tokens[sent[k].token].session].holder
    BY <1>3, <2>1 DEF HeldToTheEnd, HeldByOne
  <2> QED
    BY <2>1, <2>2, HoldersStay
<1>4. ASSUME NEW i \in DOMAIN tokens, tokens'[i].from \in Ids
      PROVE  \E k \in spent' : /\ sent'[k].token = tokens'[i].from
                               /\ sent'[k].grant = "refresh"
                               /\ sent'[k].holder = records'[tokens'[i].session].holder
  <2>1. tokens'[i] = tokens[i] /\ records'[tokens[i].session] = records[tokens[i].session]
    BY HoldersStay
  <2>2. PICK k \in spent : /\ sent[k].token = tokens[i].from
                           /\ sent[k].grant = "refresh"
                           /\ sent[k].holder = records[tokens[i].session].holder
    BY <1>4, <2>1 DEF HeldToTheEnd, HeldByOne
  <2>3. k \in spent' /\ sent'[k] = sent[k]
    BY SpentSent
  <2> QED
    BY <2>1, <2>2, <2>3
<1>5. ASSUME NEW d \in dropped
      PROVE  /\ d.session \in DOMAIN records'
             /\ d.why \in {"replay", "revoke"} =>
                  \E k \in spent' : /\ sent'[k].holder = records'[d.session].holder
                                    /\ sent'[k].grant # "code"
  <2>1. d.session \in DOMAIN records' /\ records'[d.session] = records[d.session]
    BY DEF HeldToTheEnd, Grows
  <2>2. ASSUME d.why \in {"replay", "revoke"}
        PROVE  \E k \in spent' : /\ sent'[k].holder = records'[d.session].holder
                                 /\ sent'[k].grant # "code"
    <3>1. PICK k \in spent : sent[k].holder = records[d.session].holder /\ sent[k].grant # "code"
      BY <2>2 DEF HeldToTheEnd, HeldByOne
    <3>2. k \in spent' /\ sent'[k] = sent[k]
      BY SpentSent
    <3> QED
      BY <2>1, <3>1, <3>2
  <2> QED
    BY <2>1, <2>2
<1> QED
  BY <1>3, <1>4, <1>5

LEMMA ClaimHeld ==
  ASSUME Base, Base', Grows, ClaimsKept, HeldToTheEnd, NEW r \in Requests, ClaimProof(r)
  PROVE  \A k \in DOMAIN sent' : served'[k] > 0 =>
           /\ sent'[k].grant = "use"
           /\ sent'[k].holder = records'[tokens'[sent'[k].token].session].holder
<1>1. PICK n : n = req[r].message
  OBVIOUS
<1>2. /\ req[r].pc = "claim" /\ UNCHANGED <<records, tokens, sent>>
      /\ served' = served \/ served' = [served EXCEPT ![n] = @ + 1]
  BY <1>1 DEF ClaimProof, database
<1>3. /\ sent[n].grant = "use"
      /\ sent[n].holder = records[tokens[sent[n].token].session].holder
  <2>1. HandledBy(req[r])
    BY DEF Base
  <2> QED
    BY <1>1, <1>2, <2>1 DEF HandledBy, HeldToTheEnd, Message, Subject
<1>4. \A k \in DOMAIN sent : served'[k] > 0 => k = n \/ served[k] > 0
  <2>1. \A k \in DOMAIN sent : k # n => served'[k] = served[k]
    <3>1. DOMAIN sent \subseteq DOMAIN served
      <4>1. Len(sent) \in Nat /\ Len(sent) <= MaxMessages /\ DOMAIN sent = 1..Len(sent)
        BY TypeFacts DEF Base, Bounds
      <4>2. DOMAIN sent \subseteq Messages
        BY ONLY <4>1, GrantsAssumption DEF GrantsAssumption, Messages
      <4> QED
        BY <4>2 DEF Base, TypeOK
    <3> QED
      BY ONLY <1>2, <3>1
  <2> QED
    BY <2>1
<1> QED
  BY <1>2, <1>3, <1>4 DEF HeldToTheEnd, HeldByOne

LEMMA RenewedHeld ==
  ASSUME Base, Grows, NEW r \in Requests, IssueAccess(r),
         NEW i \in DOMAIN tokens', i \notin DOMAIN tokens, tokens'[i].from \in Ids
  PROVE  \E k \in spent' : /\ sent'[k].token = tokens'[i].from
                           /\ sent'[k].grant = "refresh"
                           /\ sent'[k].holder = records'[tokens'[i].session].holder
<1>1. PICK k, s, e : /\ k = req[r].message /\ s = req[r].session
                     /\ e = [session |-> s, from |-> Subject(r), expires |-> now + AccessLife]
  OBVIOUS
<1>2. /\ req[r].pc = "access" /\ tokens' = Append(tokens, e)
      /\ UNCHANGED <<records, sent, spent>>
  BY <1>1 DEF IssueAccess
<1>3. tokens'[i] = e
  <2>1. tokens \in Seq(TokenRows) /\ DOMAIN tokens = 1..Len(tokens) /\ Len(tokens) \in Nat
    BY TypeFacts DEF Base
  <2>2. DOMAIN tokens' = 1..(Len(tokens) + 1) /\ tokens'[Len(tokens) + 1] = e
    BY <1>2, <2>1, AppendProperties
  <2>3. i = Len(tokens) + 1
    BY ONLY <2>1, <2>2, i \in DOMAIN tokens', i \notin DOMAIN tokens
  <2> QED
    BY <2>2, <2>3
<1>4. tokens'[i].session = s /\ tokens'[i].from = Subject(r)
  BY <1>1, <1>3
<1>5. HandledBy(req[r])
  BY DEF Base
<1>6. Message(r) = sent[k] /\ Subject(r) = sent[k].token
  BY <1>1, <1>2, Subjects
<1>7. sent[k].grant \in {"code", "refresh"} /\ k \in spent
  BY <1>1, <1>2, <1>5 DEF HandledBy, ActiveSteps
<1>8. sent[k].grant # "code"
  <2>1. sent[k].grant = "code" => Subject(r) \in Codes
    BY <1>2, <1>6, Subjects
  <2> QED
    BY <1>4, <2>1, GrantsAssumption DEF GrantsAssumption
<1>9. s = tokens[sent[k].token].session /\ records[s].holder = sent[k].holder
  BY <1>1, <1>2, <1>5, <1>8 DEF HandledBy, ActiveSteps
<1> QED
  BY <1>2, <1>4, <1>6, <1>7, <1>8, <1>9

LEMMA DroppedHeld ==
  ASSUME Base, Grows, NEW r \in Requests, Punish(r) \/ Revoke(r),
         NEW d \in dropped', d \notin dropped
  PROVE  /\ d.session \in DOMAIN records'
         /\ d.why \in {"replay", "revoke"} =>
              \E k \in spent' : /\ sent'[k].holder = records'[d.session].holder
                                /\ sent'[k].grant # "code"
<1>1. PICK k, s, why : /\ k = req[r].message /\ s = req[r].session /\ Drop(r, why)
                       /\ \/ req[r].pc = "drop replay" /\ why = "replay"
                          \/ req[r].pc = "drop failed" /\ why = "failed"
                          \/ req[r].pc = "drop revoke" /\ why = "revoke"
  BY DEF Punish, Revoke
<1>2. d.session = s /\ d.why = why /\ FoundSession(s)
  BY <1>1, Drops
<1>3. UNCHANGED <<records, sent, spent>>
  BY <1>1 DEF Drop
<1>4. s \in DOMAIN records
  BY <1>2, TypeFacts DEF FoundSession, Base, TypeOK
<1>5. ASSUME why \in {"replay", "revoke"}
      PROVE  k \in spent /\ sent[k].holder = records[s].holder /\ sent[k].grant # "code"
  <2>1. HandledBy(req[r]) /\ req[r].pc \in {"drop replay", "drop revoke"}
    BY <1>1, <1>5 DEF Base
  <2> QED
    BY <1>1, <2>1 DEF HandledBy, ActiveSteps
<1> QED
  BY <1>2, <1>3, <1>4, <1>5

LEMMA HeldNext ==
  ASSUME Base, ClaimsKept, HeldToTheEnd, Next
  PROVE  HeldToTheEnd'
<1>1. Base' /\ Grows /\ TypeOK
  BY BaseGrows DEF Base
<1>2. CASE OtherStep
  <2>1. UNCHANGED <<records, tokens, sent, spent, req, served, dropped>>
    BY <1>2 DEF OtherStep, Authorize, CreateNonce, Tick, database, proofs, history
  <2> QED
    BY <2>1 DEF HeldToTheEnd, HeldByOne, Message, Subject
<1>3. ASSUME NEW r \in Requests, RequestStep(r)
      PROVE  HeldToTheEnd'
  <2>1. ASSUME NEW q \in Requests, req'[q].pc = "claim"
        PROVE  Message(q)'.holder = records'[tokens'[Subject(q)'].session].holder
    <3>1. PICK m, i : m = Message(q) /\ i = Subject(q)
      OBVIOUS
    <3>2. Message(q)' = m /\ Subject(q)' = i /\ req[q].pc \in {"proof", "claim"}
      BY <1>1, <1>3, <2>1, <3>1, NewlyClaiming
    <3>3. m.holder = records[tokens[i].session].holder
      BY <1>1, <1>3, <2>1, <3>1, NewlyClaiming DEF HeldToTheEnd, ProofAccepted
    <3>4. i \in DOMAIN tokens
      <4>1. HandledBy(req[q]) /\ req[q].pc # "idle"
        BY <3>2 DEF Base
      <4>2. m.grant = "use"
        BY <3>1, <3>2, <4>1 DEF HandledBy, Message
      <4> QED
        BY <3>1, <4>1, <4>2, Subjects
    <3> QED
      BY <1>1, <3>2, <3>3, <3>4, HoldersStay
  <2>2. \A k \in DOMAIN sent' : served'[k] > 0 =>
          /\ sent'[k].grant = "use"
          /\ sent'[k].holder = records'[tokens'[sent'[k].token].session].holder
    <3>1. CASE UNCHANGED <<claimed, served>>
      BY <1>1, <3>1, HeldStays
    <3>2. CASE ClaimProof(r)
      BY <1>1, <3>2, ClaimHeld
    <3> QED
      BY <1>3, <3>1, <3>2, ClaimSteps
  <2>3. \A i \in DOMAIN tokens' : tokens'[i].from \in Ids =>
          \E k \in spent' : /\ sent'[k].token = tokens'[i].from
                            /\ sent'[k].grant = "refresh"
                            /\ sent'[k].holder = records'[tokens'[i].session].holder
    <3>1. ASSUME IssueAccess(r), NEW i \in DOMAIN tokens', i \notin DOMAIN tokens,
                 tokens'[i].from \in Ids
          PROVE  \E k \in spent' : /\ sent'[k].token = tokens'[i].from
                                   /\ sent'[k].grant = "refresh"
                                   /\ sent'[k].holder = records'[tokens'[i].session].holder
      BY <1>1, <3>1, RenewedHeld
    <3>2. tokens' = tokens \/ IssueAccess(r)
      BY <1>3 DEF RequestStep, Send, Redeliver, FindUsed, FindSession, Verify, ConsumeCode,
         ConsumeRefresh, StartSession, RecordUsed, FindSessionAgain, IssueRefresh, IssueFails,
         Punish, Revoke, Drop, RequestLost, CheckProof, ClaimProof, database
    <3> QED
      BY <1>1, <3>1, <3>2, HeldStays
  <2>4. \A d \in dropped' :
          /\ d.session \in DOMAIN records'
          /\ d.why \in {"replay", "revoke"} =>
               \E k \in spent' : /\ sent'[k].holder = records'[d.session].holder
                                 /\ sent'[k].grant # "code"
    <3>1. dropped' = dropped \/ Punish(r) \/ Revoke(r)
      BY <1>3 DEF RequestStep, Send, Redeliver, FindUsed, FindSession, Verify, ConsumeCode,
         ConsumeRefresh, StartSession, RecordUsed, FindSessionAgain, IssueAccess, IssueRefresh,
         IssueFails, RequestLost, CheckProof, ClaimProof, history
    <3>2. ASSUME Punish(r) \/ Revoke(r), NEW d \in dropped', d \notin dropped
          PROVE  /\ d.session \in DOMAIN records'
                 /\ d.why \in {"replay", "revoke"} =>
                      \E k \in spent' : /\ sent'[k].holder = records'[d.session].holder
                                        /\ sent'[k].grant # "code"
      BY <1>1, <3>2, DroppedHeld
    <3> QED
      BY <1>1, <3>1, <3>2, HeldStays
  <2> QED
    BY <2>1, <2>2, <2>3, <2>4 DEF HeldToTheEnd, HeldByOne
<1> QED
  BY <1>2, <1>3, Steppings

-----------------------------------------------------------------------------

Proving == Base /\ ClaimsKept /\ HeldToTheEnd

LEMMA ProvingAlways == Spec => []Proving
<1>1. Init => Proving
  <2> SUFFICES ASSUME Init
               PROVE  Proving
    OBVIOUS
  <2>1. DOMAIN tokens = {} /\ DOMAIN sent = {} /\ DOMAIN claimed = {} /\ dropped = {}
    BY EmptySeq DEF Init
  <2>2. \A r \in Requests : req[r].pc = "idle"
    BY DEF Init, NoRequest
  <2>3. \A k \in Messages : served[k] = 0
    BY DEF Init
  <2>4. ClaimsKept
    BY <2>1, <2>2, <2>3 DEF ClaimsKept, ProofServesOnce
  <2>5. HeldToTheEnd
    BY <2>1, <2>2 DEF HeldToTheEnd, HeldByOne
  <2> QED
    BY <2>4, <2>5, InitBase DEF Proving
<1>2. Proving /\ [Next]_vars => Proving'
  <2>1. ASSUME Proving, UNCHANGED vars
        PROVE  ClaimsKept' /\ HeldToTheEnd'
    <3>1. UNCHANGED <<records, tokens, sent, spent, claimed, req, now, served, dropped>>
      BY <2>1 DEF vars, database, proofs, history
    <3> QED
      BY <2>1, <3>1 DEF Proving, ClaimsKept, ProofServesOnce, HeldToTheEnd, HeldByOne, Message, Subject
  <2> QED
    BY <2>1, BaseStutters, BaseGrows, ClaimsNext, HeldNext DEF Proving
<1> QED
  BY <1>1, <1>2, PTL DEF Spec

\* ProofServesOnce: the PDS lets one request in for a proof, however often and when it is
\* delivered, as a row of dpop_state outlives the proof that it stands for.
THEOREM ProofsServeOnce == Spec => []ProofServesOnce
<1>1. Proving => ProofServesOnce
  BY DEF Proving, ClaimsKept
<1> QED
  BY <1>1, ProvingAlways, PTL

\* HeldByOne: a session is used, renewed and ended by the client and key to which the user
\* gave the code, not by others that learn its tokens.
THEOREM SessionsHeldByOne == Spec => []HeldByOne
<1>1. Proving => HeldByOne
  BY DEF Proving, HeldToTheEnd
<1> QED
  BY <1>1, ProvingAlways, PTL
=============================================================================
