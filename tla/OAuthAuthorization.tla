------------------------- MODULE OAuthAuthorization --------------------------
(***************************************************************************)
(* An authorization request from PAR to the code.  A push p is one POST to *)
(* /oauth/par; the request then travels through records that each handler  *)
(* consumes and replaces: par, interaction, consent, code.  Records may    *)
(* expire at any time.  A browser has one login session at a time and one  *)
(* request in flight, which goes from one query to the next.               *)
(***************************************************************************)
EXTENDS ClientMetadata

CONSTANTS
  Clients,    \* what a client id may stand for: see Resolved
  Redirects, Scopes, \* what a client may push
  Pushes, Challenges, States,
  Browsers, Users, Dids,
  MaxRecords, \* bound: records created
  NoUser, NoDid

ASSUME AuthorizationAssumption ==
  /\ MaxRecords \in Nat
  /\ NoUser \notin Users /\ NoDid \notin Dids
  /\ Redirects \subseteq Url
  /\ \A c \in Clients : c.loopback => c.redirect_uris \in Seq(Url)

VARIABLES
  client,   \* the client of this behaviour
  push,     \* the pushed requests
  reserved, \* challenges and states that were used
  records,  \* the records that exist
  created,  \* how many records have been created
  signedIn, \* the user of each browser's login session
  did,      \* the DID of each user's active account
  req,      \* what each browser's request is doing
  page,     \* the consent that a browser shows
  codes     \* history: the codes that were issued

auth == <<push, reserved>>
vars == <<client, push, reserved, records, created, signedIn, did, req, page, codes>>

Kinds == {"par", "interaction", "consent"}
Record == [id : 1..MaxRecords, kind : Kinds, push : Pushes,
           user : Users \cup {NoUser}, did : Dids \cup {NoDid}]
NoRecord == [id |-> 0]
NoRequest == [pc |-> "idle", record |-> NoRecord, user |-> NoUser, did |-> NoDid]
NewPush == [pc |-> "idle", challenge |-> 0, state |-> 0, redirect |-> NoMetadata, hint |-> NoDid]

TypeOK ==
  /\ client \in Clients
  /\ push \in [Pushes -> [pc : {"idle", "challenge", "state", "par", "pushed", "refused"},
                          challenge : Challenges \cup {0}, state : States \cup {0},
                          redirect : Redirects \cup {NoMetadata}, hint : Dids \cup {NoDid}]]
  /\ reserved \subseteq Challenges \cup States
  /\ records \subseteq Record /\ created \in 0..MaxRecords
  /\ signedIn \in [Browsers -> Users \cup {NoUser}]
  /\ did \in [Users -> Dids \cup {NoDid}]
  /\ req \in [Browsers -> [pc : {"idle", "session", "interaction", "subject", "consent",
                                 "user", "account", "code"},
                           record : Record \cup {NoRecord},
                           user : Users \cup {NoUser}, did : Dids \cup {NoDid}]]
  /\ page \in [Browsers -> Record \cup {NoRecord}]
  /\ codes \subseteq [consent : Record, user : Users, did : Dids, id : 1..MaxRecords]

Init ==
  /\ client \in Clients
  /\ push = [p \in Pushes |-> NewPush] /\ reserved = {}
  /\ records = {} /\ created = 0
  /\ signedIn = [b \in Browsers |-> NoUser]
  /\ did = [u \in Users |-> NoDid]
  /\ req = [b \in Browsers |-> NoRequest]
  /\ page = [b \in Browsers |-> NoRecord]
  /\ codes = {}

-----------------------------------------------------------------------------
(* POST /oauth/par *)

\* parseAuthorizationRequest: the metadata is resolved before anything is stored.
Push(p, challenge, state, redirect, scope, hint) ==
  LET m == Resolved(client)
      ok == m # NoMetadata /\ RedirectUriMatches(redirect, m) /\ ScopeAllowed(scope, m)
  IN  /\ push[p].pc = "idle"
      /\ push' = [push EXCEPT ![p] =
           IF ok THEN [pc |-> "challenge", challenge |-> challenge, state |-> state,
                       redirect |-> redirect, hint |-> hint]
           ELSE [NewPush EXCEPT !.pc = "refused"]]
      /\ UNCHANGED <<client, reserved, records, created, signedIn, did, req, page, codes>>

\* reserveRecord
Free(x) == x \notin reserved

Reserve(p, pc, x, next) ==
  /\ push[p].pc = pc
  /\ push' = [push EXCEPT ![p].pc = IF Free(x) THEN next ELSE "refused"]
  /\ reserved' = reserved \cup {x}
  /\ UNCHANGED <<client, records, created, signedIn, did, req, page, codes>>

ReserveChallenge(p) == Reserve(p, "challenge", push[p].challenge, "state")
ReserveState(p) == Reserve(p, "state", push[p].state, "par")

\* createUniqueRecord
Create(kind, p, u, d) ==
  /\ created < MaxRecords
  /\ created' = created + 1
  /\ records' = records \cup {[id |-> created + 1, kind |-> kind, push |-> p, user |-> u, did |-> d]}

CreatePar(p) ==
  /\ push[p].pc = "par"
  /\ Create("par", p, NoUser, NoDid)
  /\ push' = [push EXCEPT ![p].pc = "pushed"]
  /\ UNCHANGED <<client, reserved, signedIn, did, req, page, codes>>

PushLost(p) ==
  /\ push[p].pc \in {"challenge", "state", "par"}
  /\ push' = [push EXCEPT ![p].pc = "refused"]
  /\ UNCHANGED <<client, reserved, records, created, signedIn, did, req, page, codes>>

-----------------------------------------------------------------------------
(* GET /oauth/authorize *)

End(b) == req' = [req EXCEPT ![b] = NoRequest]
Go(b, pc) == req' = [req EXCEPT ![b].pc = pc]

\* Fault: a record is read but not consumed.
ReadOnly(r) == records' = records

\* consumeRecord
Consume(r) == records' = records \ {r}

\* A pushed request, or the continuation after a login.  The client_id of the query
\* may be another.
Open(b, r) ==
  /\ req[b].pc = "idle" /\ r.kind \in {"par", "interaction"}
  /\ Consume(r)
  /\ \/ req' = [req EXCEPT ![b] = [NoRequest EXCEPT !.pc = "session", !.record = r]]
     \/ r.kind = "par" /\ UNCHANGED req
  /\ UNCHANGED <<client, auth, created, signedIn, did, page, codes>>

ReadUserSession(b) ==
  /\ req[b].pc = "session"
  /\ req' = [req EXCEPT ![b] =
       [@ EXCEPT !.user = signedIn[b],
                 !.pc = IF signedIn[b] = NoUser THEN "interaction" ELSE "subject"]]
  /\ UNCHANGED <<client, auth, records, created, signedIn, did, page, codes>>

CreateLoginRedirect(b) ==
  /\ req[b].pc = "interaction"
  /\ Create("interaction", req[b].record.push, NoUser, NoDid)
  /\ End(b)
  /\ UNCHANGED <<client, auth, signedIn, did, page, codes>>

\* getAuthorizationSubject, and the login hint.
ReadSubject(b) ==
  LET d == did[req[b].user]
  IN  /\ req[b].pc = "subject"
      /\ IF d # NoDid /\ push[req[b].record.push].hint \in {NoDid, d}
         THEN req' = [req EXCEPT ![b] = [@ EXCEPT !.pc = "consent", !.did = d]]
         ELSE End(b)
      /\ UNCHANGED <<client, auth, records, created, signedIn, did, page, codes>>

CreateConsent(b) ==
  /\ req[b].pc = "consent"
  /\ Create("consent", req[b].record.push, req[b].user, req[b].did)
  /\ End(b)
  /\ UNCHANGED <<client, auth, signedIn, did, page, codes>>

-----------------------------------------------------------------------------
(* The consent page and POST /oauth/authorize *)

\* handleAuthorizationDetailsGet, for whoever has the consent's address.
ShowDetails(b, r) ==
  /\ r.kind = "consent"
  /\ signedIn[b] = r.user /\ did[r.user] = r.did
  /\ page' = [page EXCEPT ![b] = r]
  /\ UNCHANGED <<client, auth, records, created, signedIn, did, req, codes>>

\* Only the provider's own page can post the form.
Allow(b, r) ==
  /\ req[b].pc = "idle" /\ page[b] = r
  /\ Consume(r)
  /\ req' = [req EXCEPT ![b] = [NoRequest EXCEPT !.pc = "user", !.record = r]]
  /\ UNCHANGED <<client, auth, created, signedIn, did, page, codes>>

\* The consent is used up, whoever posts it and whatever the answer is.
Deny(b, r) ==
  /\ req[b].pc = "idle" /\ page[b] = r
  /\ Consume(r)
  /\ UNCHANGED <<client, auth, created, signedIn, did, req, page, codes>>

SameUser(b) == signedIn[b] # NoUser /\ signedIn[b] = req[b].record.user

CheckUser(b) ==
  /\ req[b].pc = "user"
  /\ IF SameUser(b)
     THEN req' = [req EXCEPT ![b] = [@ EXCEPT !.pc = "account", !.user = signedIn[b]]]
     ELSE End(b)
  /\ UNCHANGED <<client, auth, records, created, signedIn, did, page, codes>>

\* Fault: the subject is taken as it is now.
AnySubject(b) == did[req[b].record.user] # NoDid

SameSubject(b) == did[req[b].record.user] = req[b].record.did

CheckSubject(b) ==
  /\ req[b].pc = "account"
  /\ IF SameSubject(b)
     THEN req' = [req EXCEPT ![b] = [@ EXCEPT !.pc = "code", !.did = did[req[b].record.user]]]
     ELSE End(b)
  /\ UNCHANGED <<client, auth, records, created, signedIn, did, page, codes>>

CreateCode(b) ==
  /\ req[b].pc = "code" /\ created < MaxRecords
  /\ created' = created + 1
  /\ codes' = codes \cup {[consent |-> req[b].record, user |-> req[b].user,
                           did |-> req[b].did, id |-> created']}
  /\ End(b)
  /\ UNCHANGED <<client, auth, records, signedIn, did, page>>

RequestLost(b) ==
  /\ req[b].pc # "idle"
  /\ End(b)
  /\ UNCHANGED <<client, auth, records, created, signedIn, did, page, codes>>

-----------------------------------------------------------------------------
(* Around the flow *)

\* Login and logout; the browser leaves the page.
ChangeUser(b, u) ==
  /\ u # signedIn[b]
  /\ signedIn' = [signedIn EXCEPT ![b] = u]
  /\ UNCHANGED <<client, auth, records, created, did, req, page, codes>>

\* An account becomes active, or is removed.
ChangeAccount(u, d) ==
  /\ d = NoDid \/ (did[u] = NoDid /\ \A v \in Users : did[v] # d)
  /\ d # did[u]
  /\ did' = [did EXCEPT ![u] = d]
  /\ UNCHANGED <<client, auth, records, created, signedIn, req, page, codes>>

Expire(r) ==
  /\ records' = records \ {r}
  /\ UNCHANGED <<client, auth, created, signedIn, did, req, page, codes>>

Next ==
  \/ \E p \in Pushes :
       \/ \E c \in Challenges, s \in States, red \in Redirects, sc \in Scopes, h \in Dids \cup {NoDid} :
            Push(p, c, s, red, sc, h)
       \/ ReserveChallenge(p) \/ ReserveState(p) \/ CreatePar(p) \/ PushLost(p)
  \/ \E b \in Browsers :
       \/ \E r \in records : Open(b, r) \/ ShowDetails(b, r) \/ Allow(b, r) \/ Deny(b, r)
       \/ ReadUserSession(b) \/ CreateLoginRedirect(b) \/ ReadSubject(b) \/ CreateConsent(b)
       \/ CheckUser(b) \/ CheckSubject(b) \/ CreateCode(b) \/ RequestLost(b)
       \/ \E u \in Users \cup {NoUser} : ChangeUser(b, u)
  \/ \E u \in Users, d \in Dids \cup {NoDid} : ChangeAccount(u, d)
  \/ \E r \in records : Expire(r)

Spec == Init /\ [][Next]_vars

-----------------------------------------------------------------------------

\* A pushed request is in one place: a record, a handler or a code.  Neither a request URI
\* nor a continuation nor a consent that is opened twice, in two browsers at once, can lead
\* to two codes (authorization.ts 281-337, 365-404).
InOnePlace ==
  \A p \in Pushes :
    Cardinality({r.id : r \in {s \in records : s.push = p}}
                \cup {c.id : c \in {d \in codes : d.consent.push = p}})
    + Cardinality({b \in Browsers : req[b].pc # "idle" /\ req[b].record.push = p}) <= 1

\* A code is for the account and the user of the consent page that was shown: users sign
\* in and out and accounts change between the steps (README 13, authorization.ts 376-409).
ShownAndAllowed ==
  \A c \in codes : c.did = c.consent.did /\ c.user = c.consent.user

\* A code is only sent to a page that belongs to the client: one that the client's document
\* names, on a public host or the client's own, or one of the user's own machine that the
\* client id names, whatever its port (client-metadata.ts 199-221,
\* client-metadata-validation.ts 114-147).
SentToClient ==
  \A c \in codes :
    LET u == push[c.consent.push].redirect
        names(v) == v.host = u.host /\ v.path = u.path
    IN  /\ u.extra = "none"
        /\ IF client.loopback
           THEN /\ u.scheme = "http" /\ u.host \in Loopback
                /\ client.redirect_uris = <<>> \/ \E v \in Range(client.redirect_uris) : names(v)
           ELSE /\ u \in Range(client.document.redirect_uris)
                /\ IF client.document.application_type = "web"
                   THEN u.scheme = "https" /\ u.host \in PublicHosts
                   ELSE u.scheme \in {"https", "custom"} /\ u.host = client.url.host
=============================================================================
