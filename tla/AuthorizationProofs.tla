------------------------- MODULE AuthorizationProofs -------------------------
(***************************************************************************)
(* Proofs about OAuthAuthorization and ClientMetadata, for any number of   *)
(* clients, pushed requests, browsers, users and accounts.                 *)
(***************************************************************************)
EXTENDS OAuthAuthorization, FiniteSetTheorems, TLAPS

USE AuthorizationAssumption

-----------------------------------------------------------------------------
(* The inductive invariant *)

\* The client and the redirect URI of a request under way were checked.
PushesOK ==
  \A p \in Pushes : push[p].pc \in {"challenge", "state", "par", "pushed"} =>
    /\ push[p].challenge \in Challenges /\ push[p].state \in States
    /\ push[p].redirect \in Redirects
    /\ Resolved(client) # NoMetadata /\ RedirectUriMatches(push[p].redirect, Resolved(client))

Agreed(r) == r.user \in Users /\ r.did \in Dids

RecordsOK == \A r \in records : r.kind = "consent" => Agreed(r)

PagesOK == \A b \in Browsers : page[b] \in Record => page[b].kind = "consent"

\* What a handler has read and compared so far.
RowOK(v) ==
  /\ v.pc # "idle" => v.record \in Record
  /\ v.pc \in {"subject", "consent"} => v.user \in Users
  /\ v.pc = "consent" => v.did \in Dids
  /\ v.pc \in {"user", "account", "code"} => Agreed(v.record)
  /\ v.pc \in {"account", "code"} => v.user = v.record.user
  /\ v.pc = "code" => v.did = v.record.did

RequestsOK == \A b \in Browsers : RowOK(req[b])

\* The records, codes and handlers in which the pushed request p is.
Places(p) ==
  {<<"record", r>> : r \in {s \in records : s.push = p}}
  \cup {<<"code", c>> : c \in {d \in codes : d.consent.push = p}}
  \cup {<<"request", b>> : b \in {a \in Browsers : req[a].pc # "idle" /\ req[a].record.push = p}}

OnePlace ==
  \A p \in Pushes :
    /\ \A x, y \in Places(p) : x = y
    /\ push[p].pc # "pushed" => Places(p) = {}

IInv == TypeOK /\ PushesOK /\ RecordsOK /\ PagesOK /\ RequestsOK /\ OnePlace /\ ShownAndAllowed

-----------------------------------------------------------------------------
(* Rows *)

PushSteps == {"idle", "challenge", "state", "par", "pushed", "refused"}
PushRows == [pc : PushSteps, challenge : Challenges \cup {0}, state : States \cup {0},
             redirect : Redirects \cup {NoMetadata}, hint : Dids \cup {NoDid}]
Steps == {"idle", "session", "interaction", "subject", "consent", "user", "account", "code"}
RequestRows == [pc : Steps, record : Record \cup {NoRecord},
                user : Users \cup {NoUser}, did : Dids \cup {NoDid}]

LEMMA Types ==
  ASSUME TypeOK
  PROVE  /\ push \in [Pushes -> PushRows] /\ req \in [Browsers -> RequestRows]
         /\ \A p \in Pushes : push[p] \in PushRows
         /\ \A b \in Browsers : req[b] \in RequestRows
         /\ created \in Nat
BY DEF TypeOK, PushRows, PushSteps, RequestRows, Steps

LEMMA NoRequestRow ==
  NoRequest \in RequestRows /\ NoRequest.pc = "idle"
BY DEF NoRequest, RequestRows, Steps

\* One row of the pushed requests, or of the handlers, is replaced.
LEMMA Replaced ==
  ASSUME NEW S, NEW T, NEW f \in [S -> T], NEW s \in S, NEW x \in T
  PROVE  /\ [f EXCEPT ![s] = x] \in [S -> T] /\ [f EXCEPT ![s] = x][s] = x
         /\ \A t \in S : t # s => [f EXCEPT ![s] = x][t] = f[t]
OBVIOUS

LEMMA NextPc ==
  ASSUME NEW old \in RequestRows, NEW pc \in Steps, NEW v, v = [old EXCEPT !.pc = pc]
  PROVE  v \in RequestRows /\ v.pc = pc /\ v.record = old.record /\ v.user = old.user /\ v.did = old.did
BY DEF RequestRows

LEMMA NextPush ==
  ASSUME NEW old \in PushRows, NEW pc \in PushSteps, NEW v, v = [old EXCEPT !.pc = pc]
  PROVE  v \in PushRows /\ v.pc = pc /\ v.challenge = old.challenge /\ v.state = old.state
         /\ v.redirect = old.redirect /\ v.hint = old.hint
BY DEF PushRows

LEMMA AuthorizationInit ==
  Init => IInv
<1> SUFFICES ASSUME Init
             PROVE  IInv
  OBVIOUS
<1>1. \A p \in Pushes : push[p] = NewPush
  BY DEF Init
<1>2. \A b \in Browsers : req[b] = NoRequest /\ page[b] = NoRecord
  BY DEF Init
<1>3. NewPush \in PushRows /\ NewPush.pc = "idle"
  BY DEF NewPush, PushRows, PushSteps
<1>4. TypeOK
  <2>1. push \in [Pushes -> PushRows] /\ req \in [Browsers -> RequestRows]
    BY <1>3, NoRequestRow DEF Init
  <2>2. created \in 0..MaxRecords
    BY DEF Init
  <2>3. signedIn \in [Browsers -> Users \cup {NoUser}] /\ did \in [Users -> Dids \cup {NoDid}]
        /\ page \in [Browsers -> Record \cup {NoRecord}]
    BY DEF Init
  <2> QED
    BY <2>1, <2>2, <2>3 DEF Init, TypeOK, PushRows, PushSteps, RequestRows, Steps
<1>5. PushesOK
  BY <1>1, <1>3 DEF PushesOK
<1>6. NoRecord \notin Record
  BY DEF NoRecord, Record
<1>7. RecordsOK /\ PagesOK /\ RequestsOK
  BY <1>2, <1>6, NoRequestRow DEF Init, RecordsOK, PagesOK, RequestsOK, RowOK
<1>8. \A p \in Pushes : Places(p) = {}
  BY <1>2, NoRequestRow DEF Init, Places
<1>9. OnePlace
  BY <1>8 DEF OnePlace
<1>10. ShownAndAllowed
  BY DEF Init, ShownAndAllowed
<1> QED
  BY <1>4, <1>5, <1>7, <1>9, <1>10 DEF IInv

-----------------------------------------------------------------------------
(* Where a pushed request goes *)

LEMMA InPlaces ==
  ASSUME NEW p
  PROVE  \A z : z \in Places(p) <=>
           \/ \E r \in records : r.push = p /\ z = <<"record", r>>
           \/ \E c \in codes : c.consent.push = p /\ z = <<"code", c>>
           \/ \E b \in Browsers : req[b].pc # "idle" /\ req[b].record.push = p /\ z = <<"request", b>>
BY DEF Places

LEMMA InPlacesNext ==
  ASSUME NEW p
  PROVE  \A z : z \in Places(p)' <=>
           \/ \E r \in records' : r.push = p /\ z = <<"record", r>>
           \/ \E c \in codes' : c.consent.push = p /\ z = <<"code", c>>
           \/ \E b \in Browsers : req'[b].pc # "idle" /\ req'[b].record.push = p /\ z = <<"request", b>>
BY DEF Places

\* Nothing comes to a place.
LEMMA PlacesShrink ==
  ASSUME OnePlace, \A p \in Pushes : Places(p)' \subseteq Places(p),
         \A p \in Pushes : push[p].pc = "pushed" => push'[p].pc = "pushed"
  PROVE  OnePlace'
BY DEF OnePlace

\* One request goes from the place x to y.
LEMMA PlacesMove ==
  ASSUME OnePlace, UNCHANGED push, NEW p \in Pushes, NEW x \in Places(p), NEW y,
         x \notin Places(p)', Places(p)' \subseteq Places(p) \cup {y},
         \A q \in Pushes : q # p => Places(q)' \subseteq Places(q)
  PROVE  OnePlace'
<1>1. \A z \in Places(p) : z = x
  BY DEF OnePlace
<1>2. Places(p)' \subseteq {y}
  BY <1>1
<1>3. push[p].pc = "pushed"
  BY DEF OnePlace
<1>4. ASSUME NEW q \in Pushes
      PROVE  (\A w, z \in Places(q)' : w = z) /\ (push'[q].pc # "pushed" => Places(q)' = {})
  <2>1. CASE q = p
    BY <1>2, <1>3, <2>1
  <2>2. CASE q # p
    BY <2>2 DEF OnePlace
  <2> QED
    BY <2>1, <2>2
<1> QED
  BY <1>4 DEF OnePlace

\* A handler ends or goes on, with the record it has; or a record is gone.
LEMMA PlacesFewer ==
  ASSUME records' \subseteq records, codes' = codes,
         \A b \in Browsers : req'[b].pc # "idle" =>
           req[b].pc # "idle" /\ req'[b].record = req[b].record,
         NEW p
  PROVE  Places(p)' \subseteq Places(p)
BY InPlaces, InPlacesNext

LEMMA SameOnePlace ==
  ASSUME OnePlace, UNCHANGED push, records' \subseteq records, codes' = codes,
         \A b \in Browsers : req'[b].pc # "idle" =>
           req[b].pc # "idle" /\ req'[b].record = req[b].record
  PROVE  OnePlace'
<1>1. \A p \in Pushes : Places(p)' \subseteq Places(p)
  BY PlacesFewer
<1> QED
  BY <1>1, PlacesShrink

-----------------------------------------------------------------------------
(* The kinds of steps *)

Checked(v) ==
  v.pc \in {"challenge", "state", "par", "pushed"} =>
    /\ v.challenge \in Challenges /\ v.state \in States
    /\ v.redirect \in Redirects
    /\ Resolved(client) # NoMetadata /\ RedirectUriMatches(v.redirect, Resolved(client))

\* A step of POST /oauth/par.
LEMMA PushKeeps ==
  ASSUME IInv, NEW p \in Pushes, NEW v \in PushRows, Checked(v),
         push' = [push EXCEPT ![p] = v], push[p].pc # "pushed",
         reserved' \subseteq Challenges \cup States,
         UNCHANGED <<client, records, created, signedIn, did, req, page, codes>>
  PROVE  IInv'
<1>1. push \in [Pushes -> PushRows]
  BY Types DEF IInv
<1>2. push' \in [Pushes -> PushRows] /\ push'[p] = v /\ \A q \in Pushes : q # p => push'[q] = push[q]
  BY <1>1, Replaced
<1>3. TypeOK'
  BY <1>2 DEF IInv, TypeOK, PushRows, PushSteps
<1>4. PushesOK'
  <2>1. \A q \in Pushes : Checked(push'[q])
    BY <1>2 DEF IInv, PushesOK, Checked
  <2> QED
    BY <2>1 DEF PushesOK, Checked
<1>5. RecordsOK' /\ PagesOK' /\ RequestsOK' /\ ShownAndAllowed'
  BY DEF IInv, RecordsOK, PagesOK, RequestsOK, ShownAndAllowed
<1>6. OnePlace'
  <2>1. \A q \in Pushes : Places(q)' \subseteq Places(q)
    BY PlacesFewer
  <2>2. \A q \in Pushes : push[q].pc = "pushed" => push'[q].pc = "pushed"
    BY <1>2
  <2> QED
    BY <2>1, <2>2, PlacesShrink DEF IInv
<1> QED
  BY <1>3, <1>4, <1>5, <1>6 DEF IInv

\* A handler goes on with the record it consumed, or ends; or a record expires, or is
\* consumed without effect.
LEMMA RequestKeeps ==
  ASSUME IInv, records' \subseteq records,
         \/ UNCHANGED req
         \/ \E b \in Browsers, v \in RequestRows :
              /\ req' = [req EXCEPT ![b] = v] /\ RowOK(v)
              /\ v.pc # "idle" => req[b].pc # "idle" /\ v.record = req[b].record,
         UNCHANGED <<client, auth, created, signedIn, did, page, codes>>
  PROVE  IInv'
<1>1. push' = push /\ reserved' = reserved /\ req \in [Browsers -> RequestRows]
  BY Types DEF IInv, auth
<1>2. /\ req' \in [Browsers -> RequestRows]
      /\ \A b \in Browsers : RowOK(req'[b])
      /\ \A b \in Browsers : req'[b].pc # "idle" => req[b].pc # "idle" /\ req'[b].record = req[b].record
  <2>1. CASE UNCHANGED req
    BY <1>1, <2>1 DEF IInv, RequestsOK
  <2>2. ASSUME NEW b \in Browsers, NEW v \in RequestRows, req' = [req EXCEPT ![b] = v], RowOK(v),
               v.pc # "idle" => req[b].pc # "idle" /\ v.record = req[b].record
        PROVE  /\ req' \in [Browsers -> RequestRows]
               /\ \A a \in Browsers : RowOK(req'[a])
               /\ \A a \in Browsers : req'[a].pc # "idle" =>
                    req[a].pc # "idle" /\ req'[a].record = req[a].record
    <3>1. /\ req' \in [Browsers -> RequestRows] /\ req'[b] = v
          /\ \A a \in Browsers : a # b => req'[a] = req[a]
      BY <1>1, <2>2, Replaced
    <3>2. \A a \in Browsers : RowOK(req[a])
      BY DEF IInv, RequestsOK
    <3> QED
      BY <2>2, <3>1, <3>2
  <2> QED
    BY <2>1, <2>2
<1>3. TypeOK'
  BY <1>1, <1>2 DEF IInv, TypeOK, RequestRows, Steps
<1>4. PushesOK' /\ RecordsOK' /\ PagesOK' /\ ShownAndAllowed'
  BY <1>1 DEF IInv, PushesOK, RecordsOK, PagesOK, ShownAndAllowed
<1>5. RequestsOK'
  BY <1>2 DEF RequestsOK, RowOK, Agreed
<1>6. OnePlace'
  BY <1>1, <1>2, SameOnePlace DEF IInv
<1> QED
  BY <1>3, <1>4, <1>5, <1>6 DEF IInv

-----------------------------------------------------------------------------
(* New records *)

LEMMA NewRecord ==
  ASSUME TypeOK, NEW kind \in Kinds, NEW p \in Pushes, NEW u \in Users \cup {NoUser},
         NEW d \in Dids \cup {NoDid}, Create(kind, p, u, d)
  PROVE  /\ created' \in 0..MaxRecords
         /\ \E n \in Record : /\ n.kind = kind /\ n.push = p /\ n.user = u /\ n.did = d
                              /\ records' = records \cup {n}
<1> DEFINE n == [id |-> created + 1, kind |-> kind, push |-> p, user |-> u, did |-> d]
<1>1. created \in 0..MaxRecords /\ created < MaxRecords /\ MaxRecords \in Nat
  BY DEF TypeOK, Create
<1>2. created + 1 \in 1..MaxRecords
  BY <1>1
<1>3. n \in Record
  BY <1>2 DEF Record
<1>4. records' = records \cup {n} /\ created' = created + 1
  BY DEF Create
<1>5. n.kind = kind /\ n.push = p /\ n.user = u /\ n.did = d
  OBVIOUS
<1> HIDE DEF n
<1>6. created' \in 0..MaxRecords
  BY <1>2, <1>4, <1>1
<1> QED
  BY <1>3, <1>4, <1>5, <1>6

\* The pushed request is stored: it was nowhere, and is now in its record.
LEMMA CreateParKeeps ==
  ASSUME IInv, NEW p \in Pushes, CreatePar(p)
  PROVE  IInv'
<1>1. PICK n \in Record : n.kind = "par" /\ n.push = p /\ records' = records \cup {n}
  <2>1. "par" \in Kinds /\ NoUser \in Users \cup {NoUser} /\ NoDid \in Dids \cup {NoDid}
    BY DEF Kinds
  <2>2. Create("par", p, NoUser, NoDid)
    BY DEF CreatePar
  <2> QED
    BY <2>1, <2>2, NewRecord DEF IInv
<1>2. created' \in 0..MaxRecords
  <2>1. "par" \in Kinds /\ NoUser \in Users \cup {NoUser} /\ NoDid \in Dids \cup {NoDid}
    BY DEF Kinds
  <2>2. Create("par", p, NoUser, NoDid)
    BY DEF CreatePar
  <2> QED
    BY <2>1, <2>2, NewRecord DEF IInv
<1>3. PICK v : v = [push[p] EXCEPT !.pc = "pushed"]
  OBVIOUS
<1>4. push[p].pc = "par" /\ push' = [push EXCEPT ![p] = v]
      /\ UNCHANGED <<client, reserved, signedIn, did, req, page, codes>>
  BY <1>3 DEF CreatePar
<1>5. push[p] \in PushRows /\ push \in [Pushes -> PushRows]
  BY Types DEF IInv
<1>6. "pushed" \in PushSteps
  BY DEF PushSteps
<1>7. v \in PushRows /\ v.pc = "pushed" /\ v.challenge = push[p].challenge
      /\ v.state = push[p].state /\ v.redirect = push[p].redirect /\ v.hint = push[p].hint
  BY <1>3, <1>5, <1>6, NextPush
<1>8. push' \in [Pushes -> PushRows] /\ push'[p] = v
      /\ \A q \in Pushes : q # p => push'[q] = push[q]
  BY <1>4, <1>5, <1>7, Replaced
<1>9. TypeOK'
  BY <1>1, <1>2, <1>4, <1>8 DEF IInv, TypeOK, PushRows, PushSteps
<1>10. PushesOK'
  <2>1. \A q \in Pushes : Checked(push[q])
    BY DEF IInv, PushesOK, Checked
  <2>2. Checked(v)
    BY <2>1, <1>4, <1>7 DEF Checked
  <2>3. \A q \in Pushes : Checked(push'[q])
    BY <2>1, <2>2, <1>8
  <2> QED
    BY <2>3, <1>4 DEF PushesOK, Checked
<1>11. RecordsOK' /\ PagesOK' /\ RequestsOK' /\ ShownAndAllowed'
  BY <1>1, <1>4 DEF IInv, RecordsOK, PagesOK, RequestsOK, ShownAndAllowed
<1>12. OnePlace'
  <2>1. Places(p) = {}
    BY <1>4 DEF IInv, OnePlace
  <2>2. Places(p)' \subseteq {<<"record", n>>}
    BY <2>1, <1>1, <1>4, InPlaces, InPlacesNext
  <2>3. \A q \in Pushes : q # p => Places(q)' \subseteq Places(q)
    BY <1>1, <1>4, InPlaces, InPlacesNext
  <2>4. ASSUME NEW q \in Pushes
        PROVE  (\A w, z \in Places(q)' : w = z) /\ (push'[q].pc # "pushed" => Places(q)' = {})
    <3>1. CASE q = p
      BY <2>2, <1>7, <1>8, <3>1
    <3>2. CASE q # p
      BY <2>3, <1>8, <3>2 DEF IInv, OnePlace
    <3> QED
      BY <3>1, <3>2
  <2> QED
    BY <2>4 DEF OnePlace
<1> QED
  BY <1>9, <1>10, <1>11, <1>12 DEF IInv

\* A handler stores what it was asked: the login that it sends the user to, or the
\* consent that the user is to see.
LEMMA StoreKeeps ==
  ASSUME IInv, NEW b \in Browsers, req[b].pc # "idle",
         NEW kind \in Kinds, NEW u \in Users \cup {NoUser}, NEW d \in Dids \cup {NoDid},
         kind = "consent" => u \in Users /\ d \in Dids,
         Create(kind, req[b].record.push, u, d), End(b),
         UNCHANGED <<client, auth, signedIn, did, page, codes>>
  PROVE  IInv'
<1>1. push' = push /\ reserved' = reserved /\ req \in [Browsers -> RequestRows]
  BY Types DEF IInv, auth
<1>2. PICK p : p = req[b].record.push
  OBVIOUS
<1>3. p \in Pushes
  <2>1. req[b].record \in Record
    BY DEF IInv, RequestsOK, RowOK
  <2> QED
    BY <1>2, <2>1 DEF Record
<1>4. created' \in 0..MaxRecords
      /\ \E n \in Record : /\ n.kind = kind /\ n.push = p /\ n.user = u /\ n.did = d
                           /\ records' = records \cup {n}
  BY <1>2, <1>3, NewRecord DEF IInv
<1>5. PICK n \in Record : n.kind = kind /\ n.push = p /\ n.user = u /\ n.did = d
                          /\ records' = records \cup {n}
  BY <1>4
<1>6. /\ req' \in [Browsers -> RequestRows] /\ req'[b] = NoRequest
      /\ \A a \in Browsers : a # b => req'[a] = req[a]
  BY <1>1, NoRequestRow, Replaced DEF End
<1>7. TypeOK'
  BY <1>1, <1>4, <1>5, <1>6 DEF IInv, TypeOK, RequestRows, Steps
<1>8. PushesOK' /\ PagesOK' /\ ShownAndAllowed'
  BY <1>1 DEF IInv, PushesOK, PagesOK, ShownAndAllowed
<1>9. RecordsOK'
  BY <1>5 DEF IInv, RecordsOK, Agreed
<1>10. RequestsOK'
  BY <1>6, NoRequestRow DEF IInv, RequestsOK, RowOK, Agreed
<1>11. OnePlace'
  <2>1. <<"request", b>> \in Places(p)
    BY <1>2, InPlaces
  <2>2. <<"request", b>> \notin Places(p)'
    BY <1>6, NoRequestRow, InPlacesNext
  <2>3. Places(p)' \subseteq Places(p) \cup {<<"record", n>>}
    BY <1>5, <1>6, NoRequestRow, InPlaces, InPlacesNext
  <2>4. \A q \in Pushes : q # p => Places(q)' \subseteq Places(q)
    BY <1>5, <1>6, NoRequestRow, InPlaces, InPlacesNext
  <2> QED
    BY <1>1, <1>3, <2>1, <2>2, <2>3, <2>4, PlacesMove DEF IInv
<1> QED
  BY <1>7, <1>8, <1>9, <1>10, <1>11 DEF IInv

\* A handler consumes a record and goes on with it.
LEMMA TakeKeeps ==
  ASSUME IInv, NEW b \in Browsers, req[b].pc = "idle", NEW r \in records,
         NEW v \in RequestRows, RowOK(v), v.pc # "idle", v.record = r,
         req' = [req EXCEPT ![b] = v], Consume(r),
         UNCHANGED <<client, auth, created, signedIn, did, page, codes>>
  PROVE  IInv'
<1>1. push' = push /\ reserved' = reserved /\ req \in [Browsers -> RequestRows]
  BY Types DEF IInv, auth
<1>2. records' = records \ {r}
  BY DEF Consume
<1>3. /\ req' \in [Browsers -> RequestRows] /\ req'[b] = v
      /\ \A a \in Browsers : a # b => req'[a] = req[a]
  BY <1>1, Replaced
<1>4. TypeOK'
  BY <1>1, <1>2, <1>3 DEF IInv, TypeOK, RequestRows, Steps
<1>5. PushesOK' /\ RecordsOK' /\ PagesOK' /\ ShownAndAllowed'
  BY <1>1, <1>2 DEF IInv, PushesOK, RecordsOK, PagesOK, ShownAndAllowed
<1>6. RequestsOK'
  <2>1. \A a \in Browsers : RowOK(req'[a])
    BY <1>3 DEF IInv, RequestsOK
  <2> QED
    BY <2>1 DEF RequestsOK, RowOK, Agreed
<1>7. PICK p : p = r.push
  OBVIOUS
<1>8. p \in Pushes
  <2>1. r \in Record
    BY DEF IInv, TypeOK
  <2> QED
    BY <2>1, <1>7 DEF Record
<1>9. OnePlace'
  <2>1. <<"record", r>> \in Places(p)
    BY <1>7, InPlaces
  <2>2. <<"record", r>> \notin Places(p)'
    BY <1>2, InPlacesNext
  <2>3. Places(p)' \subseteq Places(p) \cup {<<"request", b>>}
    BY <1>2, <1>3, InPlaces, InPlacesNext
  <2>4. \A q \in Pushes : q # p => Places(q)' \subseteq Places(q)
    BY <1>2, <1>3, <1>7, InPlaces, InPlacesNext
  <2> QED
    BY <1>1, <1>8, <2>1, <2>2, <2>3, <2>4, PlacesMove DEF IInv
<1> QED
  BY <1>4, <1>5, <1>6, <1>9 DEF IInv

LEMMA OpenKeeps ==
  ASSUME IInv, NEW b \in Browsers, NEW r \in records, Open(b, r)
  PROVE  IInv'
<1>1. CASE UNCHANGED req
  <2>1. records' \subseteq records
    BY DEF Open, Consume
  <2> QED
    BY <1>1, <2>1, RequestKeeps DEF Open
<1>2. CASE req' = [req EXCEPT ![b] = [NoRequest EXCEPT !.pc = "session", !.record = r]]
  <2>1. PICK v : v = [NoRequest EXCEPT !.pc = "session", !.record = r]
    OBVIOUS
  <2>2. r \in Record /\ "session" \in Steps
    BY DEF IInv, TypeOK, Steps
  <2>3. v \in RequestRows /\ v.pc = "session" /\ v.record = r
    BY <2>1, <2>2 DEF NoRequest, RequestRows
  <2>4. RowOK(v)
    BY <2>2, <2>3 DEF RowOK
  <2>5. req' = [req EXCEPT ![b] = v]
    BY <1>2, <2>1
  <2> QED
    BY <2>3, <2>4, <2>5, TakeKeeps DEF Open
<1> QED
  BY <1>1, <1>2 DEF Open

LEMMA AllowKeeps ==
  ASSUME IInv, NEW b \in Browsers, NEW r \in records, Allow(b, r)
  PROVE  IInv'
<1>1. PICK v : v = [NoRequest EXCEPT !.pc = "user", !.record = r]
  OBVIOUS
<1>2. r \in Record /\ "user" \in Steps
  BY DEF IInv, TypeOK, Steps
<1>3. v \in RequestRows /\ v.pc = "user" /\ v.record = r
  BY <1>1, <1>2 DEF NoRequest, RequestRows
<1>4. Agreed(r)
  BY <1>2 DEF IInv, PagesOK, RecordsOK, Allow
<1>5. RowOK(v)
  BY <1>2, <1>3, <1>4 DEF RowOK
<1>6. req' = [req EXCEPT ![b] = v]
  BY <1>1 DEF Allow
<1> QED
  BY <1>3, <1>5, <1>6, TakeKeeps DEF Allow

\* The code is issued to the consent that the handler consumed.
LEMMA CreateCodeKeeps ==
  ASSUME IInv, NEW b \in Browsers, CreateCode(b)
  PROVE  IInv'
<1>1. push' = push /\ reserved' = reserved /\ req \in [Browsers -> RequestRows]
  BY Types DEF IInv, auth, CreateCode
<1>2. PICK r : r = req[b].record
  OBVIOUS
<1>3. RowOK(req[b]) /\ req[b].pc = "code"
  BY DEF IInv, RequestsOK, CreateCode
<1>4. r \in Record /\ Agreed(r) /\ req[b].user = r.user /\ req[b].did = r.did
  BY <1>2, <1>3 DEF RowOK
<1>5. PICK p : p = r.push
  OBVIOUS
<1>6. p \in Pushes
  BY <1>4, <1>5 DEF Record
<1>7. created' \in 0..MaxRecords /\ created' \in 1..MaxRecords
  <2>1. created \in 0..MaxRecords /\ created < MaxRecords /\ created' = created + 1
        /\ MaxRecords \in Nat
    BY DEF IInv, TypeOK, CreateCode
  <2> QED
    BY ONLY <2>1
<1>8. PICK c : c = [consent |-> req[b].record, user |-> req[b].user, did |-> req[b].did,
                    id |-> created']
  OBVIOUS
<1>9. c.consent = r /\ c.user = r.user /\ c.did = r.did /\ c.id = created'
  BY <1>2, <1>4, <1>8
<1>10. codes' = codes \cup {c}
  BY <1>8 DEF CreateCode
<1>11. c \in [consent : Record, user : Users, did : Dids, id : 1..MaxRecords]
  BY <1>2, <1>4, <1>7, <1>8 DEF Agreed
<1>12. /\ req' \in [Browsers -> RequestRows] /\ req'[b] = NoRequest
       /\ \A a \in Browsers : a # b => req'[a] = req[a]
  BY <1>1, NoRequestRow, Replaced DEF End, CreateCode
<1>13. UNCHANGED <<client, records, signedIn, did, page>>
  BY DEF CreateCode
<1>14. TypeOK'
  BY <1>1, <1>7, <1>10, <1>11, <1>12, <1>13 DEF IInv, TypeOK, RequestRows, Steps
<1>15. PushesOK' /\ RecordsOK' /\ PagesOK'
  BY <1>1, <1>13 DEF IInv, PushesOK, RecordsOK, PagesOK
<1>16. ShownAndAllowed'
  BY <1>9, <1>10 DEF IInv, ShownAndAllowed
<1>17. RequestsOK'
  <2>1. \A a \in Browsers : RowOK(req'[a])
    BY <1>12, NoRequestRow DEF IInv, RequestsOK, RowOK
  <2> QED
    BY <2>1 DEF RequestsOK, RowOK, Agreed
<1>18. OnePlace'
  <2>1. <<"request", b>> \in Places(p)
    BY <1>2, <1>3, <1>5, InPlaces
  <2>2. <<"request", b>> \notin Places(p)'
    BY <1>12, NoRequestRow, InPlacesNext
  <2>3. Places(p)' \subseteq Places(p) \cup {<<"code", c>>}
    BY <1>10, <1>12, <1>13, NoRequestRow, InPlaces, InPlacesNext
  <2>4. \A q \in Pushes : q # p => Places(q)' \subseteq Places(q)
    BY <1>5, <1>9, <1>10, <1>12, <1>13, NoRequestRow, InPlaces, InPlacesNext
  <2> QED
    BY <1>1, <1>6, <2>1, <2>2, <2>3, <2>4, PlacesMove DEF IInv
<1> QED
  BY <1>14, <1>15, <1>16, <1>17, <1>18 DEF IInv

-----------------------------------------------------------------------------
(* POST /oauth/par *)

LEMMA PushStep ==
  ASSUME IInv, NEW p \in Pushes, NEW c \in Challenges, NEW s \in States, NEW u \in Redirects,
         NEW sc \in Scopes, NEW h \in Dids \cup {NoDid}, Push(p, c, s, u, sc, h)
  PROVE  IInv'
<1> DEFINE ok == /\ Resolved(client) # NoMetadata /\ RedirectUriMatches(u, Resolved(client))
                 /\ ScopeAllowed(sc, Resolved(client))
<1>1. PICK v : v = IF ok THEN [pc |-> "challenge", challenge |-> c, state |-> s,
                               redirect |-> u, hint |-> h]
                   ELSE [NewPush EXCEPT !.pc = "refused"]
  OBVIOUS
<1>2. push[p].pc = "idle" /\ push' = [push EXCEPT ![p] = v]
      /\ UNCHANGED <<client, reserved, records, created, signedIn, did, req, page, codes>>
  BY <1>1 DEF Push
<1>3. v \in PushRows /\ Checked(v)
  <2>1. CASE ok
    <3>1. v = [pc |-> "challenge", challenge |-> c, state |-> s, redirect |-> u, hint |-> h]
      BY <1>1, <2>1
    <3>2. v \in PushRows
      BY <3>1 DEF PushRows, PushSteps
    <3>3. v.challenge = c /\ v.state = s /\ v.redirect = u
      BY <3>1
    <3> QED
      BY <2>1, <3>2, <3>3 DEF Checked
  <2>2. CASE ~ok
    <3>1. v = [NewPush EXCEPT !.pc = "refused"]
      BY <1>1, <2>2
    <3>2. v \in PushRows /\ v.pc = "refused"
      BY <3>1 DEF NewPush, PushRows, PushSteps
    <3> QED
      BY <3>2 DEF Checked
  <2> QED
    BY <2>1, <2>2
<1>4. reserved' \subseteq Challenges \cup States
  BY <1>2 DEF IInv, TypeOK
<1> QED
  BY <1>2, <1>3, <1>4, PushKeeps

\* A request that goes on to another step of the push, or is refused.
LEMMA PushGoesOn ==
  ASSUME IInv, NEW p \in Pushes, NEW pc \in PushSteps \ {"idle"},
         push[p].pc \in {"challenge", "state", "par"},
         push' = [push EXCEPT ![p].pc = pc], reserved' \subseteq Challenges \cup States,
         UNCHANGED <<client, records, created, signedIn, did, req, page, codes>>
  PROVE  IInv'
<1>1. PICK v : v = [push[p] EXCEPT !.pc = pc]
  OBVIOUS
<1>2. push[p] \in PushRows
  BY Types DEF IInv
<1>3. v \in PushRows /\ v.challenge = push[p].challenge
      /\ v.state = push[p].state /\ v.redirect = push[p].redirect
  BY <1>1, <1>2, NextPush
<1>4. Checked(v)
  BY <1>3 DEF IInv, PushesOK, Checked
<1>5. push' = [push EXCEPT ![p] = v] /\ push[p].pc # "pushed"
  BY <1>1
<1> QED
  BY <1>3, <1>4, <1>5, PushKeeps

LEMMA ReserveKeeps ==
  ASSUME IInv, NEW p \in Pushes, NEW pc \in {"challenge", "state"}, NEW next \in {"state", "par"},
         NEW x \in Challenges \cup States, Reserve(p, pc, x, next)
  PROVE  IInv'
<1>1. PICK n \in PushSteps \ {"idle"} : n = IF Free(x) THEN next ELSE "refused"
  BY DEF PushSteps
<1>2. push' = [push EXCEPT ![p].pc = n] /\ push[p].pc = pc /\ reserved' = reserved \cup {x}
      /\ UNCHANGED <<client, records, created, signedIn, did, req, page, codes>>
  BY <1>1 DEF Reserve
<1>3. reserved' \subseteq Challenges \cup States
  BY <1>2 DEF IInv, TypeOK
<1> QED
  BY <1>2, <1>3, PushGoesOn

LEMMA ParKeeps ==
  ASSUME IInv, NEW p \in Pushes, ReserveChallenge(p) \/ ReserveState(p) \/ PushLost(p)
  PROVE  IInv'
<1>1. CASE ReserveChallenge(p)
  <2>1. push[p].challenge \in Challenges
    BY <1>1 DEF IInv, PushesOK, ReserveChallenge, Reserve
  <2>2. Reserve(p, "challenge", push[p].challenge, "state")
    BY <1>1 DEF ReserveChallenge
  <2> QED
    BY <2>1, <2>2, ReserveKeeps
<1>2. CASE ReserveState(p)
  <2>1. push[p].state \in States
    BY <1>2 DEF IInv, PushesOK, ReserveState, Reserve
  <2>2. Reserve(p, "state", push[p].state, "par")
    BY <1>2 DEF ReserveState
  <2> QED
    BY <2>1, <2>2, ReserveKeeps
<1>3. CASE PushLost(p)
  <2>1. reserved' \subseteq Challenges \cup States
    BY <1>3 DEF IInv, TypeOK, PushLost
  <2>2. "refused" \in PushSteps \ {"idle"}
    BY DEF PushSteps
  <2> QED
    BY <1>3, <2>1, <2>2, PushGoesOn DEF PushLost
<1> QED
  BY <1>1, <1>2, <1>3

-----------------------------------------------------------------------------
(* GET and POST /oauth/authorize *)

\* The handler of a browser ends.
LEMMA EndKeeps ==
  ASSUME IInv, NEW b \in Browsers, End(b),
         UNCHANGED <<client, auth, records, created, signedIn, did, page, codes>>
  PROVE  IInv'
<1>1. RowOK(NoRequest)
  BY NoRequestRow DEF RowOK
<1>2. req' = [req EXCEPT ![b] = NoRequest]
  BY DEF End
<1>3. \E v \in RequestRows :
         /\ req' = [req EXCEPT ![b] = v] /\ RowOK(v)
         /\ v.pc # "idle" => req[b].pc # "idle" /\ v.record = req[b].record
  BY <1>1, <1>2, NoRequestRow
<1> QED
  BY <1>3, RequestKeeps

\* The handler goes on.
LEMMA GoKeeps ==
  ASSUME IInv, NEW b \in Browsers, NEW v \in RequestRows, RowOK(v),
         req[b].pc # "idle", v.record = req[b].record, req' = [req EXCEPT ![b] = v],
         UNCHANGED <<client, auth, records, created, signedIn, did, page, codes>>
  PROVE  IInv'
<1>1. \E a \in Browsers, w \in RequestRows :
         /\ req' = [req EXCEPT ![a] = w] /\ RowOK(w)
         /\ w.pc # "idle" => req[a].pc # "idle" /\ w.record = req[a].record
  OBVIOUS
<1> QED
  BY <1>1, RequestKeeps

LEMMA ReadUserSessionKeeps ==
  ASSUME IInv, NEW b \in Browsers, ReadUserSession(b)
  PROVE  IInv'
<1>1. PICK u \in Users \cup {NoUser} : u = signedIn[b]
  BY DEF IInv, TypeOK
<1>2. PICK pc \in Steps : pc = IF u = NoUser THEN "interaction" ELSE "subject"
  BY DEF Steps
<1>3. PICK v : v = [req[b] EXCEPT !.user = u, !.pc = pc]
  OBVIOUS
<1>4. req \in [Browsers -> RequestRows] /\ req[b] \in RequestRows /\ RowOK(req[b])
  BY Types DEF IInv, RequestsOK
<1>5. req[b].pc = "session"
      /\ UNCHANGED <<client, auth, records, created, signedIn, did, page, codes>>
  BY DEF ReadUserSession
<1>6. req' = [req EXCEPT ![b] = v]
  BY <1>1, <1>2, <1>3, <1>4 DEF ReadUserSession
<1>7. v \in RequestRows /\ v.pc = pc /\ v.record = req[b].record /\ v.user = u
  BY <1>3, <1>4 DEF RequestRows
<1>8. RowOK(v)
  BY <1>2, <1>4, <1>5, <1>7 DEF RowOK
<1> QED
  BY <1>5, <1>6, <1>7, <1>8, GoKeeps

LEMMA ReadSubjectKeeps ==
  ASSUME IInv, NEW b \in Browsers, ReadSubject(b)
  PROVE  IInv'
<1>1. req \in [Browsers -> RequestRows] /\ req[b] \in RequestRows /\ RowOK(req[b])
  BY Types DEF IInv, RequestsOK
<1>2. PICK d : d = did[req[b].user]
  OBVIOUS
<1>3. req[b].pc = "subject"
      /\ UNCHANGED <<client, auth, records, created, signedIn, did, page, codes>>
  BY DEF ReadSubject
<1>4. d \in Dids \cup {NoDid}
  BY <1>1, <1>2, <1>3 DEF IInv, TypeOK, RowOK
<1>5. CASE End(b)
  BY <1>3, <1>5, EndKeeps
<1>6. CASE d # NoDid /\ req' = [req EXCEPT ![b] = [@ EXCEPT !.pc = "consent", !.did = d]]
  <2>1. PICK v : v = [req[b] EXCEPT !.pc = "consent", !.did = d]
    OBVIOUS
  <2>2. "consent" \in Steps
    BY DEF Steps
  <2>3. v \in RequestRows /\ v.pc = "consent" /\ v.record = req[b].record
        /\ v.user = req[b].user /\ v.did = d
    BY <1>1, <1>4, <2>1, <2>2 DEF RequestRows
  <2>4. RowOK(v)
    BY <1>1, <1>3, <1>4, <1>6, <2>3 DEF RowOK
  <2>5. req' = [req EXCEPT ![b] = v]
    BY <1>6, <2>1, <1>1
  <2> QED
    BY <1>3, <2>3, <2>4, <2>5, GoKeeps
<1> QED
  BY <1>2, <1>5, <1>6 DEF ReadSubject

LEMMA CheckUserKeeps ==
  ASSUME IInv, NEW b \in Browsers, CheckUser(b)
  PROVE  IInv'
<1>1. req \in [Browsers -> RequestRows] /\ req[b] \in RequestRows /\ RowOK(req[b])
  BY Types DEF IInv, RequestsOK
<1>2. req[b].pc = "user"
      /\ UNCHANGED <<client, auth, records, created, signedIn, did, page, codes>>
  BY DEF CheckUser
<1>3. CASE End(b)
  BY <1>2, <1>3, EndKeeps
<1>4. CASE SameUser(b) /\ req' = [req EXCEPT ![b] = [@ EXCEPT !.pc = "account", !.user = signedIn[b]]]
  <2>1. PICK u \in Users \cup {NoUser} : u = signedIn[b]
    BY DEF IInv, TypeOK
  <2>2. PICK v : v = [req[b] EXCEPT !.pc = "account", !.user = u]
    OBVIOUS
  <2>3. "account" \in Steps
    BY DEF Steps
  <2>4. v \in RequestRows /\ v.pc = "account" /\ v.record = req[b].record /\ v.user = u
    BY <1>1, <2>1, <2>2, <2>3 DEF RequestRows
  <2>5. u = req[b].record.user
    BY <1>4, <2>1 DEF SameUser
  <2>6. RowOK(v)
    BY <1>1, <1>2, <2>4, <2>5 DEF RowOK
  <2>7. req' = [req EXCEPT ![b] = v]
    BY <1>4, <2>1, <2>2, <1>1
  <2> QED
    BY <1>2, <2>4, <2>6, <2>7, GoKeeps
<1> QED
  BY <1>3, <1>4 DEF CheckUser

LEMMA CheckSubjectKeeps ==
  ASSUME IInv, NEW b \in Browsers, CheckSubject(b)
  PROVE  IInv'
<1>1. req \in [Browsers -> RequestRows] /\ req[b] \in RequestRows /\ RowOK(req[b])
  BY Types DEF IInv, RequestsOK
<1>2. req[b].pc = "account"
      /\ UNCHANGED <<client, auth, records, created, signedIn, did, page, codes>>
  BY DEF CheckSubject
<1>3. CASE End(b)
  BY <1>2, <1>3, EndKeeps
<1>4. CASE SameSubject(b)
           /\ req' = [req EXCEPT ![b] = [@ EXCEPT !.pc = "code", !.did = did[req[b].record.user]]]
  <2>1. PICK d : d = did[req[b].record.user]
    OBVIOUS
  <2>2. d = req[b].record.did /\ d \in Dids
    BY <1>1, <1>2, <1>4, <2>1 DEF SameSubject, RowOK, Agreed
  <2>3. PICK v : v = [req[b] EXCEPT !.pc = "code", !.did = d]
    OBVIOUS
  <2>4. "code" \in Steps
    BY DEF Steps
  <2>5. v \in RequestRows /\ v.pc = "code" /\ v.record = req[b].record
        /\ v.user = req[b].user /\ v.did = d
    BY <1>1, <2>2, <2>3, <2>4 DEF RequestRows
  <2>6. RowOK(v)
    BY <1>1, <1>2, <2>2, <2>5 DEF RowOK
  <2>7. req' = [req EXCEPT ![b] = v]
    BY <1>4, <2>1, <2>3, <1>1
  <2> QED
    BY <1>2, <2>5, <2>6, <2>7, GoKeeps
<1> QED
  BY <1>3, <1>4 DEF CheckSubject

\* The page shows a consent; users sign in and out; accounts change.
LEMMA AroundKeeps ==
  ASSUME IInv, UNCHANGED <<client, auth, records, created, req, codes>>,
         signedIn' \in [Browsers -> Users \cup {NoUser}],
         did' \in [Users -> Dids \cup {NoDid}],
         page' \in [Browsers -> Record \cup {NoRecord}], PagesOK'
  PROVE  IInv'
<1>1. push' = push /\ reserved' = reserved
  BY DEF auth
<1>2. TypeOK'
  BY <1>1 DEF IInv, TypeOK
<1>3. PushesOK' /\ RecordsOK' /\ RequestsOK' /\ ShownAndAllowed'
  BY <1>1 DEF IInv, PushesOK, RecordsOK, RequestsOK, ShownAndAllowed
<1>4. OnePlace'
  BY <1>1, SameOnePlace DEF IInv
<1> QED
  BY <1>2, <1>3, <1>4 DEF IInv

LEMMA ShowDetailsKeeps ==
  ASSUME IInv, NEW b \in Browsers, NEW r \in records, ShowDetails(b, r)
  PROVE  IInv'
<1>1. page \in [Browsers -> Record \cup {NoRecord}] /\ r \in Record /\ r.kind = "consent"
  BY DEF IInv, TypeOK, ShowDetails
<1>2. page' = [page EXCEPT ![b] = r]
      /\ UNCHANGED <<client, auth, records, created, signedIn, did, req, codes>>
  BY DEF ShowDetails
<1>3. page' \in [Browsers -> Record \cup {NoRecord}] /\ page'[b] = r
      /\ \A a \in Browsers : a # b => page'[a] = page[a]
  BY <1>1, <1>2, Replaced
<1>4. PagesOK'
  BY <1>1, <1>3 DEF IInv, PagesOK
<1>5. signedIn' \in [Browsers -> Users \cup {NoUser}] /\ did' \in [Users -> Dids \cup {NoDid}]
  BY <1>2 DEF IInv, TypeOK
<1> QED
  BY <1>2, <1>3, <1>4, <1>5, AroundKeeps

LEMMA AccountsKeep ==
  ASSUME IInv,
         \/ \E b \in Browsers, u \in Users \cup {NoUser} : ChangeUser(b, u)
         \/ \E u \in Users, d \in Dids \cup {NoDid} : ChangeAccount(u, d)
  PROVE  IInv'
<1>1. /\ signedIn \in [Browsers -> Users \cup {NoUser}] /\ did \in [Users -> Dids \cup {NoDid}]
      /\ page \in [Browsers -> Record \cup {NoRecord}] /\ PagesOK
  BY DEF IInv, TypeOK
<1>2. ASSUME NEW b \in Browsers, NEW u \in Users \cup {NoUser}, ChangeUser(b, u)
      PROVE  IInv'
  <2>1. UNCHANGED <<client, auth, records, created, did, req, page, codes>>
        /\ signedIn' = [signedIn EXCEPT ![b] = u]
    BY <1>2 DEF ChangeUser
  <2>2. signedIn' \in [Browsers -> Users \cup {NoUser}] /\ PagesOK'
    BY <1>1, <2>1 DEF PagesOK
  <2> QED
    BY <1>1, <2>1, <2>2, AroundKeeps
<1>3. ASSUME NEW u \in Users, NEW d \in Dids \cup {NoDid}, ChangeAccount(u, d)
      PROVE  IInv'
  <2>1. UNCHANGED <<client, auth, records, created, signedIn, req, page, codes>>
        /\ did' = [did EXCEPT ![u] = d]
    BY <1>3 DEF ChangeAccount
  <2>2. did' \in [Users -> Dids \cup {NoDid}] /\ PagesOK'
    BY <1>1, <2>1 DEF PagesOK
  <2> QED
    BY <1>1, <2>1, <2>2, AroundKeeps
<1> QED
  BY <1>2, <1>3

-----------------------------------------------------------------------------

LEMMA AuthorizationStep ==
  IInv /\ [Next]_vars => IInv'
<1> SUFFICES ASSUME IInv, [Next]_vars
             PROVE  IInv'
  OBVIOUS
<1>1. CASE UNCHANGED vars
  <2>1. records' \subseteq records /\ UNCHANGED req
        /\ UNCHANGED <<client, auth, created, signedIn, did, page, codes>>
    BY <1>1 DEF vars, auth
  <2> QED
    BY <2>1, RequestKeeps
<1>2. ASSUME NEW p \in Pushes, NEW c \in Challenges, NEW s \in States, NEW red \in Redirects,
             NEW sc \in Scopes, NEW h \in Dids \cup {NoDid}, Push(p, c, s, red, sc, h)
      PROVE  IInv'
  BY <1>2, PushStep
<1>3. ASSUME NEW p \in Pushes, ReserveChallenge(p) \/ ReserveState(p) \/ PushLost(p)
      PROVE  IInv'
  BY <1>3, ParKeeps
<1>4. ASSUME NEW p \in Pushes, CreatePar(p)
      PROVE  IInv'
  BY <1>4, CreateParKeeps
<1>5. ASSUME NEW b \in Browsers, NEW r \in records, Open(b, r)
      PROVE  IInv'
  BY <1>5, OpenKeeps
<1>6. ASSUME NEW b \in Browsers, NEW r \in records, ShowDetails(b, r)
      PROVE  IInv'
  BY <1>6, ShowDetailsKeeps
<1>7. ASSUME NEW b \in Browsers, NEW r \in records, Allow(b, r)
      PROVE  IInv'
  BY <1>7, AllowKeeps
<1>8. ASSUME NEW r \in records, Expire(r) \/ \E b \in Browsers : Deny(b, r)
      PROVE  IInv'
  <2>1. records' \subseteq records /\ UNCHANGED req
        /\ UNCHANGED <<client, auth, created, signedIn, did, page, codes>>
    BY <1>8 DEF Expire, Deny, Consume
  <2> QED
    BY <2>1, RequestKeeps
<1>9. ASSUME NEW b \in Browsers, ReadUserSession(b)
      PROVE  IInv'
  BY <1>9, ReadUserSessionKeeps
<1>10. ASSUME NEW b \in Browsers, CreateLoginRedirect(b)
       PROVE  IInv'
  <2>1. /\ "interaction" \in Kinds /\ "interaction" # "consent"
        /\ NoUser \in Users \cup {NoUser} /\ NoDid \in Dids \cup {NoDid}
    BY DEF Kinds
  <2>2. /\ req[b].pc # "idle" /\ Create("interaction", req[b].record.push, NoUser, NoDid) /\ End(b)
        /\ UNCHANGED <<client, auth, signedIn, did, page, codes>>
    BY <1>10 DEF CreateLoginRedirect
  <2> QED
    BY <2>1, <2>2, StoreKeeps
<1>11. ASSUME NEW b \in Browsers, ReadSubject(b)
       PROVE  IInv'
  BY <1>11, ReadSubjectKeeps
<1>12. ASSUME NEW b \in Browsers, CreateConsent(b)
       PROVE  IInv'
  <2>1. RowOK(req[b]) /\ req[b] \in RequestRows
    BY Types DEF IInv, RequestsOK
  <2>2. /\ req[b].pc = "consent"
        /\ Create("consent", req[b].record.push, req[b].user, req[b].did) /\ End(b)
        /\ UNCHANGED <<client, auth, signedIn, did, page, codes>>
    BY <1>12 DEF CreateConsent
  <2>3. "consent" \in Kinds /\ req[b].user \in Users /\ req[b].did \in Dids
    BY <2>1, <2>2 DEF Kinds, RowOK
  <2> QED
    BY <2>2, <2>3, StoreKeeps
<1>13. ASSUME NEW b \in Browsers, CheckUser(b)
       PROVE  IInv'
  BY <1>13, CheckUserKeeps
<1>14. ASSUME NEW b \in Browsers, CheckSubject(b)
       PROVE  IInv'
  BY <1>14, CheckSubjectKeeps
<1>15. ASSUME NEW b \in Browsers, CreateCode(b)
       PROVE  IInv'
  BY <1>15, CreateCodeKeeps
<1>16. ASSUME NEW b \in Browsers, RequestLost(b)
       PROVE  IInv'
  BY <1>16, EndKeeps DEF RequestLost
<1>17. CASE \/ \E b \in Browsers, u \in Users \cup {NoUser} : ChangeUser(b, u)
            \/ \E u \in Users, d \in Dids \cup {NoDid} : ChangeAccount(u, d)
  BY <1>17, AccountsKeep
<1> QED
  BY <1>1, <1>2, <1>3, <1>4, <1>5, <1>6, <1>7, <1>8, <1>9, <1>10, <1>11, <1>12, <1>13,
     <1>14, <1>15, <1>16, <1>17 DEF Next

LEMMA AuthorizationInv ==
  Spec => []IInv
BY AuthorizationInit, AuthorizationStep, PTL DEF Spec

\* The client, the pushed requests, the records, the handlers, the pages and the codes have
\* their types in every state (authorization.ts, authorization-store.ts).
THEOREM AuthorizationTypeCorrect ==
  Spec => []TypeOK
<1>1. IInv => TypeOK
  BY DEF IInv
<1> QED
  BY <1>1, AuthorizationInv, PTL

LEMMA OnePlaceCounted ==
  ASSUME OnePlace, NEW p \in Pushes
  PROVE  Cardinality({r.id : r \in {s \in records : s.push = p}}
                     \cup {c.id : c \in {d \in codes : d.consent.push = p}})
         + Cardinality({b \in Browsers : req[b].pc # "idle" /\ req[b].record.push = p}) <= 1
<1> DEFINE Stored == {s \in records : s.push = p}
           Issued == {d \in codes : d.consent.push = p}
           Ids == {r.id : r \in Stored} \cup {c.id : c \in Issued}
           Handlers == {b \in Browsers : req[b].pc # "idle" /\ req[b].record.push = p}
<1>1. \A x, y \in Places(p) : x = y
  BY DEF OnePlace
<1>2. \A z : z \in Places(p) <=>
         \/ \E r \in Stored : z = <<"record", r>>
         \/ \E c \in Issued : z = <<"code", c>>
         \/ \E b \in Handlers : z = <<"request", b>>
  BY InPlaces
<1> HIDE DEF Stored, Issued, Handlers
<1>3. Cardinality({}) = 0 /\ \A e : Cardinality({e}) = 1
  BY FS_EmptySet, FS_Singleton
<1>4. \/ Ids = {} /\ \E b : Handlers \subseteq {b}
      \/ Handlers = {} /\ \E i : Ids = {i}
  <2>1. CASE Stored = {} /\ Issued = {}
    <3>1. Ids = {}
      BY <2>1
    <3>2. ASSUME NEW a \in Handlers, NEW b \in Handlers
          PROVE  a = b
      <4>1. <<"request", a>> \in Places(p) /\ <<"request", b>> \in Places(p)
        BY <1>2
      <4>2. <<"request", a>> = <<"request", b>>
        BY <1>1, <4>1
      <4> QED
        BY <4>2
    <3>3. \E b : Handlers \subseteq {b}
      BY <3>2
    <3> QED
      BY <3>1, <3>3
  <2>2. ASSUME NEW r \in Stored
        PROVE  Handlers = {} /\ Ids = {r.id}
    <3>1. <<"record", r>> \in Places(p)
      BY <1>2
    <3>2. Handlers = {} /\ Issued = {} /\ \A s \in Stored : s = r
      BY <1>1, <1>2, <3>1
    <3> QED
      BY <3>2
  <2>3. ASSUME NEW c \in Issued
        PROVE  Handlers = {} /\ Ids = {c.id}
    <3>1. <<"code", c>> \in Places(p)
      BY <1>2
    <3>2. Handlers = {} /\ Stored = {} /\ \A d \in Issued : d = c
      BY <1>1, <1>2, <3>1
    <3> QED
      BY <3>2
  <2> HIDE DEF Ids
  <2> QED
    BY <2>1, <2>2, <2>3
<1>5. Cardinality(Ids) + Cardinality(Handlers) <= 1
  <2> HIDE DEF Ids
  <2>1. CASE Ids = {} /\ \E b : Handlers \subseteq {b}
    <3>1. Cardinality(Ids) = 0
      BY <2>1, <1>3, Zenon
    <3>2. Handlers = {} \/ \E b : Handlers = {b}
      BY <2>1
    <3>3. Cardinality(Handlers) = 0 \/ Cardinality(Handlers) = 1
      BY <3>2, <1>3, Zenon
    <3> QED
      BY ONLY <3>1, <3>3
  <2>2. CASE Handlers = {} /\ \E i : Ids = {i}
    <3>1. Cardinality(Handlers) = 0 /\ Cardinality(Ids) = 1
      BY <2>2, <1>3, Zenon
    <3> QED
      BY ONLY <3>1
  <2> QED
    BY <1>4, <2>1, <2>2
<1> QED
  BY <1>5 DEF Stored, Issued, Handlers

\* A pushed request is in one record, in one handler or in one code, in every state: no
\* request URI, continuation or consent that is opened twice leads to two codes
\* (authorization.ts 281-337, 365-404).
THEOREM RequestsInOnePlace ==
  Spec => []InOnePlace
<1>1. IInv => InOnePlace
  BY OnePlaceCounted DEF IInv, InOnePlace
<1> QED
  BY <1>1, AuthorizationInv, PTL

\* Every code is for the user and the account of the consent that was shown, however users
\* sign in and out and accounts change between the steps (authorization.ts 376-409).
THEOREM CodesAsShown ==
  Spec => []ShownAndAllowed
<1>1. IInv => ShownAndAllowed
  BY DEF IInv
<1> QED
  BY <1>1, AuthorizationInv, PTL

\* A page that the client id of a loopback client names, whatever its port.
LEMMA LoopbackPage ==
  ASSUME NEW c \in Clients, NEW u \in Redirects, c.loopback,
         Resolved(c) # NoMetadata, RedirectUriMatches(u, Resolved(c))
  PROVE  /\ u.extra = "none" /\ u.scheme = "http" /\ u.host \in Loopback
         /\ \/ c.redirect_uris = <<>>
            \/ \E v \in Range(c.redirect_uris) : v.host = u.host /\ v.path = u.path
<1>1. Resolved(c) = LoopbackMetadata(c) /\ LoopbackMetadata(c) # NoMetadata
  BY DEF Resolved
<1>2. LoopbackMetadata(c).clientId = "loopback"
  BY <1>1 DEF LoopbackMetadata
<1>3. LoopbackRedirect(u)
      /\ \E v \in LoopbackMetadata(c).redirectUris : [u EXCEPT !.port = ""] = [v EXCEPT !.port = ""]
  BY <1>1, <1>2 DEF RedirectUriMatches
<1>4. CASE c.redirect_uris # <<>>
  <2>1. LoopbackMetadata(c).redirectUris = Range(c.redirect_uris)
    BY <1>1, <1>4 DEF LoopbackMetadata
  <2>2. PICK v \in Range(c.redirect_uris) : [u EXCEPT !.port = ""] = [v EXCEPT !.port = ""]
    BY <1>3, <2>1
  <2>3. u \in Url /\ v \in Url
    <3>1. PICK s : s = c.redirect_uris
      OBVIOUS
    <3>2. s \in Seq(Url)
      BY <3>1
    <3>3. PICK i \in DOMAIN s : v = s[i]
      BY <2>2, <3>1 DEF Range
    <3>4. v \in Url
      BY <3>2, <3>3
    <3> QED
      BY <3>4
  <2>4. v.host = u.host /\ v.path = u.path
    BY <2>2, <2>3 DEF Url
  <2> QED
    BY <1>3, <2>2, <2>4 DEF LoopbackRedirect, Parsed
<1> QED
  BY <1>3, <1>4 DEF LoopbackRedirect, Parsed

\* A page that the client's document names, and that its type may name.
LEMMA DocumentPage ==
  ASSUME NEW c, NEW u, ~c.loopback,
         Resolved(c) # NoMetadata, RedirectUriMatches(u, Resolved(c))
  PROVE  /\ u.extra = "none" /\ u \in Range(c.document.redirect_uris)
         /\ IF c.document.application_type = "web"
            THEN u.scheme = "https" /\ u.host \in PublicHosts
            ELSE u.scheme \in {"https", "custom"} /\ u.host = c.url.host
<1>1. Resolved(c) = FetchedMetadata(c) /\ FetchedMetadata(c) # NoMetadata
  BY DEF Resolved
<1>2. FetchedMetadata(c).clientId = "fetched"
      /\ FetchedMetadata(c).redirectUris = Range(c.document.redirect_uris)
      /\ \A i \in DOMAIN c.document.redirect_uris :
           RedirectAllowed(c.document.redirect_uris[i], c.document.application_type, c.url)
  BY <1>1 DEF FetchedMetadata
<1>3. u \in Range(c.document.redirect_uris)
  BY <1>1, <1>2 DEF RedirectUriMatches
<1>4. RedirectAllowed(u, c.document.application_type, c.url)
  BY <1>2, <1>3 DEF Range
<1> QED
  BY <1>3, <1>4 DEF RedirectAllowed, WebRedirect, NativeRedirect, HttpsUrl, Parsed, SameOrigin

\* Every code is sent to a page of the client that was resolved when the request was pushed:
\* one of its document and its type, or one of the user's own machine that the client id
\* names (client-metadata.ts 199-221, client-metadata-validation.ts 114-147).
THEOREM CodesSentToClient ==
  Spec => []SentToClient
<1>1. ASSUME IInv, NEW c \in codes
      PROVE  /\ client \in Clients /\ push[c.consent.push].redirect \in Redirects
             /\ Resolved(client) # NoMetadata
             /\ RedirectUriMatches(push[c.consent.push].redirect, Resolved(client))
  <2>1. PICK p : p = c.consent.push
    OBVIOUS
  <2>2. p \in Pushes /\ client \in Clients
    BY <1>1, <2>1 DEF IInv, TypeOK, Record
  <2>3. <<"code", c>> \in Places(p)
    BY <2>1, InPlaces
  <2>4. push[p].pc = "pushed"
    BY <1>1, <2>2, <2>3 DEF IInv, OnePlace
  <2> QED
    BY <1>1, <2>1, <2>2, <2>4 DEF IInv, PushesOK
<1>2. ASSUME IInv
      PROVE  SentToClient
  <2>1. ASSUME NEW c \in codes, client.loopback
        PROVE  LET u == push[c.consent.push].redirect
               IN  /\ u.extra = "none" /\ u.scheme = "http" /\ u.host \in Loopback
                   /\ \/ client.redirect_uris = <<>>
                      \/ \E v \in Range(client.redirect_uris) : v.host = u.host /\ v.path = u.path
    BY <1>1, <1>2, <2>1, LoopbackPage
  <2>2. ASSUME NEW c \in codes, ~client.loopback
        PROVE  LET u == push[c.consent.push].redirect
               IN  /\ u.extra = "none" /\ u \in Range(client.document.redirect_uris)
                   /\ IF client.document.application_type = "web"
                      THEN u.scheme = "https" /\ u.host \in PublicHosts
                      ELSE u.scheme \in {"https", "custom"} /\ u.host = client.url.host
    BY <1>1, <1>2, <2>2, DocumentPage
  <2> QED
    BY <2>1, <2>2 DEF SentToClient
<1> QED
  BY <1>2, AuthorizationInv, PTL
=============================================================================
