---------------------------- MODULE AccountsProofs ----------------------------
(***************************************************************************)
(* Proofs about what the users of Accounts manage: the sessions of app     *)
(* passwords, for any number of passwords, requests, keys and tokens; the  *)
(* page that lists, creates and revokes app passwords, for any number of   *)
(* calls; and the preferences with the page that sets the birth date, for  *)
(* any dates, days, clients and number of saves.                           *)
(***************************************************************************)
EXTENDS AppPasswordSessions, AppPasswordPage, Preferences, FiniteSetTheorems, TLAPS


-----------------------------------------------------------------------------
(***************************************************************************)
(* Sessions (AppPasswordSessions)                                          *)
(***************************************************************************)

USE SessionAssumption DEF NoToken, Tokens, Times

-----------------------------------------------------------------------------
(* The inductive invariant *)

RequestsOK ==
  \A r \in Requests :
    /\ req[r].token <= created /\ req[r].next <= created /\ req[r].at <= now
    /\ req[r].pc = "create" => req[r].token = NoToken
    /\ req[r].pc = "initialize" => req[r].kid \in Keys

\* The password of a token is one that exists, and so is not revoked.
RowsOwned ==
  /\ passwords \cap revoked = {}
  /\ \A t \in DOMAIN table : table[t].password \in passwords

\* A token with which a client logged out has no row any more.
LogoutFinal ==
  loggedOut \subseteq 1..created /\ loggedOut \cap DOMAIN table = {}

\* A successor outlives the token it replaces, with which it shares the password,
\* so that nothing but a logout removes it alone.
SuccessorOutlives ==
  \A t \in DOMAIN table : table[t].next # NoToken =>
    /\ table[t].next <= created
    /\ table[t].expires <= now + Grace
    /\ \/ table[t].next \in loggedOut
       \/ /\ table[t].next \in DOMAIN table
          /\ table[table[t].next].password = table[t].password
          /\ table[t].expires <= table[table[t].next].expires

\* A request that is about to rotate the successor of t came after t was rotated, so
\* that the grace period of the successor ends after that of t.
RotationsOrdered ==
  \A r \in Requests : \A t \in DOMAIN table :
    req[r].pc = "rotate" /\ table[t].next # NoToken /\ table[t].next = req[r].token =>
      table[t].expires <= req[r].at + Grace

\* The successor n of t has been answered, or is about to be.
Told(t, n) ==
  \/ [token |-> t, next |-> n] \in answers
  \/ \E r \in Requests : req[r].token = t /\ req[r].next = n

\* It is the one in the table, as long as there is a row.
ToldIsStored ==
  \A t, n \in Tokens : Told(t, n) =>
    /\ t <= created /\ n <= created
    /\ t \in DOMAIN table => table[t].next = n

OneSuccessor ==
  \A t, m, n \in Tokens : Told(t, m) /\ Told(t, n) => m = n

IInv ==
  /\ TypeOK
  /\ RequestsOK
  /\ RowsOwned
  /\ LogoutFinal
  /\ SuccessorOutlives
  /\ RotationsOrdered
  /\ ToldIsStored
  /\ OneSuccessor
  /\ TokensVerifiable

RequestRecords ==
  [pc : {"idle", "create", "rotate", "reread", "successor", "keys", "initialize"},
   password : Passwords \cup {NoPassword}, token : Tokens \cup {NoToken},
   next : Tokens \cup {NoToken}, at : Times, expires : Nat, kid : Keys \cup {NoKey}]

-----------------------------------------------------------------------------
(* What the steps have in common *)

LEMMA RequestFacts ==
  ASSUME TypeOK, NEW r \in Requests, NEW v, req' = [req EXCEPT ![r] = v]
  PROVE  /\ DOMAIN req' = Requests /\ req'[r] = v
         /\ \A q \in Requests : q # r => req'[q] = req[q]
BY DEF TypeOK

LEMMA RequestType ==
  ASSUME TypeOK, NEW r \in Requests, NEW v \in RequestRecords,
         req' = [req EXCEPT ![r] = v]
  PROVE  req' \in [Requests -> RequestRecords]
<1>1. req \in [Requests -> RequestRecords]
  BY DEF TypeOK, RequestRecords
<1> HIDE DEF RequestRecords
<1> QED
  BY <1>1

LEMMA NoRequestFacts ==
  /\ NoRequest \in RequestRecords
  /\ NoRequest.pc = "idle" /\ NoRequest.token = NoToken /\ NoRequest.next = NoToken
  /\ NoRequest.at = 0
BY DEF NoRequest, RequestRecords

\* Rows come once: a token that has none gets none, and a successor stays.
RowsFixed ==
  \A t \in 1..created : t \in DOMAIN table' =>
    /\ t \in DOMAIN table
    /\ table[t].next # NoToken => table'[t].next = table[t].next

\* What becomes known as a successor is the one in the table.
ToldFromTable ==
  \A t, n \in Tokens : Told(t, n)' =>
    Told(t, n) \/ (t \in DOMAIN table /\ table[t].next = n)

LEMMA ToldStep ==
  ASSUME TypeOK, SuccessorOutlives, ToldIsStored, OneSuccessor,
         created' \in Nat, created <= created', RowsFixed, ToldFromTable
  PROVE  ToldIsStored' /\ OneSuccessor'
<1>1. ASSUME NEW t \in Tokens, NEW n \in Tokens, Told(t, n)'
      PROVE  /\ t \in 1..created /\ n <= created
             /\ t \in DOMAIN table => table[t].next = n
  BY <1>1 DEF ToldFromTable, ToldIsStored, SuccessorOutlives, TypeOK
<1>2. ASSUME NEW t \in Tokens, NEW n \in Tokens, Told(t, n)'
      PROVE  t <= created' /\ n <= created' /\ (t \in DOMAIN table' => table'[t].next = n)
  BY <1>1, <1>2 DEF RowsFixed, TypeOK
<1>3. ASSUME NEW t \in Tokens, NEW m \in Tokens, NEW n \in Tokens, Told(t, m)', Told(t, n)'
      PROVE  m = n
  <2>1. /\ Told(t, m) \/ (t \in DOMAIN table /\ table[t].next = m)
        /\ Told(t, n) \/ (t \in DOMAIN table /\ table[t].next = n)
    BY <1>3 DEF ToldFromTable
  <2> QED
    BY <1>1, <1>3, <2>1 DEF OneSuccessor
<1> QED
  BY <1>2, <1>3 DEF ToldIsStored, OneSuccessor

\* The table stays as it is, and one request gets the values v.
MayBecome(v) ==
  /\ v \in RequestRecords
  /\ v.token <= created /\ v.next <= created /\ v.at <= now
  /\ v.pc = "create" => v.token = NoToken
  /\ v.pc = "initialize" => v.kid \in Keys
  /\ v.pc = "rotate" => \A t \in DOMAIN table :
       table[t].next # NoToken /\ table[t].next = v.token =>
         table[t].expires <= v.at + Grace
  /\ v.token \in Tokens /\ v.next \in Tokens =>
       Told(v.token, v.next) \/ (v.token \in DOMAIN table /\ table[v.token].next = v.next)

LEMMA RequestStep ==
  ASSUME IInv, NEW r \in Requests, NEW v, MayBecome(v), req' = [req EXCEPT ![r] = v],
         UNCHANGED <<passwords, table, created, now, revoked, loggedOut>>,
         keys' \subseteq Keys,
         held' \subseteq [token : 1..created, expires : Nat, kid : Keys],
         TokensVerifiable',
         answers' \subseteq [token : Tokens, next : Tokens],
         \A a \in answers' : Told(a.token, a.next)
  PROVE  IInv'
<1>1. /\ DOMAIN req' = Requests /\ req'[r] = v
      /\ \A q \in Requests : q # r => req'[q] = req[q]
  BY RequestFacts DEF IInv
<1>2. TypeOK'
  <2>1. req' \in [Requests -> RequestRecords]
    BY RequestType DEF IInv, MayBecome
  <2> QED
    BY <2>1 DEF IInv, TypeOK, RequestRecords
<1>3. RequestsOK'
  BY <1>1 DEF IInv, RequestsOK, MayBecome
<1>4. RowsOwned' /\ LogoutFinal' /\ SuccessorOutlives'
  BY DEF IInv, RowsOwned, LogoutFinal, SuccessorOutlives
<1>5. RotationsOrdered'
  BY <1>1 DEF IInv, RotationsOrdered, MayBecome
<1>6. ToldFromTable
  <2> SUFFICES ASSUME NEW t \in Tokens, NEW n \in Tokens, Told(t, n)', ~ Told(t, n)
               PROVE  t \in DOMAIN table /\ table[t].next = n
    BY DEF ToldFromTable
  <2>1. ~ [token |-> t, next |-> n] \in answers'
    OBVIOUS
  <2>2. PICK q \in Requests : req'[q].token = t /\ req'[q].next = n
    BY <2>1 DEF Told
  <2>3. q = r
    BY <1>1, <2>2 DEF Told
  <2> QED
    BY <1>1, <2>2, <2>3 DEF MayBecome
<1>7. RowsFixed
  BY DEF RowsFixed
<1>8. ToldIsStored' /\ OneSuccessor'
  BY <1>6, <1>7, ToldStep DEF IInv, TypeOK
<1> QED
  BY <1>2, <1>3, <1>4, <1>5, <1>8 DEF IInv

\* The same, when only a request changes.
LEMMA MoveStep ==
  ASSUME IInv, NEW r \in Requests, NEW v, MayBecome(v), req' = [req EXCEPT ![r] = v],
         UNCHANGED <<passwords, table, created, keys, held, now, history>>
  PROVE  IInv'
<1>1. /\ keys' \subseteq Keys /\ held' \subseteq [token : 1..created, expires : Nat, kid : Keys]
      /\ TokensVerifiable' /\ answers' \subseteq [token : Tokens, next : Tokens]
  BY DEF IInv, TypeOK, history, TokensVerifiable, Verified, Jwks
<1>2. \A a \in answers' : Told(a.token, a.next)
  <2> SUFFICES ASSUME NEW a \in answers'
               PROVE  [token |-> a.token, next |-> a.next] \in answers
    BY DEF Told
  <2>1. a \in answers /\ a \in [token : Tokens, next : Tokens]
    BY <1>1 DEF history
  <2> QED
    BY <2>1
<1> QED
  BY <1>1, <1>2, RequestStep DEF history

\* Rows are removed, but no successor alone, unless somebody logged out with it.
LEMMA RemovalStep ==
  ASSUME IInv, NEW ts, table' = Without(ts),
         UNCHANGED <<created, keys, held, req, now, answers>>,
         NEW lost \in SUBSET ts, loggedOut' = loggedOut \cup lost, lost \subseteq DOMAIN table,
         passwords' \subseteq passwords, revoked' \subseteq Passwords,
         passwords' \cap revoked' = {},
         \A t \in DOMAIN table \ ts :
           /\ table[t].password \in passwords'
           /\ table[t].next # NoToken /\ table[t].next \in ts =>
                table[t].next \in loggedOut' \/ table[t].next \notin DOMAIN table
  PROVE  IInv'
<1>1. DOMAIN table' = DOMAIN table \ ts /\ \A t \in DOMAIN table' : table'[t] = table[t]
  BY DEF Without
<1>2. TypeOK'
  <2>1. table' \in [DOMAIN table' -> Rows]
    <3>1. table' = [t \in DOMAIN table' |-> table[t]]
      BY <1>1 DEF Without
    <3>2. \A t \in DOMAIN table' : table[t] \in Rows
      BY <1>1 DEF IInv, TypeOK
    <3> HIDE DEF Rows
    <3> QED
      BY <3>1, <3>2
  <2> QED
    BY <1>1, <2>1 DEF IInv, TypeOK
<1>3. RequestsOK' /\ TokensVerifiable'
  BY DEF IInv, RequestsOK, TokensVerifiable, Verified, Jwks
<1>4. RowsOwned' /\ LogoutFinal'
  BY <1>1 DEF IInv, TypeOK, RowsOwned, LogoutFinal
<1>5. SuccessorOutlives' /\ RotationsOrdered'
  <2>1. RotationsOrdered'
    BY <1>1 DEF IInv, RotationsOrdered
  <2>2. ASSUME NEW t \in DOMAIN table', table'[t].next # NoToken
        PROVE  /\ table'[t].next <= created' /\ table'[t].expires <= now' + Grace
               /\ \/ table'[t].next \in loggedOut'
                  \/ /\ table'[t].next \in DOMAIN table'
                     /\ table'[table'[t].next].password = table'[t].password
                     /\ table'[t].expires <= table'[table'[t].next].expires
    <3> DEFINE n == table[t].next
    <3>1. t \in DOMAIN table \ ts /\ table'[t] = table[t] /\ n # NoToken
      BY <1>1, <2>2
    <3>2. /\ n <= created /\ table[t].expires <= now + Grace
          /\ \/ n \in loggedOut
             \/ /\ n \in DOMAIN table /\ table[n].password = table[t].password
                /\ table[t].expires <= table[n].expires
      BY <3>1 DEF IInv, SuccessorOutlives
    <3>3. n \in ts => n \in loggedOut' \/ n \notin DOMAIN table
      BY <3>1
    <3> HIDE DEF n
    <3>4. n \in loggedOut' \/ (n \in DOMAIN table' /\ table'[n] = table[n] /\ n \in DOMAIN table)
      BY <1>1, <3>2, <3>3
    <3> QED
      BY <3>1, <3>2, <3>4 DEF n
  <2> QED
    BY <2>1, <2>2 DEF SuccessorOutlives
<1>6. ToldFromTable /\ RowsFixed
  BY <1>1 DEF ToldFromTable, Told, RowsFixed
<1>7. ToldIsStored' /\ OneSuccessor'
  BY <1>6, ToldStep DEF IInv, TypeOK
<1> QED
  BY <1>2, <1>3, <1>4, <1>5, <1>7 DEF IInv

\* A fresh row n is added, which rotates the row t if t # NoToken, whose lifetime
\* then is end; of the other rows those of kept stay.
AddsRow(n, t, row, end, kept) ==
  /\ n = created + 1 /\ n \in Tokens /\ created' = n
  /\ kept \subseteq DOMAIN table
  /\ table' = [u \in kept \cup {n} |-> table'[u]]
  /\ table'[n] = row /\ row \in Rows /\ row.next = NoToken
  /\ \A u \in kept :
       /\ table[u].next \in DOMAIN table => table[u].next \in kept \cup loggedOut
       /\ table'[u] \in Rows /\ table'[u].password = table[u].password
       /\ u # t => table'[u] = table[u]
       /\ u = t => table'[u].next = n /\ table'[u].expires = end

RotatesRow(t, row, end, kept) ==
  /\ row.password \in passwords
  /\ t # NoToken =>
       /\ t \in kept /\ table[t].next = NoToken /\ row.password = table[t].password
       /\ end \in Nat /\ end <= table[t].expires /\ end <= now + Grace /\ end <= row.expires
       /\ \A u \in kept : table[u].next = t => table[u].expires <= end

Awaits(v, n) ==
  /\ v \in RequestRecords
  /\ v.token <= created /\ v.next <= n /\ v.at <= now
  /\ v.pc \notin {"create", "initialize", "rotate"}
  /\ v.token \in Tokens /\ v.next \in Tokens => Told(v.token, v.next)

LEMMA NewRowStep ==
  ASSUME IInv, NEW r \in Requests, NEW n, NEW t \in Tokens \cup {NoToken},
         NEW row, NEW end, NEW kept,
         AddsRow(n, t, row, end, kept), RotatesRow(t, row, end, kept),
         UNCHANGED <<passwords, keys, held, now, history>>,
         NEW v, Awaits(v, n), req' = [req EXCEPT ![r] = v]
  PROVE  IInv'
<1>1. /\ DOMAIN req' = Requests /\ req'[r] = v
      /\ \A q \in Requests : q # r => req'[q] = req[q]
  BY RequestFacts DEF IInv
<1>2. /\ created \in Nat /\ now \in Nat /\ Grace \in Nat
      /\ DOMAIN table \subseteq 1..created
      /\ \A u \in DOMAIN table :
           /\ table[u] \in Rows /\ table[u].next \in 0..created
           /\ table[u].expires \in Nat
  <2>1. created \in Nat /\ DOMAIN table \subseteq 1..created /\ now \in Nat
    BY DEF IInv, TypeOK
  <2>2. ASSUME NEW u \in DOMAIN table
        PROVE  table[u] \in Rows /\ table[u].next \in 0..created /\ table[u].expires \in Nat
    <3>1. table[u] \in Rows
      BY DEF IInv, TypeOK
    <3>2. table[u].next \in Nat /\ table[u].expires \in Nat
      BY <3>1 DEF Rows
    <3>3. table[u].next # NoToken => table[u].next <= created
      BY DEF IInv, SuccessorOutlives
    <3> QED
      BY <2>1, <3>1, <3>2, <3>3
  <2> QED
    BY <2>1, <2>2
<1>3. /\ n = created + 1 /\ n \in Tokens /\ created' = n /\ n \notin DOMAIN table
      /\ kept \subseteq DOMAIN table /\ DOMAIN table' = kept \cup {n}
      /\ table'[n] = row /\ row \in Rows /\ row.next = NoToken
      /\ \A u \in kept :
           /\ table[u].next \in DOMAIN table => table[u].next \in kept \cup loggedOut
           /\ table'[u] \in Rows /\ table'[u].password = table[u].password
           /\ u # t => table'[u] = table[u]
           /\ u = t => table'[u].next = n /\ table'[u].expires = end
  <2>1. DOMAIN table' = kept \cup {n}
    BY DEF AddsRow
  <2> QED
    BY <1>2, <2>1 DEF AddsRow
<1>4. TypeOK'
  <2>1. req' \in [Requests -> RequestRecords]
    BY RequestType DEF IInv, Awaits
  <2>2. DOMAIN table' \subseteq 1..created'
    BY <1>2, <1>3
  <2>4. table' \in [DOMAIN table' -> Rows]
    <3>1. \A u \in DOMAIN table' : table'[u] \in Rows
      BY <1>3
    <3>2. table' = [u \in DOMAIN table' |-> table'[u]]
      BY <1>3 DEF AddsRow
    <3> HIDE DEF Rows
    <3> QED
      BY <3>1, <3>2
  <2>5. /\ passwords' \subseteq Passwords /\ revoked' \subseteq Passwords
        /\ created' \in 0..MaxTokens /\ now' \in Times /\ keys' \subseteq Keys
        /\ loggedOut' \subseteq Tokens /\ answers' \subseteq [token : Tokens, next : Tokens]
    BY <1>3 DEF IInv, TypeOK, history
  <2>6. held' \subseteq [token : 1..created', expires : Nat, kid : Keys]
    BY <1>2, <1>3 DEF IInv, TypeOK
  <2> QED
    BY <2>1, <2>2, <2>4, <2>5, <2>6 DEF TypeOK, RequestRecords
<1>5. RequestsOK'
  <2> SUFFICES ASSUME NEW q \in Requests
               PROVE  /\ req'[q].token <= created' /\ req'[q].next <= created' /\ req'[q].at <= now'
                      /\ req'[q].pc = "create" => req'[q].token = NoToken
                      /\ req'[q].pc = "initialize" => req'[q].kid \in Keys
    BY DEF RequestsOK
  <2>1. CASE q = r
    BY <1>1, <1>2, <1>3, <2>1 DEF Awaits, RequestRecords
  <2>2. CASE q # r
    <3>1. req[q].token \in Nat /\ req[q].next \in Nat
      BY DEF IInv, TypeOK
    <3> QED
      BY <1>1, <1>2, <1>3, <2>2, <3>1 DEF IInv, RequestsOK
  <2> QED
    BY <2>1, <2>2
<1>6. RowsOwned' /\ LogoutFinal' /\ TokensVerifiable'
  <2>1. RowsOwned'
    BY <1>3 DEF IInv, RowsOwned, RotatesRow, history
  <2>2. LogoutFinal'
    BY <1>2, <1>3 DEF IInv, LogoutFinal, history
  <2> QED
    BY <2>1, <2>2 DEF IInv, TokensVerifiable, Verified, Jwks
<1>7. SuccessorOutlives'
  <2> SUFFICES ASSUME NEW u \in DOMAIN table', table'[u].next # NoToken
               PROVE  /\ table'[u].next <= created' /\ table'[u].expires <= now' + Grace
                      /\ \/ table'[u].next \in loggedOut'
                         \/ /\ table'[u].next \in DOMAIN table'
                            /\ table'[table'[u].next].password = table'[u].password
                            /\ table'[u].expires <= table'[table'[u].next].expires
    BY DEF SuccessorOutlives
  <2>1. u \in kept
    BY <1>3
  <2>2. CASE u = t
    <3>1. /\ t # NoToken /\ table'[u].next = n /\ table'[u].expires = end
          /\ table'[u].password = table[t].password /\ n \in DOMAIN table' /\ n \in Nat
      BY <1>2, <1>3, <2>1, <2>2
    <3>2. end <= now + Grace /\ end <= row.expires /\ row.password = table[t].password
      BY <3>1 DEF RotatesRow
    <3> QED
      BY <1>3, <3>1, <3>2
  <2>3. CASE u # t
    <3> DEFINE m == table[u].next
    <3>1. table'[u] = table[u] /\ u \in DOMAIN table /\ m # NoToken /\ table[u] \in Rows
      BY <1>2, <1>3, <2>1, <2>3
    <3>2. /\ m <= created /\ table[u].expires <= now + Grace
          /\ \/ m \in loggedOut
             \/ /\ m \in DOMAIN table /\ table[m].password = table[u].password
                /\ table[u].expires <= table[m].expires
      BY <3>1 DEF IInv, SuccessorOutlives
    <3>3. m \in DOMAIN table /\ m \notin loggedOut =>
            /\ m \in kept /\ table'[m].password = table[m].password
            /\ m # t => table'[m].expires = table[m].expires
            /\ m = t => table[u].expires <= table'[m].expires
      BY <1>3, <2>1, <3>1 DEF RotatesRow
    <3>4. m \in Nat
      BY <1>2, <3>1
    <3> HIDE DEF m
    <3>5. m <= created'
      BY <1>2, <1>3, <3>2, <3>4
    <3>6. \/ m \in loggedOut'
          \/ /\ m \in DOMAIN table' /\ table'[m].password = table[u].password
             /\ table[u].expires <= table'[m].expires
      <4>1. CASE m \in loggedOut
        BY <4>1 DEF history
      <4>2. CASE m \in DOMAIN table /\ m \notin loggedOut /\ m # t
        BY <1>3, <3>2, <3>3, <4>2 DEF history
      <4>3. CASE m \in DOMAIN table /\ m \notin loggedOut /\ m = t
        BY <1>3, <3>2, <3>3, <4>3 DEF history
      <4> QED
        BY <3>2, <4>1, <4>2, <4>3
    <3> QED
      BY <3>1, <3>2, <3>5, <3>6 DEF m
  <2> QED
    BY <2>2, <2>3
<1>8. RotationsOrdered'
  <2> SUFFICES ASSUME NEW q \in Requests, NEW u \in DOMAIN table', req'[q].pc = "rotate",
                      table'[u].next # NoToken, table'[u].next = req'[q].token
               PROVE  table'[u].expires <= req'[q].at + Grace
    BY DEF RotationsOrdered
  <2>1. q # r /\ req'[q] = req[q] /\ req[q].token <= created /\ req[q].token \in Nat
    BY <1>1 DEF IInv, RequestsOK, TypeOK, Awaits
  <2>2. u \in kept /\ u # t
    BY <1>2, <1>3, <2>1
  <2>3. table'[u] = table[u] /\ u \in DOMAIN table
    BY <1>3, <2>2
  <2> QED
    BY <2>1, <2>3 DEF IInv, RotationsOrdered
<1>9. RowsFixed
  <2> SUFFICES ASSUME NEW u \in 1..created, u \in DOMAIN table'
               PROVE  u \in DOMAIN table /\ (table[u].next # NoToken => table'[u].next = table[u].next)
    BY DEF RowsFixed
  <2>1. u \in kept /\ u \in DOMAIN table
    BY <1>2, <1>3
  <2>2. u = t => table[u].next = NoToken
    BY <1>2, <2>1 DEF RotatesRow
  <2> QED
    BY <1>3, <2>1, <2>2
<1>10. ToldFromTable
  <2> SUFFICES ASSUME NEW a \in Tokens, NEW b \in Tokens, Told(a, b)', ~ Told(a, b)
               PROVE  FALSE
    BY DEF ToldFromTable
  <2>1. PICK q \in Requests : req'[q].token = a /\ req'[q].next = b
    BY DEF Told, history
  <2>2. q = r
    BY <1>1, <2>1 DEF Told
  <2> QED
    BY <1>1, <2>1, <2>2 DEF Awaits
<1>11. ToldIsStored' /\ OneSuccessor'
  <2>1. created' \in Nat /\ created <= created'
    BY <1>2, <1>3
  <2> QED
    BY <1>9, <1>10, <2>1, ToldStep DEF IInv
<1> QED
  BY <1>4, <1>5, <1>6, <1>7, <1>8, <1>11 DEF IInv

-----------------------------------------------------------------------------
(* The steps *)

LEMMA LoginStep ==
  ASSUME IInv, NEW r \in Requests, NEW p \in Passwords, Login(r, p)
  PROVE  IInv'
<1> DEFINE v == [NoRequest EXCEPT !.pc = "create", !.password = p, !.at = now]
<1>1. req' = [req EXCEPT ![r] = v]
  BY DEF Login
<1>3. created \in Nat /\ now \in Times
  BY DEF IInv, TypeOK
<1>4. /\ v \in RequestRecords
      /\ v.pc = "create" /\ v.token = NoToken /\ v.next = NoToken /\ v.at = now
  BY <1>3, NoRequestFacts DEF RequestRecords
<1> HIDE DEF v
<1>5. MayBecome(v)
  BY <1>3, <1>4 DEF MayBecome
<1> QED
  BY <1>1, <1>5, MoveStep DEF Login

LEMMA EndStep ==
  ASSUME IInv, NEW r \in Requests, End(r),
         UNCHANGED <<passwords, table, created, keys, held, now, history>>
  PROVE  IInv'
<1>1. MayBecome(NoRequest)
  BY DEF MayBecome, IInv, TypeOK, NoRequest, RequestRecords
<1> QED
  BY <1>1, MoveStep DEF End

LEMMA RefreshStep ==
  ASSUME IInv, NEW r \in Requests, NEW j \in held, Refresh(r, j)
  PROVE  IInv'
<1> DEFINE v == [NoRequest EXCEPT
                   !.pc = IF table[j.token].next = NoToken THEN "rotate" ELSE "reread",
                   !.token = j.token, !.at = now]
<1>1. req' = [req EXCEPT ![r] = v]
  BY DEF Refresh
<1>2. j.token \in 1..created /\ created \in 0..MaxTokens /\ now \in Times
  BY DEF IInv, TypeOK
<1>3. v \in RequestRecords /\ v.token = j.token /\ v.next = NoToken /\ v.at = now
      /\ v.pc \in {"rotate", "reread"}
  <2> DEFINE pc == IF table[j.token].next = NoToken THEN "rotate" ELSE "reread"
  <2>1. v = [NoRequest EXCEPT !.pc = pc, !.token = j.token, !.at = now]
    OBVIOUS
  <2>2. pc \in {"rotate", "reread"} /\ j.token \in Tokens
    BY <1>2
  <2> HIDE DEF v, pc
  <2> QED
    BY <1>2, <2>1, <2>2, NoRequestFacts DEF RequestRecords
<1> HIDE DEF v
<1>4. MayBecome(v)
  BY <1>2, <1>3 DEF MayBecome, IInv, SuccessorOutlives
<1> QED
  BY <1>1, <1>4, MoveStep DEF Refresh

\* The request goes on with the fields it has, apart from those of w.
LEMMA KeepsToken ==
  ASSUME IInv, NEW r \in Requests
  PROVE  /\ req[r] \in RequestRecords
         /\ req[r].token <= created /\ req[r].next <= created /\ req[r].at <= now
         /\ Told(req[r].token, req[r].next)
BY DEF IInv, TypeOK, RequestsOK, RequestRecords, Told

LEMMA RereadStep ==
  ASSUME IInv, NEW r \in Requests, Reread(r)
  PROVE  IInv'
<1> DEFINE t == req[r].token
           v == [req[r] EXCEPT !.pc = "successor", !.next = table[t].next]
<1>1. CASE Found(t) /\ table[t].next # NoToken
  <2>1. req' = [req EXCEPT ![r] = v]
    <3>1. req' = [req EXCEPT ![r].pc = "successor", ![r].next = table[t].next]
      BY <1>1 DEF Reread
    <3> QED
      BY <3>1 DEF IInv, TypeOK
  <2>2. t \in DOMAIN table /\ table[t].next \in Tokens /\ table[t].next <= created
    BY <1>1 DEF IInv, TypeOK, SuccessorOutlives, Found, Rows
  <2>3. /\ v \in RequestRecords /\ v.token = t /\ v.next = table[t].next /\ v.at = req[r].at
        /\ v.pc = "successor"
    BY <2>2, KeepsToken DEF RequestRecords
  <2> HIDE DEF v
  <2>4. MayBecome(v)
    BY <2>2, <2>3, KeepsToken DEF MayBecome
  <2> QED
    BY <2>1, <2>4, MoveStep DEF Reread
<1>2. CASE ~ (Found(t) /\ table[t].next # NoToken)
  BY <1>2, EndStep DEF Reread
<1> QED
  BY <1>1, <1>2

LEMMA SuccessorStep ==
  ASSUME IInv, NEW r \in Requests, Successor(r)
  PROVE  IInv'
<1> DEFINE n == req[r].next
           v == [req[r] EXCEPT !.pc = "keys", !.next = n, !.expires = table[n].expires]
<1>1. CASE Found(n)
  <2>1. req' = [req EXCEPT ![r] = v]
    BY <1>1 DEF Successor, Issue
  <2>2. table[n].expires \in Nat
    BY <1>1 DEF IInv, TypeOK, Found, Rows
  <2>3. /\ v \in RequestRecords /\ v.token = req[r].token /\ v.next = n /\ v.at = req[r].at
        /\ v.pc = "keys"
    BY <2>2, KeepsToken DEF RequestRecords
  <2> HIDE DEF v
  <2>4. MayBecome(v)
    BY <2>3, KeepsToken DEF MayBecome
  <2> QED
    BY <2>1, <2>4, MoveStep DEF Successor
<1>2. CASE ~ Found(n)
  BY <1>2, EndStep DEF Successor
<1> QED
  BY <1>1, <1>2

LEMMA GetJwksStep ==
  ASSUME IInv, NEW r \in Requests, GetJwks(r)
  PROVE  IInv'
<1> DEFINE v == [req[r] EXCEPT !.pc = "keys"]
<1>1. req' = [req EXCEPT ![r] = v]
  BY DEF GetJwks, IInv, TypeOK
<1>2. /\ v \in RequestRecords /\ v.token = req[r].token /\ v.next = req[r].next
      /\ v.at = req[r].at /\ v.pc = "keys"
  BY KeepsToken DEF RequestRecords
<1> HIDE DEF v
<1>3. MayBecome(v)
  BY <1>2, KeepsToken DEF MayBecome
<1> QED
  BY <1>1, <1>3, MoveStep DEF GetJwks

LEMMA AnswerStep ==
  ASSUME IInv, NEW r \in Requests, NEW k \in keys', Answer(r, k),
         keys' \subseteq Keys, keys \subseteq keys',
         UNCHANGED <<passwords, table, created, now, revoked, loggedOut>>
  PROVE  IInv'
<1> DEFINE a == [token |-> req[r].token, next |-> req[r].next]
           j == [token |-> req[r].next, expires |-> req[r].expires, kid |-> k]
<1>1. MayBecome(NoRequest)
  BY DEF MayBecome, IInv, TypeOK, NoRequest, RequestRecords
<1>2. /\ held' = held \/ (req[r].next # NoToken /\ held' = held \cup {j})
      /\ \/ answers' = answers
         \/ req[r].next # NoToken /\ req[r].token # NoToken /\ answers' = answers \cup {a}
  BY DEF Answer
<1>3. req[r].next # NoToken => j \in [token : 1..created, expires : Nat, kid : Keys]
  BY KeepsToken DEF RequestRecords, IInv, TypeOK
<1>4. /\ req[r].next # NoToken /\ req[r].token # NoToken => a \in [token : Tokens, next : Tokens]
      /\ Told(a.token, a.next)
  BY KeepsToken DEF RequestRecords
<1>5. j.kid = k
  OBVIOUS
<1> HIDE DEF a, j
<1>6. held' \subseteq [token : 1..created, expires : Nat, kid : Keys] /\ TokensVerifiable'
  BY <1>2, <1>3, <1>5 DEF IInv, TypeOK, TokensVerifiable, Verified, Jwks
<1>7. answers' \subseteq [token : Tokens, next : Tokens]
  BY <1>2, <1>4 DEF IInv, TypeOK
<1>8. \A b \in answers' : Told(b.token, b.next)
  <2> SUFFICES ASSUME NEW b \in answers'
               PROVE  Told(b.token, b.next)
    OBVIOUS
  <2>1. CASE b \in answers
    <3>1. b = [token |-> b.token, next |-> b.next]
      BY <1>7
    <3> QED
      BY <2>1, <3>1 DEF Told
  <2>2. CASE b = a
    BY <1>4, <2>2
  <2> QED
    BY <1>2, <2>1, <2>2
<1> QED
  BY <1>1, <1>6, <1>7, <1>8, RequestStep DEF Answer, End

LEMMA ListKeysStep ==
  ASSUME IInv, NEW r \in Requests, ListKeys(r)
  PROVE  IInv'
<1>1. keys' = keys /\ keys \subseteq Keys
  BY DEF ListKeys, IInv, TypeOK
<1>2. CASE \E k \in keys : Answer(r, k)
  BY <1>1, <1>2, AnswerStep DEF ListKeys
<1>3. ASSUME NEW k \in Keys, req' = [req EXCEPT ![r].pc = "initialize", ![r].kid = k],
             UNCHANGED <<held, answers>>
      PROVE  IInv'
  <2> DEFINE v == [req[r] EXCEPT !.pc = "initialize", !.kid = k]
  <2>1. req' = [req EXCEPT ![r] = v]
    BY <1>3 DEF IInv, TypeOK
  <2>2. /\ v \in RequestRecords /\ v.token = req[r].token /\ v.next = req[r].next
        /\ v.at = req[r].at /\ v.pc = "initialize" /\ v.kid = k
    BY KeepsToken DEF RequestRecords
  <2> HIDE DEF v
  <2>3. MayBecome(v)
    BY <2>2, KeepsToken DEF MayBecome
  <2> QED
    BY <1>3, <2>1, <2>3, MoveStep DEF ListKeys, history
<1> QED
  BY <1>2, <1>3 DEF ListKeys

LEMMA InitializeKeyStep ==
  ASSUME IInv, NEW r \in Requests, InitializeKey(r)
  PROVE  IInv'
<1>1. req[r].kid \in Keys
  BY DEF InitializeKey, IInv, RequestsOK
<1>2. keys' \subseteq Keys /\ keys \subseteq keys'
  BY <1>1 DEF InitializeKey, IInv, TypeOK
<1> QED
  BY <1>2, AnswerStep DEF InitializeKey, Stored

LEMMA CreateTokenStep ==
  ASSUME IInv, NEW r \in Requests, CreateToken(r)
  PROVE  IInv'
<1> DEFINE p == req[r].password
           n == created + 1
           kept == {u \in DOMAIN table : table[u].password # p \/ table[u].expires > now}
           row == [password |-> p, expires |-> req[r].at + Life, next |-> NoToken]
           v == [req[r] EXCEPT !.pc = "keys", !.next = n, !.expires = row.expires]
<1>1. CASE Enforced(p) /\ n \in Tokens
           /\ table' = [u \in kept \cup {n} |-> IF u = n THEN row ELSE table[u]]
           /\ created' = n /\ Issue(r, n, row.expires)
  <2>1. /\ created \in Nat /\ DOMAIN table \subseteq 1..created
        /\ \A u \in DOMAIN table : table[u] \in Rows
    BY DEF IInv, TypeOK
  <2>2. req[r].at \in Nat /\ p \in passwords /\ passwords \subseteq Passwords /\ row \in Rows
    BY <1>1, KeepsToken DEF Enforced, IInv, TypeOK, Rows, RequestRecords
  <2>3. \A u \in kept : u # n /\ table'[u] = table[u]
    BY <1>1, <2>1
  <2>4. ASSUME NEW u \in kept, table[u].next \in DOMAIN table
        PROVE  table[u].next \in kept \cup loggedOut
    <3> DEFINE m == table[u].next
    <3>1. m # NoToken /\ table[u].expires \in Nat /\ table[m].expires \in Nat /\ now \in Nat
      BY <2>1, <2>4 DEF IInv, TypeOK, Rows
    <3>2. m \in loggedOut \/ (/\ table[m].password = table[u].password
                            /\ table[u].expires <= table[m].expires)
      BY <3>1 DEF IInv, SuccessorOutlives
    <3> QED
      BY <2>4, <3>1, <3>2
  <2>5. AddsRow(n, NoToken, row, 0, kept)
    BY <1>1, <2>1, <2>2, <2>3, <2>4 DEF AddsRow
  <2>6. RotatesRow(NoToken, row, 0, kept)
    BY <2>2 DEF RotatesRow
  <2>7. req' = [req EXCEPT ![r] = v]
    BY <1>1 DEF Issue
  <2>8. Awaits(v, n)
    <3>1. n \in Tokens /\ row.expires \in Nat /\ req[r].token = NoToken
      <4>1. req[r].token = NoToken
        BY DEF CreateToken, IInv, RequestsOK
      <4>2. row.expires \in Nat
        BY <2>2
      <4> QED
        BY <1>1, <4>1, <4>2
    <3> HIDE DEF n, row
    <3>2. /\ v \in RequestRecords /\ v.token = req[r].token /\ v.next = n /\ v.at = req[r].at
          /\ v.pc = "keys"
      BY <3>1, KeepsToken, ZenonT(60) DEF RequestRecords
    <3>3. n \in Nat
      BY <2>1 DEF n
    <3> HIDE DEF v
    <3> QED
      BY <2>1, <3>1, <3>2, <3>3, KeepsToken DEF Awaits
  <2> HIDE DEF v, n, row, kept
  <2> QED
    BY <2>5, <2>6, <2>7, <2>8, NewRowStep DEF CreateToken
<1>2. CASE End(r) /\ UNCHANGED <<table, created>>
  BY <1>2, EndStep DEF CreateToken
<1> QED
  BY <1>1, <1>2 DEF CreateToken

LEMMA RotateStep ==
  ASSUME IInv, NEW r \in Requests, Rotate(r)
  PROVE  IInv'
<1> DEFINE t == req[r].token
           at == req[r].at
           n == created + 1
           end == GraceEnd(t, at)
           row == [password |-> table[t].password, expires |-> at + Life, next |-> NoToken]
           v == [req[r] EXCEPT !.pc = "reread"]
<1>1. req' = [req EXCEPT ![r] = v]
  BY DEF Rotate, IInv, TypeOK
<1>2. /\ v \in RequestRecords /\ v.token = t /\ v.next = req[r].next /\ v.at = at
      /\ v.pc = "reread"
  BY KeepsToken DEF RequestRecords
<1>3. /\ at \in Nat /\ at <= now /\ now \in Nat /\ created \in Nat
      /\ req[r].next \in Nat /\ req[r].pc = "rotate"
  BY KeepsToken DEF IInv, TypeOK, RequestRecords, Rotate
<1> HIDE DEF v
<1>4. CASE Unrotated(t) /\ n \in Tokens /\ table' = Rotated(t, n, at) /\ created' = n
  <2>1. /\ t \in DOMAIN table /\ table[t].next = NoToken /\ DOMAIN table \subseteq 1..created
        /\ \A u \in DOMAIN table : table[u] \in Rows
    BY <1>4 DEF Unrotated, IInv, TypeOK
  <2>2. /\ t \in Tokens /\ t # NoToken /\ table[t].expires \in Nat
        /\ table[t].password \in passwords /\ table[t].password \in Passwords
        /\ t \notin loggedOut
    BY <2>1 DEF IInv, TypeOK, RowsOwned, LogoutFinal, Rows
  <2>3. row \in Rows /\ row.expires = at + Life /\ row.next = NoToken
        /\ row.password = table[t].password
    BY <1>3, <2>2 DEF Rows
  <2>4. /\ end \in Nat /\ end <= table[t].expires /\ end <= at + Grace
        /\ \A e \in Nat : e <= table[t].expires /\ e <= at + Grace => e <= end
    BY <1>3, <2>2 DEF GraceEnd
  <2>5. \A u \in DOMAIN table : u # n /\ table[u].expires \in Nat
    BY <1>3, <2>1 DEF Rows
  <2>6. /\ DOMAIN table' = DOMAIN table \cup {n} /\ table'[n] = row
        /\ \A u \in DOMAIN table :
             table'[u] = IF u = t THEN [table[u] EXCEPT !.next = n, !.expires = end]
                                  ELSE table[u]
    BY <1>4, <2>5, ZenonT(60) DEF Rotated
  <2> HIDE DEF end, row
  <2>7. AddsRow(n, t, row, end, DOMAIN table)
    <3>1. ASSUME NEW u \in DOMAIN table
          PROVE  /\ table'[u] \in Rows /\ table'[u].password = table[u].password
                 /\ u # t => table'[u] = table[u]
                 /\ u = t => table'[u].next = n /\ table'[u].expires = end
      <4>1. table[u] \in Rows /\ end \in Nat /\ n \in Tokens
        BY <1>4, <2>1, <2>4
      <4>2. table'[u] = IF u = t THEN [table[u] EXCEPT !.next = n, !.expires = end]
                                 ELSE table[u]
        BY <2>6
      <4> HIDE DEF n, t
      <4> QED
        BY ONLY <4>1, <4>2 DEF Rows
    <3>2. table' = [u \in DOMAIN table \cup {n} |-> table'[u]]
      <4>1. table' = Rotated(t, n, at)
        BY <1>4
      <4> HIDE DEF n, t, at
      <4> QED
        BY ONLY <4>1 DEF Rotated
    <3> HIDE DEF t, n
    <3> QED
      BY <1>4, <2>3, <2>6, <3>1, <3>2 DEF AddsRow, n
  <2>8. RotatesRow(t, row, end, DOMAIN table)
    <3>1. ASSUME NEW u \in DOMAIN table, table[u].next = t
          PROVE  table[u].expires <= end
      <4>1. table[u].expires <= table[t].expires
        BY <2>2, <3>1 DEF IInv, SuccessorOutlives
      <4>2. table[u].expires <= at + Grace
        BY <1>3, <2>2, <3>1 DEF IInv, RotationsOrdered
      <4> QED
        BY <2>4, <2>5, <4>1, <4>2
    <3>2. end <= now + Grace /\ end <= row.expires
      BY <1>3, <2>3, <2>4
    <3> QED
      BY <2>1, <2>2, <2>3, <2>4, <3>1, <3>2 DEF RotatesRow
  <2>9. Awaits(v, n)
    BY <1>2, <1>3, KeepsToken DEF Awaits
  <2>10. t \in Tokens \cup {NoToken}
    BY <2>2
  <2> HIDE DEF t, n, at
  <2> QED
    BY <1>1, <2>7, <2>8, <2>9, <2>10, NewRowStep DEF Rotate
<1>5. CASE UNCHANGED <<table, created>>
  <2>1. MayBecome(v)
    BY <1>2, <1>3, KeepsToken DEF MayBecome
  <2> HIDE DEF t, n, at
  <2> QED
    BY <1>1, <1>5, <2>1, MoveStep DEF Rotate
<1> QED
  BY <1>4, <1>5 DEF Rotate

LEMMA RevokeStep ==
  ASSUME IInv, NEW p \in Passwords, Revoke(p)
  PROVE  IInv'
<1> DEFINE ts == {t \in DOMAIN table : table[t].password = p}
<1>1. /\ passwords' \subseteq passwords /\ revoked' \subseteq Passwords
      /\ passwords' \cap revoked' = {} /\ loggedOut' = loggedOut \cup {}
  BY DEF Revoke, IInv, TypeOK, RowsOwned
<1>2. ASSUME NEW t \in DOMAIN table \ ts
      PROVE  /\ table[t].password \in passwords'
             /\ table[t].next # NoToken /\ table[t].next \in ts =>
                  table[t].next \in loggedOut' \/ table[t].next \notin DOMAIN table
  BY <1>2 DEF Revoke, IInv, RowsOwned, SuccessorOutlives
<1>3. table' = Without(ts)
  BY DEF Revoke
<1>4. {} \in SUBSET ts /\ {} \subseteq DOMAIN table
  OBVIOUS
<1> HIDE DEF ts
<1> QED
  BY <1>1, <1>2, <1>3, <1>4, RemovalStep DEF Revoke

LEMMA LogoutStep ==
  ASSUME IInv, NEW j \in held, Logout(j)
  PROVE  IInv'
<1> DEFINE ts == {j.token}
<1>1. /\ ts \in SUBSET ts /\ ts \subseteq DOMAIN table /\ loggedOut' = loggedOut \cup ts
      /\ table' = Without(ts)
  BY DEF Logout
<1>2. /\ passwords' \subseteq passwords /\ revoked' \subseteq Passwords
      /\ passwords' \cap revoked' = {}
  BY DEF Logout, IInv, TypeOK, RowsOwned
<1>3. ASSUME NEW t \in DOMAIN table \ ts
      PROVE  /\ table[t].password \in passwords'
             /\ table[t].next # NoToken /\ table[t].next \in ts =>
                  table[t].next \in loggedOut' \/ table[t].next \notin DOMAIN table
  BY <1>1, <1>3 DEF Logout, IInv, RowsOwned
<1> HIDE DEF ts
<1> QED
  BY <1>1, <1>2, <1>3, RemovalStep DEF Logout

LEMMA CreatePasswordStep ==
  ASSUME IInv, NEW p \in Passwords, CreatePassword(p)
  PROVE  IInv'
<1>1. TypeOK' /\ RequestsOK'
  BY DEF CreatePassword, history, IInv, TypeOK, RequestsOK
<1>2. RowsOwned' /\ LogoutFinal' /\ SuccessorOutlives' /\ RotationsOrdered' /\ TokensVerifiable'
  BY DEF CreatePassword, history, IInv, RowsOwned, LogoutFinal, SuccessorOutlives,
     RotationsOrdered, TokensVerifiable, Verified, Jwks
<1>3. ToldIsStored' /\ OneSuccessor'
  BY DEF CreatePassword, history, IInv, ToldIsStored, OneSuccessor, Told
<1> QED
  BY <1>1, <1>2, <1>3 DEF IInv

LEMMA TickStep ==
  ASSUME IInv, Tick
  PROVE  IInv'
<1>1. now \in Nat /\ now' = now + 1 /\ now' \in Times
  BY DEF Tick, IInv, TypeOK
<1>2. TypeOK'
  BY <1>1 DEF Tick, history, IInv, TypeOK
<1>3. RequestsOK'
  <2>1. \A r \in Requests : req[r].at \in Nat
    BY DEF IInv, TypeOK
  <2> QED
    BY <1>1, <2>1 DEF Tick, IInv, RequestsOK
<1>4. SuccessorOutlives'
  <2>1. \A t \in DOMAIN table : table[t].expires \in Nat
    BY DEF IInv, TypeOK, Rows
  <2>2. \A t \in DOMAIN table : table[t].expires <= now + Grace => table[t].expires <= now' + Grace
    BY <1>1, <2>1
  <2> QED
    BY <2>2 DEF Tick, history, IInv, SuccessorOutlives
<1>5. RowsOwned' /\ LogoutFinal' /\ RotationsOrdered' /\ TokensVerifiable'
  BY DEF Tick, history, IInv, RowsOwned, LogoutFinal, RotationsOrdered, TokensVerifiable, Verified,
     Jwks
<1>6. ToldIsStored' /\ OneSuccessor'
  BY DEF Tick, history, IInv, ToldIsStored, OneSuccessor, Told
<1> QED
  BY <1>2, <1>3, <1>4, <1>5, <1>6 DEF IInv

LEMMA IInvInit == Init => IInv
<1> SUFFICES ASSUME Init PROVE IInv
  OBVIOUS
<1>1. /\ DOMAIN table = {} /\ table \in [DOMAIN table -> Rows]
      /\ \A r \in Requests : req[r] = NoRequest
  BY DEF Init
<1>2. TypeOK
  <2>1. req \in [Requests -> RequestRecords]
    BY NoRequestFacts DEF Init
  <2> QED
    BY <1>1, <2>1 DEF Init, TypeOK, RequestRecords
<1>3. RequestsOK
  BY <1>1, NoRequestFacts DEF Init, RequestsOK
<1>4. RowsOwned /\ LogoutFinal /\ SuccessorOutlives /\ RotationsOrdered /\ TokensVerifiable
  BY <1>1 DEF Init, RowsOwned, LogoutFinal, SuccessorOutlives, RotationsOrdered,
     TokensVerifiable
<1>5. \A t, n \in Tokens : ~ Told(t, n)
  BY <1>1, NoRequestFacts DEF Init, Told
<1>6. ToldIsStored /\ OneSuccessor
  BY <1>5 DEF ToldIsStored, OneSuccessor
<1> QED
  BY <1>2, <1>3, <1>4, <1>6 DEF IInv

LEMMA IInvNext == IInv /\ [Next]_vars => IInv'
<1> SUFFICES ASSUME IInv, [Next]_vars PROVE IInv'
  OBVIOUS
<1>1. ASSUME NEW r \in Requests,
             \/ \E p \in Passwords : Login(r, p)
             \/ \E j \in held : Refresh(r, j)
             \/ CreateToken(r) \/ Rotate(r) \/ Reread(r) \/ Successor(r)
             \/ GetJwks(r) \/ ListKeys(r) \/ InitializeKey(r) \/ RequestLost(r)
      PROVE  IInv'
  BY <1>1, LoginStep, RefreshStep, CreateTokenStep, RotateStep, RereadStep, SuccessorStep,
     GetJwksStep, ListKeysStep, InitializeKeyStep, EndStep DEF RequestLost
<1>2. CASE \E p \in Passwords : CreatePassword(p) \/ Revoke(p)
  BY <1>2, CreatePasswordStep, RevokeStep
<1>3. CASE \E j \in held : Logout(j)
  BY <1>3, LogoutStep
<1>4. CASE Tick
  BY <1>4, TickStep
<1>5. CASE UNCHANGED vars
  <2>1. TypeOK' /\ RequestsOK' /\ RowsOwned' /\ LogoutFinal' /\ SuccessorOutlives'
    BY <1>5 DEF vars, history, IInv, TypeOK, RequestsOK, RowsOwned, LogoutFinal, SuccessorOutlives
  <2>2. RotationsOrdered' /\ TokensVerifiable' /\ ToldIsStored' /\ OneSuccessor'
    BY <1>5 DEF vars, history, IInv, RotationsOrdered, TokensVerifiable, Verified, Jwks,
       ToldIsStored, OneSuccessor, Told
  <2> QED
    BY <2>1, <2>2 DEF IInv
<1> QED
  BY <1>1, <1>2, <1>3, <1>4, <1>5 DEF Next

LEMMA SpecIInv == Spec => []IInv
BY IInvInit, IInvNext, PTL DEF Spec

-----------------------------------------------------------------------------

\* The types of the sessions' state, whatever the requests do.
THEOREM SessionTypeCorrect == Spec => []TypeOK
BY SpecIInv, PTL DEF IInv

\* Whichever requests present a refresh token, at once or again, and whichever of them
\* rotates it: the answers name one successor (rotateRefreshToken, findRefreshToken).
THEOREM RetriesNameOneSuccessor == Spec => []SameSuccessor
<1>1. IInv => SameSuccessor
  <2> SUFFICES ASSUME IInv, NEW a \in answers, NEW b \in answers, a.token = b.token
               PROVE  a.next = b.next
    BY DEF SameSuccessor
  <2>1. /\ a.token \in Tokens /\ a.next \in Tokens /\ b.next \in Tokens
        /\ a = [token |-> a.token, next |-> a.next] /\ b = [token |-> a.token, next |-> b.next]
    BY DEF IInv, TypeOK
  <2>2. Told(a.token, a.next) /\ Told(a.token, b.next)
    BY <2>1 DEF Told
  <2> QED
    BY <2>1, <2>2 DEF IInv, OneSuccessor
<1> QED
  BY <1>1, SpecIInv, PTL

\* A client that presents a rotated token again gets its successor, which is valid for
\* as long as the rotated one is.
THEOREM RetriesAreServed == Spec => []RetryServed
<1>1. IInv => RetryServed
  <2> SUFFICES ASSUME IInv, NEW t \in DOMAIN table, Found(t), table[t].next # NoToken,
                      table[t].next \notin loggedOut
               PROVE  Found(table[t].next)
    BY DEF RetryServed
  <2> DEFINE n == table[t].next
  <2>1. n \in DOMAIN table /\ table[t].expires <= table[n].expires
    BY DEF IInv, SuccessorOutlives
  <2>2. table[t].expires \in Nat /\ table[n].expires \in Nat /\ now \in Nat
    BY <2>1 DEF IInv, TypeOK, Rows
  <2> HIDE DEF n
  <2> QED
    BY <2>1, <2>2 DEF Found, n
<1> QED
  BY <1>1, SpecIInv, PTL

\* The key of every token is among those that verifiers accept, however many requests
\* generated one at the same time (initializeIfEmpty).
THEOREM TokensStayVerifiable == Spec => []TokensVerifiable
BY SpecIInv, PTL DEF IInv

\* No token of a revoked password is left or is created later, by a request that found
\* the password before it was revoked either.
THEOREM RevokedHasNoSessions == Spec => []RevocationEnds
<1>1. IInv => RevocationEnds
  BY DEF IInv, RowsOwned, RevocationEnds
<1> QED
  BY <1>1, SpecIInv, PTL

HIDE SessionAssumption DEF NoToken, Tokens, Times

-----------------------------------------------------------------------------
(***************************************************************************)
(* The page of app passwords (AppPasswordPage)                             *)
(***************************************************************************)

-----------------------------------------------------------------------------
(* The inductive invariant *)

\* An id is that of one row for ever.
IdsOnce ==
  /\ \A i \in Ids : creating[i].pc \in {"new", "sent", "late"} =>
       i \notin deleted /\ \A r \in rows : r.id # i
  /\ \A r \in rows : r.id \notin deleted

\* What answers that are under way say.
AnswersTrue ==
  /\ \A i \in Ids : creating[i].pc = "created" => i \in deleted \/ \E r \in rows : r.id = i
  /\ \A i \in Ids : revoking[i] = "deleted" => i \in deleted

\* The list L agrees with what the user was told in t.
Agrees(L, t) ==
  IF t.there THEN t.id \in deleted \/ \E r \in L : r.id = t.id ELSE \A r \in L : r.id # t.id

ToldTrue == \A t \in told : Agrees(rows, t) /\ (t.there \/ t.id \in deleted)

FoundAgrees == fetch.pc = "found" => \A t \in told : Agrees(fetch.found, t)

PageInv == PageTypeOK /\ IdsOnce /\ AnswersTrue /\ ToldTrue /\ FoundAgrees /\ ToldIsListed

FetchType == [pc : {"none", "sent", "found"}, tries : {0, 1}, found : Lists]

LEMMA PageInvInit ==
  PageInit => PageInv
<1> SUFFICES ASSUME PageInit
             PROVE  PageInv
  OBVIOUS
<1>1. Sent \in FetchType /\ Sent.pc = "sent"
  BY DEF Sent, NoFetch, FetchType, Lists
<1>2. Unloaded \in Lists
  BY DEF Lists
<1>3. PageTypeOK
  BY <1>1, <1>2 DEF PageInit, PageTypeOK, FetchType, Call
<1>4. IdsOnce /\ AnswersTrue /\ ToldTrue
  BY DEF PageInit, IdsOnce, AnswersTrue, ToldTrue
<1>5. FoundAgrees /\ ToldIsListed
  BY <1>1 DEF PageInit, FoundAgrees, ToldIsListed
<1> QED
  BY <1>3, <1>4, <1>5 DEF PageInv

-----------------------------------------------------------------------------
(* The query client *)

LEMMA Fetches ==
  /\ NoFetch \in FetchType /\ NoFetch.pc = "none"
  /\ Sent \in FetchType /\ Sent.pc = "sent"
  /\ [Sent EXCEPT !.tries = 1] \in FetchType /\ [Sent EXCEPT !.tries = 1].pc = "sent"
BY DEF Sent, NoFetch, FetchType, Lists

\* A read is sent, found, applied or given up.
LEMMA QueryKeeps ==
  ASSUME PageInv, UNCHANGED <<rows, creating, revoking, editor, awaited, deleted, told>>,
         fetch' \in FetchType, list' \in Lists, fresh' \in BOOLEAN,
         FoundAgrees', ToldIsListed'
  PROVE  PageInv'
<1>1. PageTypeOK'
  BY DEF PageInv, PageTypeOK, FetchType
<1>2. IdsOnce' /\ AnswersTrue' /\ ToldTrue'
  BY DEF PageInv, IdsOnce, AnswersTrue, ToldTrue, Agrees
<1> QED
  BY <1>1, <1>2 DEF PageInv

LEMMA QuerySteps ==
  ASSUME PageInv, Fetch \/ List \/ Fetched \/ FetchFails
  PROVE  PageInv'
<1>1. /\ UNCHANGED <<rows, creating, revoking, editor, awaited, deleted, told>>
      /\ fetch \in FetchType /\ list \in Lists /\ fresh \in BOOLEAN /\ rows \subseteq Row
  BY DEF Fetch, List, Fetched, FetchFails, PageInv, PageTypeOK, FetchType
<1>2. CASE Fetch
  <2>1. fetch' = Sent /\ UNCHANGED <<list, fresh>>
    BY <1>2 DEF Fetch
  <2>2. FoundAgrees' /\ ToldIsListed'
    BY <2>1, Fetches DEF FoundAgrees, ToldIsListed
  <2> QED
    BY <1>1, <2>1, <2>2, Fetches, QueryKeeps
<1>3. CASE List
  <2>1. fetch' = [fetch EXCEPT !.pc = "found", !.found = rows] /\ UNCHANGED <<list, fresh>>
    BY <1>3 DEF List
  <2>2. rows \in Lists
    BY <1>1 DEF Lists
  <2>3. fetch' \in FetchType /\ fetch'.pc = "found" /\ fetch'.found = rows
    BY <1>1, <2>1, <2>2 DEF FetchType
  <2>4. FoundAgrees'
    BY <1>1, <2>3 DEF PageInv, ToldTrue, FoundAgrees, Agrees
  <2>5. ToldIsListed'
    BY <2>3 DEF ToldIsListed
  <2> QED
    BY <1>1, <2>1, <2>3, <2>4, <2>5, QueryKeeps
<1>4. CASE Fetched
  <2>1. fetch.pc = "found" /\ list' = fetch.found /\ fetch' = NoFetch /\ fresh' = TRUE
    BY <1>4 DEF Fetched
  <2>2. list' \in Lists
    BY <1>1, <2>1 DEF FetchType
  <2>3. FoundAgrees'
    BY <2>1, Fetches DEF FoundAgrees
  <2>4. ToldIsListed'
    BY <1>1, <2>1 DEF PageInv, FoundAgrees, ToldIsListed, Agrees
  <2> QED
    BY <1>1, <2>1, <2>2, <2>3, <2>4, Fetches, QueryKeeps
<1>5. CASE FetchFails
  <2>1. /\ list' = list /\ fresh' \in BOOLEAN
        /\ \/ fetch' = [Sent EXCEPT !.tries = 1]
           \/ fetch' = NoFetch /\ ~ fresh'
    BY <1>1, <1>5 DEF FetchFails
  <2>2. FoundAgrees' /\ ToldIsListed'
    BY <2>1, Fetches DEF FoundAgrees, ToldIsListed
  <2> QED
    BY <1>1, <2>1, <2>2, Fetches, QueryKeeps
<1> QED
  BY <1>2, <1>3, <1>4, <1>5

\* The user is told something that is true; whatever is read from then on agrees with it.
LEMMA TellKeeps ==
  ASSUME PageInv, NEW i \in Ids, NEW there \in BOOLEAN,
         IF there THEN i \in deleted \/ \E r \in rows : r.id = i
                  ELSE i \in deleted,
         Tell(i, there), fetch' = Invalidated,
         UNCHANGED <<rows, list, fresh, deleted>>
  PROVE  /\ fetch' \in FetchType /\ told' \subseteq [id : Ids, there : BOOLEAN]
         /\ ToldTrue' /\ FoundAgrees' /\ ToldIsListed'
<1>1. fetch \in FetchType /\ told \subseteq [id : Ids, there : BOOLEAN]
      /\ \A r \in rows : r.id \notin deleted
  BY DEF PageInv, PageTypeOK, FetchType, IdsOnce
<1>2. CASE list = Unloaded
  <2>1. told' = told /\ (fetch' = fetch \/ fetch' = Sent)
    BY <1>2 DEF Tell, Invalidated
  <2>2. ToldTrue'
    BY <2>1 DEF PageInv, ToldTrue, Agrees
  <2>3. FoundAgrees' /\ ToldIsListed'
    BY <2>1, Fetches DEF PageInv, FoundAgrees, ToldIsListed, Agrees
  <2> QED
    BY <1>1, <2>1, <2>2, <2>3, Fetches
<1>3. CASE list # Unloaded
  <2>1. PICK t : t = [id |-> i, there |-> there]
    OBVIOUS
  <2>2. t \in [id : Ids, there : BOOLEAN] /\ t.id = i /\ t.there = there
    BY <2>1
  <2>3. told' = told \cup {t} /\ fetch' = Sent
    BY <1>3, <2>1 DEF Tell, Invalidated
  <2>4. Agrees(rows, t) /\ (t.there \/ t.id \in deleted)
    BY <1>1, <2>2 DEF Agrees
  <2>5. ToldTrue'
    BY <2>3, <2>4 DEF PageInv, ToldTrue, Agrees
  <2>6. FoundAgrees' /\ ToldIsListed'
    BY <2>3, Fetches DEF FoundAgrees, ToldIsListed
  <2> QED
    BY <1>1, <2>2, <2>3, <2>5, <2>6, Fetches
<1> QED
  BY <1>2, <1>3

-----------------------------------------------------------------------------
(* The dialogs and the rows *)

\* Rows come and go; nobody is told of it.
LEMMA RowsKeep ==
  ASSUME PageInv, UNCHANGED <<query, told>>, rows' \subseteq Row,
         creating' \in [Ids -> Call], revoking' \in [Ids -> {"none", "sent", "late", "deleted"}],
         editor' \in BOOLEAN, awaited' \in Ids \cup {NoId},
         deleted \subseteq deleted', deleted' \subseteq Ids,
         IdsOnce', AnswersTrue', \A r \in rows : r \in rows' \/ r.id \in deleted',
         \A r \in rows' : r \in rows \/ r.id \notin deleted
  PROVE  PageInv'
<1>1. list' = list /\ fetch' = fetch /\ fresh' = fresh /\ told' = told
  BY DEF query
<1>2. PageTypeOK'
  BY <1>1 DEF PageInv, PageTypeOK
<1>3. ToldTrue'
  BY <1>1 DEF PageInv, ToldTrue, Agrees
<1>4. FoundAgrees'
  BY <1>1 DEF PageInv, FoundAgrees, Agrees
<1>5. ToldIsListed'
  BY <1>1 DEF PageInv, ToldIsListed
<1> QED
  BY <1>2, <1>3, <1>4, <1>5 DEF PageInv

\* What RowsKeep takes for granted of the state before the step.
LEMMA RowTypes ==
  ASSUME PageInv
  PROVE  /\ rows \subseteq Row /\ deleted \subseteq Ids
         /\ creating \in [Ids -> Call]
         /\ revoking \in [Ids -> {"none", "sent", "late", "deleted"}]
         /\ editor \in BOOLEAN /\ awaited \in Ids \cup {NoId}
         /\ IdsOnce /\ AnswersTrue
BY DEF PageInv, PageTypeOK

\* The dialog is opened, or closed.
LEMMA EditorSteps ==
  ASSUME PageInv, OpenEditor \/ CloseEditor
  PROVE  PageInv'
<1>1. /\ UNCHANGED <<query, told, rows, creating, revoking, deleted>>
      /\ editor' \in BOOLEAN /\ awaited' \in Ids \cup {NoId}
  BY RowTypes DEF OpenEditor, CloseEditor
<1>2. IdsOnce' /\ AnswersTrue'
  BY <1>1, RowTypes DEF IdsOnce, AnswersTrue
<1> QED
  BY <1>1, <1>2, RowTypes, RowsKeep

\* A call to create changes its place, and adds at most its own row while it may.
LEMMA CreatingKeeps ==
  ASSUME PageInv, NEW i \in Ids, NEW c \in Call,
         creating' = [creating EXCEPT ![i] = c],
         UNCHANGED <<query, told, revoking, deleted>>,
         editor' \in BOOLEAN, awaited' \in Ids \cup {NoId},
         \/ /\ rows' = rows
            /\ c.pc \in {"new", "sent", "late"} => creating[i].pc \in {"new", "sent", "late"}
            /\ c.pc = "created" => creating[i].pc = "created"
         \/ /\ \E n \in Names : rows' = rows \cup {[id |-> i, name |-> n]}
            /\ creating[i].pc \in {"new", "sent", "late"} /\ c.pc \in {"created", "failed"}
  PROVE  PageInv'
<1>1. creating' \in [Ids -> Call] /\ creating'[i] = c
      /\ \A j \in Ids : j # i => creating'[j] = creating[j]
  BY RowTypes
<1>2. CASE rows' = rows /\ (c.pc \in {"new", "sent", "late"} => creating[i].pc \in {"new", "sent", "late"})
           /\ (c.pc = "created" => creating[i].pc = "created")
  <2>1. IdsOnce'
    BY <1>1, <1>2, RowTypes DEF IdsOnce
  <2>2. AnswersTrue'
    BY <1>1, <1>2, RowTypes DEF AnswersTrue
  <2> QED
    BY <1>1, <1>2, <2>1, <2>2, RowTypes, RowsKeep
<1>3. ASSUME NEW n \in Names, rows' = rows \cup {[id |-> i, name |-> n]},
             creating[i].pc \in {"new", "sent", "late"}, c.pc \in {"created", "failed"}
      PROVE  PageInv'
  <2>1. PICK r : r = [id |-> i, name |-> n]
    OBVIOUS
  <2>2. r \in Row /\ r.id = i /\ rows' = rows \cup {r}
    BY <1>3, <2>1 DEF Row
  <2>3. i \notin deleted
    BY <1>3, RowTypes DEF IdsOnce
  <2>4. IdsOnce'
    BY <1>1, <1>3, <2>2, <2>3, RowTypes DEF IdsOnce
  <2>5. AnswersTrue'
    BY <1>1, <2>2, RowTypes DEF AnswersTrue
  <2> QED
    BY <1>1, <2>2, <2>3, <2>4, <2>5, RowTypes, RowsKeep
<1> QED
  BY <1>2, <1>3

\* The steps of a call to create before its answer arrives.
LEMMA CreateSteps ==
  ASSUME PageInv, NEW i \in Ids,
         \/ \E n \in Names : SubmitCreate(i, n) \/ CreateElsewhere(i, n)
         \/ Create(i) \/ CreateFails(i)
  PROVE  PageInv'
<1>1. creating[i] \in Call
  BY RowTypes
<1>2. ASSUME NEW n \in Names, SubmitCreate(i, n)
      PROVE  PageInv'
  <2>1. PICK c : c = [pc |-> "sent", name |-> n]
    OBVIOUS
  <2>2. c \in Call /\ c.pc = "sent"
    BY <2>1 DEF Call
  <2>3. /\ creating' = [creating EXCEPT ![i] = c] /\ creating[i].pc = "new"
        /\ UNCHANGED <<query, told, revoking, deleted, rows>>
        /\ editor' \in BOOLEAN /\ awaited' \in Ids \cup {NoId}
    BY <1>2, <2>1, RowTypes DEF SubmitCreate, NextId
  <2> QED
    BY <2>2, <2>3, CreatingKeeps
<1>3. ASSUME NEW n \in Names, CreateElsewhere(i, n)
      PROVE  PageInv'
  <2>1. PICK c : c = [pc |-> "failed", name |-> n]
    OBVIOUS
  <2>2. c \in Call /\ c.pc = "failed"
    BY <2>1 DEF Call
  <2>3. /\ creating' = [creating EXCEPT ![i] = c] /\ creating[i].pc = "new"
        /\ UNCHANGED <<query, told, revoking, deleted>>
        /\ rows' = rows \cup {[id |-> i, name |-> n]}
        /\ editor' \in BOOLEAN /\ awaited' \in Ids \cup {NoId}
    BY <1>3, <2>1, RowTypes DEF CreateElsewhere, NextId
  <2> QED
    BY <2>2, <2>3, CreatingKeeps
<1>4. CASE CreateFails(i)
  <2>1. PICK c : c = [creating[i] EXCEPT !.pc = IF @ = "sent" THEN "late" ELSE "failed"]
    OBVIOUS
  <2>2. c \in Call /\ c.pc = IF creating[i].pc = "sent" THEN "late" ELSE "failed"
    BY <1>1, <1>4, <2>1 DEF Call, CreateFails
  <2>3. /\ creating' = [creating EXCEPT ![i] = c]
        /\ UNCHANGED <<query, told, revoking, deleted, rows>>
        /\ editor' \in BOOLEAN /\ awaited' \in Ids \cup {NoId}
    BY <1>4, <2>1, RowTypes DEF CreateFails
  <2> QED
    BY <2>2, <2>3, CreatingKeeps
<1>5. CASE Create(i)
  <2> DEFINE n == creating[i].name
             taken == \E r \in rows : r.name = n
  <2>1. PICK c : c = [creating[i] EXCEPT !.pc =
               IF @ = "late" THEN "failed" ELSE IF taken THEN "refused" ELSE "created"]
    OBVIOUS
  <2>2. c \in Call /\ c.pc = IF creating[i].pc = "late" THEN "failed"
                                 ELSE IF taken THEN "refused" ELSE "created"
    <3>1. creating[i].pc \in {"sent", "late"}
      BY <1>5 DEF Create
    <3> HIDE DEF taken
    <3> QED
      BY <1>1, <2>1, <3>1 DEF Call
  <2>3. /\ creating' = [creating EXCEPT ![i] = c] /\ creating[i].pc \in {"sent", "late"}
        /\ rows' = IF taken THEN rows ELSE rows \cup {[id |-> i, name |-> n]}
        /\ UNCHANGED <<query, told, revoking, deleted>>
        /\ editor' \in BOOLEAN /\ awaited' \in Ids \cup {NoId}
    BY <1>5, <2>1, RowTypes DEF Create
  <2>4. n \in Names
    BY <1>1, <2>3 DEF Call
  <2> QED
    BY <2>2, <2>3, <2>4, CreatingKeeps
<1> QED
  BY <1>2, <1>3, <1>4, <1>5

\* The row of an id is gone for good.
LEMMA RowGone ==
  ASSUME PageInv, NEW i \in Ids, rows' = {r \in rows : r.id # i},
         deleted' = deleted \/ deleted' = deleted \cup {i},
         i \in deleted' \/ \A r \in rows : r.id # i,
         i \in deleted' => i \in deleted \/ \E r \in rows : r.id = i,
         UNCHANGED <<query, told, creating, editor, awaited>>,
         revoking' \in [Ids -> {"none", "sent", "late", "deleted"}],
         \A j \in Ids : revoking'[j] = "deleted" => revoking[j] = "deleted" \/ j \in deleted'
  PROVE  PageInv'
<1>1. deleted \subseteq deleted' /\ deleted' \subseteq Ids /\ rows' \subseteq Row
      /\ \A r \in rows : r \in rows' \/ r.id \in deleted'
  BY RowTypes
<1>2. IdsOnce'
  BY <1>1, RowTypes DEF IdsOnce
<1>3. AnswersTrue'
  BY <1>1, RowTypes DEF AnswersTrue
<1> QED
  BY <1>1, <1>2, <1>3, RowTypes, RowsKeep

\* The steps of a call to revoke before its answer arrives.
LEMMA RevokeSteps ==
  ASSUME PageInv, NEW i \in Ids,
         SubmitRevoke(i) \/ Delete(i) \/ RevokeFails(i) \/ RevokeElsewhere(i)
  PROVE  PageInv'
<1>1. ASSUME UNCHANGED <<query, told, rows, creating, editor, awaited, deleted>>,
             NEW p \in {"none", "sent", "late"}, revoking' = [revoking EXCEPT ![i] = p]
      PROVE  PageInv'
  <2>1. revoking' \in [Ids -> {"none", "sent", "late", "deleted"}]
        /\ \A j \in Ids : revoking'[j] = "deleted" => revoking[j] = "deleted"
    BY <1>1, RowTypes
  <2>2. IdsOnce' /\ AnswersTrue'
    BY <1>1, <2>1, RowTypes DEF IdsOnce, AnswersTrue
  <2> QED
    BY <1>1, <2>1, <2>2, RowTypes, RowsKeep
<1>2. CASE SubmitRevoke(i)
  BY <1>1, <1>2 DEF SubmitRevoke
<1>3. CASE RevokeFails(i)
  <2>1. PICK p : p = IF revoking[i] = "sent" THEN "late" ELSE "none"
    OBVIOUS
  <2>2. p \in {"none", "sent", "late"} /\ revoking' = [revoking EXCEPT ![i] = p]
    BY <1>3, <2>1, RowTypes DEF RevokeFails
  <2> QED
    BY <1>1, <1>3, <2>2 DEF RevokeFails
<1>4. CASE Delete(i)
  <2> DEFINE found == {r \in rows : r.id = i}
  <2>1. PICK p : p = IF revoking[i] = "late" \/ found = {} THEN "none" ELSE "deleted"
    OBVIOUS
  <2>2. /\ revoking' = [revoking EXCEPT ![i] = p] /\ p \in {"none", "deleted"}
        /\ p = "deleted" => found # {}
        /\ rows' = {r \in rows : r.id # i} /\ deleted' = deleted \cup {r.id : r \in found}
        /\ UNCHANGED <<query, told, creating, editor, awaited>>
    BY <1>4, <2>1 DEF Delete
  <2>3. deleted' = IF found = {} THEN deleted ELSE deleted \cup {i}
    BY <2>2
  <2>4. revoking' \in [Ids -> {"none", "sent", "late", "deleted"}]
        /\ \A j \in Ids : revoking'[j] = "deleted" => revoking[j] = "deleted" \/ j \in deleted'
    BY <2>2, <2>3, RowTypes
  <2>5. /\ deleted' = deleted \/ deleted' = deleted \cup {i}
        /\ i \in deleted' \/ \A r \in rows : r.id # i
        /\ i \in deleted' => i \in deleted \/ \E r \in rows : r.id = i
    BY <2>3
  <2> QED
    BY <2>2, <2>4, <2>5, RowGone
<1>5. CASE RevokeElsewhere(i)
  BY <1>5, RowTypes, RowGone DEF RevokeElsewhere
<1> QED
  BY <1>2, <1>3, <1>4, <1>5

\* An answer arrives, and the user is told.
LEMMA AnswerSteps ==
  ASSUME PageInv, NEW i \in Ids, Created(i) \/ Revoked(i)
  PROVE  PageInv'
<1>1. UNCHANGED <<rows, list, fresh, editor, awaited, deleted>> /\ fetch' = Invalidated
  BY DEF Created, Revoked
<1>2. /\ fetch' \in FetchType /\ told' \subseteq [id : Ids, there : BOOLEAN]
      /\ ToldTrue' /\ FoundAgrees' /\ ToldIsListed'
  <2>1. CASE Created(i)
    <3>1. Tell(i, TRUE) /\ (i \in deleted \/ \E r \in rows : r.id = i)
      BY <2>1, RowTypes DEF Created, AnswersTrue
    <3> QED
      BY <1>1, <3>1, TellKeeps
  <2>2. CASE Revoked(i)
    <3>1. Tell(i, FALSE) /\ i \in deleted
      BY <2>2, RowTypes DEF Revoked, AnswersTrue
    <3> QED
      BY <1>1, <3>1, TellKeeps
  <2> QED
    BY <2>1, <2>2
<1>3. /\ creating' \in [Ids -> Call]
      /\ revoking' \in [Ids -> {"none", "sent", "late", "deleted"}]
      /\ \A j \in Ids : creating'[j].pc \in {"new", "sent", "late", "created"} =>
                          creating'[j].pc = creating[j].pc
      /\ \A j \in Ids : revoking'[j] = "deleted" => revoking[j] = "deleted"
  <2>1. CASE Created(i)
    <3>1. creating[i] \in Call /\ creating[i].pc = "created"
      BY <2>1, RowTypes DEF Created
    <3>2. PICK c : c = [creating[i] EXCEPT !.pc = "shown"]
      OBVIOUS
    <3>3. c \in Call /\ c.pc = "shown"
      BY <3>1, <3>2 DEF Call
    <3>4. creating' = [creating EXCEPT ![i] = c] /\ revoking' = revoking
      BY <2>1, <3>2, RowTypes DEF Created
    <3> QED
      BY <3>3, <3>4, RowTypes
  <2>2. CASE Revoked(i)
    BY <2>2, RowTypes DEF Revoked
  <2> QED
    BY <2>1, <2>2
<1>4. PageTypeOK'
  BY <1>1, <1>2, <1>3 DEF PageInv, PageTypeOK, FetchType
<1>5. IdsOnce' /\ AnswersTrue'
  BY <1>1, <1>3, RowTypes DEF IdsOnce, AnswersTrue
<1> QED
  BY <1>2, <1>4, <1>5 DEF PageInv

-----------------------------------------------------------------------------
(* Every step *)

LEMMA PageStep ==
  PageInv /\ [PageNext]_pageVars => PageInv'
<1> SUFFICES ASSUME PageInv, [PageNext]_pageVars
             PROVE  PageInv'
  OBVIOUS
<1>1. CASE PageNext
  BY <1>1, QuerySteps, EditorSteps, CreateSteps, RevokeSteps, AnswerSteps DEF PageNext
<1>2. CASE UNCHANGED pageVars
  BY <1>2 DEF pageVars, query, PageInv, PageTypeOK, IdsOnce, AnswersTrue, ToldTrue,
              FoundAgrees, ToldIsListed, Agrees
<1> QED
  BY <1>1, <1>2

LEMMA PageInvariant ==
  PageSpec => []PageInv
BY PageInvInit, PageStep, PTL DEF PageSpec

\* The page's list, its dialogs and the calls behind them are what AppPasswordPage
\* declares them to be, for any number of passwords.
THEOREM PageTypeCorrect ==
  PageSpec => []PageTypeOK
BY PageInvariant, PTL DEF PageInv

\* What the user was told is what the list shows once it is at rest, whichever read was
\* under way when the answer came (app-password-settings.tsx 67-71, 206-211).
THEOREM ToldListed ==
  PageSpec => []ToldIsListed
BY PageInvariant, PTL DEF PageInv

-----------------------------------------------------------------------------
(***************************************************************************)
(* Preferences and the birth date (Preferences)                            *)
(***************************************************************************)

USE PrefAssumption

-----------------------------------------------------------------------------
(* Dates *)

\* A day that is not later than another stays so as days pass.
LEMMA LaterThanPast ==
  ASSUME NEW a \in Dates, NEW b \in Dates, NEW c \in Dates, ~ Later(a, b), ~ Later(b, c)
  PROVE  ~ Later(a, c)
BY DEF Dates, Later

\* The years of the birthdays that have come follow each other.
LEMMA BirthdaysAre ==
  ASSUME today \in DOMAIN Days, NEW d \in Dates, ~ Later(d, Days[today])
  PROVE  /\ AgeOf(d) \in Nat
         /\ Birthdays(d) = d.year + 1 .. d.year + AgeOf(d)
<1> DEFINE t == Days[today]
<1>1. t \in Dates
  BY DEF Dates
<1>2. /\ d.year \in Int /\ d.month \in Int /\ d.day \in Int
      /\ t.year \in Int /\ t.month \in Int /\ t.day \in Int
  BY <1>1 DEF Dates
<1> DEFINE had == t.month > d.month \/ (t.month = d.month /\ t.day >= d.day)
<1>3. AgeOf(d) = t.year - d.year - (IF had THEN 0 ELSE 1)
  BY DEF AgeOf
<1>4. d.year < t.year \/ (d.year = t.year /\ had)
  BY <1>2 DEF Later
<1>5. ASSUME NEW y \in Int
      PROVE  Later([d EXCEPT !.year = y], t) <=> y > t.year \/ (y = t.year /\ ~ had)
  <2>1. [d EXCEPT !.year = y].year = y /\ [d EXCEPT !.year = y].month = d.month
        /\ [d EXCEPT !.year = y].day = d.day
    BY DEF Dates
  <2> QED
    BY <1>2, <2>1 DEF Later
<1>6. Birthdays(d) = {y \in d.year + 1 .. t.year : ~ (y > t.year \/ (y = t.year /\ ~ had))}
  BY <1>2, <1>5 DEF Birthdays
<1> HIDE DEF t, had
<1> QED
  BY ONLY <1>2, <1>3, <1>4, <1>6

\* The age that the PDS derives is the number of birthdays that have come.
LEMMA AgeIsBirthdays ==
  ASSUME today \in DOMAIN Days, NEW d \in Dates, ~ Later(d, Days[today])
  PROVE  Cardinality(Birthdays(d)) = AgeOf(d)
<1>1. PICK a : a = AgeOf(d)
  OBVIOUS
<1>2. PICK y : y = d.year
  OBVIOUS
<1>3. a \in Nat /\ y \in Int /\ Birthdays(d) = y + 1 .. y + a
  BY <1>1, <1>2, BirthdaysAre DEF Dates
<1>4. Cardinality(y + 1 .. y + a) = a
  <2>1. y + 1 \in Int /\ y + a \in Int
    BY <1>3
  <2>2. Cardinality(y + 1 .. y + a) = IF y + 1 > y + a THEN 0 ELSE (y + a) - (y + 1) + 1
    BY <2>1, FS_Interval
  <2> QED
    BY ONLY <1>3, <2>2
<1> QED
  BY <1>1, <1>3, <1>4

-----------------------------------------------------------------------------
(* The inductive invariant *)

\* The date was valid when it was stored, and days only pass.
BornBefore == birthDate # NoDate => birthDate \in Dates /\ ~ Later(birthDate, Days[today])

\* Whatever the page may come to show has been stored.
WereStored ==
  /\ birthDate \in stored
  /\ reading.pc = "found" => reading.found \in stored
  /\ \A s \in Saves : save[s].pc = "stored" => save[s].date \in stored

PrefInv ==
  PrefTypeOK /\ preferences \subseteq Kept /\ BornBefore /\ WereStored /\ ShownWasStored

ReadType == [pc : {"none", "sent", "found"}, tries : {0, 1}, found : StoredDates]

LEMMA Records ==
  /\ NoRead \in ReadType /\ NoRead.pc = "none"
  /\ [NoRead EXCEPT !.pc = "sent"] \in ReadType /\ [NoRead EXCEPT !.pc = "sent"].pc = "sent"
  /\ [NoRead EXCEPT !.pc = "sent", !.tries = 1] \in ReadType
  /\ [NoRead EXCEPT !.pc = "sent", !.tries = 1].pc = "sent"
  /\ Done \in Saving /\ Done.pc = "done"
  /\ [Done EXCEPT !.pc = "new"] \in Saving /\ [Done EXCEPT !.pc = "new"].pc = "new"
BY DEF NoRead, Done, ReadType, Saving, StoredDates

LEMMA PrefInvInit ==
  PrefInit => PrefInv
<1> SUFFICES ASSUME PrefInit
             PROVE  PrefInv
  OBVIOUS
<1>1. PrefTypeOK
  BY Records DEF PrefInit, PrefTypeOK, ReadType, Saving, StoredDates
<1>2. BornBefore /\ WereStored /\ ShownWasStored
  BY Records DEF PrefInit, BornBefore, WereStored, ShownWasStored
<1> QED
  BY <1>1, <1>2 DEF PrefInv, PrefInit

LEMMA OneAgeHolds ==
  PrefInv => OneAge
<1> SUFFICES ASSUME PrefInv
             PROVE  OneAge
  OBVIOUS
<1>1. today \in DOMAIN Days /\ preferences \subseteq Kept /\ BornBefore
  BY DEF PrefInv, PrefTypeOK
<1>2. CASE birthDate = NoDate
  BY <1>1, <1>2 DEF OneAge, Answered, IsDeclared, Allowed
<1>3. CASE birthDate # NoDate
  <2>1. Cardinality(Birthdays(birthDate)) = AgeOf(birthDate)
    BY <1>1, <1>3, AgeIsBirthdays DEF BornBefore
  <2>2. PICK p : p = Declared({a \in Ages : AgeOf(birthDate) >= a})
    OBVIOUS
  <2>3. p \notin Kept \cup {Foreign, Personal}
    BY <2>2
  <2>4. Answered = preferences \cup {p}
    BY <1>3, <2>2 DEF Answered
  <2>5. {q \in Answered : IsDeclared(q)} = {p} /\ Allowed(Answered)
    BY <1>1, <2>3, <2>4 DEF IsDeclared, Allowed
  <2> QED
    BY <1>3, <2>1, <2>2, <2>5 DEF OneAge
<1> QED
  BY <1>2, <1>3

-----------------------------------------------------------------------------
(* The clients, the days and the birth date *)

\* The facts about the state before a step that the steps need.
LEMMA PrefTypes ==
  ASSUME PrefInv
  PROVE  /\ birthDate \in StoredDates /\ stored \subseteq StoredDates
         /\ preferences \subseteq Prefs /\ preferences \subseteq Kept
         /\ got \in [Clients -> (SUBSET Prefs) \cup {NotRead}]
         /\ today \in DOMAIN Days
         /\ shown \in StoredDates \cup {Hidden} /\ dialog \in BOOLEAN
         /\ attached \in Saves \cup {0}
         /\ reading \in ReadType /\ save \in [Saves -> Saving]
BY DEF PrefInv, PrefTypeOK, ReadType

\* Clients read the list and put it back.
LEMMA ClientSteps ==
  ASSUME PrefInv, NEW c \in Clients,
         GetPreferences(c) \/ \E p \in Kept \cup {Foreign, Personal} : PutPreferences(c, p)
  PROVE  PrefInv'
<1>1. UNCHANGED <<birthDate, today, page, stored>>
  BY DEF GetPreferences, PutPreferences
<1>2. /\ got' \in [Clients -> (SUBSET Prefs) \cup {NotRead}]
      /\ preferences' \subseteq Kept
  <2>1. CASE GetPreferences(c)
    <3>1. Answered \subseteq Prefs
      <4>1. \A ages \in SUBSET Ages : Declared(ages) \in Prefs
        BY DEF Prefs, Declared
      <4>2. {a \in Ages : AgeOf(birthDate) >= a} \in SUBSET Ages
        OBVIOUS
      <4> QED
        BY <4>1, <4>2, PrefTypes DEF Answered
    <3> QED
      BY <2>1, <3>1, PrefTypes DEF GetPreferences
  <2>2. CASE \E p \in Kept \cup {Foreign, Personal} : PutPreferences(c, p)
    BY <2>2, PrefTypes DEF PutPreferences, Written, IsDeclared, Allowed
  <2> QED
    BY <2>1, <2>2
<1>3. PrefTypeOK'
  BY <1>1, <1>2, PrefTypes DEF PrefInv, PrefTypeOK, page, Prefs
<1>4. BornBefore' /\ WereStored' /\ ShownWasStored'
  BY <1>1 DEF PrefInv, BornBefore, WereStored, ShownWasStored, page
<1> QED
  BY <1>2, <1>3, <1>4 DEF PrefInv

LEMMA DayKeeps ==
  ASSUME PrefInv, NextDay
  PROVE  PrefInv'
<1>1. UNCHANGED <<birthDate, preferences, got, page, stored>> /\ today' = today + 1
      /\ today' \in DOMAIN Days
  BY DEF NextDay
<1>2. PrefTypeOK'
  BY <1>1, PrefTypes DEF PrefInv, PrefTypeOK, page
<1>3. BornBefore'
  <2>1. /\ Days[today] \in Dates /\ Days[today'] \in Dates
        /\ ~ Later(Days[today], Days[today'])
    BY <1>1, PrefTypes
  <2> QED
    BY <1>1, <2>1, LaterThanPast DEF PrefInv, BornBefore
<1>4. WereStored' /\ ShownWasStored'
  BY <1>1 DEF PrefInv, WereStored, ShownWasStored, page
<1> QED
  BY <1>1, <1>2, <1>3, <1>4 DEF PrefInv

\* A date is stored, by the page's save s or elsewhere.
LEMMA StoreKeeps ==
  ASSUME PrefInv, NEW d \in StoredDates, BirthDateValid(d), d \in Dates, Store(d),
         UNCHANGED <<preferences, got, today, shown, reading, dialog, attached>>,
         save' \in [Saves -> Saving],
         \A s \in Saves : save'[s].pc = "stored" => save'[s].date \in stored \cup {d}
  PROVE  PrefInv'
<1>1. birthDate' = d /\ stored' = stored \cup {d}
  BY DEF Store
<1>2. PrefTypeOK'
  BY <1>1, PrefTypes DEF PrefInv, PrefTypeOK
<1>3. BornBefore'
  BY <1>1 DEF BornBefore, BirthDateValid
<1>4. WereStored' /\ ShownWasStored'
  BY <1>1 DEF PrefInv, WereStored, ShownWasStored
<1> QED
  BY <1>2, <1>3, <1>4, PrefTypes DEF PrefInv

LEMMA StoreSteps ==
  ASSUME PrefInv, (\E d \in Entered : SaveElsewhere(d)) \/ \E s \in Saves : PutBirthDate(s)
  PROVE  PrefInv'
<1>1. ASSUME NEW d \in Entered, SaveElsewhere(d)
      PROVE  PrefInv'
  <2>1. /\ BirthDateValid(d) /\ Store(d) /\ d \in StoredDates /\ d \in Dates
        /\ UNCHANGED <<preferences, got, today, shown, reading, dialog, attached, save>>
    BY <1>1 DEF SaveElsewhere, page, StoredDates
  <2> QED
    BY <2>1, PrefTypes, StoreKeeps DEF PrefInv, WereStored
<1>2. ASSUME NEW s \in Saves, PutBirthDate(s)
      PROVE  PrefInv'
  <2>1. PICK d : d = save[s].date
    OBVIOUS
  <2>2. PICK new : new = IF save[s].pc = "sent" THEN [save[s] EXCEPT !.pc = "stored"] ELSE Done
    OBVIOUS
  <2>3. /\ BirthDateValid(d) /\ Store(d) /\ save' = [save EXCEPT ![s] = new]
        /\ UNCHANGED <<preferences, got, today, shown, reading, dialog, attached>>
    BY <1>2, <2>1, <2>2, PrefTypes DEF PutBirthDate
  <2>4. d \in Entered /\ new \in Saving /\ (new.pc = "stored" => new.date = d)
    BY <1>2, <2>1, <2>2, PrefTypes, Records DEF Saving, PutBirthDate
  <2>5. d \in StoredDates /\ d \in Dates
    BY <2>4 DEF StoredDates
  <2> QED
    BY <2>3, <2>4, <2>5, PrefTypes, StoreKeeps DEF PrefInv, WereStored
<1> QED
  BY <1>1, <1>2

-----------------------------------------------------------------------------
(* The page *)

\* The page is all that changes.
LEMMA PageKeeps ==
  ASSUME PrefInv, UNCHANGED <<birthDate, preferences, got, today, stored>>,
         reading' \in ReadType, save' \in [Saves -> Saving],
         dialog' \in BOOLEAN, attached' \in Saves \cup {0},
         reading'.pc = "found" => reading'.found \in stored,
         \A s \in Saves : save'[s].pc = "stored" => save'[s].date \in stored,
         shown' \in stored \cup {Hidden}
  PROVE  PrefInv'
<1>1. PrefTypeOK'
  BY PrefTypes DEF PrefInv, PrefTypeOK, ReadType
<1>2. BornBefore' /\ WereStored' /\ ShownWasStored'
  BY DEF PrefInv, BornBefore, WereStored, ShownWasStored
<1> QED
  BY <1>1, <1>2 DEF PrefInv

\* What WereStored says of the page.
LEMMA PageStored ==
  ASSUME PrefInv
  PROVE  /\ birthDate \in stored /\ shown \in stored \cup {Hidden}
         /\ reading.pc = "found" => reading.found \in stored
         /\ \A s \in Saves : save[s].pc = "stored" => save[s].date \in stored
BY DEF PrefInv, WereStored, ShownWasStored

LEMMA ShowKeeps ==
  ASSUME PrefInv, NEW d \in stored \cup {Hidden}, NEW saves \in [Saves -> Saving],
         NEW open \in BOOLEAN, Show(d, saves, open),
         \A s \in Saves : saves[s].pc = "stored" => saves[s].date \in stored
  PROVE  /\ shown' \in stored \cup {Hidden} /\ dialog' \in BOOLEAN
         /\ attached' \in Saves \cup {0} /\ save' \in [Saves -> Saving]
         /\ \A s \in Saves : save'[s].pc = "stored" => save'[s].date \in stored
<1>1. shown' = d /\ dialog' \in BOOLEAN /\ attached' \in Saves \cup {0}
  BY PrefTypes DEF Show
<1>2. save' = saves \/ save' = [s \in Saves |-> [saves[s] EXCEPT !.own = FALSE]]
  BY DEF Show
<1>3. ASSUME NEW s \in Saves
      PROVE  save'[s] \in Saving /\ (save'[s].pc = "stored" => save'[s].date \in stored)
  <2>1. PICK a : a = saves[s]
    OBVIOUS
  <2>2. a \in Saving /\ (save'[s] = a \/ save'[s] = [a EXCEPT !.own = FALSE])
    BY <1>2, <2>1
  <2>3. /\ [a EXCEPT !.own = FALSE] \in Saving /\ [a EXCEPT !.own = FALSE].pc = a.pc
        /\ [a EXCEPT !.own = FALSE].date = a.date
    BY <2>2 DEF Saving
  <2> QED
    BY <2>1, <2>2, <2>3
<1>4. save' \in [Saves -> Saving]
  <2>1. \E f : save' = [s \in Saves |-> f[s]]
    BY <1>2
  <2> QED
    BY <1>3, <2>1
<1> QED
  BY <1>1, <1>3, <1>4

LEMMA ReadSteps ==
  ASSUME PrefInv, Read \/ GetBirthDate \/ ReadAnswered \/ ReadFails
  PROVE  PrefInv'
<1>1. UNCHANGED <<birthDate, preferences, got, today, stored>>
  BY DEF Read, GetBirthDate, ReadAnswered, ReadFails
<1>2. CASE Read
  BY <1>1, <1>2, Records, PrefTypes, PageStored, PageKeeps DEF Read
<1>3. CASE GetBirthDate
  <2>1. reading' = [reading EXCEPT !.pc = "found", !.found = birthDate]
        /\ UNCHANGED <<shown, dialog, save, attached>>
    BY <1>3 DEF GetBirthDate
  <2>2. reading' \in ReadType /\ reading'.found = birthDate
    BY <2>1, PrefTypes DEF ReadType
  <2> QED
    BY <1>1, <2>1, <2>2, PrefTypes, PageStored, PageKeeps
<1>4. CASE ReadAnswered
  <2>1. reading' = NoRead /\ Show(reading.found, save, dialog) /\ reading.pc = "found"
    BY <1>4 DEF ReadAnswered
  <2>2. PICK d : d = reading.found
    OBVIOUS
  <2>3. /\ shown' \in stored \cup {Hidden} /\ dialog' \in BOOLEAN
        /\ attached' \in Saves \cup {0} /\ save' \in [Saves -> Saving]
        /\ \A s \in Saves : save'[s].pc = "stored" => save'[s].date \in stored
    BY <2>1, <2>2, PrefTypes, PageStored, ShowKeeps
  <2> QED
    BY <1>1, <2>1, <2>3, Records, PageKeeps
<1>5. CASE ReadFails
  <2>1. CASE reading.tries = 0
    <3>1. reading' = [NoRead EXCEPT !.pc = "sent", !.tries = 1]
          /\ UNCHANGED <<shown, dialog, save, attached>>
      BY <1>5, <2>1 DEF ReadFails
    <3> QED
      BY <1>1, <3>1, Records, PrefTypes, PageStored, PageKeeps
  <2>2. CASE reading.tries # 0
    <3>1. reading' = NoRead /\ Show(Hidden, save, FALSE)
      BY <1>5, <2>2 DEF ReadFails
    <3>2. /\ shown' \in stored \cup {Hidden} /\ dialog' \in BOOLEAN
          /\ attached' \in Saves \cup {0} /\ save' \in [Saves -> Saving]
          /\ \A s \in Saves : save'[s].pc = "stored" => save'[s].date \in stored
      BY <3>1, PrefTypes, PageStored, ShowKeeps
    <3> QED
      BY <1>1, <3>1, <3>2, Records, PageKeeps
  <2> QED
    BY <2>1, <2>2
<1> QED
  BY <1>2, <1>3, <1>4, <1>5

LEMMA DialogSteps ==
  ASSUME PrefInv, OpenDialog \/ CloseDialog \/ Edit
  PROVE  PrefInv'
<1>1. UNCHANGED <<birthDate, preferences, got, today, stored, shown, reading, save>>
      /\ dialog' \in BOOLEAN /\ attached' \in Saves \cup {0}
  BY PrefTypes DEF OpenDialog, CloseDialog, Edit
<1> QED
  BY <1>1, PrefTypes, PageStored, PageKeeps

\* One save changes its place, and has its date stored or not.
LEMMA OneSave ==
  ASSUME PrefInv, NEW s \in Saves, NEW new \in Saving,
         new.pc = "stored" => new.date \in stored
  PROVE  /\ [save EXCEPT ![s] = new] \in [Saves -> Saving]
         /\ \A r \in Saves : [save EXCEPT ![s] = new][r].pc = "stored" =>
                               [save EXCEPT ![s] = new][r].date \in stored
BY PrefTypes, PageStored

LEMMA SaveSteps ==
  ASSUME PrefInv, NEW s \in Saves,
         (\E d \in Entered : Submit(s, d)) \/ SaveAnswered(s) \/ SaveFails(s)
  PROVE  PrefInv'
<1>1. UNCHANGED <<birthDate, preferences, got, today, stored, reading>>
  BY DEF Submit, SaveAnswered, SaveFails
<1>2. ASSUME NEW d \in Entered, Submit(s, d)
      PROVE  PrefInv'
  <2>1. PICK new : new = [pc |-> "sent", date |-> d, own |-> TRUE]
    OBVIOUS
  <2>2. new \in Saving /\ new.pc = "sent"
    BY <2>1 DEF Saving
  <2>3. /\ save' = [save EXCEPT ![s] = new] /\ UNCHANGED <<shown, dialog>>
        /\ attached' \in Saves \cup {0}
    BY <1>2, <2>1 DEF Submit, ShownBefore
  <2> QED
    BY <1>1, <2>2, <2>3, OneSave, PrefTypes, PageStored, PageKeeps
<1>3. CASE SaveAnswered(s)
  <2>1. PICK d : d = save[s].date
    OBVIOUS
  <2>2. PICK saves : saves = [save EXCEPT ![s] = Done]
    OBVIOUS
  <2>3. d \in stored /\ Show(d, saves, dialog /\ ~ save[s].own)
    BY <1>3, <2>1, <2>2, PageStored DEF SaveAnswered
  <2>4. saves \in [Saves -> Saving]
        /\ \A r \in Saves : saves[r].pc = "stored" => saves[r].date \in stored
    BY <2>2, Records, OneSave
  <2>5. PICK open \in BOOLEAN : open = (dialog /\ ~ save[s].own)
    OBVIOUS
  <2>6. /\ shown' \in stored \cup {Hidden} /\ dialog' \in BOOLEAN
        /\ attached' \in Saves \cup {0} /\ save' \in [Saves -> Saving]
        /\ \A r \in Saves : save'[r].pc = "stored" => save'[r].date \in stored
    BY <2>3, <2>4, <2>5, ShowKeeps
  <2> QED
    BY <1>1, <2>6, PrefTypes, PageStored, PageKeeps
<1>4. CASE SaveFails(s)
  <2>1. UNCHANGED <<shown, dialog, attached>>
    BY <1>4 DEF SaveFails
  <2>2. CASE save' = [save EXCEPT ![s] = Done]
    BY <1>1, <2>1, <2>2, Records, OneSave, PrefTypes, PageStored, PageKeeps
  <2>3. CASE save[s].pc = "sent" /\ save' = [save EXCEPT ![s].pc = "late"]
    <3>1. PICK new : new = [save[s] EXCEPT !.pc = "late"]
      OBVIOUS
    <3>2. new \in Saving /\ new.pc = "late"
      BY <2>3, <3>1, PrefTypes DEF Saving
    <3>3. save' = [save EXCEPT ![s] = new]
      BY <2>3, <3>1, PrefTypes
    <3> QED
      BY <1>1, <2>1, <3>2, <3>3, OneSave, PrefTypes, PageStored, PageKeeps
  <2> QED
    BY <1>4, <2>2, <2>3 DEF SaveFails
<1> QED
  BY <1>2, <1>3, <1>4

-----------------------------------------------------------------------------
(* Every step *)

LEMMA PrefStep ==
  PrefInv /\ [PrefNext]_prefVars => PrefInv'
<1> SUFFICES ASSUME PrefInv, [PrefNext]_prefVars
             PROVE  PrefInv'
  OBVIOUS
<1>1. CASE PrefNext
  BY <1>1, ClientSteps, StoreSteps, ReadSteps, DialogSteps, SaveSteps, DayKeeps DEF PrefNext
<1>2. CASE UNCHANGED prefVars
  BY <1>2 DEF prefVars, page, PrefInv, PrefTypeOK, BornBefore, WereStored, ShownWasStored
<1> QED
  BY <1>1, <1>2

LEMMA PrefInvariant ==
  PrefSpec => []PrefInv
BY PrefInvInit, PrefStep, PTL DEF PrefSpec

\* Preferences, their clients and the page are what Preferences declares them to be, for
\* any dates, days and number of saves.
THEOREM PrefTypeCorrect ==
  PrefSpec => []PrefTypeOK
BY PrefInvariant, PTL DEF PrefInv

\* A client is told one age, that of today, counted in birthdays, and never the date
\* itself (preferences.ts 31-47, 62-82).
THEOREM ToldOneAge ==
  PrefSpec => []OneAge
BY PrefInvariant, OneAgeHolds, PTL

\* The page never shows a birth date that the PDS has not had
\* (birth-date-settings.tsx 104-121).
THEOREM ShowsStored ==
  PrefSpec => []ShownWasStored
BY PrefInvariant, PTL DEF PrefInv
===============================================================================
