------------------------- MODULE AppPasswordSessions -------------------------
(***************************************************************************)
(* Sessions of clients that sign in with an app password (ADR 0013), for   *)
(* one user.  A slot r stands for one createSession or refreshSession      *)
(* request, which goes from one query of the database to the next;         *)
(* refresh tokens are numbered in the order in which they are created.     *)
(* Their JWTs are signed with the key that also signs OAuth access tokens. *)
(***************************************************************************)
EXTENDS Naturals, FiniteSets

CONSTANTS
  Passwords,  \* ids of app passwords
  Requests,   \* slots for concurrent requests
  Keys,       \* ids of signing keys
  Life,       \* 90 days, of a refresh token
  Grace,      \* 2 hours, of one that was rotated
  MaxTokens,  \* bound: refresh tokens created
  MaxTime,    \* bound: the clock
  NoPassword, NoKey

NoToken == 0
Tokens == 1..MaxTokens
Times == 0..MaxTime

ASSUME SessionAssumption ==
  /\ MaxTokens \in Nat /\ MaxTime \in Nat
  /\ Life \in Nat /\ Grace \in Nat /\ Grace <= Life
  /\ NoPassword \notin Passwords /\ NoKey \notin Keys

VARIABLES
  passwords,  \* the rows of app passwords
  table,      \* the rows of refresh tokens: a function from their ids
  created,    \* how many tokens have been created
  keys,       \* the rows of signing keys, which verifiers accept
  held,       \* the refresh JWTs that clients have, each with its expiry and key
  req,        \* the requests
  now,        \* the clock
  revoked,    \* history: the passwords that were revoked
  loggedOut,  \* history: the tokens with which a client logged out
  answers     \* history: which token was answered with which successor

history == <<revoked, loggedOut, answers>>
vars == <<passwords, table, created, keys, held, req, now, history>>

Rows == [password : Passwords, expires : Nat, next : Tokens \cup {NoToken}]
NoRequest == [pc |-> "idle", password |-> NoPassword, token |-> NoToken,
              next |-> NoToken, at |-> 0, expires |-> 0, kid |-> NoKey]

TypeOK ==
  /\ passwords \subseteq Passwords /\ revoked \subseteq Passwords
  /\ created \in 0..MaxTokens /\ now \in Times
  /\ DOMAIN table \subseteq 1..created /\ table \in [DOMAIN table -> Rows]
  /\ keys \subseteq Keys
  /\ held \subseteq [token : 1..created, expires : Nat, kid : Keys]
  /\ req \in [Requests ->
       [pc : {"idle", "create", "rotate", "reread", "successor", "keys", "initialize"},
        password : Passwords \cup {NoPassword}, token : Tokens \cup {NoToken},
        next : Tokens \cup {NoToken}, at : Times, expires : Nat, kid : Keys \cup {NoKey}]]
  /\ loggedOut \subseteq Tokens
  /\ answers \subseteq [token : Tokens, next : Tokens]

Init ==
  /\ passwords = {} /\ revoked = {}
  /\ created = 0 /\ now = 0
  /\ table = [t \in {} |-> NoToken]
  /\ keys = {} /\ held = {}
  /\ req = [r \in Requests |-> NoRequest]
  /\ loggedOut = {} /\ answers = {}

Without(ts) == [t \in DOMAIN table \ ts |-> table[t]]
End(r) == req' = [req EXCEPT ![r] = NoRequest]

\* findRefreshToken
Found(t) == t \in DOMAIN table /\ table[t].expires > now

-----------------------------------------------------------------------------
(* The user: app passwords *)

\* create: ids and secrets are fresh.
CreatePassword(p) ==
  /\ p \notin passwords \cup revoked
  /\ passwords' = passwords \cup {p}
  /\ UNCHANGED <<table, created, keys, held, req, now, history>>

\* revoke: the row goes, and with it those of its refresh tokens.
Revoke(p) ==
  /\ p \in passwords
  /\ passwords' = passwords \ {p}
  /\ table' = Without({t \in DOMAIN table : table[t].password = p})
  /\ revoked' = revoked \cup {p}
  /\ UNCHANGED <<created, keys, held, req, now, loggedOut, answers>>

-----------------------------------------------------------------------------
(* createSession *)

\* The password has been found by its hash.
Login(r, p) ==
  /\ req[r].pc = "idle"
  /\ p \in passwords
  /\ req' = [req EXCEPT ![r] = [NoRequest EXCEPT !.pc = "create", !.password = p, !.at = now]]
  /\ UNCHANGED <<passwords, table, created, keys, held, now, history>>

\* Fault: the reference to the password is not enforced.
NotEnforced(p) == p \in Passwords

\* The foreign key of a token.
Enforced(p) == p \in passwords

\* issue: the request needs a key to sign the JWT of token n.
Issue(r, n, expires) ==
  req' = [req EXCEPT ![r] = [@ EXCEPT !.pc = "keys", !.next = n, !.expires = expires]]

\* createRefreshToken, whose batch fails when the password is gone.
CreateToken(r) ==
  LET p == req[r].password
      t == created + 1
      kept == {u \in DOMAIN table : table[u].password # p \/ table[u].expires > now}
      row == [password |-> p, expires |-> req[r].at + Life, next |-> NoToken]
  IN  /\ req[r].pc = "create"
      /\ \/ /\ Enforced(p) /\ t \in Tokens
            /\ table' = [u \in kept \cup {t} |-> IF u = t THEN row ELSE table[u]]
            /\ created' = t
            /\ Issue(r, t, row.expires)
         \/ /\ ~ Enforced(p)
            /\ End(r)
            /\ UNCHANGED <<table, created>>
      /\ UNCHANGED <<passwords, keys, held, now, history>>

-----------------------------------------------------------------------------
(* refreshSession *)

\* getJwks: no key is ever retired or disabled by the code.
Jwks == keys

\* verifyJwt: the key is published.
Verified(j) == j.kid \in Jwks

\* verifyRefreshToken
VerifyRefresh(j, allowExpired) == Verified(j) /\ (allowExpired \/ j.expires > now)

\* The JWT is valid and its token is found.  A token that has a successor is not
\* rotated again.
Refresh(r, j) ==
  /\ req[r].pc = "idle"
  /\ j \in held /\ VerifyRefresh(j, FALSE) /\ Found(j.token)
  /\ req' = [req EXCEPT ![r] = [NoRequest EXCEPT
       !.pc = IF table[j.token].next = NoToken THEN "rotate" ELSE "reread",
       !.token = j.token, !.at = now]]
  /\ UNCHANGED <<passwords, table, created, keys, held, now, history>>

\* Fault: the statements do not look at next_id again.
Exists(t) == t \in DOMAIN table

\* The condition of both statements of rotateRefreshToken.
Unrotated(t) == t \in DOMAIN table /\ table[t].next = NoToken

GraceEnd(t, at) == IF table[t].expires < at + Grace THEN table[t].expires ELSE at + Grace

\* Fault: the update comes first, so that the insert finds nothing to copy.
RotatedUpdateFirst(t, n, at) ==
  [table EXCEPT ![t].next = n, ![t].expires = GraceEnd(t, at)]

\* table with the successor n of t.
Rotated(t, n, at) ==
  [u \in DOMAIN table \cup {n} |->
     IF u = n
     THEN [password |-> table[t].password, expires |-> at + Life, next |-> NoToken]
     ELSE IF u = t THEN [table[t] EXCEPT !.next = n, !.expires = GraceEnd(t, at)]
     ELSE table[u]]

\* rotateRefreshToken: a successor for a token that has none, which then lives for
\* the grace period at most.
Rotate(r) ==
  LET t == req[r].token
      n == created + 1
  IN  /\ req[r].pc = "rotate"
      /\ IF Unrotated(t)
         THEN n \in Tokens /\ table' = Rotated(t, n, req[r].at) /\ created' = n
         ELSE UNCHANGED <<table, created>>
      /\ req' = [req EXCEPT ![r].pc = "reread"]
      /\ UNCHANGED <<passwords, keys, held, now, history>>

\* The successor as it is now, whoever chose it.
Reread(r) ==
  LET t == req[r].token
  IN  /\ req[r].pc = "reread"
      /\ IF Found(t) /\ table[t].next # NoToken
         THEN req' = [req EXCEPT ![r].pc = "successor", ![r].next = table[t].next]
         ELSE End(r)
      /\ UNCHANGED <<passwords, table, created, keys, held, now, history>>

\* Its row, for which the JWT is issued.
Successor(r) ==
  LET n == req[r].next
  IN  /\ req[r].pc = "successor"
      /\ IF Found(n) THEN Issue(r, n, table[n].expires) ELSE End(r)
      /\ UNCHANGED <<passwords, table, created, keys, held, now, history>>

-----------------------------------------------------------------------------
(* The signing key *)

\* The JWKS are requested, which needs a key too.
GetJwks(r) ==
  /\ req[r].pc = "idle"
  /\ req' = [req EXCEPT ![r].pc = "keys"]
  /\ UNCHANGED <<passwords, table, created, keys, held, now, history>>

\* The JWT of the request's token with key k, or the JWKS.
Answer(r, k) ==
  /\ IF req[r].next = NoToken
     THEN UNCHANGED <<held, answers>>
     ELSE /\ held' = held \cup {[token |-> req[r].next, expires |-> req[r].expires, kid |-> k]}
          /\ answers' = IF req[r].token = NoToken THEN answers
                        ELSE answers \cup {[token |-> req[r].token, next |-> req[r].next]}
  /\ End(r)

\* getOrInitializeKeys: the first request generates a key.
ListKeys(r) ==
  /\ req[r].pc = "keys"
  /\ \/ /\ keys # {}
        /\ \E k \in keys : Answer(r, k)
     \/ /\ keys = {}
        /\ \E k \in Keys :
             /\ \A q \in Requests : req[q].kid # k
             /\ req' = [req EXCEPT ![r].pc = "initialize", ![r].kid = k]
        /\ UNCHANGED <<held, answers>>
  /\ UNCHANGED <<passwords, table, created, keys, now, revoked, loggedOut>>

\* Fault: the key that was generated is used, whichever is stored.
Generated(r) == {req[r].kid}

\* The rows that are read back.
Stored(r) == keys'

\* initializeIfEmpty.
InitializeKey(r) ==
  /\ req[r].pc = "initialize"
  /\ keys' = IF keys = {} THEN {req[r].kid} ELSE keys
  /\ \E k \in Stored(r) : Answer(r, k)
  /\ UNCHANGED <<passwords, table, created, now, revoked, loggedOut>>

-----------------------------------------------------------------------------

\* The request is cut off, or a query fails.
RequestLost(r) ==
  /\ req[r].pc # "idle"
  /\ End(r)
  /\ UNCHANGED <<passwords, table, created, keys, held, now, history>>

\* deleteSession: an expired JWT will do.
Logout(j) ==
  /\ j \in held /\ VerifyRefresh(j, TRUE) /\ j.token \in DOMAIN table
  /\ table' = Without({j.token})
  /\ loggedOut' = loggedOut \cup {j.token}
  /\ UNCHANGED <<passwords, created, keys, held, req, now, revoked, answers>>

Tick ==
  /\ now < MaxTime
  /\ now' = now + 1
  /\ UNCHANGED <<passwords, table, created, keys, held, req, history>>

Next ==
  \/ \E p \in Passwords : CreatePassword(p) \/ Revoke(p)
  \/ \E r \in Requests :
       \/ \E p \in Passwords : Login(r, p)
       \/ \E j \in held : Refresh(r, j)
       \/ CreateToken(r) \/ Rotate(r) \/ Reread(r) \/ Successor(r)
       \/ GetJwks(r) \/ ListKeys(r) \/ InitializeKey(r) \/ RequestLost(r)
  \/ \E j \in held : Logout(j)
  \/ Tick

Spec == Init /\ [][Next]_vars

-----------------------------------------------------------------------------

\* However many requests present a token, concurrently or again, the answers name
\* one successor (app-password-sessions.ts 124-137, ADR 0013).
SameSuccessor ==
  \A a, b \in answers : a.token = b.token => a.next = b.next

\* A client that lost an answer can ask again: as long as a rotated token is valid,
\* so is its successor, rotated or not, unless somebody logged out with it
\* (app-password-sessions.ts 17-19).
RetryServed ==
  \A t \in DOMAIN table :
    Found(t) /\ table[t].next # NoToken /\ table[t].next \notin loggedOut =>
      Found(table[t].next)

\* However many requests find that there is no key yet, a token can be used: its key
\* is one that verifiers accept (oauth-signing-keys.ts 22-45).
TokensVerifiable ==
  \A j \in held : Verified(j)

\* A revoked password has no sessions: not by a request that found it earlier
\* either (accounts README 63, app-password.ts 36-38).
RevocationEnds ==
  \A t \in DOMAIN table : table[t].password \notin revoked
=============================================================================
