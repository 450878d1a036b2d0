------------------------------ MODULE MCAccounts -----------------------------
(* App passwords: the sessions of clients that use them, and the page that  *)
(* lists, creates and revokes them.  To the page a password is a name, to   *)
(* the sessions a row that comes and goes, so TLC explores a behaviour of   *)
(* one of the two at a time, while the other waits.                         *)
EXTENDS AppPasswordSessions, AppPasswordPage, TLC

VARIABLE part

Symmetry == Permutations(Requests) \cup Permutations(Passwords)
            \cup Permutations(Keys)

AccountsInit ==
  /\ part \in {"sessions", "page"}
  /\ Init /\ PageInit

AccountsNext ==
  /\ part' = part
  /\ \/ part = "sessions" /\ Next /\ UNCHANGED pageVars
     \/ part = "page" /\ PageNext /\ UNCHANGED vars

AccountsSpec == AccountsInit /\ [][AccountsNext]_<<part, vars, pageVars>>
=============================================================================
