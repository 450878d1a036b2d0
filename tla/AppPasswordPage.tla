--------------------------- MODULE AppPasswordPage ---------------------------
(***************************************************************************)
(* The app passwords of one user on the Settings page of Accounts: the     *)
(* list that the query client keeps, the dialogs that create and revoke    *)
(* app passwords, and the routes and rows behind them.  An id is that of a *)
(* call to create and of the row it may insert.                            *)
(***************************************************************************)
EXTENDS Naturals

CONSTANTS
  Names,      \* of app passwords
  MaxCreates, \* bound: calls to create
  Unloaded    \* the list before it was ever read

Ids == 1..MaxCreates
NoId == 0

VARIABLES
  rows,       \* the user's app passwords: a set of ids with their names
  creating,   \* the calls to create: where they are, and the name
  revoking,   \* where the call is that revokes the row of an id
  list,       \* the list that the page has cached
  fetch,      \* its read: where it is, how often it failed, what it found
  fresh,      \* whether the last read succeeded
  editor,     \* whether the dialog that creates one is open
  awaited,    \* the call whose outcome it waits for or shows, or NoId
  deleted,    \* history: the ids whose rows were deleted
  told        \* history: what the user was told, by id, after the list was loaded

query == <<list, fetch, fresh>>
pageVars == <<rows, creating, revoking, query, editor, awaited, deleted, told>>

Row == [id : Ids, name : Names]
Call ==
  [pc : {"new"}, name : {Unloaded}] \cup
  [pc : {"sent", "late", "refused", "created", "failed", "shown"}, name : Names]
Lists == (SUBSET Row) \cup {Unloaded}

PageTypeOK ==
  /\ rows \subseteq Row
  /\ creating \in [Ids -> Call]
  /\ revoking \in [Ids -> {"none", "sent", "late", "deleted"}]
  /\ list \in Lists /\ fresh \in BOOLEAN
  /\ fetch \in [pc : {"none", "sent", "found"}, tries : {0, 1}, found : Lists]
  /\ editor \in BOOLEAN /\ awaited \in Ids \cup {NoId}
  /\ deleted \subseteq Ids /\ told \subseteq [id : Ids, there : BOOLEAN]

NoFetch == [pc |-> "none", tries |-> 0, found |-> Unloaded]
Sent == [NoFetch EXCEPT !.pc = "sent"]

PageInit ==
  /\ rows = {} /\ deleted = {} /\ told = {}
  /\ creating = [i \in Ids |-> [pc |-> "new", name |-> Unloaded]]
  /\ revoking = [i \in Ids |-> "none"]
  /\ list = Unloaded /\ fetch = Sent /\ fresh = FALSE
  /\ editor = FALSE /\ awaited = NoId

NextId(i) == creating[i].pc = "new" /\ \A j \in Ids : j < i => creating[j].pc # "new"

-----------------------------------------------------------------------------
(* The query client *)

\* The page is opened or gets the focus.
Fetch ==
  /\ fetch.pc = "none"
  /\ fetch' = Sent
  /\ UNCHANGED <<rows, creating, revoking, list, fresh, editor, awaited, deleted, told>>

\* The route lists the rows.
List ==
  /\ fetch.pc = "sent"
  /\ fetch' = [fetch EXCEPT !.pc = "found", !.found = rows]
  /\ UNCHANGED <<rows, creating, revoking, list, fresh, editor, awaited, deleted, told>>

Fetched ==
  /\ fetch.pc = "found"
  /\ list' = fetch.found /\ fetch' = NoFetch /\ fresh' = TRUE
  /\ UNCHANGED <<rows, creating, revoking, editor, awaited, deleted, told>>

\* A read is retried once.
FetchFails ==
  /\ fetch.pc # "none"
  /\ IF fetch.tries = 0
     THEN fetch' = [Sent EXCEPT !.tries = 1] /\ fresh' = fresh
     ELSE fetch' = NoFetch /\ fresh' = FALSE
  /\ UNCHANGED <<rows, creating, revoking, list, editor, awaited, deleted, told>>

\* Fault: a read that is under way is taken for the new one.
Joined == IF fetch.pc # "none" THEN fetch ELSE Sent

\* invalidateQueries reads again.  It cancels a read that is under way, except the first.
Invalidated == IF list = Unloaded /\ fetch.pc # "none" THEN fetch ELSE Sent

Tell(i, there) ==
  told' = IF list = Unloaded THEN told ELSE told \cup {[id |-> i, there |-> there]}

-----------------------------------------------------------------------------
(* Create *)

OpenEditor ==
  /\ ~ editor
  /\ editor' = TRUE
  /\ UNCHANGED <<rows, creating, revoking, query, awaited, deleted, told>>

\* reset: the dialog forgets its call, which goes on, and the password it showed.
CloseEditor ==
  /\ editor
  /\ editor' = FALSE /\ awaited' = NoId
  /\ UNCHANGED <<rows, creating, revoking, query, deleted, told>>

\* A call is pending, or the dialog shows the password.
Waiting == awaited # NoId /\ creating[awaited].pc # "failed"

SubmitCreate(i, n) ==
  /\ editor /\ NextId(i)
  /\ ~ Waiting
  /\ creating' = [creating EXCEPT ![i] = [pc |-> "sent", name |-> n]]
  /\ awaited' = i
  /\ UNCHANGED <<rows, revoking, query, editor, deleted, told>>

\* create: names are unique.  Nobody may wait for the answer any more.
Create(i) ==
  LET n == creating[i].name
      taken == \E r \in rows : r.name = n
  IN  /\ creating[i].pc \in {"sent", "late"}
      /\ rows' = IF taken THEN rows ELSE rows \cup {[id |-> i, name |-> n]}
      /\ creating' = [creating EXCEPT ![i].pc =
           IF @ = "late" THEN "failed" ELSE IF taken THEN "refused" ELSE "created"]
      /\ UNCHANGED <<revoking, query, editor, awaited, deleted, told>>

\* onSuccess: the dialog shows the password, if it still waits for it.
Created(i) ==
  /\ creating[i].pc = "created"
  /\ creating' = [creating EXCEPT ![i].pc = "shown"]
  /\ fetch' = Invalidated
  /\ Tell(i, TRUE)
  /\ UNCHANGED <<rows, revoking, list, fresh, editor, awaited, deleted>>

\* The name is taken, or the request or its answer is lost.
CreateFails(i) ==
  /\ creating[i].pc \in {"sent", "created", "refused"}
  /\ creating' = [creating EXCEPT ![i].pc = IF @ = "sent" THEN "late" ELSE "failed"]
  /\ awaited' = IF awaited = i THEN NoId ELSE awaited
  /\ UNCHANGED <<rows, revoking, query, editor, deleted, told>>

\* In another window of the user.
CreateElsewhere(i, n) ==
  /\ NextId(i) /\ \A r \in rows : r.name # n
  /\ rows' = rows \cup {[id |-> i, name |-> n]}
  /\ creating' = [creating EXCEPT ![i] = [pc |-> "failed", name |-> n]]
  /\ UNCHANGED <<revoking, query, editor, awaited, deleted, told>>

-----------------------------------------------------------------------------
(* Revoke *)

\* A row of the list has a dialog, with one call at a time.
SubmitRevoke(i) ==
  /\ list # Unloaded /\ \E r \in list : r.id = i
  /\ revoking[i] = "none" /\ ~ editor
  /\ revoking' = [revoking EXCEPT ![i] = "sent"]
  /\ UNCHANGED <<rows, creating, query, editor, awaited, deleted, told>>

\* revoke: a row that is gone is not found.
Delete(i) ==
  LET found == {r \in rows : r.id = i}
  IN  /\ revoking[i] \in {"sent", "late"}
      /\ rows' = rows \ found
      /\ deleted' = deleted \cup {r.id : r \in found}
      /\ revoking' = [revoking EXCEPT ![i] =
           IF @ = "late" \/ found = {} THEN "none" ELSE "deleted"]
      /\ UNCHANGED <<creating, query, editor, awaited, told>>

\* onSuccess
Revoked(i) ==
  /\ revoking[i] = "deleted"
  /\ revoking' = [revoking EXCEPT ![i] = "none"]
  /\ fetch' = Invalidated
  /\ Tell(i, FALSE)
  /\ UNCHANGED <<rows, creating, list, fresh, editor, awaited, deleted>>

RevokeFails(i) ==
  /\ revoking[i] \in {"sent", "deleted"}
  /\ revoking' = [revoking EXCEPT ![i] = IF @ = "sent" THEN "late" ELSE "none"]
  /\ UNCHANGED <<rows, creating, query, editor, awaited, deleted, told>>

RevokeElsewhere(i) ==
  /\ \E r \in rows : r.id = i
  /\ rows' = {r \in rows : r.id # i} /\ deleted' = deleted \cup {i}
  /\ UNCHANGED <<creating, revoking, query, editor, awaited, told>>

-----------------------------------------------------------------------------

PageNext ==
  \/ Fetch \/ List \/ Fetched \/ FetchFails
  \/ OpenEditor \/ CloseEditor
  \/ \E i \in Ids :
       \/ \E n \in Names : SubmitCreate(i, n) \/ CreateElsewhere(i, n)
       \/ Create(i) \/ Created(i) \/ CreateFails(i)
       \/ SubmitRevoke(i) \/ Delete(i) \/ Revoked(i) \/ RevokeFails(i) \/ RevokeElsewhere(i)

PageSpec == PageInit /\ [][PageNext]_pageVars

-----------------------------------------------------------------------------

\* What the user was told since the list was first loaded is what it shows once it is at
\* rest, whichever read was under way when the answer came: a password that was created is in it, unless it was
\* revoked since, and one that was revoked is not (app-password-settings.tsx 67-71, 206-211).
ToldIsListed ==
  fetch.pc = "none" /\ fresh =>
    \A t \in told :
      IF t.there THEN t.id \in deleted \/ \E r \in list : r.id = t.id
      ELSE \A r \in list : r.id # t.id
=============================================================================
