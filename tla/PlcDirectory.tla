---------------------------- MODULE PlcDirectory -----------------------------
(***************************************************************************)
(* The PLC directory for one DID: a submission reads and validates, and    *)
(* stores in a later batch, without a lock in between.  A slot s stands    *)
(* for one POST request.                                                   *)
(***************************************************************************)
EXTENDS PlcRules

CONSTANT Posts  \* slots for concurrent submissions

VARIABLES
  made,  \* the operations that have been signed
  sent,  \* those that are on their way to the directory, for ever
  rows,  \* the table of operations, in the order of _id
  post,  \* the submissions
  now    \* the clock

directory == <<rows, post, now>>

NoPost == [pc |-> "idle", cid |-> NoCid, at |-> 0, ops |-> <<>>]

DirectoryTypeOK ==
  /\ made \in Seq(Operations) /\ Len(made) <= MaxOps
  /\ sent \subseteq DOMAIN made
  /\ rows \in Seq(Entries) /\ \A i \in DOMAIN rows : rows[i].cid \in DOMAIN made
  /\ post \in [Posts -> [pc : {"idle", "read", "batch"}, cid : Cids \cup {NoCid},
                         at : Times, ops : Seq(Entries)]]
  /\ now \in Times

DirectoryInit ==
  /\ rows = <<>>
  /\ post = [s \in Posts |-> NoPost]
  /\ now = 0

EndPost(s) == post' = [post EXCEPT ![s] = NoPost]

\* The request arrives; its time is the one the operation is stored with.
Receive(s, c) ==
  /\ post[s].pc = "idle" /\ c \in sent
  /\ post' = [post EXCEPT ![s] = [pc |-> "read", cid |-> c, at |-> now, ops |-> <<>>]]
  /\ UNCHANGED <<made, sent, rows, now>>

\* The history is read and the operation validated against it, by the clock of
\* this moment.  An invalid one is refused.
Read(s) ==
  /\ post[s].pc = "read"
  /\ IF ValidNext(made, rows, made[post[s].cid], now)
     THEN post' = [post EXCEPT ![s].pc = "batch", ![s].ops = rows]
     ELSE EndPost(s)
  /\ UNCHANGED <<made, sent, rows, now>>

\* The table after the update of the batch: what the operation replaces in the
\* history that was read is marked, wherever it is now.
Marked(s) ==
  LET replaced == Replaced(post[s].ops, made[post[s].cid])
  IN  [i \in DOMAIN rows |->
         IF rows[i].cid \in replaced THEN [rows[i] EXCEPT !.nullified = TRUE] ELSE rows[i]]

\* Fault: the insert does not compare the head.
BatchUnchecked(s) ==
  /\ post[s].pc = "batch"
  /\ rows' = IF ~ Stored(rows, post[s].cid)
             THEN Append(Marked(s), [cid |-> post[s].cid, at |-> post[s].at, nullified |-> FALSE])
             ELSE rows
  /\ EndPost(s)
  /\ UNCHANGED <<made, sent, now>>

\* The batch: it is rolled back when the head of the marked table is not the
\* operation's prev, or when the operation is stored already.
Batch(s) ==
  LET c == post[s].cid
  IN  /\ post[s].pc = "batch"
      /\ rows' = IF HeadIs(Marked(s), made[c].prev) /\ ~ Stored(rows, c)
                 THEN Append(Marked(s), [cid |-> c, at |-> post[s].at, nullified |-> FALSE])
                 ELSE rows
      /\ EndPost(s)
      /\ UNCHANGED <<made, sent, now>>

\* The request is cut off, or a query fails.
PostLost(s) ==
  /\ post[s].pc # "idle"
  /\ EndPost(s)
  /\ UNCHANGED <<made, sent, rows, now>>

Tick ==
  /\ now < MaxTime
  /\ now' = now + 1
  /\ UNCHANGED <<made, sent, rows, post>>

DirectoryNext ==
  \/ \E s \in Posts :
       \/ \E c \in Cids : Receive(s, c)
       \/ Read(s) \/ Batch(s) \/ PostLost(s)
  \/ Tick

\* GET, one query each: the last live operation, unless it is a tombstone.
Resolved(r) == {i \in DOMAIN r : IsHead(r, i) /\ ~ made[r[i].cid].tomb}
=============================================================================
