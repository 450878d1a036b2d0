---------------------------- MODULE BlockReclaim -----------------------------
(***************************************************************************)
(* The blocks of one repository: commits that store blocks and record the  *)
(* ones they stopped referencing, the alarm that later deletes those, and  *)
(* streamed exports that go on reading the tree they started from.         *)
(*                                                                         *)
(* A tree is a root node; a node holds records and subtrees.  Revisions    *)
(* are numbered, and the block of a commit has the number of its revision  *)
(* for a cid.  Time is in ticks: removed[b] and the age of a read count    *)
(* the ticks since Date.now() was taken, up to the largest value the code  *)
(* tells apart, and alarm holds the ticks that are left.  A due alarm, a   *)
(* queued operation and a reader may take any time.                        *)
(*                                                                         *)
(* Of the outbox only undelivered is kept, whether it has rows: deliveries *)
(* set the same alarm.  RepoOutbox has the rest, and explains pc, handler  *)
(* and retry, which are the same here; pc "deliver" is flush and wait.     *)
(***************************************************************************)
EXTENDS Naturals, FiniteSets, Sequences

CONSTANTS
  Nodes, Records,   \* the cids of MST nodes and of records
  Values,           \* Values[n]: the records node n names
  Subtrees,         \* Subtrees[n]: the nodes below n, in key order
  Below,            \* Below[n]: what the tree at n consists of
  Roots,            \* the nodes that occur as roots
  Readers,          \* streams that may be open
  GracePeriod,      \* RECLAIM_GRACE_MS, in ticks
  RetryInterval,    \* OUTBOX_RETRY_MS, in ticks
  ReclaimBatch,     \* RECLAIM_BATCH_SIZE
  MaxRev            \* bound: revisions

Revs == 1..MaxRev
TreeBlocks == Nodes \cup Records
Cids == TreeBlocks \cup Revs

ASSUME TreeAssumption ==
  /\ Nodes \cap Records = {} /\ TreeBlocks \cap Revs = {}
  /\ Values \in [Nodes -> SUBSET Records]
  /\ Subtrees \in [Nodes -> Seq(Nodes)]
  /\ Below \in [Nodes -> SUBSET TreeBlocks]
  /\ \A n \in Nodes :
       Below[n] = {n} \cup Values[n]
                    \cup UNION {Below[Subtrees[n][i]] : i \in DOMAIN Subtrees[n]}
  /\ \A n \in Nodes : \A m \in Below[n] \cap Nodes : Below[m] \subseteq Below[n]
  /\ Roots \subseteq Nodes

ASSUME TimeAssumption ==
  /\ GracePeriod \in Nat \ {0} /\ RetryInterval \in Nat
  /\ ReclaimBatch \in Nat \ {0} /\ MaxRev \in Nat \ {0}

VARIABLES
  roots,        \* the root node of each revision; the last one is current
  blocks,       \* the blocks table: cid -> revision
  removed,      \* the removed_blocks table: cid -> ticks since removedAt
  undelivered,  \* does the outbox have rows
  alarm,        \* {} or {ticks until the alarm}
  handler, retry, pc,
  readers       \* the streams

vars == <<roots, blocks, removed, undelivered, alarm, handler, retry, pc,
          readers>>
instance == <<undelivered, alarm, handler, retry, pc>>

Rev == Len(roots)
OldestAge == 2 * GracePeriod

\* What a client of revision q holds.
TreeAt(q) == Below[roots[q]] \cup {q}
Current == TreeAt(Rev)

\* What a stream still has to read: the commit, a node, or a node's records.
Item == {"commit"} \X Revs \cup {"node", "records"} \X Nodes

NoRead == [state |-> "idle", rev |-> 1, since |-> 0, todo |-> <<>>,
           sent |-> {}, age |-> 0]

TablesTypeOK ==
  /\ roots \in Seq(Roots) /\ Rev \in Revs
  /\ DOMAIN blocks \subseteq Cids /\ \A b \in DOMAIN blocks : blocks[b] \in 1..Rev
  /\ DOMAIN removed \subseteq Cids
  /\ \A b \in DOMAIN removed : removed[b] \in 0..OldestAge

InstanceTypeOK ==
  /\ undelivered \in BOOLEAN
  /\ alarm \subseteq Nat /\ \A m, n \in alarm : m = n
  /\ handler \in {"none", "queued", "running"}
  /\ retry \in BOOLEAN
  /\ pc \in {"idle", "deliver", "reclaim", "down"}

Read ==
  [state : {"idle", "reading", "done", "failed"}, rev : Revs, since : 0..MaxRev,
   todo : Seq(Item), sent : SUBSET Cids, age : 0..GracePeriod]

TypeOK ==
  /\ TablesTypeOK
  /\ InstanceTypeOK
  /\ readers \in [Readers -> Read]
  /\ \A r \in Readers : readers[r].since <= readers[r].rev /\ readers[r].rev <= Rev

\* A repository without garbage, or one whose instance is about to start after
\* the migration that made every stored block a candidate of age now - 0.
Init ==
  /\ \E root \in Roots :
       /\ roots = <<root>>
       /\ blocks = [b \in Below[root] \cup {1} |-> 1]
       /\ \/ removed = [b \in {} |-> 0] /\ pc = "idle"
          \/ removed = [b \in Below[root] \cup {1} |-> OldestAge] /\ pc = "down"
  /\ undelivered = FALSE
  /\ alarm = {}
  /\ handler = "none"
  /\ retry = FALSE
  /\ readers = [r \in Readers |-> NoRead]

-----------------------------------------------------------------------------
(* The alarm *)

Larger(m, n) == IF m > n THEN m ELSE n

\* The ticks until the oldest candidate is two grace periods old.
ReclaimIn(rem) ==
  {OldestAge - rem[b] : b \in {c \in DOMAIN rem :
                                 \A e \in DOMAIN rem : rem[c] >= rem[e]}}

\* scheduleAlarm: the earlier of the next retry and the next reclamation.
NextAlarm(rem, waiting, notBefore) ==
  LET times == (IF waiting THEN {RetryInterval} ELSE {})
                 \cup {Larger(t, notBefore) : t \in ReclaimIn(rem)}
  IN  {t \in times : \A u \in times : t <= u}

\* deliverEvents arms the alarm before its attempt.
StartDelivery ==
  /\ alarm' = {RetryInterval}
  /\ pc' = "deliver"

Resume == pc' = IF handler = "running" THEN "reclaim" ELSE "idle"

\* The constructor, which also covers candidates a migration recorded.
Restart ==
  /\ pc = "down"
  /\ pc' = "idle"
  /\ alarm' = IF alarm = {} THEN NextAlarm(removed, undelivered, 0) ELSE alarm
  /\ UNCHANGED <<roots, blocks, removed, undelivered, handler, retry, readers>>

\* The instance is lost, and with it every stream; a lost alarm invocation is
\* run again, unless deleteAlarm cancelled that.
Crash ==
  /\ pc # "down"
  /\ pc' = "down"
  /\ \E again \in BOOLEAN :
       /\ retry => again
       /\ again => handler # "none"
       /\ alarm' = IF again /\ alarm = {} THEN {0} ELSE alarm
  /\ handler' = "none"
  /\ retry' = FALSE
  /\ readers' = [r \in Readers |-> NoRead]
  /\ UNCHANGED <<roots, blocks, removed, undelivered>>

FireAlarm ==
  /\ pc # "down"
  /\ alarm = {0}
  /\ handler = "none"
  /\ alarm' = {}
  /\ handler' = "queued"
  /\ retry' = TRUE
  /\ UNCHANGED <<roots, blocks, removed, undelivered, pc, readers>>

RunAlarm ==
  /\ pc = "idle"
  /\ handler = "queued"
  /\ handler' = "running"
  /\ StartDelivery
  /\ UNCHANGED <<roots, blocks, removed, undelivered, retry, readers>>

\* Fault: the alarm is scheduled for the outbox only.
DeliverySucceedsUnscheduled ==
  /\ pc = "deliver"
  /\ undelivered' = FALSE
  /\ alarm' = {}
  /\ retry' = FALSE
  /\ Resume
  /\ UNCHANGED <<roots, blocks, removed, handler, readers>>

DeliverySucceeds ==
  /\ pc = "deliver"
  /\ undelivered' = FALSE
  /\ alarm' = NextAlarm(removed, FALSE, 0)
  /\ retry' = (retry /\ alarm' # {})
  /\ Resume
  /\ UNCHANGED <<roots, blocks, removed, handler, readers>>

\* Also when some of the outbox was delivered.
DeliveryFails ==
  /\ pc = "deliver"
  /\ undelivered
  /\ Resume
  /\ UNCHANGED <<roots, blocks, removed, undelivered, alarm, handler, retry,
                 readers>>

-----------------------------------------------------------------------------
(* Commits *)

\* Fault: a block that is already stored keeps its revision.
StoreBlocksKept(fresh, q) ==
  blocks' = [b \in DOMAIN blocks \cup fresh |->
               IF b \in DOMAIN blocks THEN blocks[b] ELSE q]

\* The upsert into the blocks table.
StoreBlocks(fresh, q) ==
  blocks' = [b \in DOMAIN blocks \cup fresh |->
               IF b \in fresh THEN q ELSE blocks[b]]

\* Fault: a candidate keeps the time it was first recorded.
RecordRemovedOnce(gone) ==
  removed' = [b \in DOMAIN removed \cup gone |->
                IF b \in DOMAIN removed THEN removed[b] ELSE 0]

\* The upsert into the removed_blocks table.
RecordRemoved(gone) ==
  removed' = [b \in DOMAIN removed \cup gone |->
                IF b \in gone THEN 0 ELSE removed[b]]

\* What DataDiff reports beyond the difference of the trees: of the records in
\* both, the ones some path gained as new and the ones some path lost as
\* removed.  A record that moved is neither; two that swapped their paths are both.
Shared(root) ==
  IF root = roots[Rev] THEN {} ELSE Below[roots[Rev]] \cap Below[root] \cap Records

\* rpcApplyWrites with a commit, up to the setAlarm of deliverEvents.
Commit(root) ==
  /\ pc = "idle"
  /\ Rev < MaxRev
  /\ \E gained, lost \in SUBSET Shared(root) :
       /\ StoreBlocks((Below[root] \ Below[roots[Rev]]) \cup gained \cup {Rev + 1},
                      Rev + 1)
       /\ RecordRemoved((Below[roots[Rev]] \ Below[root]) \cup lost \cup {Rev})
  /\ roots' = Append(roots, root)
  /\ undelivered' = TRUE
  /\ StartDelivery
  /\ UNCHANGED <<handler, retry, readers>>

\* rpcAnnounceAccount.
Announce ==
  /\ pc = "idle"
  /\ undelivered' = TRUE
  /\ StartDelivery
  /\ UNCHANGED <<roots, blocks, removed, handler, retry, readers>>

-----------------------------------------------------------------------------
(* Reclamation *)

\* The choices of getRemovedBlocks: a full batch of due candidates, oldest first.
Batches ==
  LET due == {b \in DOMAIN removed : removed[b] >= GracePeriod}
  IN  {X \in SUBSET due :
         /\ Cardinality(X) <= ReclaimBatch
         /\ X = due \/ Cardinality(X) = ReclaimBatch
         /\ \A x \in X, y \in due \ X : removed[x] >= removed[y]}

\* findReachable throws unless every node of the current tree is stored.
Walkable == Current \cap Nodes \subseteq DOMAIN blocks

\* Fault: every removed block is deleted.
DeleteRemovedUnchecked(X) ==
  /\ blocks' = [b \in DOMAIN blocks \ X |-> blocks[b]]
  /\ removed' = [b \in DOMAIN removed \ X |-> removed[b]]

\* The transaction: delete the unreachable ones and settle all.
DeleteRemoved(X) ==
  /\ blocks' = [b \in DOMAIN blocks \ (X \ Current) |-> blocks[b]]
  /\ removed' = [b \in DOMAIN removed \ X |-> removed[b]]

EndAlarm ==
  /\ handler' = "none"
  /\ retry' = FALSE
  /\ pc' = "idle"

Reclaim ==
  /\ pc = "reclaim"
  /\ \E X \in Batches :
       /\ X = {} \/ Walkable
       /\ DeleteRemoved(X)
  /\ alarm' = NextAlarm(removed', undelivered, 0)
  /\ EndAlarm
  /\ UNCHANGED <<roots, undelivered, readers>>

\* Reclamation throws: the catch branch of alarm().
ReclaimFails ==
  /\ pc = "reclaim"
  /\ alarm' = NextAlarm(removed, undelivered, GracePeriod)
  /\ EndAlarm
  /\ UNCHANGED <<roots, blocks, removed, undelivered, readers>>

-----------------------------------------------------------------------------
(* Reads *)

NewRead(since) ==
  [state |-> "reading", rev |-> Rev, since |-> since,
   todo |-> <<<<"commit", Rev>>, <<"node", roots[Rev]>>>>, sent |-> {}, age |-> 0]

\* rpcExportRepo; since = 0 exports everything.
StartRead(r, since) ==
  /\ pc # "down"
  /\ readers[r].state = "idle"
  /\ readers' = [readers EXCEPT ![r] = NewRead(since)]
  /\ UNCHANGED <<roots, blocks, removed, instance>>

Wanted(item) == IF item[1] = "records" THEN Values[item[2]] ELSE {item[2]}

\* A node that is new is followed by its records and then its subtrees.
Rest(item, new) ==
  CASE item[1] = "commit"  -> <<>>
    [] item[1] = "node"    -> IF item[2] \in new
                              THEN <<<<"records", item[2]>>>> ELSE <<>>
    [] item[1] = "records" ->
         [i \in 1..Len(Subtrees[item[2]]) |-> <<"node", Subtrees[item[2]][i]>>]

\* One read of exportRepoCar: it throws when a block is missing, and skips what
\* is not newer than since.
AfterRead(rd) ==
  LET item == Head(rd.todo)
      new == {c \in Wanted(item) : blocks[c] > rd.since}
      todo == Rest(item, new) \o Tail(rd.todo)
  IN  IF Wanted(item) \subseteq DOMAIN blocks
      THEN [rd EXCEPT !.todo = todo, !.sent = @ \cup new,
                      !.state = IF todo = <<>> THEN "done" ELSE "reading"]
      ELSE [rd EXCEPT !.state = "failed"]

ReadBlocks(r) ==
  /\ readers[r].state = "reading"
  /\ readers' = [readers EXCEPT ![r] = AfterRead(@)]
  /\ UNCHANGED <<roots, blocks, removed, instance>>

\* The client is done, or cancels the stream.
EndRead(r) ==
  /\ readers[r].state # "idle"
  /\ readers' = [readers EXCEPT ![r] = NoRead]
  /\ UNCHANGED <<roots, blocks, removed, instance>>

\* rpcGetBlocks: only a stored candidate needs the walk.
GetBlocks(cids) ==
  {c \in cids \cap DOMAIN blocks : c \in DOMAIN removed => c \in Current}

-----------------------------------------------------------------------------

Older(age, limit) == IF age < limit THEN age + 1 ELSE age

Tick ==
  /\ removed' = [b \in DOMAIN removed |-> Older(removed[b], OldestAge)]
  /\ alarm' = {IF t = 0 THEN 0 ELSE t - 1 : t \in alarm}
  /\ readers' = [r \in Readers |->
       IF readers[r].state = "reading"
       THEN [readers[r] EXCEPT !.age = Older(@, GracePeriod)]
       ELSE readers[r]]
  /\ UNCHANGED <<roots, blocks, undelivered, handler, retry, pc>>

Step ==
  \/ \E root \in Roots : Commit(root)
  \/ Announce
  \/ DeliverySucceeds
  \/ DeliveryFails
  \/ FireAlarm
  \/ RunAlarm
  \/ Reclaim
  \/ ReclaimFails
  \/ Crash
  \/ Restart
  \/ \E r \in Readers : \/ \E since \in 0..Rev : StartRead(r, since)
                        \/ ReadBlocks(r)
                        \/ EndRead(r)

Next == Step \/ Tick

Spec == Init /\ [][Next]_vars

\* Time passes and the instance goes on; reclamations do not fail, and
\* invocations do not get lost, every time.  Deliveries may always fail.  The
\* runtime constructs the instance only when an alarm is due.  Announcements end,
\* as commits do with MaxRev: each puts the alarm off while deliveries fail.
Fairness ==
  /\ <>[][~ Announce]_vars
  /\ WF_vars(Tick)
  /\ WF_vars(alarm = {0} /\ Restart)
  /\ SF_vars(FireAlarm)
  /\ SF_vars(RunAlarm)
  /\ SF_vars(DeliverySucceeds \/ DeliveryFails)
  /\ SF_vars(Reclaim)

FairSpec == Spec /\ Fairness

-----------------------------------------------------------------------------
(* Properties *)

\* Every block of the current tree is stored: reclamation never deletes a
\* block some other path still references (storage.ts 202, reachable.ts).
CurrentStored == Current \subseteq DOMAIN blocks

\* rpcGetBlocks serves the blocks of the current tree and no other, though it
\* walks the tree for candidates only (repo-do.ts 442-447).
GetBlocksExact == GetBlocks(Cids) = Current

\* A current block stored with an older revision has been in every tree since
\* that revision, which is what lets an export skip it (export.ts 23-26).
StoredSinceRevision ==
  \A b \in Current : b \in DOMAIN blocks =>
    \A q \in blocks[b]..Rev : b \in TreeAt(q)

\* A stream fails only when it has lasted the grace period (ADR 0015).
ReadsWithinGrace ==
  \A r \in Readers :
    readers[r].state = "failed" => readers[r].age >= GracePeriod

\* A finished export and what a client of `since` holds make up the tree the
\* export started from, whatever was committed or reclaimed meanwhile.
ExportComplete ==
  \A r \in Readers : LET rd == readers[r] IN
    rd.state = "done" =>
      TreeAt(rd.rev) \subseteq
        rd.sent \cup (IF rd.since = 0 THEN {} ELSE TreeAt(rd.since))

\* Garbage is deleted in the end, through failures and crashes, once the
\* instance has run with it.
GarbageEventuallyDeleted ==
  \A b \in Cids :
    (pc # "down" /\ b \in DOMAIN blocks \ Current)
      ~> (b \notin DOMAIN blocks \/ b \in Current)
=============================================================================
