----------------------------- MODULE RepoOutbox ------------------------------
(***************************************************************************)
(* The event outbox of RepoDO: what its write queue, its alarm and its     *)
(* constructor do to the events a repository has committed and the         *)
(* sequencer has not acknowledged.                                         *)
(*                                                                         *)
(* serializeWrite runs one operation at a time, so pc[d] is the control    *)
(* point of the one that holds the queue of repository d:                  *)
(*    idle     nobody holds the queue                                      *)
(*    flush    flushOutbox is about to read the outbox                     *)
(*    wait     flushOutbox awaits rpcSequence                              *)
(*    reclaim  the alarm has delivered and goes on to reclaimBlocks        *)
(*    down     the instance is lost; the next call or alarm constructs it  *)
(* A transaction and the setAlarm that follows it in the same turn of the  *)
(* event loop reach storage together, so committing, queueing the event    *)
(* and arming the alarm are one action.  The alarm's time is left out: an  *)
(* armed alarm may fire at any moment.  What reclaimBlocks deletes is left *)
(* out too; removals[d] says whether removed_blocks has rows, which is     *)
(* what scheduleAlarm reads.                                               *)
(*                                                                         *)
(* requests and replies are the RPCs to the sequencer.  A request whose    *)
(* caller has gone, or has seen it fail, may still be executed: it is no   *)
(* longer live and nobody reads its reply.                                 *)
(***************************************************************************)
EXTENDS Repositories

CONSTANT BatchSize   \* OUTBOX_BATCH_SIZE

ASSUME OutboxAssumption == BatchSize \in Nat \ {0}

VARIABLES
  lastId,     \* the last id AUTOINCREMENT gave
  outbox,     \* the ids in the outbox table
  removals,   \* does removed_blocks have rows
  alarm,      \* is an alarm set
  handler,    \* the alarm invocation: none, queued behind the writes, running
  retry,      \* will the runtime run that invocation again if it is lost
  pc,
  requests,
  replies

repoVars == <<lastId, outbox, removals, alarm, handler, retry, pc>>
netVars == <<requests, replies>>

Request == [did : Dids, ids : SUBSET Nat, live : BOOLEAN]
Reply == [did : Dids, last : Nat]

RepoTypeOK ==
  /\ lastId \in [Dids -> Nat]
  /\ outbox \in [Dids -> SUBSET Nat]
  /\ removals \in [Dids -> BOOLEAN]
  /\ alarm \in [Dids -> BOOLEAN]
  /\ handler \in [Dids -> {"none", "queued", "running"}]
  /\ retry \in [Dids -> BOOLEAN]
  /\ pc \in [Dids -> {"idle", "flush", "wait", "reclaim", "down"}]
  /\ requests \subseteq Request
  /\ replies \subseteq Reply

\* Right after reserveRepo: a repository with its initial commit, which has no
\* event, and no alarm.
RepoInit ==
  /\ lastId = [d \in Dids |-> 0]
  /\ outbox = [d \in Dids |-> {}]
  /\ removals = [d \in Dids |-> FALSE]
  /\ alarm = [d \in Dids |-> FALSE]
  /\ handler = [d \in Dids |-> "none"]
  /\ retry = [d \in Dids |-> FALSE]
  /\ pc = [d \in Dids |-> "idle"]
  /\ requests = {}
  /\ replies = {}

-----------------------------------------------------------------------------
(* scheduleAlarm and the start of deliverEvents *)

\* setAlarm when there is something to do, deleteAlarm when not; deleting it
\* while the handler of a fired alarm is pending may cancel that handler's retry.
ScheduleAlarm(d, due) ==
  /\ alarm' = [alarm EXCEPT ![d] = due]
  /\ retry' = [retry EXCEPT ![d] = @ /\ due]

\* deliverEvents arms the alarm before its first attempt.
StartDelivery(d) ==
  /\ alarm' = [alarm EXCEPT ![d] = TRUE]
  /\ pc' = [pc EXCEPT ![d] = "flush"]

\* The operation that called deliverEvents goes on: a write ends, the alarm
\* reclaims blocks.
Resume(d) ==
  pc' = [pc EXCEPT ![d] = IF handler[d] = "running" THEN "reclaim" ELSE "idle"]

-----------------------------------------------------------------------------
(* The operations of the write queue *)

Enqueue(d, n) ==
  /\ lastId[d] + n <= MaxEventId
  /\ lastId' = [lastId EXCEPT ![d] = @ + n]
  /\ outbox' = [outbox EXCEPT ![d] = @ \cup (lastId[d] + 1)..(lastId[d] + n)]

\* rpcApplyWrites with a commit: the transaction also records the blocks the
\* commit removed, if any.
ApplyWrites(d) ==
  /\ pc[d] = "idle"
  /\ Enqueue(d, 1)
  /\ \E removes \in BOOLEAN :
       removals' = [removals EXCEPT ![d] = @ \/ removes]
  /\ StartDelivery(d)
  /\ UNCHANGED <<handler, retry, requests, replies>>

\* rpcAnnounceAccount: #identity, #account and #sync.
AnnounceAccount(d) ==
  /\ pc[d] = "idle"
  /\ Enqueue(d, 3)
  /\ StartDelivery(d)
  /\ UNCHANGED <<removals, handler, retry, requests, replies>>

\* The runtime invokes alarm(), which waits for its turn in the queue.
FireAlarm(d) ==
  /\ pc[d] # "down"
  /\ alarm[d]
  /\ handler[d] = "none"
  /\ alarm' = [alarm EXCEPT ![d] = FALSE]
  /\ handler' = [handler EXCEPT ![d] = "queued"]
  /\ retry' = [retry EXCEPT ![d] = TRUE]
  /\ UNCHANGED <<lastId, outbox, removals, pc, requests, replies>>

RunAlarm(d) ==
  /\ pc[d] = "idle"
  /\ handler[d] = "queued"
  /\ handler' = [handler EXCEPT ![d] = "running"]
  /\ StartDelivery(d)
  /\ UNCHANGED <<lastId, outbox, removals, retry, requests, replies>>

-----------------------------------------------------------------------------
(* flushOutbox *)

\* getOutbox(OUTBOX_BATCH_SIZE): the first rows by id.
Batch(d) ==
  {i \in outbox[d] : Cardinality({j \in outbox[d] : j <= i}) <= BatchSize}

SendBatch(d) ==
  /\ pc[d] = "flush"
  /\ outbox[d] # {}
  /\ requests' = requests \cup
       {[did |-> d, ids |-> Batch(d), live |-> TRUE]}
  /\ pc' = [pc EXCEPT ![d] = "wait"]
  /\ UNCHANGED <<lastId, outbox, removals, alarm, handler, retry, replies>>

\* deleteOutboxThrough(what rpcSequence returned), then the next batch.
Acknowledge(d) ==
  /\ pc[d] = "wait"
  /\ \E r \in replies :
       /\ r.did = d
       /\ outbox' = [outbox EXCEPT ![d] = {i \in @ : i > r.last}]
       /\ replies' = replies \ {r}
  /\ pc' = [pc EXCEPT ![d] = "flush"]
  /\ UNCHANGED <<lastId, removals, alarm, handler, retry, requests>>

\* The outbox is empty: deliverEvents schedules the alarm anew.
FinishDelivery(d) ==
  /\ pc[d] = "flush"
  /\ outbox[d] = {}
  /\ ScheduleAlarm(d, removals[d])
  /\ Resume(d)
  /\ UNCHANGED <<lastId, outbox, removals, handler, requests, replies>>

\* The end of d's call, as d sees it: its reply, if any, is dropped; a request
\* not executed yet is lost, or stays on its way with nobody waiting for it.
ForgetCall(d) ==
  LET mine == {r \in requests : r.did = d /\ r.live}
  IN  /\ \/ requests' = requests \ mine
         \/ requests' = (requests \ mine)
                          \cup {[r EXCEPT !.live = FALSE] : r \in mine}
      /\ replies' = {r \in replies : r.did # d}

\* rpcSequence throws: deliverEvents returns and leaves the alarm as it is.
FailDelivery(d) ==
  /\ pc[d] = "wait"
  /\ ForgetCall(d)
  /\ Resume(d)
  /\ UNCHANGED <<lastId, outbox, removals, alarm, handler, retry>>

-----------------------------------------------------------------------------
(* The end of alarm(), and the loss of the instance *)

\* Fault: after reclamation the alarm is scheduled for removed blocks only.
FinishAlarmRemovalsOnly(d) ==
  /\ pc[d] = "reclaim"
  /\ \E left \in BOOLEAN :
       /\ left => removals[d]
       /\ removals' = [removals EXCEPT ![d] = left]
       /\ alarm' = [alarm EXCEPT ![d] = left]
  /\ handler' = [handler EXCEPT ![d] = "none"]
  /\ retry' = [retry EXCEPT ![d] = FALSE]
  /\ pc' = [pc EXCEPT ![d] = "idle"]
  /\ UNCHANGED <<lastId, outbox, requests, replies>>

\* reclaimBlocks settles some or all removed blocks, or fails; either way the
\* alarm is scheduled and the invocation ends.
FinishAlarm(d) ==
  /\ pc[d] = "reclaim"
  /\ \E left \in BOOLEAN :
       /\ left => removals[d]
       /\ removals' = [removals EXCEPT ![d] = left]
       /\ alarm' = [alarm EXCEPT ![d] = outbox[d] # {} \/ left]
  /\ handler' = [handler EXCEPT ![d] = "none"]
  /\ retry' = [retry EXCEPT ![d] = FALSE]
  /\ pc' = [pc EXCEPT ![d] = "idle"]
  /\ UNCHANGED <<lastId, outbox, requests, replies>>

\* A lost alarm invocation is run again, unless deleteAlarm cancelled that.
Crash(d) ==
  /\ pc[d] # "down"
  /\ pc' = [pc EXCEPT ![d] = "down"]
  /\ \E again \in BOOLEAN :
       /\ retry[d] => again
       /\ again => handler[d] # "none"
       /\ alarm' = [alarm EXCEPT ![d] = @ \/ again]
  /\ handler' = [handler EXCEPT ![d] = "none"]
  /\ retry' = [retry EXCEPT ![d] = FALSE]
  /\ ForgetCall(d)
  /\ UNCHANGED <<lastId, outbox, removals>>

\* The constructor: arms the alarm if none is set and something is due.
Restart(d) ==
  /\ pc[d] = "down"
  /\ pc' = [pc EXCEPT ![d] = "idle"]
  /\ alarm' = [alarm EXCEPT ![d] = @ \/ outbox[d] # {} \/ removals[d]]
  /\ UNCHANGED <<lastId, outbox, removals, handler, retry, requests, replies>>

RepoNext(d) ==
  \/ ApplyWrites(d)
  \/ AnnounceAccount(d)
  \/ FireAlarm(d)
  \/ RunAlarm(d)
  \/ SendBatch(d)
  \/ Acknowledge(d)
  \/ FinishDelivery(d)
  \/ FailDelivery(d)
  \/ FinishAlarm(d)
  \/ Crash(d)
  \/ Restart(d)

-----------------------------------------------------------------------------
(* Property of the component *)

\* An event in the outbox is never forgotten: an alarm is set that will deliver
\* it, or a fired alarm is being handled that the runtime would run again.
OutboxArmed ==
  \A d \in Dids : outbox[d] # {} => alarm[d] \/ retry[d]
=============================================================================
