------------------------------ MODULE Sequencer ------------------------------
(***************************************************************************)
(* SequencerDO, the one Durable Object that gives every repository event   *)
(* of the PDS its seq, retains the events and serves the WebSocket         *)
(* subscribers of com.atproto.sync.subscribeRepos.                         *)
(*                                                                         *)
(* An event is known by the DID it belongs to and the id its repository's  *)
(* outbox gave it; its frame is left out.  A batch is the set of the ids   *)
(* it carries: the caller lists them in ascending order.  A handler has no *)
(* await before its last storage call, so each is one action; the only     *)
(* await of rpcSequence, between the broadcast and the arming of the prune *)
(* alarm, matters when the instance is lost there, which is the action     *)
(* RpcSequenceCrash.                                                       *)
(***************************************************************************)
EXTENDS Repositories

CONSTANTS
  Subscribers,    \* the WebSocket consumers
  Retention,      \* RETENTION_MS, in ticks
  PruneInterval,  \* PRUNE_INTERVAL_MS, in ticks
  MaxTime         \* bound: ticks of the clock

ASSUME SequencerAssumption ==
  /\ Retention \in Nat
  /\ PruneInterval \in Nat \ {0}
  /\ MaxTime \in Nat

VARIABLES
  sources,        \* repo_sources: the last accepted id per DID, 0 without a row
  lastSeq,        \* kv lastSeq
  events,         \* the events table
  prunedThrough,  \* kv prunedThrough
  pruneAlarm,     \* when the alarm is due, or NoAlarm
  now,            \* Date.now()
  sockets,        \* the connection of each subscriber
  published       \* history: every row the events table ever held

seqVars == <<sources, lastSeq, events, prunedThrough, pruneAlarm, now,
             sockets, published>>

NoAlarm == -1

SetMax(S) == CHOOSE x \in S : \A y \in S : y <= x

Row == [seq : Nat, did : Dids, id : Nat, createdAt : Nat]

Connection == [state : {"off", "open", "closing"}, from : Nat,
               outdated : BOOLEAN, received : SUBSET Nat]

Offline == [state |-> "off", from |-> 0, outdated |-> FALSE, received |-> {}]

Seqs(rows) == {e.seq : e \in rows}

SeqTypeOK ==
  /\ sources \in [Dids -> Nat]
  /\ lastSeq \in Nat
  /\ events \subseteq Row
  /\ prunedThrough \in Nat
  /\ pruneAlarm \in Nat \cup {NoAlarm}
  /\ now \in Nat
  /\ sockets \in [Subscribers -> Connection]
  /\ published \subseteq Row

SeqInit ==
  /\ sources = [d \in Dids |-> 0]
  /\ lastSeq = 0
  /\ events = {}
  /\ prunedThrough = 0
  /\ pruneAlarm = NoAlarm
  /\ now = 0
  /\ sockets = [c \in Subscribers |-> Offline]
  /\ published = {}

-----------------------------------------------------------------------------
(* rpcSequence *)

\* The events of a batch that no earlier attempt got accepted.
Pending(d, ids) == {i \in ids : i > sources[d]}

Rank(i, S) == Cardinality({j \in S : j <= i})

\* Fault: the next seq comes from the events table, which pruning empties.
SequencedAfterTable(d, ids) ==
  LET last == IF events = {} THEN 0 ELSE SetMax(Seqs(events))
  IN  {[seq |-> last + Rank(i, Pending(d, ids)), did |-> d, id |-> i,
        createdAt |-> now] : i \in Pending(d, ids)}

\* The rows of the pending events: consecutive seqs after lastSeq, in id order.
Sequenced(d, ids) ==
  {[seq |-> lastSeq + Rank(i, Pending(d, ids)), did |-> d, id |-> i,
    createdAt |-> now] : i \in Pending(d, ids)}

\* What rpcSequence returns: the last accepted id.
Accepted(d, ids) ==
  IF Pending(d, ids) = {} THEN sources[d] ELSE SetMax(Pending(d, ids))

\* The transaction of rpcSequence.
StoreEvents(d, ids) ==
  /\ events' = events \cup Sequenced(d, ids)
  /\ published' = published \cup Sequenced(d, ids)
  /\ sources' = [sources EXCEPT ![d] = Accepted(d, ids)]
  /\ lastSeq' = lastSeq + Cardinality(Pending(d, ids))
  /\ UNCHANGED <<prunedThrough, now>>

\* A send to a closing socket throws and skips that socket only.
Broadcast(rows) ==
  sockets' = [c \in Subscribers |->
                IF sockets[c].state = "open"
                  THEN [sockets[c] EXCEPT !.received = @ \cup Seqs(rows)]
                  ELSE sockets[c]]

DropSockets == sockets' = [c \in Subscribers |-> Offline]

RpcSequence(d, ids) ==
  \/ /\ Pending(d, ids) = {}
     /\ UNCHANGED seqVars
  \/ /\ Pending(d, ids) # {}
     /\ StoreEvents(d, ids)
     /\ Broadcast(Sequenced(d, ids))
     /\ pruneAlarm' = IF pruneAlarm = NoAlarm THEN now + PruneInterval
                                              ELSE pruneAlarm

\* Fault: the rows and repo_sources are not written in one transaction, and the
\* instance is lost between the two.
RpcSequenceTorn(d, ids) ==
  /\ Pending(d, ids) # {}
  /\ events' = events \cup Sequenced(d, ids)
  /\ published' = published \cup Sequenced(d, ids)
  /\ lastSeq' = lastSeq + Cardinality(Pending(d, ids))
  /\ DropSockets
  /\ UNCHANGED <<sources, prunedThrough, pruneAlarm, now>>

\* The instance is lost after the transaction: its sockets drop, the prune
\* alarm is not armed and the caller gets no answer.
RpcSequenceCrash(d, ids) ==
  /\ Pending(d, ids) # {}
  /\ StoreEvents(d, ids)
  /\ DropSockets
  /\ UNCHANGED pruneAlarm

-----------------------------------------------------------------------------
(* fetch and the sockets *)

UnchangedStore ==
  UNCHANGED <<sources, lastSeq, events, prunedThrough, pruneAlarm, now,
              published>>

\* Fault: a cursor is outdated only if it is two events behind the prune point.
ReplayOffByOne(cursor) ==
  IF cursor > lastSeq
    THEN [Offline EXCEPT !.state = "closing"]
    ELSE [state |-> "open", from |-> cursor,
          outdated |-> cursor + 1 < prunedThrough,
          received |-> Seqs({e \in events : e.seq > cursor})]

\* The connection replay leaves: refused, or with every retained event after
\* the cursor sent.
Replay(cursor) ==
  IF cursor > lastSeq
    THEN [Offline EXCEPT !.state = "closing"]
    ELSE [state |-> "open", from |-> cursor,
          outdated |-> cursor < prunedThrough,
          received |-> Seqs({e \in events : e.seq > cursor})]

Fetch(c, cursor) ==
  /\ sockets[c].state = "off"
  /\ sockets' = [sockets EXCEPT ![c] = Replay(cursor)]
  /\ UnchangedStore

\* A request without a cursor receives new events only.
FetchLive(c) ==
  /\ sockets[c].state = "off"
  /\ sockets' = [sockets EXCEPT
                   ![c] = [Offline EXCEPT !.state = "open", !.from = lastSeq]]
  /\ UnchangedStore

\* The consumer goes away: sends throw until the runtime removes the socket.
StartClosing(c) ==
  /\ sockets[c].state = "open"
  /\ sockets' = [sockets EXCEPT ![c].state = "closing"]
  /\ UnchangedStore

Closed(c) ==
  /\ sockets[c].state = "closing"
  /\ sockets' = [sockets EXCEPT ![c] = Offline]
  /\ UnchangedStore

\* The instance is lost between requests.
SequencerLost ==
  /\ DropSockets
  /\ UnchangedStore

-----------------------------------------------------------------------------
(* alarm *)

Expired == {e \in events : e.createdAt < now - Retention}

PrunePoint == IF Expired = {} THEN prunedThrough ELSE SetMax(Seqs(Expired))

Retained == IF Expired = {} THEN events
                            ELSE {e \in events : e.seq > PrunePoint}

Prune ==
  /\ pruneAlarm # NoAlarm
  /\ pruneAlarm <= now
  /\ events' = Retained
  /\ prunedThrough' = PrunePoint
  /\ pruneAlarm' = IF Retained # {} THEN now + PruneInterval ELSE NoAlarm
  /\ UNCHANGED <<sources, lastSeq, now, sockets, published>>

Tick ==
  /\ now < MaxTime
  /\ now' = now + 1
  /\ UNCHANGED <<sources, lastSeq, events, prunedThrough, pruneAlarm, sockets,
                 published>>

-----------------------------------------------------------------------------
(* What the sequencer does on its own account, whoever calls rpcSequence. *)
SeqInternal ==
  \/ \E c \in Subscribers :
       \/ \E cursor \in 0..(lastSeq + 1) : Fetch(c, cursor)
       \/ FetchLive(c)
       \/ StartClosing(c)
       \/ Closed(c)
  \/ SequencerLost
  \/ Prune
  \/ Tick

\* A caller sends runs of ids that start no later than the first id not yet
\* accepted, as Firehose shows RepoDO does.
Batches(d) ==
  UNION {{lo..hi : hi \in lo..MaxEventId} : lo \in 1..(sources[d] + 1)}

SeqNext ==
  \/ \E d \in Dids : \E ids \in Batches(d) :
       RpcSequence(d, ids) \/ RpcSequenceCrash(d, ids)
  \/ SeqInternal

SeqSpec == SeqInit /\ [][SeqNext]_seqVars

-----------------------------------------------------------------------------
(* Properties *)

\* A seq names one event for ever, also after pruning deleted its row, and
\* lastSeq is never behind the stream (rpcSequence takes its seqs from the
\* stored lastSeq, not from the events table).
SeqNeverReused ==
  /\ \A e, f \in published : e.seq = f.seq => e = f
  /\ \A e \in published : e.seq <= lastSeq

\* A consumer that was not told OutdatedCursor holds every event after the
\* position it asked for, whatever was sequenced, pruned or replayed meanwhile.
NoSilentGap ==
  \A c \in Subscribers :
    sockets[c].state = "open" /\ ~sockets[c].outdated =>
      \A e \in published : e.seq > sockets[c].from =>
        e.seq \in sockets[c].received

\* What NoSilentGap rests on: pruning deletes the published events up to
\* prunedThrough and no others.
PrunedIsPrefix ==
  /\ prunedThrough <= lastSeq
  /\ events = {e \in published : e.seq > prunedThrough}

=============================================================================
