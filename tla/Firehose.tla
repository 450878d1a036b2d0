------------------------------ MODULE Firehose -------------------------------
(***************************************************************************)
(* The event path of the PDS: the outbox of every RepoDO and the one       *)
(* SequencerDO they send to.  RPCs may be lost before or after they are    *)
(* executed, or executed after their caller has given up, and every        *)
(* instance may be lost at any point.                                      *)
(***************************************************************************)
EXTENDS RepoOutbox, Sequencer, Sequences

vars == <<repoVars, netVars, seqVars>>

TypeOK == RepoTypeOK /\ SeqTypeOK

Init == RepoInit /\ SeqInit

\* The sequencer executes a request; a live caller gets the answer.
Sequence(r) ==
  /\ RpcSequence(r.did, r.ids)
  /\ requests' = requests \ {r}
  /\ replies' = IF r.live
                  THEN replies \cup
                         {[did |-> r.did, last |-> Accepted(r.did, r.ids)]}
                  ELSE replies
  /\ UNCHANGED repoVars

\* The sequencer is lost after its transaction; the caller gets no answer.
SequenceCrash(r) ==
  /\ RpcSequenceCrash(r.did, r.ids)
  /\ requests' = requests \ {r}
  /\ UNCHANGED <<replies, repoVars>>

RepoStep(d) == RepoNext(d) /\ UNCHANGED seqVars

Next ==
  \/ \E d \in Dids : RepoStep(d)
  \/ \E r \in requests : Sequence(r) \/ SequenceCrash(r)
  \/ SeqInternal /\ UNCHANGED <<repoVars, netVars>>

Spec == Init /\ [][Next]_vars

-----------------------------------------------------------------------------
(* Fairness.  The runtime runs what is ready: it constructs an instance its *)
(* alarm wakes, invokes alarms, and resumes the queue and its             *)
(* continuations.  Instances and calls may be lost again and again, but not *)
(* every time: a step that is enabled over and over is taken in the end.   *)

SequenceLive(d) == \E r \in requests : r.did = d /\ r.live /\ Sequence(r)

\* A call that can no longer be answered is reported to its caller.
CallLost(d) ==
  /\ ~ \E r \in requests : r.did = d /\ r.live
  /\ ~ \E r \in replies : r.did = d
  /\ FailDelivery(d)

Do(A) == A /\ UNCHANGED seqVars

Fairness ==
  \A d \in Dids :
    /\ WF_vars(Do(alarm[d] /\ Restart(d)))
    /\ SF_vars(Do(FireAlarm(d)))
    /\ SF_vars(Do(RunAlarm(d)))
    /\ SF_vars(Do(SendBatch(d)))
    /\ SF_vars(Do(Acknowledge(d)))
    /\ SF_vars(Do(FinishDelivery(d)))
    /\ SF_vars(Do(CallLost(d)))
    /\ SF_vars(Do(FinishAlarm(d)))
    /\ SF_vars(SequenceLive(d))

FairSpec == Spec /\ Fairness

-----------------------------------------------------------------------------
(* Properties *)

\* An event is on the stream at most once, however often its batch was sent.
ExactlyOnce ==
  \A e, f \in published :
    (e.did = f.did /\ e.id = f.id) \/ e.seq = f.seq => e = f

\* Before an event of a repository, the stream has every event the repository
\* committed earlier, whichever attempt carried it.
CommitOrder ==
  \A e \in published : \A i \in 1..(e.id - 1) :
    \E f \in published : f.did = e.did /\ f.id = i /\ f.seq < e.seq

\* No committed event is lost: it is in the outbox until it is on the stream.
NothingLost ==
  \A d \in Dids : \A i \in 1..lastId[d] :
    i \in outbox[d] \/ \E e \in published : e.did = d /\ e.id = i

\* The outbox is emptied once the sequencer answers.
EventuallyAcknowledged ==
  \A d \in Dids : \A i \in 1..MaxEventId : i \in outbox[d] ~> i \notin outbox[d]

-----------------------------------------------------------------------------
(* The inductive invariant behind ExactlyOnce, CommitOrder and NothingLost. *)

\* The sequencer accepted only what was committed, and the outbox is the rest
\* of what was committed plus, perhaps, the last events that were accepted.
OutboxIsSuffix ==
  \A d \in Dids :
    /\ sources[d] <= lastId[d]
    /\ \E k \in 0..sources[d] : outbox[d] = (k + 1)..lastId[d]

\* A batch on its way, however old, is a run of committed ids that leaves no
\* gap after the ids already accepted.
RequestsContiguous ==
  \A r \in requests :
    \E lo \in 1..(sources[r.did] + 1) : \E hi \in lo..lastId[r.did] :
      r.ids = lo..hi

RepliesAccepted == \A r \in replies : r.last <= sources[r.did]

\* The stream holds exactly the accepted ids, below lastSeq.
StreamIsAccepted ==
  /\ \A e \in published : e.id \in 1..sources[e.did] /\ e.seq \in 1..lastSeq
  /\ \A d \in Dids : \A i \in 1..sources[d] :
       \E e \in published : e.did = d /\ e.id = i
  /\ events \subseteq published

\* No seq is skipped, so that the log the stream is has no gap.
EverySeqNamesAnEvent ==
  \A n \in 1..lastSeq : \E e \in published : e.seq = n

IInv ==
  /\ TypeOK
  /\ OutboxIsSuffix
  /\ RequestsContiguous
  /\ RepliesAccepted
  /\ StreamIsAccepted
  /\ ExactlyOnce
  /\ CommitOrder

-----------------------------------------------------------------------------
(* Refinement *)

\* The stream as the abstract log sees it: event number n is the row with seq n.
Stream ==
  [n \in 1..lastSeq |->
     LET e == CHOOSE e \in published : e.seq = n
     IN  [did |-> e.did, id |-> e.id]]

Log == INSTANCE EventLog WITH committed <- lastId, stream <- Stream

\* The two services together implement the log the PDS promises.
ImplementsLog == Log!Spec
=============================================================================
