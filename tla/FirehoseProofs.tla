---------------------------- MODULE FirehoseProofs ----------------------------
EXTENDS Firehose, TLAPS, FiniteSetTheorems, WellFoundedInduction, SequenceTheorems

USE RepositoriesAssumption, OutboxAssumption, SequencerAssumption

-----------------------------------------------------------------------------
(* Lemmas on the operators *)

\* A finite nonempty set of naturals has the maximum SetMax names.
LEMMA SetMaxIsMax ==
  ASSUME NEW S \in SUBSET Nat, IsFiniteSet(S), S # {}
  PROVE  SetMax(S) \in S /\ \A y \in S : y <= SetMax(S)
<1> DEFINE Above(x) == {y \in S : y > x}
           T == {Above(x) : x \in S}
<1>1. IsWellFoundedOn(StrictSubsetOrdering(S), FiniteSubsetsOf(S))
  BY FS_StrictSubsetOrderingWellFounded
<1>2. T \subseteq FiniteSubsetsOf(S) /\ T # {}
  <2>1. FiniteSubsetsOf(S) = SUBSET S
    BY FS_FiniteSubsetsOfFinite
  <2>2. T \subseteq SUBSET S /\ T # {}
    OBVIOUS
  <2> QED BY <2>1, <2>2
<1>3. PICK A \in T : \A B \in T : ~ (<<B, A>> \in StrictSubsetOrdering(S))
  <2> HIDE DEF T
  <2> QED BY <1>1, <1>2, WFMin
<1>4. PICK x \in S : A = Above(x)
  OBVIOUS
<1>5. ASSUME NEW y \in S, y > x
      PROVE  FALSE
  <2>0. x \in Nat /\ y \in Nat
    OBVIOUS
  <2>11. \A z \in S : z > y => z > x
    BY <1>5, <2>0
  <2>12. y > x /\ ~ (y > y)
    BY <1>5, <2>0
  <2>1. Above(y) \subseteq Above(x) /\ y \in Above(x) /\ y \notin Above(y)
    BY <2>11, <2>12
  <2>2. <<Above(y), A>> \in StrictSubsetOrdering(S)
    BY <2>1, <1>4 DEF StrictSubsetOrdering
  <2> QED
    BY <2>2, <1>3
<1>6. \A y \in S : y <= x
  BY <1>5
<1> QED
  BY <1>6 DEF SetMax

\* The size of a run that starts just after a.
LEMMA IntervalSize ==
  ASSUME NEW a \in Nat, NEW b \in Nat, a <= b
  PROVE  Cardinality((a + 1)..b) = b - a
<1>1. Cardinality((a + 1)..b) = IF a + 1 > b THEN 0 ELSE b - (a + 1) + 1
  <2>1. a + 1 \in Int /\ b \in Int
    OBVIOUS
  <2> QED
    BY ONLY <2>1, FS_Interval
<1> QED
  BY <1>1

\* The first rows of an outbox without holes are a run from its start.
LEMMA BatchIsRun ==
  ASSUME NEW d \in Dids, NEW k \in Nat, NEW n \in Nat, k < n,
         outbox[d] = (k + 1)..n
  PROVE  \E hi \in (k + 1)..n : Batch(d) = (k + 1)..hi
<1>1. \A i \in (k + 1)..n : {j \in outbox[d] : j <= i} = (k + 1)..i
  OBVIOUS
<1>2. \A i \in (k + 1)..n : Cardinality((k + 1)..i) = i - k
  <2> SUFFICES ASSUME NEW i \in (k + 1)..n
               PROVE  Cardinality((k + 1)..i) = i - k
    OBVIOUS
  <2>1. i \in Nat /\ k <= i
    OBVIOUS
  <2> QED
    BY ONLY k \in Nat, <2>1, IntervalSize
<1>3. Batch(d) = {i \in (k + 1)..n : i - k <= BatchSize}
  BY <1>1, <1>2 DEF Batch
<1>4. CASE n - k <= BatchSize
  BY <1>3, <1>4
<1>5. CASE n - k > BatchSize
  <2>1. Batch(d) = (k + 1)..(k + BatchSize)
    BY <1>3, <1>5
  <2> QED
    BY <2>1, <1>5
<1> QED
  BY <1>4, <1>5

\* What rpcSequence makes of a run of ids that leaves no gap after the
\* accepted ones: the rest of the run, with consecutive seqs in id order.
LEMMA SequencedRun ==
  ASSUME TypeOK, NEW d \in Dids,
         NEW lo \in 1..(sources[d] + 1), NEW hi \in Nat, lo <= hi,
         NEW ids, ids = lo..hi
  PROVE  /\ Pending(d, ids) = (sources[d] + 1)..hi
         /\ Pending(d, ids) # {} =>
              /\ sources[d] < hi
              /\ Accepted(d, ids) = hi
              /\ Cardinality(Pending(d, ids)) = hi - sources[d]
              /\ \A i \in Pending(d, ids) :
                   Rank(i, Pending(d, ids)) = i - sources[d]
         /\ Pending(d, ids) = {} => hi <= sources[d]
<1> DEFINE s == sources[d]
<1>0. s \in Nat
  BY DEF TypeOK, SeqTypeOK
<1>1. Pending(d, ids) = (s + 1)..hi
  BY <1>0 DEF Pending
<1>2. ASSUME Pending(d, ids) # {}
      PROVE  /\ s < hi
             /\ Accepted(d, ids) = hi
             /\ Cardinality(Pending(d, ids)) = hi - s
             /\ \A i \in Pending(d, ids) : Rank(i, Pending(d, ids)) = i - s
  <2>1. s < hi
    BY <1>0, <1>1, <1>2
  <2>2. SetMax((s + 1)..hi) = hi
    BY <1>0, <2>1 DEF SetMax
  <2>3. Cardinality((s + 1)..hi) = hi - s
    BY ONLY <1>0, <2>1, hi \in Nat, IntervalSize
  <2>4. \A i \in (s + 1)..hi : {j \in (s + 1)..hi : j <= i} = (s + 1)..i
    BY <1>0
  <2>5. \A i \in (s + 1)..hi : Cardinality((s + 1)..i) = i - s
    <3> SUFFICES ASSUME NEW i \in (s + 1)..hi
                 PROVE  Cardinality((s + 1)..i) = i - s
      OBVIOUS
    <3>1. i \in Nat /\ s <= i
      BY ONLY <1>0, hi \in Nat, i \in (s + 1)..hi
    <3> QED
      BY ONLY <1>0, <3>1, IntervalSize
  <2> QED
    BY <1>1, <1>2, <2>1, <2>2, <2>3, <2>4, <2>5 DEF Accepted, Rank
<1>3. Pending(d, ids) = {} => hi <= s
  BY <1>0, <1>1
<1> QED
  BY <1>1, <1>2, <1>3

-----------------------------------------------------------------------------
(* Steps of the repositories *)

\* Forgetting a call invents no batch and no reply.
LEMMA ForgetCallShrinks ==
  ASSUME requests \subseteq Request, NEW d \in Dids, ForgetCall(d)
  PROVE  /\ requests' \subseteq Request
         /\ \A r \in requests' : \E q \in requests :
              r.did = q.did /\ r.ids = q.ids
         /\ replies' \subseteq replies
<1> DEFINE mine == {r \in requests : r.did = d /\ r.live}
           orphans == {[r EXCEPT !.live = FALSE] : r \in mine}
<1>1. \A q \in Request : /\ [q EXCEPT !.live = FALSE] \in Request
                         /\ [q EXCEPT !.live = FALSE].did = q.did
                         /\ [q EXCEPT !.live = FALSE].ids = q.ids
  BY DEF Request
<1>2. \A r \in orphans : r \in Request /\ \E q \in requests :
        r.did = q.did /\ r.ids = q.ids
  <2> SUFFICES ASSUME NEW r \in orphans
               PROVE  r \in Request /\ \E q \in requests :
                        r.did = q.did /\ r.ids = q.ids
    OBVIOUS
  <2>1. PICK q \in mine : r = [q EXCEPT !.live = FALSE]
    OBVIOUS
  <2>2. q \in requests /\ q \in Request
    BY <2>1
  <2> QED
    BY <1>1, <2>1, <2>2
<1>3. requests' \subseteq requests \cup orphans /\ replies' \subseteq replies
  BY DEF ForgetCall
<1> HIDE DEF orphans
<1> QED
  BY <1>2, <1>3

\* What a repository does leaves the sequencer's state well typed and keeps
\* its own so.
LEMMA RepoTypeStep ==
  ASSUME TypeOK, NEW d \in Dids, RepoStep(d)
  PROVE  TypeOK'
<1> USE DEF TypeOK, RepoTypeOK, Request, Reply
<1>1. SeqTypeOK'
  BY DEF RepoStep, SeqTypeOK, seqVars
<1>2. CASE ApplyWrites(d)
  BY <1>1, <1>2 DEF ApplyWrites, Enqueue, StartDelivery
<1>3. CASE AnnounceAccount(d)
  BY <1>1, <1>3 DEF AnnounceAccount, Enqueue, StartDelivery
<1>4. CASE FireAlarm(d)
  BY <1>1, <1>4 DEF FireAlarm
<1>5. CASE RunAlarm(d)
  BY <1>1, <1>5 DEF RunAlarm, StartDelivery
<1>6. CASE SendBatch(d)
  <2>1. [did |-> d, ids |-> Batch(d), live |-> TRUE] \in Request
    BY DEF Batch
  <2>2. requests' \subseteq Request
    BY <1>6, <2>1 DEF SendBatch
  <2> QED
    BY <1>1, <1>6, <2>2 DEF SendBatch
<1>7. CASE Acknowledge(d)
  BY <1>1, <1>7 DEF Acknowledge
<1>8. CASE FinishDelivery(d)
  BY <1>1, <1>8 DEF FinishDelivery, ScheduleAlarm, Resume
<1>9. CASE FailDelivery(d)
  <2>1. requests' \subseteq Request /\ replies' \subseteq Reply
    BY <1>9, ForgetCallShrinks DEF FailDelivery
  <2> QED
    BY <1>1, <1>9, <2>1 DEF FailDelivery, Resume
<1>10. CASE FinishAlarm(d)
  BY <1>1, <1>10 DEF FinishAlarm
<1>11. CASE Crash(d)
  <2>1. requests' \subseteq Request /\ replies' \subseteq Reply
    BY <1>11, ForgetCallShrinks DEF Crash
  <2> QED
    BY <1>1, <1>11, <2>1 DEF Crash
<1>12. CASE Restart(d)
  BY <1>1, <1>12 DEF Restart
<1> QED
  BY <1>2, <1>3, <1>4, <1>5, <1>6, <1>7, <1>8, <1>9, <1>10, <1>11, <1>12
     DEF RepoStep, RepoNext

\* Adding ids after the last one, and deleting through an accepted id, keep the
\* outbox a suffix of what was committed.
LEMMA OutboxStep ==
  ASSUME IInv, NEW d \in Dids, RepoStep(d)
  PROVE  OutboxIsSuffix' /\ lastId \in [Dids -> Nat] /\ lastId' \in [Dids -> Nat]
         /\ \A c \in Dids : lastId[c] <= lastId'[c]
<1>0. /\ TypeOK' /\ UNCHANGED sources
      /\ sources \in [Dids -> Nat] /\ lastId \in [Dids -> Nat]
      /\ outbox \in [Dids -> SUBSET Nat]
      /\ lastId' \in [Dids -> Nat]
  BY RepoTypeStep DEF IInv, RepoStep, seqVars, TypeOK, SeqTypeOK, RepoTypeOK
<1>1. PICK k \in 0..sources[d] : outbox[d] = (k + 1)..lastId[d]
  BY DEF IInv, OutboxIsSuffix
<1>2. CASE \E n \in {1, 3} : Enqueue(d, n)
  <2>1. PICK n \in {1, 3} : Enqueue(d, n)
    BY <1>2
  <2>2. lastId'[d] = lastId[d] + n
    BY <1>0, <2>1 DEF Enqueue
  <2>3. outbox'[d] = ((k + 1)..lastId[d]) \cup (lastId[d] + 1)..(lastId[d] + n)
    BY <1>0, <1>1, <2>1 DEF Enqueue
  <2>4. k <= lastId[d] /\ k \in Nat
    BY <1>0, <1>1 DEF IInv, OutboxIsSuffix
  <2>5. outbox'[d] = (k + 1)..lastId'[d]
    BY <1>0, <2>2, <2>3, <2>4
  <2>6. \A c \in Dids \ {d} : lastId'[c] = lastId[c] /\ outbox'[c] = outbox[c]
    BY <1>0, <2>1 DEF Enqueue
  <2>7. \A c \in Dids : lastId[c] <= lastId'[c]
    BY <1>0, <2>2, <2>6
  <2>8. sources'[d] <= lastId'[d]
    BY <1>0, <2>7 DEF IInv, OutboxIsSuffix
  <2> QED
    BY <1>0, <1>1, <2>5, <2>6, <2>7, <2>8 DEF IInv, OutboxIsSuffix
<1>3. CASE Acknowledge(d)
  <2>1. PICK r \in replies :
          /\ r.did = d
          /\ outbox' = [outbox EXCEPT ![d] = {i \in @ : i > r.last}]
    BY <1>3 DEF Acknowledge
  <2>2. r.last \in Nat /\ r.last <= sources[d]
    BY <2>1 DEF IInv, TypeOK, RepoTypeOK, Reply, RepliesAccepted
  <2>3. UNCHANGED lastId
    BY <1>3 DEF Acknowledge
  <2>4. outbox'[d] = {i \in (k + 1)..lastId[d] : i > r.last}
    BY <1>0, <1>1, <2>1
  <2>5. \E m \in 0..sources[d] : outbox'[d] = (m + 1)..lastId[d]
    <3>1. CASE r.last <= k
      <4>1. outbox'[d] = (k + 1)..lastId[d]
        BY ONLY <2>2, <2>4, <3>1, k \in Nat
      <4> QED BY <1>1, <4>1
    <3>2. CASE r.last > k
      <4>1. outbox'[d] = (r.last + 1)..lastId[d]
        BY <1>0, <1>1, <2>2, <2>4, <3>2
      <4> QED BY <1>0, <2>2, <4>1
    <3> QED BY <1>0, <1>1, <2>2, <3>1, <3>2
  <2>6. \A c \in Dids \ {d} : outbox'[c] = outbox[c]
    BY <1>0, <2>1
  <2> QED
    BY <1>0, <2>3, <2>5, <2>6 DEF IInv, OutboxIsSuffix
<1>4. CASE UNCHANGED <<lastId, outbox>>
  BY <1>0, <1>4 DEF IInv, OutboxIsSuffix
<1> QED
  BY <1>2, <1>3, <1>4 DEF RepoStep, RepoNext, ApplyWrites, AnnounceAccount,
     FireAlarm, RunAlarm, SendBatch, FinishDelivery, FailDelivery, FinishAlarm,
     Crash, Restart

\* A repository sends runs of committed ids that start at its oldest event.
LEMMA RequestsStep ==
  ASSUME IInv, NEW d \in Dids, RepoStep(d)
  PROVE  RequestsContiguous' /\ RepliesAccepted'
<1>0. /\ requests \subseteq Request /\ UNCHANGED sources
      /\ sources \in [Dids -> Nat] /\ lastId \in [Dids -> Nat]
      /\ lastId' \in [Dids -> Nat]
      /\ \A c \in Dids : lastId[c] <= lastId'[c]
  BY OutboxStep DEF IInv, RepoStep, seqVars, TypeOK, SeqTypeOK, RepoTypeOK
<1>1. \A r \in requests : \E lo \in 1..(sources[r.did] + 1) :
        \E hi \in lo..lastId'[r.did] : r.ids = lo..hi
  <2> SUFFICES ASSUME NEW r \in requests
               PROVE  \E lo \in 1..(sources[r.did] + 1) :
                        \E hi \in lo..lastId'[r.did] : r.ids = lo..hi
    OBVIOUS
  <2>1. r.did \in Dids
    BY <1>0 DEF Request
  <2>2. lastId[r.did] <= lastId'[r.did] /\ lastId'[r.did] \in Nat
    BY <1>0, <2>1
  <2>3. PICK lo \in 1..(sources[r.did] + 1) : \E hi \in lo..lastId[r.did] :
          r.ids = lo..hi
    BY DEF IInv, RequestsContiguous
  <2> QED
    BY <1>0, <2>1, <2>2, <2>3
<1>2. CASE SendBatch(d)
  <2> DEFINE new == [did |-> d, ids |-> Batch(d), live |-> TRUE]
  <2>1. PICK k \in 0..sources[d] : outbox[d] = (k + 1)..lastId[d]
    BY DEF IInv, OutboxIsSuffix
  <2>2. k < lastId[d]
    BY <1>0, <1>2, <2>1 DEF SendBatch
  <2>3. PICK hi \in (k + 1)..lastId[d] : Batch(d) = (k + 1)..hi
    <3>1. k \in Nat /\ lastId[d] \in Nat
      BY <1>0
    <3> QED
      BY <2>1, <2>2, <3>1, BatchIsRun
  <2>4. lastId' = lastId /\ requests' = requests \cup {new} /\ replies' = replies
    BY <1>2 DEF SendBatch
  <2>5. k + 1 \in 1..(sources[new.did] + 1) /\ hi \in (k + 1)..lastId'[new.did]
        /\ new.ids = (k + 1)..hi
    BY <1>0, <2>1, <2>3, <2>4
  <2>6. RequestsContiguous'
    BY <1>0, <1>1, <2>4, <2>5 DEF RequestsContiguous
  <2> QED
    BY <1>0, <2>4, <2>6 DEF IInv, RepliesAccepted
<1>3. CASE ForgetCall(d)
  <2>1. /\ replies' \subseteq replies
        /\ \A r \in requests' : \E q \in requests :
             r.did = q.did /\ r.ids = q.ids
    BY <1>0, <1>3, ForgetCallShrinks
  <2>2. RequestsContiguous'
    <3> SUFFICES ASSUME NEW r \in requests'
                 PROVE  \E lo \in 1..(sources'[r.did] + 1) :
                          \E hi \in lo..lastId'[r.did] : r.ids = lo..hi
      BY DEF RequestsContiguous
    <3>1. PICK q \in requests : r.did = q.did /\ r.ids = q.ids
      BY <2>1
    <3> QED
      BY <1>0, <1>1, <3>1
  <2>3. RepliesAccepted'
    BY <1>0, <2>1 DEF IInv, RepliesAccepted
  <2> QED
    BY <2>2, <2>3
<1>4. CASE UNCHANGED requests /\ replies' \subseteq replies
  BY <1>0, <1>1, <1>4 DEF IInv, RequestsContiguous, RepliesAccepted
<1> QED
  BY <1>2, <1>3, <1>4 DEF RepoStep, RepoNext, ApplyWrites, AnnounceAccount,
     FireAlarm, RunAlarm, Acknowledge, FinishDelivery, FailDelivery,
     FinishAlarm, Crash, Restart

\* A repository touches nothing of the sequencer, so nothing the stream
\* invariants speak of.
LEMMA RepoInvStep ==
  ASSUME IInv, NEW d \in Dids, RepoStep(d)
  PROVE  IInv'
<1>1. TypeOK' /\ OutboxIsSuffix' /\ RequestsContiguous' /\ RepliesAccepted'
  BY RepoTypeStep, OutboxStep, RequestsStep DEF IInv
<1>2. StreamIsAccepted' /\ ExactlyOnce' /\ CommitOrder'
  BY DEF IInv, RepoStep, seqVars, StreamIsAccepted, ExactlyOnce, CommitOrder
<1> QED
  BY <1>1, <1>2 DEF IInv

-----------------------------------------------------------------------------
(* Steps of the sequencer *)

\* The rows rpcSequence stores for a batch that brings new ids: one for each id
\* after the accepted ones, with the next seqs.
LEMMA SequencedRows ==
  ASSUME IInv, NEW r \in requests, Pending(r.did, r.ids) # {},
         NEW d, d = r.did, NEW s, s = sources[d],
         NEW hi, hi = Accepted(d, r.ids),
         NEW rows, rows = Sequenced(d, r.ids)
  PROVE  /\ d \in Dids /\ s \in Nat
         /\ hi \in Nat /\ hi <= lastId[d] /\ s < hi
         /\ Cardinality(Pending(d, r.ids)) = hi - s
         /\ \A e \in rows : /\ e \in Row /\ e.did = d /\ e.id \in (s + 1)..hi
                            /\ e.seq = lastSeq + (e.id - s)
                            /\ e.createdAt = now
         /\ \A i \in (s + 1)..hi : \E e \in rows :
              e.did = d /\ e.id = i /\ e.seq = lastSeq + (i - s)
         /\ \A e, f \in rows : e.id = f.id => e = f
<1> DEFINE P == Pending(d, r.ids)
           row(i) == [seq |-> lastSeq + (i - s), did |-> d, id |-> i,
                      createdAt |-> now]
<1>0. /\ d \in Dids /\ s \in Nat /\ lastSeq \in Nat /\ now \in Nat /\ lastId[d] \in Nat
  BY DEF IInv, TypeOK, SeqTypeOK, RepoTypeOK, Request
<1>1. PICK lo \in 1..(s + 1) : \E h \in lo..lastId[d] : r.ids = lo..h
  BY DEF IInv, RequestsContiguous
<1>2. PICK h \in lo..lastId[d] : r.ids = lo..h
  BY <1>1
<1>3. /\ hi = h /\ hi \in Nat /\ hi <= lastId[d] /\ s < hi
      /\ P = (s + 1)..hi
      /\ Cardinality(P) = hi - s
      /\ \A i \in P : Rank(i, P) = i - s
  <2>1. h \in Nat /\ h <= lastId[d] /\ lo <= h
    BY <1>0, <1>1, <1>2
  <2>2. TypeOK /\ P # {}
    BY DEF IInv
  <2>3. lo \in 1..(sources[d] + 1)
    BY <1>1
  <2>4. /\ P = (sources[d] + 1)..h
        /\ P # {} => /\ sources[d] < h
                     /\ Accepted(d, r.ids) = h
                     /\ Cardinality(P) = h - sources[d]
                     /\ \A i \in P : Rank(i, P) = i - sources[d]
    BY ONLY <1>0, <1>2, <2>1, <2>2, <2>3, SequencedRun
  <2> QED
    BY <2>1, <2>2, <2>4
<1>4. rows = {row(i) : i \in (s + 1)..hi}
  BY <1>3 DEF Sequenced
<1>5. \A i \in (s + 1)..hi :
        /\ row(i) \in Row /\ row(i).did = d /\ row(i).id = i
        /\ row(i).seq = lastSeq + (i - s) /\ row(i).createdAt = now
  <2> SUFFICES ASSUME NEW i \in (s + 1)..hi
               PROVE  /\ row(i) \in Row /\ row(i).did = d /\ row(i).id = i
                      /\ row(i).seq = lastSeq + (i - s)
                      /\ row(i).createdAt = now
    OBVIOUS
  <2>1. i \in Nat /\ lastSeq + (i - s) \in Nat
    BY ONLY <1>0, <1>3, i \in (s + 1)..hi
  <2> QED
    BY <1>0, <2>1 DEF Row
<1> HIDE DEF row, P
<1>6. \A e \in rows : /\ e \in Row /\ e.did = d /\ e.id \in (s + 1)..hi
                      /\ e.seq = lastSeq + (e.id - s)
                      /\ e.createdAt = now
  BY <1>4, <1>5
<1>7. \A i \in (s + 1)..hi : \E e \in rows :
        e.did = d /\ e.id = i /\ e.seq = lastSeq + (i - s)
  BY <1>4, <1>5
<1>8. \A e, f \in rows : e.id = f.id => e = f
  BY <1>4, <1>5
<1> QED
  BY <1>0, <1>3, <1>6, <1>7, <1>8 DEF P

\* The transaction of rpcSequence on a batch that brings new ids.
LEMMA StoreStep ==
  ASSUME IInv, NEW r \in requests, Pending(r.did, r.ids) # {},
         StoreEvents(r.did, r.ids)
  PROVE  /\ events' \subseteq Row /\ published' \subseteq Row
         /\ sources' \in [Dids -> Nat] /\ lastSeq' \in Nat
         /\ \A c \in Dids : sources[c] <= sources'[c]
         /\ sources'[r.did] = Accepted(r.did, r.ids)
         /\ sources'[r.did] <= lastId[r.did]
         /\ \A c \in Dids \ {r.did} : sources'[c] = sources[c]
         /\ StreamIsAccepted' /\ ExactlyOnce' /\ CommitOrder'
<1> DEFINE d == r.did
           s == sources[d]
           hi == Accepted(d, r.ids)
           P == Pending(d, r.ids)
           rows == Sequenced(d, r.ids)
<1>0. /\ d \in Dids /\ s \in Nat /\ lastSeq \in Nat /\ now \in Nat
      /\ sources \in [Dids -> Nat] /\ lastId \in [Dids -> Nat]
      /\ events \subseteq Row /\ published \subseteq Row
  BY DEF IInv, TypeOK, SeqTypeOK, RepoTypeOK, Request
<1>5. /\ events' = events \cup rows /\ published' = published \cup rows
      /\ sources' = [sources EXCEPT ![d] = hi]
      /\ lastSeq' = lastSeq + Cardinality(P)
  BY DEF StoreEvents
<1> HIDE DEF hi, rows
<1>2. /\ hi \in Nat /\ hi <= lastId[d] /\ s < hi
      /\ Cardinality(P) = hi - s
      /\ \A e \in rows : /\ e \in Row /\ e.did = d /\ e.id \in (s + 1)..hi
                         /\ e.seq = lastSeq + (e.id - s)
                         /\ e.createdAt = now
      /\ \A i \in (s + 1)..hi : \E e \in rows :
           e.did = d /\ e.id = i /\ e.seq = lastSeq + (i - s)
      /\ \A e, f \in rows : e.id = f.id => e = f
  <2>1. hi = Accepted(r.did, r.ids) /\ rows = Sequenced(r.did, r.ids)
    BY DEF hi, rows
  <2> QED
    BY <2>1, SequencedRows
<1>3. hi \in Nat /\ hi <= lastId[d] /\ s < hi
  BY <1>2
<1>4. lastSeq' = lastSeq + (hi - s)
  BY <1>2, <1>5
<1>6. \A e \in rows : /\ e \in Row /\ e.did = d /\ e.id \in (s + 1)..hi
                      /\ e.seq = lastSeq + (e.id - s)
                      /\ e.createdAt = now
  BY <1>2
<1>7. \A i \in (s + 1)..hi : \E e \in rows :
        e.did = d /\ e.id = i /\ e.seq = lastSeq + (i - s)
  BY <1>2
<1>8. \A e, f \in rows : e.id = f.id => e = f
  BY <1>2
<1> HIDE DEF P, s, d
<1>9. /\ \A e \in published : /\ e.did \in Dids /\ e.id \in Nat /\ e.seq \in Nat
                              /\ e.id >= 1 /\ e.id <= sources[e.did]
                              /\ e.seq >= 1 /\ e.seq <= lastSeq
  BY <1>0 DEF IInv, StreamIsAccepted, Row
<1>10. /\ sources' \in [Dids -> Nat] /\ lastSeq' \in Nat /\ sources'[d] = hi
       /\ \A c \in Dids \ {d} : sources'[c] = sources[c]
       /\ \A c \in Dids : sources[c] <= sources'[c]
  BY <1>0, <1>3, <1>4, <1>5 DEF s
<1>11. StreamIsAccepted'
  <2>1. ASSUME NEW e \in published'
        PROVE  e.id \in 1..sources'[e.did] /\ e.seq \in 1..lastSeq'
    <3>1. CASE e \in published
      <4>1. sources[e.did] <= sources'[e.did] /\ lastSeq <= lastSeq'
        <5>1. lastSeq' = lastSeq + (hi - s) /\ s < hi /\ hi \in Nat
          BY <1>3, <1>4
        <5>2. s \in Nat /\ lastSeq \in Nat /\ e.did \in Dids
          BY <1>0, <1>9, <3>1
        <5> QED
          BY ONLY <1>10, <5>1, <5>2
      <4>2. sources[e.did] \in Nat /\ sources'[e.did] \in Nat
        BY <1>0, <1>9, <1>10, <3>1
      <4> QED
        BY <1>0, <1>9, <1>10, <3>1, <4>1, <4>2
    <3>2. CASE e \in rows
      <4>1. /\ e.did = d /\ e.id \in (s + 1)..hi
            /\ e.seq = lastSeq + (e.id - s)
        BY <1>6, <3>2
      <4>2. /\ lastSeq' = lastSeq + (hi - s) /\ sources'[d] = hi
            /\ s \in Nat /\ hi \in Nat /\ lastSeq \in Nat
        BY <1>0, <1>3, <1>4, <1>10 DEF s
      <4> QED
        BY ONLY <4>1, <4>2
    <3> QED
      BY <1>5, <3>1, <3>2
  <2>2. ASSUME NEW c \in Dids, NEW i \in 1..sources'[c]
        PROVE  \E e \in published' : e.did = c /\ e.id = i
    <3>1. CASE i \in 1..sources[c]
      BY <1>5, <3>1 DEF IInv, StreamIsAccepted
    <3>2. CASE c = d /\ i \in (s + 1)..hi
      BY <1>5, <1>7, <3>2
    <3> QED
      BY <1>0, <1>3, <1>10, <3>1, <3>2 DEF s
  <2>3. events' \subseteq published'
    BY <1>5 DEF IInv, StreamIsAccepted
  <2> QED
    BY <2>1, <2>2, <2>3 DEF StreamIsAccepted
<1>12. ASSUME NEW e \in published, NEW f \in rows
       PROVE  ~ (e.did = f.did /\ e.id = f.id) /\ e.seq < f.seq
  <2>1. f.did = d /\ f.id >= s + 1 /\ f.seq = lastSeq + (f.id - s) /\ f.id \in Nat
    BY <1>0, <1>3, <1>6
  <2>2. e.seq < f.seq
    BY <1>0, <1>9, <2>1
  <2>3. e.did = d => e.id <= s /\ e.id \in Nat
    BY <1>9 DEF s
  <2> QED
    BY <1>0, <2>1, <2>2, <2>3
<1>13. ExactlyOnce'
  <2> SUFFICES ASSUME NEW e \in published', NEW f \in published',
                      (e.did = f.did /\ e.id = f.id) \/ e.seq = f.seq
               PROVE  e = f
    BY DEF ExactlyOnce
  <2>1. CASE e \in published /\ f \in published
    BY <2>1 DEF IInv, ExactlyOnce
  <2>2. CASE e \in rows /\ f \in rows
    <3>1. e.id = f.id
      <4>1. /\ e.id \in (s + 1)..hi /\ e.seq = lastSeq + (e.id - s)
            /\ f.id \in (s + 1)..hi /\ f.seq = lastSeq + (f.id - s)
        BY <1>6, <2>2
      <4>2. e.id = f.id \/ e.seq = f.seq
        OBVIOUS
      <4>3. s \in Nat /\ hi \in Nat /\ lastSeq \in Nat
        BY <1>0, <1>3
      <4> QED
        BY ONLY <4>1, <4>2, <4>3
    <3> QED
      BY <1>8, <2>2, <3>1
  <2>3. CASE e \in published /\ f \in rows
    <3>1. e.seq \in Nat /\ f.seq \in Nat
      BY <1>0, <1>3, <1>6, <1>9, <2>3 DEF Row
    <3> QED
      BY <1>12, <2>3, <3>1
  <2>4. CASE f \in published /\ e \in rows
    <3>1. e.seq \in Nat /\ f.seq \in Nat
      BY <1>0, <1>3, <1>6, <1>9, <2>4 DEF Row
    <3> QED
      BY <1>12, <2>4, <3>1
  <2> QED
    BY <1>5, <2>1, <2>2, <2>3, <2>4
<1>14. CommitOrder'
  <2> SUFFICES ASSUME NEW e \in published', NEW i \in 1..(e.id - 1)
               PROVE  \E f \in published' :
                        f.did = e.did /\ f.id = i /\ f.seq < e.seq
    BY DEF CommitOrder
  <2>1. CASE e \in published
    BY <1>5, <2>1 DEF IInv, CommitOrder
  <2>2. CASE e \in rows
    <3>1. e.did = d /\ e.id \in (s + 1)..hi /\ e.seq = lastSeq + (e.id - s)
      BY <1>6, <2>2
    <3>2. CASE i \in 1..s
      <4>1. PICK f \in published : f.did = d /\ f.id = i
        BY <1>0, <3>2 DEF IInv, StreamIsAccepted, s
      <4> QED
        BY <1>5, <1>12, <2>2, <3>1, <4>1
    <3>3. CASE i \in (s + 1)..hi
      <4>1. PICK f \in rows : f.did = d /\ f.id = i /\ f.seq = lastSeq + (i - s)
        BY <1>7, <3>3
      <4>2. i < e.id
        BY <1>0, <1>3, <3>1
      <4>3. f.seq < e.seq
        BY <1>0, <1>3, <3>1, <3>3, <4>1, <4>2
      <4> QED
        BY <1>5, <3>1, <4>1, <4>3
    <3> QED
      BY <1>0, <1>3, <3>1, <3>2, <3>3
  <2> QED
    BY <1>5, <2>1, <2>2
<1>15. events' \subseteq Row /\ published' \subseteq Row
  BY <1>0, <1>5, <1>6
<1> QED
  BY <1>3, <1>10, <1>11, <1>13, <1>14, <1>15 DEF d, hi

\* The sequencer executes a request that brings new ids, and survives or not.
LEMMA SequenceInvStep ==
  ASSUME IInv, NEW r \in requests, Sequence(r) \/ SequenceCrash(r),
         Pending(r.did, r.ids) # {}
  PROVE  IInv'
<1>0. StoreEvents(r.did, r.ids) /\ r.did \in Dids
  BY DEF Sequence, SequenceCrash, RpcSequence, RpcSequenceCrash, IInv, TypeOK,
     RepoTypeOK, Request
<1>1. /\ events' \subseteq Row /\ published' \subseteq Row
      /\ sources' \in [Dids -> Nat] /\ lastSeq' \in Nat
      /\ \A c \in Dids : sources[c] <= sources'[c]
      /\ sources'[r.did] = Accepted(r.did, r.ids)
      /\ sources'[r.did] <= lastId[r.did]
      /\ \A c \in Dids \ {r.did} : sources'[c] = sources[c]
      /\ StreamIsAccepted' /\ ExactlyOnce' /\ CommitOrder'
  BY <1>0, StoreStep
<1>2. /\ UNCHANGED repoVars
      /\ requests' \subseteq requests
      /\ replies' \subseteq replies \cup
           {[did |-> r.did, last |-> Accepted(r.did, r.ids)]}
  BY DEF Sequence, SequenceCrash
<1>3. TypeOK'
  <2>1. RepoTypeOK'
    <3>1. [did |-> r.did, last |-> Accepted(r.did, r.ids)] \in Reply
      BY <1>0, <1>1 DEF Reply
    <3> QED
      BY <1>2, <3>1 DEF IInv, TypeOK, RepoTypeOK, repoVars
  <2>2. pruneAlarm' \in Nat \cup {NoAlarm}
    BY SequencerAssumption DEF Sequence, SequenceCrash, RpcSequence, seqVars,
       RpcSequenceCrash, IInv, TypeOK, SeqTypeOK
  <2>3. sockets' \in [Subscribers -> Connection]
    <3>1. CASE DropSockets
      BY <3>1 DEF DropSockets, Offline, Connection
    <3>2. CASE Broadcast(Sequenced(r.did, r.ids))
      <4>1. Sequenced(r.did, r.ids) \subseteq published'
        BY <1>0 DEF StoreEvents
      <4>2. Seqs(Sequenced(r.did, r.ids)) \subseteq Nat
        BY <1>1, <4>1 DEF Seqs, Row
      <4>3. ASSUME NEW c \in Subscribers
            PROVE  [sockets[c] EXCEPT !.received =
                      @ \cup Seqs(Sequenced(r.did, r.ids))] \in Connection
        <5>1. sockets[c] \in Connection
          BY DEF IInv, TypeOK, SeqTypeOK
        <5> QED
          BY <4>2, <5>1 DEF Connection
      <4> QED
        BY <3>2, <4>3 DEF Broadcast, IInv, TypeOK, SeqTypeOK
    <3> QED
      BY <3>1, <3>2 DEF Sequence, SequenceCrash, RpcSequence, RpcSequenceCrash
  <2>4. UNCHANGED <<prunedThrough, now>>
    BY <1>0 DEF StoreEvents
  <2> QED
    BY <1>1, <2>1, <2>2, <2>3, <2>4 DEF IInv, TypeOK, SeqTypeOK
<1>4. OutboxIsSuffix'
  <2> SUFFICES ASSUME NEW c \in Dids
               PROVE  /\ sources'[c] <= lastId'[c]
                      /\ \E k \in 0..sources'[c] :
                           outbox'[c] = (k + 1)..lastId'[c]
    BY DEF OutboxIsSuffix
  <2>1. sources'[c] <= lastId[c] /\ sources[c] <= sources'[c]
        /\ sources[c] \in Nat /\ sources'[c] \in Nat
    BY <1>1 DEF IInv, OutboxIsSuffix, TypeOK, SeqTypeOK
  <2>2. PICK k \in 0..sources[c] : outbox[c] = (k + 1)..lastId[c]
    BY DEF IInv, OutboxIsSuffix
  <2>3. k \in 0..sources'[c]
    BY <2>1
  <2> QED
    BY <1>2, <2>1, <2>2, <2>3 DEF repoVars
<1>5. RequestsContiguous'
  <2> SUFFICES ASSUME NEW q \in requests
               PROVE  \E lo \in 1..(sources'[q.did] + 1) :
                        \E hi \in lo..lastId[q.did] : q.ids = lo..hi
    BY <1>2 DEF RequestsContiguous, repoVars
  <2>1. q.did \in Dids
    BY DEF IInv, TypeOK, RepoTypeOK, Request
  <2>2. /\ sources[q.did] <= sources'[q.did]
        /\ sources[q.did] \in Nat /\ sources'[q.did] \in Nat
    BY <1>1, <2>1 DEF IInv, TypeOK, SeqTypeOK
  <2>3. PICK lo \in 1..(sources[q.did] + 1) :
          \E hi \in lo..lastId[q.did] : q.ids = lo..hi
    BY DEF IInv, RequestsContiguous
  <2>4. lo \in 1..(sources'[q.did] + 1)
    BY <2>2
  <2> QED
    BY <2>3, <2>4
<1>6. RepliesAccepted'
  <2> SUFFICES ASSUME NEW q \in replies'
               PROVE  q.last <= sources'[q.did]
    BY DEF RepliesAccepted
  <2>1. CASE q \in replies
    <3>1. q.did \in Dids /\ q.last \in Nat /\ q.last <= sources[q.did]
      BY <2>1 DEF IInv, TypeOK, RepoTypeOK, Reply, RepliesAccepted
    <3>2. /\ sources[q.did] <= sources'[q.did]
          /\ sources[q.did] \in Nat /\ sources'[q.did] \in Nat
      BY <1>1, <3>1 DEF IInv, TypeOK, SeqTypeOK
    <3> QED
      BY <3>1, <3>2
  <2>2. CASE q = [did |-> r.did, last |-> Accepted(r.did, r.ids)]
    <3>1. sources'[r.did] \in Nat
      BY <1>0, <1>1
    <3> QED
      BY <1>1, <2>2, <3>1
  <2> QED
    BY <1>2, <2>1, <2>2
<1> QED
  BY <1>1, <1>3, <1>4, <1>5, <1>6 DEF IInv

\* A batch without new ids changes nothing and is answered with the last
\* accepted id.
LEMMA SkipInvStep ==
  ASSUME IInv, NEW r \in requests, Sequence(r) \/ SequenceCrash(r),
         Pending(r.did, r.ids) = {}
  PROVE  IInv'
<1>1. /\ UNCHANGED <<repoVars, seqVars>>
      /\ requests' \subseteq requests
      /\ replies' \subseteq replies \cup
           {[did |-> r.did, last |-> sources[r.did]]}
  BY DEF Sequence, SequenceCrash, RpcSequence, RpcSequenceCrash, Accepted
<1>2. r.did \in Dids /\ sources[r.did] \in Nat
  BY DEF IInv, TypeOK, RepoTypeOK, SeqTypeOK, Request
<1>3. TypeOK'
  <2>1. [did |-> r.did, last |-> sources[r.did]] \in Reply
    BY <1>2 DEF Reply
  <2> QED
    BY <1>1, <2>1 DEF IInv, TypeOK, RepoTypeOK, SeqTypeOK, repoVars, seqVars
<1>4. OutboxIsSuffix' /\ RequestsContiguous'
  BY <1>1 DEF IInv, OutboxIsSuffix, RequestsContiguous, repoVars, seqVars
<1>5. RepliesAccepted'
  BY <1>1, <1>2 DEF IInv, RepliesAccepted, seqVars
<1>6. StreamIsAccepted' /\ ExactlyOnce' /\ CommitOrder'
  BY <1>1 DEF IInv, StreamIsAccepted, ExactlyOnce, CommitOrder, seqVars
<1> QED
  BY <1>3, <1>4, <1>5, <1>6 DEF IInv

\* Subscribers, pruning and the clock leave the accepted events alone.
LEMMA InternalInvStep ==
  ASSUME IInv, SeqInternal, UNCHANGED <<repoVars, netVars>>
  PROVE  IInv'
<1>0. SeqTypeOK /\ RepoTypeOK /\ events \subseteq published
  BY DEF IInv, TypeOK, StreamIsAccepted
<1>1. UNCHANGED <<sources, lastSeq, published>>
  BY DEF SeqInternal, Fetch, FetchLive, StartClosing, Closed, SequencerLost,
     Prune, Tick, UnchangedStore
<1>2. PrunePoint \in Nat /\ Retained \subseteq events
  <2>1. Expired \subseteq events
    BY DEF Expired
  <2>2. \A n \in Seqs(Expired) : n \in Nat /\ n <= lastSeq
    BY <1>0, <2>1 DEF Seqs, SeqTypeOK, Row, IInv, StreamIsAccepted
  <2>3. Seqs(Expired) \in SUBSET Nat /\ IsFiniteSet(Seqs(Expired))
    BY <1>0, <2>2, FS_BoundedSetOfNaturals DEF SeqTypeOK
  <2>4. Expired # {} => Seqs(Expired) # {}
    BY DEF Seqs
  <2>5. Expired # {} => SetMax(Seqs(Expired)) \in Seqs(Expired)
    BY <2>3, <2>4, SetMaxIsMax
  <2> QED
    BY <1>0, <2>3, <2>5 DEF PrunePoint, Retained, SeqTypeOK
<1>3. /\ events' \subseteq events /\ prunedThrough' \in Nat
      /\ pruneAlarm' \in Nat \cup {NoAlarm} /\ now' \in Nat
  <2>1. CASE Prune
    <3>1. now + PruneInterval \in Nat
      BY <1>0 DEF SeqTypeOK
    <3> QED
      BY <1>0, <1>2, <2>1, <3>1 DEF Prune, SeqTypeOK
  <2>2. CASE Tick
    BY <1>0, <2>2 DEF Tick, SeqTypeOK
  <2>3. CASE UnchangedStore
    BY <1>0, <2>3 DEF UnchangedStore, SeqTypeOK
  <2> QED
    BY <2>1, <2>2, <2>3 DEF SeqInternal, Fetch, FetchLive, StartClosing,
       Closed, SequencerLost
<1>4. sockets' \in [Subscribers -> Connection]
  <2>0. sockets \in [Subscribers -> Connection] /\ Offline \in Connection
    BY <1>0 DEF SeqTypeOK, Offline, Connection
  <2>1. ASSUME NEW c \in Subscribers, NEW cursor \in 0..(lastSeq + 1),
               Fetch(c, cursor)
        PROVE  sockets' \in [Subscribers -> Connection]
    <3>1. cursor \in Nat
      BY <1>0 DEF SeqTypeOK
    <3>2. Seqs({e \in events : e.seq > cursor}) \in SUBSET Nat
      BY <1>0 DEF Seqs, SeqTypeOK, Row
    <3>3. Replay(cursor) \in Connection
      <4>1. [Offline EXCEPT !.state = "closing"] \in Connection
        BY DEF Offline, Connection
      <4>2. (cursor < prunedThrough) \in BOOLEAN
        OBVIOUS
      <4> HIDE DEF Seqs
      <4>3. [state |-> "open", from |-> cursor,
             outdated |-> cursor < prunedThrough,
             received |-> Seqs({e \in events : e.seq > cursor})] \in Connection
        BY <3>1, <3>2, <4>2 DEF Connection
      <4> QED
        BY <4>1, <4>3 DEF Replay
    <3> QED
      BY <2>0, <2>1, <3>3 DEF Fetch
  <2>2. ASSUME NEW c \in Subscribers, FetchLive(c)
        PROVE  sockets' \in [Subscribers -> Connection]
    <3>1. [Offline EXCEPT !.state = "open", !.from = lastSeq] \in Connection
      BY <1>0 DEF Offline, Connection, SeqTypeOK
    <3> QED
      BY <2>0, <2>2, <3>1 DEF FetchLive
  <2>3. ASSUME NEW c \in Subscribers, StartClosing(c)
        PROVE  sockets' \in [Subscribers -> Connection]
    <3>1. [sockets[c] EXCEPT !.state = "closing"] \in Connection
      BY <2>0 DEF Connection
    <3>2. sockets' = [sockets EXCEPT
                        ![c] = [sockets[c] EXCEPT !.state = "closing"]]
      BY <2>3 DEF StartClosing
    <3> QED
      BY <2>0, <3>1, <3>2
  <2>4. ASSUME NEW c \in Subscribers, Closed(c)
        PROVE  sockets' \in [Subscribers -> Connection]
    BY <2>0, <2>4 DEF Closed
  <2>5. CASE SequencerLost
    BY <2>0, <2>5 DEF SequencerLost, DropSockets
  <2>6. CASE Prune \/ Tick
    BY <2>0, <2>6 DEF Prune, Tick
  <2> QED
    BY <2>1, <2>2, <2>3, <2>4, <2>5, <2>6 DEF SeqInternal
<1>5. TypeOK'
  <2>1. RepoTypeOK'
    BY <1>0 DEF RepoTypeOK, repoVars, netVars
  <2>2. SeqTypeOK'
    BY <1>0, <1>1, <1>3, <1>4 DEF SeqTypeOK
  <2> QED
    BY <2>1, <2>2 DEF TypeOK
<1>6. OutboxIsSuffix' /\ RequestsContiguous' /\ RepliesAccepted'
  BY <1>1 DEF IInv, OutboxIsSuffix, RequestsContiguous, RepliesAccepted,
     repoVars, netVars
<1>7. StreamIsAccepted' /\ ExactlyOnce' /\ CommitOrder'
  BY <1>1, <1>3 DEF IInv, StreamIsAccepted, ExactlyOnce, CommitOrder
<1> QED
  BY <1>5, <1>6, <1>7 DEF IInv

-----------------------------------------------------------------------------
(* The theorems *)

LEMMA InitIInv == Init => IInv
<1> SUFFICES ASSUME Init
             PROVE  IInv
  OBVIOUS
<1>1. TypeOK
  <2>1. Offline \in Connection
    BY DEF Offline, Connection
  <2> QED
    BY <2>1 DEF Init, RepoInit, SeqInit, TypeOK, RepoTypeOK, SeqTypeOK
<1>2. OutboxIsSuffix
  <2> SUFFICES ASSUME NEW d \in Dids
               PROVE  /\ sources[d] <= lastId[d]
                      /\ \E k \in 0..sources[d] : outbox[d] = (k + 1)..lastId[d]
    BY DEF OutboxIsSuffix
  <2>1. sources[d] = 0 /\ lastId[d] = 0 /\ outbox[d] = {}
    BY DEF Init, RepoInit, SeqInit
  <2>2. 0 \in 0..sources[d] /\ outbox[d] = (0 + 1)..lastId[d]
    BY <2>1
  <2> QED
    BY <2>1, <2>2
<1>3. RequestsContiguous /\ RepliesAccepted
  BY DEF Init, RepoInit, RequestsContiguous, RepliesAccepted
<1>4. StreamIsAccepted /\ ExactlyOnce /\ CommitOrder
  BY DEF Init, SeqInit, StreamIsAccepted, ExactlyOnce, CommitOrder
<1> QED
  BY <1>1, <1>2, <1>3, <1>4 DEF IInv

LEMMA NextIInv == IInv /\ [Next]_vars => IInv'
<1> SUFFICES ASSUME IInv, [Next]_vars
             PROVE  IInv'
  OBVIOUS
<1>1. ASSUME NEW d \in Dids, RepoStep(d)
      PROVE  IInv'
  BY <1>1, RepoInvStep DEF RepoStep
<1>2. ASSUME NEW r \in requests, Sequence(r) \/ SequenceCrash(r)
      PROVE  IInv'
  BY <1>2, SequenceInvStep, SkipInvStep
<1>3. ASSUME SeqInternal, UNCHANGED <<repoVars, netVars>>
      PROVE  IInv'
  BY <1>3, InternalInvStep
<1>4. CASE UNCHANGED vars
  BY <1>4 DEF vars, repoVars, netVars, seqVars, IInv, TypeOK, RepoTypeOK,
     SeqTypeOK, OutboxIsSuffix, RequestsContiguous, RepliesAccepted,
     StreamIsAccepted, ExactlyOnce, CommitOrder
<1> QED
  BY <1>1, <1>2, <1>3, <1>4 DEF Next

LEMMA SpecIInv == Spec => []IInv
<1> QED
  BY InitIInv, NextIInv, PTL DEF Spec

\* Every variable keeps its type, whatever number of repositories, consumers
\* and events there are.
THEOREM TypeCorrect == Spec => []TypeOK
<1>1. IInv => TypeOK
  BY DEF IInv
<1> QED
  BY SpecIInv, <1>1, PTL

\* rpcSequence publishes an event once even if RepoDO sends its batch again
\* after a lost answer, a crash of either side, or behind a late first attempt.
THEOREM PublishedExactlyOnce == Spec => []ExactlyOnce
<1>1. IInv => ExactlyOnce
  BY DEF IInv
<1> QED
  BY SpecIInv, <1>1, PTL

\* The stream lists the events of a repository in the order it committed them,
\* without skipping one, whichever attempts brought them.
THEOREM PublishedInCommitOrder == Spec => []CommitOrder
<1>1. IInv => CommitOrder
  BY DEF IInv
<1> QED
  BY SpecIInv, <1>1, PTL

\* A committed event that has left the outbox is on the stream:
\* deleteOutboxThrough never deletes what rpcSequence did not store.
THEOREM NoEventLost == Spec => []NothingLost
<1>1. ASSUME IInv
      PROVE  NothingLost
  <2> SUFFICES ASSUME NEW d \in Dids, NEW i \in 1..lastId[d], i \notin outbox[d]
               PROVE  \E e \in published : e.did = d /\ e.id = i
    BY DEF NothingLost
  <2>1. PICK k \in 0..sources[d] : outbox[d] = (k + 1)..lastId[d]
    BY <1>1 DEF IInv, OutboxIsSuffix
  <2>2. sources[d] \in Nat /\ lastId[d] \in Nat
    BY <1>1 DEF IInv, TypeOK, RepoTypeOK, SeqTypeOK
  <2>3. i \in 1..sources[d]
    BY <2>1, <2>2
  <2> QED
    BY <1>1, <2>3 DEF IInv, StreamIsAccepted
<1> QED
  BY SpecIInv, <1>1, PTL

\* An event in the outbox always has an alarm, or a retried alarm invocation,
\* to deliver it: no interleaving of writes, alarms, failures and crashes
\* leaves it stranded.
THEOREM OutboxStaysArmed == Spec => []OutboxArmed
<1>1. Init => OutboxArmed
  BY DEF Init, RepoInit, OutboxArmed
<1>2. ASSUME TypeOK, OutboxArmed, [Next]_vars
      PROVE  OutboxArmed'
  <2>0. /\ outbox \in [Dids -> SUBSET Nat] /\ alarm \in [Dids -> BOOLEAN]
        /\ retry \in [Dids -> BOOLEAN]
    BY <1>2 DEF TypeOK, RepoTypeOK
  <2>1. ASSUME NEW d \in Dids, RepoNext(d)
        PROVE  OutboxArmed'
    <3>1. \A c \in Dids \ {d} : outbox'[c] = outbox[c] /\ alarm'[c] = alarm[c]
                                /\ retry'[c] = retry[c]
      BY <2>0, <2>1 DEF RepoNext, ApplyWrites, AnnounceAccount, Enqueue,
         FireAlarm, RunAlarm, StartDelivery, SendBatch, Acknowledge,
         FinishDelivery, ScheduleAlarm, FailDelivery, FinishAlarm, Crash, Restart
    <3>2. outbox'[d] # {} => alarm'[d] \/ retry'[d]
      <4>1. CASE ApplyWrites(d) \/ AnnounceAccount(d) \/ RunAlarm(d)
        BY <2>0, <4>1 DEF ApplyWrites, AnnounceAccount, RunAlarm, StartDelivery
      <4>2. CASE FireAlarm(d)
        BY <2>0, <4>2 DEF FireAlarm
      <4>3. CASE SendBatch(d) \/ FailDelivery(d)
        BY <1>2, <4>3 DEF SendBatch, FailDelivery, OutboxArmed
      <4>4. CASE Acknowledge(d)
        <5>1. outbox'[d] \subseteq outbox[d]
          BY <2>0, <4>4 DEF Acknowledge
        <5> QED
          BY <1>2, <4>4, <5>1 DEF Acknowledge, OutboxArmed
      <4>5. CASE FinishDelivery(d)
        BY <4>5 DEF FinishDelivery
      <4>6. CASE FinishAlarm(d)
        BY <2>0, <4>6 DEF FinishAlarm
      <4>7. CASE Crash(d)
        BY <1>2, <2>0, <4>7 DEF Crash, OutboxArmed
      <4>8. CASE Restart(d)
        BY <2>0, <4>8 DEF Restart
      <4> QED
        BY <2>1, <4>1, <4>2, <4>3, <4>4, <4>5, <4>6, <4>7, <4>8 DEF RepoNext
    <3> QED
      BY <1>2, <3>1, <3>2 DEF OutboxArmed
  <2>2. CASE UNCHANGED repoVars
    BY <1>2, <2>2 DEF OutboxArmed, repoVars
  <2> QED
    BY <1>2, <2>1, <2>2 DEF Next, RepoStep, Sequence, SequenceCrash, vars
<1> QED
  BY <1>1, <1>2, TypeCorrect, PTL DEF Spec

-----------------------------------------------------------------------------
(* Subscriptions *)

\* Pruning deletes events up to a seq that is no smaller than before.
LEMMA PrunePointStep ==
  ASSUME IInv, PrunedIsPrefix
  PROVE  /\ PrunePoint \in Nat /\ PrunePoint >= prunedThrough /\ PrunePoint <= lastSeq
         /\ Retained = {e \in published : e.seq > PrunePoint}
<1>1. /\ \A e \in events : e.seq \in Nat /\ e.seq <= lastSeq /\ e.seq > prunedThrough
      /\ prunedThrough \in Nat /\ lastSeq \in Nat
      /\ \A e \in published : e.seq \in Nat
  BY DEF IInv, TypeOK, SeqTypeOK, Row, StreamIsAccepted, PrunedIsPrefix
<1>2. CASE Expired = {}
  BY <1>1, <1>2 DEF PrunePoint, Retained, PrunedIsPrefix
<1>3. CASE Expired # {}
  <2>1. \A n \in Seqs(Expired) : \E e \in events : n = e.seq
    BY DEF Seqs, Expired
  <2>2. Seqs(Expired) \in SUBSET Nat /\ IsFiniteSet(Seqs(Expired))
    BY <1>1, <2>1, FS_BoundedSetOfNaturals
  <2>3. Seqs(Expired) # {}
    BY <1>3 DEF Seqs
  <2>4. PICK e \in events : PrunePoint = e.seq
    BY <1>3, <2>1, <2>2, <2>3, SetMaxIsMax DEF PrunePoint
  <2>5. Retained = {f \in events : f.seq > PrunePoint}
    BY <1>3 DEF Retained
  <2>6. \A f \in published : f.seq > PrunePoint => f.seq > prunedThrough
    BY <1>1, <2>4
  <2> QED
    BY <1>1, <2>4, <2>5, <2>6 DEF PrunedIsPrefix
<1> QED
  BY <1>2, <1>3

\* The events that a batch adds come after everything that was published.
LEMMA NewSeqs ==
  ASSUME IInv, NEW r \in requests, Pending(r.did, r.ids) # {},
         StoreEvents(r.did, r.ids)
  PROVE  /\ lastSeq \in Nat /\ lastSeq' \in Nat /\ lastSeq <= lastSeq'
         /\ \A e \in Sequenced(r.did, r.ids) : e.seq \in Nat /\ e.seq > lastSeq
<1> DEFINE d == r.did
           s == sources[d]
           hi == Accepted(d, r.ids)
           rows == Sequenced(d, r.ids)
<1>1. lastSeq \in Nat /\ lastSeq' = lastSeq + Cardinality(Pending(d, r.ids))
  BY DEF StoreEvents, IInv, TypeOK, SeqTypeOK
<1> HIDE DEF hi, rows, s
<1>2. /\ s \in Nat /\ hi \in Nat /\ s < hi
      /\ Cardinality(Pending(d, r.ids)) = hi - s
      /\ \A e \in rows : e.id \in (s + 1)..hi /\ e.seq = lastSeq + (e.id - s)
  <2>1. d = r.did /\ s = sources[d] /\ hi = Accepted(d, r.ids) /\ rows = Sequenced(d, r.ids)
    BY DEF s, hi, rows
  <2> QED
    BY <2>1, SequencedRows
<1>3. \A e \in rows : e.seq \in Nat /\ e.seq > lastSeq
  BY <1>1, <1>2
<1> QED
  BY <1>1, <1>2, <1>3 DEF rows

LEMMA PrunedStep ==
  ASSUME IInv, PrunedIsPrefix, [Next]_vars
  PROVE  PrunedIsPrefix'
<1>0. /\ prunedThrough \in Nat /\ lastSeq \in Nat
      /\ \A e \in published : e.seq \in Nat
  BY DEF IInv, TypeOK, SeqTypeOK, Row
<1>1. ASSUME NEW r \in requests, Pending(r.did, r.ids) # {}, StoreEvents(r.did, r.ids)
      PROVE  PrunedIsPrefix'
  <2> DEFINE rows == Sequenced(r.did, r.ids)
  <2>1. /\ lastSeq' \in Nat /\ lastSeq <= lastSeq'
        /\ \A e \in rows : e.seq \in Nat /\ e.seq > lastSeq
    BY <1>1, NewSeqs
  <2>2. /\ events' = events \cup rows /\ published' = published \cup rows
        /\ UNCHANGED prunedThrough
    BY <1>1 DEF StoreEvents
  <2> HIDE DEF rows
  <2>3. prunedThrough' <= lastSeq'
    BY <1>0, <2>1, <2>2 DEF PrunedIsPrefix
  <2>4. \A e \in rows : e.seq > prunedThrough
    BY <1>0, <2>1 DEF PrunedIsPrefix
  <2> QED
    BY <2>2, <2>3, <2>4 DEF PrunedIsPrefix
<1>2. CASE Prune
  BY <1>2, PrunePointStep DEF Prune, PrunedIsPrefix
<1>3. CASE UNCHANGED <<lastSeq, events, prunedThrough, published>>
  BY <1>3 DEF PrunedIsPrefix
<1> QED
  BY <1>1, <1>2, <1>3 DEF Next, vars, seqVars, RepoStep, Sequence, SequenceCrash, RpcSequence,
     RpcSequenceCrash, SeqInternal, Fetch, FetchLive, StartClosing, Closed, SequencerLost, Tick,
     UnchangedStore

\* A connection that is replayed is sent what is retained after its cursor, and is told when
\* something after it has been pruned; one that is open is sent what is added.
LEMMA NoGapStep ==
  ASSUME IInv, PrunedIsPrefix, NoSilentGap, [Next]_vars
  PROVE  NoSilentGap'
<1>0. /\ prunedThrough \in Nat /\ lastSeq \in Nat
      /\ \A e \in published : e.seq \in Nat /\ e.seq <= lastSeq
      /\ sockets \in [Subscribers -> Connection]
  BY DEF IInv, TypeOK, SeqTypeOK, Row, StreamIsAccepted
<1>1. ASSUME NEW r \in requests, Pending(r.did, r.ids) # {}, StoreEvents(r.did, r.ids),
             Broadcast(Sequenced(r.did, r.ids))
      PROVE  NoSilentGap'
  <2> DEFINE rows == Sequenced(r.did, r.ids)
  <2>1. \A e \in rows : e.seq \in Seqs(rows)
    BY DEF Seqs
  <2>2. published' = published \cup rows
    BY <1>1 DEF StoreEvents
  <2>3. \A c \in Subscribers :
          /\ sockets'[c].state = sockets[c].state /\ sockets'[c].from = sockets[c].from
          /\ sockets'[c].outdated = sockets[c].outdated
          /\ sockets[c].received \subseteq sockets'[c].received
          /\ sockets[c].state = "open" => Seqs(rows) \subseteq sockets'[c].received
    <3> HIDE DEF rows
    <3>1. Broadcast(rows)
      BY <1>1 DEF rows
    <3> QED
      BY <1>0, <3>1 DEF Broadcast, Connection
  <2> HIDE DEF rows
  <2> QED
    BY <2>1, <2>2, <2>3 DEF NoSilentGap
<1>2. CASE DropSockets
  BY <1>2 DEF DropSockets, Offline, NoSilentGap
<1>3. ASSUME NEW c \in Subscribers, NEW cursor \in 0..(lastSeq + 1), Fetch(c, cursor)
      PROVE  NoSilentGap'
  <2>1. published' = published
    BY <1>3 DEF Fetch, UnchangedStore
  <2>2. \A b \in Subscribers \ {c} : sockets'[b] = sockets[b]
    BY <1>0, <1>3 DEF Fetch
  <2>3. sockets'[c] = Replay(cursor)
    BY <1>0, <1>3 DEF Fetch
  <2>4. ASSUME Replay(cursor).state = "open", ~ Replay(cursor).outdated,
               NEW e \in published, e.seq > Replay(cursor).from
        PROVE  e.seq \in Replay(cursor).received
    <3>1. ~ (cursor > lastSeq)
      BY <2>4 DEF Replay, Offline
    <3>2. ~ (cursor < prunedThrough) /\ e.seq > cursor
          /\ Replay(cursor).received = Seqs({f \in events : f.seq > cursor})
      BY <2>4, <3>1 DEF Replay
    <3>3. e \in events
      BY <1>0, <3>2 DEF PrunedIsPrefix
    <3> QED
      BY <3>2, <3>3 DEF Seqs
  <2> QED
    BY <2>1, <2>2, <2>3, <2>4 DEF NoSilentGap
<1>4. ASSUME NEW c \in Subscribers, FetchLive(c)
      PROVE  NoSilentGap'
  <2>1. published' = published
    BY <1>4 DEF FetchLive, UnchangedStore
  <2>2. sockets'[c].from = lastSeq /\ \A b \in Subscribers \ {c} : sockets'[b] = sockets[b]
    BY <1>0, <1>4 DEF FetchLive, Offline
  <2> QED
    BY <1>0, <2>1, <2>2 DEF NoSilentGap
<1>5. ASSUME NEW c \in Subscribers, StartClosing(c) \/ Closed(c)
      PROVE  NoSilentGap'
  <2>1. published' = published
    BY <1>5 DEF StartClosing, Closed, UnchangedStore
  <2>2. sockets'[c].state # "open" /\ \A b \in Subscribers \ {c} : sockets'[b] = sockets[b]
    BY <1>0, <1>5 DEF StartClosing, Closed, Offline, Connection
  <2> QED
    BY <2>1, <2>2 DEF NoSilentGap
<1>6. CASE UNCHANGED <<sockets, published>>
  BY <1>6 DEF NoSilentGap
<1>7. ASSUME NEW r \in requests, Sequence(r) \/ SequenceCrash(r)
      PROVE  NoSilentGap'
  BY <1>1, <1>2, <1>6, <1>7 DEF Sequence, SequenceCrash, RpcSequence, RpcSequenceCrash, seqVars
<1>8. CASE SeqInternal
  BY <1>2, <1>3, <1>4, <1>5, <1>6, <1>8 DEF SeqInternal, SequencerLost, Prune, Tick
<1>9. CASE UNCHANGED vars \/ \E d \in Dids : RepoStep(d)
  BY <1>6, <1>9 DEF RepoStep, vars, seqVars
<1> QED
  BY <1>7, <1>8, <1>9 DEF Next

\* A consumer that was not told OutdatedCursor holds every event after the position it asked
\* for: replay, broadcast, pruning, reconnection and the loss of the instance leave no gap.
THEOREM SubscribersMissNothing == Spec => []NoSilentGap
<1>1. Init => PrunedIsPrefix /\ NoSilentGap
  BY DEF Init, SeqInit, PrunedIsPrefix, NoSilentGap, Offline
<1>2. IInv /\ PrunedIsPrefix /\ NoSilentGap /\ [Next]_vars => PrunedIsPrefix' /\ NoSilentGap'
  BY PrunedStep, NoGapStep
<1> QED
  BY <1>1, <1>2, SpecIInv, PTL DEF Spec

\* rpcSequence takes the next seqs from the stored lastSeq, so that a seq names one event for
\* ever, also after its row was pruned.
THEOREM SeqsNameOneEvent == Spec => []SeqNeverReused
<1>1. IInv => SeqNeverReused
  BY DEF IInv, ExactlyOnce, StreamIsAccepted, SeqNeverReused, TypeOK, SeqTypeOK
<1> QED
  BY SpecIInv, <1>1, PTL

-----------------------------------------------------------------------------
(* The refinement of EventLog *)

LEMMA EverySeqStep ==
  ASSUME IInv, EverySeqNamesAnEvent, [Next]_vars
  PROVE  EverySeqNamesAnEvent'
<1>1. ASSUME NEW r \in requests, Pending(r.did, r.ids) # {}, StoreEvents(r.did, r.ids)
      PROVE  EverySeqNamesAnEvent'
  <2> DEFINE d == r.did
             s == sources[d]
             hi == Accepted(d, r.ids)
             rows == Sequenced(d, r.ids)
  <2>1. /\ published' = published \cup rows
        /\ lastSeq' = lastSeq + Cardinality(Pending(d, r.ids))
    BY <1>1 DEF StoreEvents
  <2> HIDE DEF hi, rows, s
  <2>2. /\ s \in Nat /\ hi \in Nat /\ s < hi
        /\ Cardinality(Pending(d, r.ids)) = hi - s
        /\ \A i \in (s + 1)..hi : \E e \in rows : e.seq = lastSeq + (i - s)
    <3>1. d = r.did /\ s = sources[d] /\ hi = Accepted(d, r.ids) /\ rows = Sequenced(d, r.ids)
      BY DEF s, hi, rows
    <3> QED
      BY <1>1, <3>1, SequencedRows
  <2>3. lastSeq \in Nat
    BY DEF IInv, TypeOK, SeqTypeOK
  <2> SUFFICES ASSUME NEW n \in 1..lastSeq'
               PROVE  \E e \in published' : e.seq = n
    BY DEF EverySeqNamesAnEvent
  <2>4. CASE n <= lastSeq
    BY <2>1, <2>2, <2>3, <2>4 DEF EverySeqNamesAnEvent
  <2>5. CASE n > lastSeq
    <3>1. s + (n - lastSeq) \in (s + 1)..hi
      BY <2>1, <2>2, <2>3, <2>5
    <3>2. PICK e \in rows : e.seq = lastSeq + ((s + (n - lastSeq)) - s)
      BY <2>2, <3>1
    <3>3. e.seq = n
      BY <2>1, <2>2, <2>3, <3>2
    <3> QED
      BY <2>1, <3>3
  <2> QED
    BY <2>1, <2>2, <2>3, <2>4, <2>5
<1>2. CASE UNCHANGED <<lastSeq, published>>
  BY <1>2 DEF EverySeqNamesAnEvent
<1> QED
  BY <1>1, <1>2 DEF Next, vars, seqVars, RepoStep, Sequence, SequenceCrash, RpcSequence,
     RpcSequenceCrash, SeqInternal, Fetch, FetchLive, StartClosing, Closed, SequencerLost, Tick,
     Prune, UnchangedStore

StreamOf(rows, n) ==
  [k \in 1..n |-> LET e == CHOOSE e \in rows : e.seq = k IN [did |-> e.did, id |-> e.id]]

\* Every seq up to n is that of one row, and no row has another seq.
RowsNumbered(rows, n) ==
  /\ rows \subseteq Row /\ n \in Nat
  /\ \A k \in 1..n : \E e \in rows : e.seq = k
  /\ \A e \in rows : e.seq \in 1..n
  /\ \A e, f \in rows : e.seq = f.seq => e = f

\* The sequence has each row at the position of its seq.
Lists(stream, rows, n) ==
  /\ stream \in Seq([did : Dids, id : Nat]) /\ Len(stream) = n
  /\ \A e \in rows : stream[e.seq] = [did |-> e.did, id |-> e.id]

LEMMA StreamOfRows ==
  ASSUME NEW rows, NEW n, RowsNumbered(rows, n)
  PROVE  Lists(StreamOf(rows, n), rows, n)
<1> DEFINE stream == StreamOf(rows, n)
<1> USE DEF RowsNumbered
<1>0. DOMAIN stream = 1..n /\ stream = [k \in 1..n |-> stream[k]]
  BY DEF StreamOf
<1>1. ASSUME NEW e \in rows
      PROVE  stream[e.seq] = [did |-> e.did, id |-> e.id]
  <2>1. (CHOOSE f \in rows : f.seq = e.seq) = e
    OBVIOUS
  <2> QED
    BY <2>1 DEF stream, StreamOf
<1> HIDE DEF stream
<1>2. \A k \in 1..n : stream[k] \in [did : Dids, id : Nat]
  <2> SUFFICES ASSUME NEW k \in 1..n
               PROVE  stream[k] \in [did : Dids, id : Nat]
    OBVIOUS
  <2>1. PICK e \in rows : e.seq = k
    OBVIOUS
  <2>2. stream[k] = [did |-> e.did, id |-> e.id]
    BY <1>1, <2>1
  <2>3. e.did \in Dids /\ e.id \in Nat
    BY DEF Row
  <2> QED
    BY <2>2, <2>3
<1>3. stream \in [1..n -> [did : Dids, id : Nat]]
  BY <1>0, <1>2
<1>4. stream \in Seq([did : Dids, id : Nat])
  <2> DEFINE item == [did : Dids, id : Nat]
  <2>1. stream \in [1..n -> item]
    BY <1>3
  <2> HIDE DEF item
  <2>2. stream \in Seq(item)
    BY <2>1
  <2> QED
    BY <2>2 DEF item
<1>5. Len(stream) = n
  <2>1. n \in Nat /\ DOMAIN stream = 1..n
    BY <1>0
  <2> QED
    BY ONLY <1>4, <2>1, LenProperties
<1> QED
  BY <1>1, <1>4, <1>5 DEF stream, Lists

\* The stream of the sequencer: each accepted event is at the position of its seq.
LEMMA StreamFacts ==
  ASSUME IInv, EverySeqNamesAnEvent
  PROVE  Lists(Stream, published, lastSeq)
<1>1. RowsNumbered(published, lastSeq)
  BY DEF IInv, TypeOK, SeqTypeOK, StreamIsAccepted, ExactlyOnce, EverySeqNamesAnEvent,
     RowsNumbered
<1>2. Stream = StreamOf(published, lastSeq)
  BY DEF Stream, StreamOf
<1> QED
  BY ONLY <1>1, <1>2, StreamOfRows

LEMMA StreamFactsNext ==
  ASSUME IInv', EverySeqNamesAnEvent'
  PROVE  Lists(Stream', published', lastSeq')
<1>1. RowsNumbered(published', lastSeq')
  BY DEF IInv, TypeOK, SeqTypeOK, StreamIsAccepted, ExactlyOnce, EverySeqNamesAnEvent,
     RowsNumbered
<1>2. Stream' = StreamOf(published', lastSeq')
  BY DEF Stream, StreamOf
<1> QED
  BY ONLY <1>1, <1>2, StreamOfRows

\* How many events of a repository are on the stream: those that were accepted.
LEMMA DoneIsAccepted ==
  ASSUME IInv, EverySeqNamesAnEvent, NEW d \in Dids
  PROVE  Log!Done(d) = sources[d]
<1> DEFINE places == {n \in DOMAIN Stream : Stream[n].did = d}
           f == [i \in 1..sources[d] |->
                   CHOOSE n \in 1..lastSeq : Stream[n] = [did |-> d, id |-> i]]
<1>1. /\ DOMAIN Stream = 1..lastSeq
      /\ \A e \in published : Stream[e.seq] = [did |-> e.did, id |-> e.id]
  BY StreamFacts DEF Lists
<1>2. /\ \A e \in published : e.seq \in 1..lastSeq /\ e.id \in 1..sources[e.did]
      /\ \A i \in 1..sources[d] : \E e \in published : e.did = d /\ e.id = i
      /\ \A n \in 1..lastSeq : \E e \in published : e.seq = n
      /\ \A a, b \in published : a.did = b.did /\ a.id = b.id => a = b
      /\ sources[d] \in Nat
  BY DEF IInv, TypeOK, SeqTypeOK, StreamIsAccepted, ExactlyOnce, EverySeqNamesAnEvent
<1> HIDE DEF Stream
<1>3. \A i \in 1..sources[d] : f[i] \in 1..lastSeq /\ Stream[f[i]] = [did |-> d, id |-> i]
  <2> SUFFICES ASSUME NEW i \in 1..sources[d]
               PROVE  f[i] \in 1..lastSeq /\ Stream[f[i]] = [did |-> d, id |-> i]
    OBVIOUS
  <2>1. \E n \in 1..lastSeq : Stream[n] = [did |-> d, id |-> i]
    BY <1>1, <1>2
  <2> QED
    BY <2>1
<1>4. \A m, n \in 1..lastSeq : Stream[m] = Stream[n] => m = n
  <2> SUFFICES ASSUME NEW m \in 1..lastSeq, NEW n \in 1..lastSeq, Stream[m] = Stream[n]
               PROVE  m = n
    OBVIOUS
  <2>1. PICK a \in published : a.seq = m
    BY <1>2
  <2>2. PICK b \in published : b.seq = n
    BY <1>2
  <2>3. [did |-> a.did, id |-> a.id] = [did |-> b.did, id |-> b.id]
    BY <1>1, <2>1, <2>2
  <2> QED
    BY <1>2, <2>1, <2>2, <2>3
<1>5. \A n \in places : \E i \in 1..sources[d] : f[i] = n
  <2> SUFFICES ASSUME NEW n \in places
               PROVE  \E i \in 1..sources[d] : f[i] = n
    OBVIOUS
  <2>1. n \in 1..lastSeq /\ Stream[n].did = d
    BY <1>1
  <2>2. PICK e \in published : e.seq = n
    BY <1>2, <2>1
  <2>3. Stream[n] = [did |-> e.did, id |-> e.id]
    BY <1>1, <2>2
  <2>4. e.did = d /\ e.id \in 1..sources[d]
    BY <1>2, <2>1, <2>3
  <2>5. f[e.id] \in 1..lastSeq /\ Stream[f[e.id]] = Stream[n]
    BY <1>3, <2>3, <2>4
  <2> HIDE DEF f
  <2> QED
    BY <1>4, <2>1, <2>4, <2>5
<1>6. f \in [1..sources[d] -> places]
  <2>1. \A i \in 1..sources[d] : f[i] \in places
    <3> HIDE DEF f
    <3> TAKE i \in 1..sources[d]
    <3>1. f[i] \in DOMAIN Stream /\ Stream[f[i]] = [did |-> d, id |-> i]
      BY <1>1, <1>3
    <3>2. Stream[f[i]].did = d
      BY <3>1
    <3> QED
      BY <3>1, <3>2
  <2> QED
    BY <2>1
<1>7. \A i, j \in 1..sources[d] : f[i] = f[j] => i = j
  BY <1>3
<1> HIDE DEF f, places
<1>8. ExistsBijection(1..sources[d], places)
  BY <1>5, <1>6, <1>7 DEF ExistsBijection, Bijection, Injection, Surjection, IsInjective
<1>9. IsFiniteSet(1..sources[d]) /\ Cardinality(1..sources[d]) = sources[d]
  BY <1>2, FS_Interval
<1> QED
  <2>1. Cardinality(places) = sources[d]
    BY <1>8, <1>9, FS_Bijection
  <2>2. Log!Cardinality(places) = Cardinality(places)
    BY DEF Log!Cardinality, Cardinality
  <2> QED
    BY <2>1, <2>2 DEF Log!Done, places

\* What a batch adds is the next events of its repository, in order, after the
\* events already on the stream.
LEMMA StoreExtends ==
  ASSUME IInv, EverySeqNamesAnEvent, IInv', EverySeqNamesAnEvent',
         NEW r \in requests, Pending(r.did, r.ids) # {}, StoreEvents(r.did, r.ids),
         NEW d, d = r.did, NEW n, n = Accepted(d, r.ids) - sources[d]
  PROVE  /\ d \in Dids /\ n \in 1..(lastId[d] - sources[d])
         /\ Stream' = Stream \o [i \in 1..n |-> [did |-> d, id |-> sources[d] + i]]
<1> DEFINE hi == Accepted(d, r.ids)
           s == sources[d]
           rows == Sequenced(d, r.ids)
           added == [i \in 1..n |-> [did |-> d, id |-> s + i]]
<1>1. /\ d \in Dids /\ s \in Nat /\ hi \in Nat /\ hi <= lastId[d] /\ s < hi
      /\ Cardinality(Pending(d, r.ids)) = hi - s
      /\ \A i \in (s + 1)..hi : \E e \in rows :
           e.did = d /\ e.id = i /\ e.seq = lastSeq + (i - s)
  BY SequencedRows
<1>2. /\ published' = published \cup rows
      /\ lastSeq' = lastSeq + Cardinality(Pending(d, r.ids))
  BY DEF StoreEvents
<1>3. lastSeq \in Nat /\ lastId[d] \in Nat
  BY <1>1 DEF IInv, TypeOK, SeqTypeOK, RepoTypeOK
<1> HIDE DEF hi, s, rows
<1>4. n = hi - s /\ n \in 1..(lastId[d] - s) /\ lastSeq' = lastSeq + n
  BY <1>1, <1>2, <1>3 DEF hi, s
<1>5. Lists(Stream, published, lastSeq) /\ Lists(Stream', published', lastSeq')
  BY StreamFacts, StreamFactsNext
<1> DEFINE item == [did : Dids, id : Nat]
<1>6. added \in Seq(item) /\ Len(added) = n /\ \A i \in 1..n : added[i] = [did |-> d, id |-> s + i]
  <2>1. added \in [1..n -> item] /\ n \in Nat
    BY <1>1, <1>4
  <2> HIDE DEF item
  <2>2. added \in Seq(item) /\ Len(added) = n
    BY <2>1, LenProperties
  <2>3. \A i \in 1..n : added[i] = [did |-> d, id |-> s + i]
    OBVIOUS
  <2> QED
    BY <2>2, <2>3
<1>7. /\ Stream \in Seq(item) /\ Len(Stream) = lastSeq
      /\ Stream' \in Seq(item) /\ Len(Stream') = lastSeq + n
      /\ \A e \in published : Stream[e.seq] = [did |-> e.did, id |-> e.id]
      /\ \A e \in published' : Stream'[e.seq] = [did |-> e.did, id |-> e.id]
  BY <1>4, <1>5 DEF Lists
<1> HIDE DEF added, item
<1>8. ASSUME NEW k \in 1..(lastSeq + n)
      PROVE  Stream'[k] = (Stream \o added)[k]
  <2>1. CASE k <= lastSeq
    <3>1. PICK e \in published : e.seq = k
      BY <1>3, <1>4, <2>1 DEF EverySeqNamesAnEvent
    <3>2. Stream'[k] = Stream[k]
      BY <1>2, <1>7, <3>1
    <3>3. (Stream \o added)[k] = Stream[k]
      BY <1>3, <1>4, <1>6, <1>7, <2>1, ConcatProperties
    <3> QED
      BY <3>2, <3>3
  <2>2. CASE k > lastSeq
    <3>1. k - lastSeq \in 1..n /\ s + (k - lastSeq) \in (s + 1)..hi
      BY <1>1, <1>3, <1>4, <2>2
    <3>2. PICK e \in rows : /\ e.did = d /\ e.id = s + (k - lastSeq)
                           /\ e.seq = lastSeq + ((s + (k - lastSeq)) - s)
      BY <1>1, <3>1
    <3>3. e.seq = k
      BY <1>1, <1>3, <1>4, <3>2
    <3>4. Stream'[k] = [did |-> d, id |-> s + (k - lastSeq)]
      <4>1. e \in published'
        BY <1>2
      <4>2. Stream'[e.seq] = [did |-> e.did, id |-> e.id]
        BY <1>7, <4>1
      <4> QED
        BY <3>2, <3>3, <4>2
    <3>5. (Stream \o added)[k] = added[k - lastSeq]
      <4>1. /\ Stream \in Seq(item) /\ added \in Seq(item) /\ Len(Stream) = lastSeq
            /\ Len(added) = n
        BY <1>6, <1>7
      <4>2. /\ k \in 1..(Len(Stream) + Len(added)) /\ ~ (k <= Len(Stream))
        BY <1>3, <1>4, <2>2, <4>1
      <4>3. (Stream \o added)[k] = added[k - Len(Stream)]
        BY ONLY <4>1, <4>2, ConcatProperties
      <4> QED
        BY <4>1, <4>3
    <3> QED
      BY <1>6, <3>1, <3>4, <3>5
  <2>3. k <= lastSeq \/ k > lastSeq
    <3>1. lastSeq \in Nat /\ n \in Nat
      BY <1>3, <1>4
    <3> QED
      BY ONLY <3>1, k \in 1..(lastSeq + n)
  <2> QED
    BY ONLY <2>1, <2>2, <2>3
<1>9. Stream' = Stream \o added
  <2>1. Stream \o added \in Seq(item) /\ Len(Stream \o added) = lastSeq + n
    BY <1>6, <1>7, ConcatProperties
  <2> QED
    BY ONLY <1>7, <1>8, <2>1, SeqEqual
<1> QED
  BY <1>1, <1>4, <1>9 DEF s, added

\* What a step does to the log.
LEMMA LogStep ==
  ASSUME IInv, EverySeqNamesAnEvent, IInv', EverySeqNamesAnEvent', [Next]_vars
  PROVE  [Log!Next]_(Log!vars)
<1> SUFFICES ASSUME <<lastId, Stream>>' # <<lastId, Stream>>
             PROVE  Log!Next
  BY DEF Log!vars
<1>1. ASSUME NEW r \in requests, Pending(r.did, r.ids) # {},
             StoreEvents(r.did, r.ids), UNCHANGED lastId
      PROVE  Log!Next
  <2> DEFINE d == r.did
             n == Accepted(d, r.ids) - sources[d]
  <2>1. d = r.did /\ n = Accepted(d, r.ids) - sources[d]
    OBVIOUS
  <2> HIDE DEF d, n
  <2>2. /\ d \in Dids /\ n \in 1..(lastId[d] - sources[d])
        /\ Stream' = Stream \o [i \in 1..n |-> [did |-> d, id |-> sources[d] + i]]
    BY ONLY <1>1, <2>1, StoreExtends, IInv, EverySeqNamesAnEvent, IInv', EverySeqNamesAnEvent'
  <2>3. Log!Done(d) = sources[d]
    BY <2>2, DoneIsAccepted
  <2>4. Log!Publish(d)
    BY <1>1, <2>2, <2>3 DEF Log!Publish
  <2> QED
    BY <2>2, <2>4 DEF Log!Next
<1>2. ASSUME NEW d \in Dids, RepoStep(d)
      PROVE  Log!Next
  <2>1. Stream' = Stream
    BY <1>2 DEF RepoStep, seqVars, Stream
  <2>2. \E k \in {1, 3} : lastId' = [lastId EXCEPT ![d] = @ + k]
    <3>1. lastId' # lastId
      BY <2>1
    <3> QED
      BY <1>2, <3>1 DEF RepoStep, RepoNext, ApplyWrites, AnnounceAccount, Enqueue, FireAlarm, RunAlarm,
         SendBatch, Acknowledge, FinishDelivery, FailDelivery, FinishAlarm, Crash, Restart
  <2>3. Log!Commit(d)
    BY <2>1, <2>2 DEF Log!Commit
  <2> QED
    BY <2>3 DEF Log!Next
<1>3. ~ UNCHANGED <<lastId, lastSeq, published>>
  BY DEF Stream
<1>4. CASE \E d \in Dids : RepoStep(d)
  BY <1>2, <1>4
<1>5. CASE \E r \in requests : Sequence(r) \/ SequenceCrash(r)
  BY <1>1, <1>3, <1>5 DEF Sequence, SequenceCrash, RpcSequence, RpcSequenceCrash, seqVars, repoVars
<1>6. CASE SeqInternal /\ UNCHANGED <<repoVars, netVars>>
  BY <1>3, <1>6 DEF repoVars, SeqInternal, Fetch, FetchLive, StartClosing, Closed, SequencerLost,
     Tick, Prune, UnchangedStore
<1>7. CASE UNCHANGED vars
  BY <1>3, <1>7 DEF vars, repoVars, seqVars
<1> QED
  BY <1>4, <1>5, <1>6, <1>7 DEF Next

\* The outboxes and the sequencer together implement the log the PDS promises:
\* every repository's events in its order, each once, and nothing else, whatever
\* is lost, late or sent again on the way.
THEOREM FirehoseImplementsLog == Spec => ImplementsLog
<1>1. Init => Log!Init /\ EverySeqNamesAnEvent
  <2> SUFFICES ASSUME Init PROVE Log!Init /\ EverySeqNamesAnEvent
    OBVIOUS
  <2>1. lastSeq = 0 /\ 1..lastSeq = {}
    BY DEF Init, SeqInit
  <2>2. Stream = <<>>
    BY <2>1 DEF Stream
  <2> QED
    BY <2>1, <2>2 DEF Init, RepoInit, Log!Init, EverySeqNamesAnEvent
<1>2. IInv /\ EverySeqNamesAnEvent /\ [Next]_vars => EverySeqNamesAnEvent'
  BY EverySeqStep
<1>3. Spec => [](IInv /\ EverySeqNamesAnEvent)
  BY <1>1, <1>2, SpecIInv, PTL DEF Spec
<1>4. /\ IInv /\ EverySeqNamesAnEvent /\ IInv' /\ EverySeqNamesAnEvent' /\ [Next]_vars
      => [Log!Next]_(Log!vars)
  BY LogStep
<1> QED
  BY <1>1, <1>3, <1>4, PTL DEF Spec, ImplementsLog, Log!Spec
=============================================================================
