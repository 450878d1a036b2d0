-------------------------- MODULE BlockReclaimProofs --------------------------
EXTENDS BlockReclaim, SequenceTheorems, TLAPS

USE TreeAssumption, TimeAssumption

-----------------------------------------------------------------------------
(* The inductive invariant *)

\* A stored block that the current tree does not reach is a candidate
\* (repo-do.ts 444).
GarbageListed == DOMAIN blocks \ Current \subseteq DOMAIN removed

\* A stored block has been in every tree from its revision to the last one it
\* is in: if it left and came back, it was stored again.
RevisionBacked ==
  \A b \in DOMAIN blocks : \A m, n \in blocks[b]..Rev :
    m <= n /\ b \in TreeAt(n) => b \in TreeAt(m)

\* The blocks an item of todo stands for.
Reach(item) == IF item[1] = "commit" THEN {item[2]} ELSE Below[item[2]]

\* Items of the tree at q.
Within(q) == {item \in Item : Reach(item) \subseteq TreeAt(q)}

\* A stream within the grace period finds every block of its tree: what has
\* left the current tree left it since the stream started.
StreamCovered(rd) ==
  rd.state = "reading" =>
    /\ rd.todo # <<>> /\ rd.todo \in Seq(Within(rd.rev))
    /\ rd.age < GracePeriod =>
         \A b \in TreeAt(rd.rev) :
           /\ b \in DOMAIN blocks
           /\ b \in Current \/ (b \in DOMAIN removed /\ removed[b] <= rd.age)

IInv ==
  /\ TypeOK
  /\ CurrentStored
  /\ GarbageListed
  /\ RevisionBacked
  /\ \A r \in Readers : StreamCovered(readers[r])
  /\ ReadsWithinGrace

-----------------------------------------------------------------------------
(* The tables *)

\* A commit leaves the trees of earlier revisions alone and adds one.
LEMMA TreesAppended ==
  ASSUME TablesTypeOK, NEW root \in Roots, roots' = Append(roots, root),
         Rev < MaxRev
  PROVE  /\ Rev' = Rev + 1 /\ roots' \in Seq(Roots) /\ Rev' \in Revs
         /\ \A q \in 1..Rev : TreeAt(q)' = TreeAt(q)
         /\ Current' = Below[root] \cup {Rev + 1}
         /\ Current = Below[roots[Rev]] \cup {Rev}
         /\ roots[Rev] \in Nodes
<1>0. roots \in Seq(Roots) /\ Rev \in 1..MaxRev /\ Rev = Len(roots)
  BY DEF TablesTypeOK, Rev, Revs
<1>1. /\ Len(roots') = Rev + 1 /\ roots'[Rev + 1] = root
      /\ \A q \in 1..Rev : roots'[q] = roots[q]
      /\ roots' \in Seq(Roots)
  BY <1>0
<1>2. roots[Rev] \in Nodes
  BY <1>0
<1> QED
  BY <1>0, <1>1, <1>2 DEF TreeAt, Current, Rev, Revs

\* What a commit stores and records, in terms of the two trees.
LEMMA CommitTables ==
  ASSUME TablesTypeOK, NEW root \in Roots, Commit(root)
  PROVE  \E fresh, gone \in SUBSET Cids :
           /\ DOMAIN blocks' = DOMAIN blocks \cup fresh
           /\ \A b \in DOMAIN blocks' :
                blocks'[b] = IF b \in fresh THEN Rev + 1 ELSE blocks[b]
           /\ DOMAIN removed' = DOMAIN removed \cup gone
           /\ \A b \in DOMAIN removed' :
                removed'[b] = IF b \in gone THEN 0 ELSE removed[b]
           /\ Current' \ Current \subseteq fresh /\ fresh \subseteq Current'
           /\ Current \ Current' \subseteq gone
<1>0. /\ Rev < MaxRev /\ roots' = Append(roots, root)
      /\ Rev \in 1..MaxRev
  BY DEF Commit, TablesTypeOK, Revs
<1>1. /\ Current' = Below[root] \cup {Rev + 1}
      /\ Current = Below[roots[Rev]] \cup {Rev}
      /\ roots[Rev] \in Nodes
  BY <1>0, TreesAppended
<1>2. PICK gained \in SUBSET Shared(root), lost \in SUBSET Shared(root) :
        /\ StoreBlocks((Below[root] \ Below[roots[Rev]]) \cup gained \cup {Rev + 1},
                       Rev + 1)
        /\ RecordRemoved((Below[roots[Rev]] \ Below[root]) \cup lost \cup {Rev})
  BY DEF Commit
<1> DEFINE fresh == (Below[root] \ Below[roots[Rev]]) \cup gained \cup {Rev + 1}
           gone == (Below[roots[Rev]] \ Below[root]) \cup lost \cup {Rev}
<1>3. Shared(root) \subseteq Below[roots[Rev]] \cap Below[root]
  BY DEF Shared
<1>4. /\ Below[root] \subseteq TreeBlocks /\ Below[roots[Rev]] \subseteq TreeBlocks
      /\ Rev \in Revs /\ Rev + 1 \in Revs
  BY <1>0, <1>1 DEF Revs
<1>5. fresh \in SUBSET Cids /\ gone \in SUBSET Cids
  BY <1>3, <1>4 DEF Cids
<1>6. /\ DOMAIN blocks' = DOMAIN blocks \cup fresh
      /\ \A b \in DOMAIN blocks' :
           blocks'[b] = IF b \in fresh THEN Rev + 1 ELSE blocks[b]
  BY <1>2 DEF StoreBlocks
<1>7. /\ DOMAIN removed' = DOMAIN removed \cup gone
      /\ \A b \in DOMAIN removed' :
           removed'[b] = IF b \in gone THEN 0 ELSE removed[b]
  BY <1>2 DEF RecordRemoved
<1>8. /\ Current' \ Current \subseteq fresh /\ fresh \subseteq Current'
      /\ Current \ Current' \subseteq gone
  BY <1>1, <1>3
<1> HIDE DEF fresh, gone
<1> QED
  BY <1>5, <1>6, <1>7, <1>8

\* What the other steps do to the tables.
LEMMA OtherTables ==
  ASSUME TablesTypeOK, [Next]_vars, ~ \E root \in Roots : Commit(root)
  PROVE  /\ roots' = roots
         /\ \/ UNCHANGED <<blocks, removed>>
            \/ \E X \in Batches : DeleteRemoved(X)
            \/ Tick
<1>1. CASE UNCHANGED <<roots, blocks, removed>>
  BY <1>1
<1>2. CASE Reclaim
  BY <1>2 DEF Reclaim
<1>3. CASE Tick
  BY <1>3 DEF Tick
<1>4. ASSUME ~ Reclaim, ~ Tick, ~ UNCHANGED vars
      PROVE  UNCHANGED <<roots, blocks, removed>>
  <2>1. CASE Announce \/ RunAlarm \/ FireAlarm
    BY <2>1 DEF Announce, RunAlarm, FireAlarm
  <2>2. CASE DeliverySucceeds \/ DeliveryFails
    BY <2>2 DEF DeliverySucceeds, DeliveryFails
  <2>3. CASE ReclaimFails \/ Crash \/ Restart
    BY <2>3 DEF ReclaimFails, Crash, Restart
  <2>4. ASSUME NEW r \in Readers,
               \/ \E since \in 0..Rev : StartRead(r, since)
               \/ ReadBlocks(r)
               \/ EndRead(r)
        PROVE  UNCHANGED <<roots, blocks, removed>>
    BY <2>4 DEF StartRead, ReadBlocks, EndRead
  <2> QED
    BY <1>4, <2>1, <2>2, <2>3, <2>4 DEF Next, Step
<1>5. CASE UNCHANGED vars
  BY <1>5 DEF vars
<1> QED
  BY <1>1, <1>2, <1>3, <1>4, <1>5

\* The invariants of the tables, for one step.
LEMMA TablesStep ==
  ASSUME IInv, [Next]_vars
  PROVE  TablesTypeOK' /\ CurrentStored' /\ GarbageListed' /\ RevisionBacked'
<1>0. /\ TablesTypeOK /\ CurrentStored /\ GarbageListed /\ RevisionBacked
      /\ Rev \in Nat /\ Rev \in 1..MaxRev
  BY DEF IInv, TypeOK, TablesTypeOK, Revs
<1>1. ASSUME NEW root \in Roots, Commit(root)
      PROVE  TablesTypeOK' /\ CurrentStored' /\ GarbageListed' /\ RevisionBacked'
  <2>0. roots' = Append(roots, root) /\ Rev < MaxRev
    BY <1>1 DEF Commit
  <2>1. /\ Rev' = Rev + 1 /\ roots' \in Seq(Roots) /\ Rev' \in Revs
        /\ \A q \in 1..Rev : TreeAt(q)' = TreeAt(q)
    BY <1>0, <2>0, TreesAppended
  <2>2. PICK fresh \in SUBSET Cids, gone \in SUBSET Cids :
          /\ DOMAIN blocks' = DOMAIN blocks \cup fresh
          /\ \A b \in DOMAIN blocks' :
               blocks'[b] = IF b \in fresh THEN Rev + 1 ELSE blocks[b]
          /\ DOMAIN removed' = DOMAIN removed \cup gone
          /\ \A b \in DOMAIN removed' :
               removed'[b] = IF b \in gone THEN 0 ELSE removed[b]
          /\ Current' \ Current \subseteq fresh /\ fresh \subseteq Current'
          /\ Current \ Current' \subseteq gone
    BY <1>0, <1>1, CommitTables
  <2>3. TablesTypeOK'
    <3>1. \A b \in DOMAIN blocks' : blocks'[b] \in 1..Rev'
      BY <1>0, <2>1, <2>2 DEF TablesTypeOK
    <3>2. \A b \in DOMAIN removed' : removed'[b] \in 0..OldestAge
      BY <1>0, <2>2 DEF TablesTypeOK, OldestAge
    <3> QED
      BY <1>0, <2>1, <2>2, <3>1, <3>2 DEF TablesTypeOK, OldestAge
  <2>4. CurrentStored'
    BY <1>0, <2>2 DEF CurrentStored
  <2>5. GarbageListed'
    BY <1>0, <2>2 DEF GarbageListed
  <2>6. RevisionBacked'
    <3> SUFFICES ASSUME NEW b \in DOMAIN blocks', NEW m \in blocks'[b]..Rev',
                        NEW n \in blocks'[b]..Rev', m <= n, b \in TreeAt(n)'
                 PROVE  b \in TreeAt(m)'
      BY DEF RevisionBacked
    <3>0. blocks'[b] \in 1..(Rev + 1) /\ m \in 1..(Rev + 1) /\ n \in 1..(Rev + 1)
      BY <1>0, <2>1, <2>3 DEF TablesTypeOK
    <3>1. CASE m = n
      BY <3>1
    <3>2. CASE m < n
      <4>1. b \notin fresh
        BY <1>0, <2>1, <2>2, <3>0, <3>2
      <4>2. b \in DOMAIN blocks /\ blocks'[b] = blocks[b] /\ m \in blocks[b]..Rev
        BY <1>0, <2>1, <2>2, <3>0, <3>2, <4>1
      <4>3. CASE n <= Rev
        BY <1>0, <2>1, <3>0, <3>2, <4>2, <4>3 DEF RevisionBacked
      <4>4. CASE n = Rev + 1
        <5>1. b \in Current'
          BY <2>1, <4>4 DEF Current
        <5>2. b \in TreeAt(Rev)
          <6>1. b \in Current
            BY <2>2, <4>1, <5>1
          <6> QED
            BY <6>1 DEF Current
        <5>3. b \in TreeAt(m)
          <6>1. blocks[b] \in 1..Rev
            BY <1>0, <4>2 DEF TablesTypeOK
          <6>2. Rev \in blocks[b]..Rev /\ m <= Rev
            BY <1>0, <4>2, <6>1
          <6> QED
            BY <1>0, <4>2, <5>2, <6>2 DEF RevisionBacked
        <5> QED
          BY <1>0, <2>1, <3>0, <4>2, <5>3
      <4> QED
        BY <1>0, <3>0, <4>3, <4>4
    <3> QED
      BY <3>0, <3>1, <3>2
  <2> QED
    BY <2>3, <2>4, <2>5, <2>6
<1>2. ASSUME ~ \E root \in Roots : Commit(root)
      PROVE  TablesTypeOK' /\ CurrentStored' /\ GarbageListed' /\ RevisionBacked'
  <2>1. /\ roots' = roots
        /\ \/ UNCHANGED <<blocks, removed>>
           \/ \E X \in Batches : DeleteRemoved(X)
           \/ Tick
    BY <1>0, <1>2, OtherTables
  <2>2. Rev' = Rev /\ Current' = Current /\ \A q : TreeAt(q)' = TreeAt(q)
    BY <2>1 DEF Rev, Current, TreeAt
  <2>3. CASE UNCHANGED <<blocks, removed>>
    BY <1>0, <2>1, <2>2, <2>3 DEF TablesTypeOK, CurrentStored, GarbageListed,
       RevisionBacked
  <2>4. ASSUME NEW X \in Batches, DeleteRemoved(X)
        PROVE  TablesTypeOK' /\ CurrentStored' /\ GarbageListed' /\ RevisionBacked'
    <3>1. /\ DOMAIN blocks' = DOMAIN blocks \ (X \ Current)
          /\ \A b \in DOMAIN blocks' : blocks'[b] = blocks[b]
          /\ DOMAIN removed' = DOMAIN removed \ X
          /\ \A b \in DOMAIN removed' : removed'[b] = removed[b]
      BY <2>4 DEF DeleteRemoved
    <3>2. TablesTypeOK'
      BY <1>0, <2>1, <2>2, <3>1 DEF TablesTypeOK
    <3>3. CurrentStored' /\ GarbageListed'
      BY <1>0, <2>2, <3>1 DEF CurrentStored, GarbageListed
    <3>4. RevisionBacked'
      BY <1>0, <2>2, <3>1 DEF RevisionBacked
    <3> QED
      BY <3>2, <3>3, <3>4
  <2>5. CASE Tick
    <3>1. /\ UNCHANGED blocks /\ DOMAIN removed' = DOMAIN removed
          /\ \A b \in DOMAIN removed : removed'[b] = Older(removed[b], OldestAge)
      BY <2>5 DEF Tick
    <3>2. \A b \in DOMAIN removed : removed'[b] \in 0..OldestAge
      BY <1>0, <3>1 DEF TablesTypeOK, Older, OldestAge
    <3>3. TablesTypeOK'
      BY <1>0, <2>1, <2>2, <3>1, <3>2 DEF TablesTypeOK, OldestAge
    <3> QED
      BY <1>0, <2>2, <3>1, <3>3 DEF CurrentStored, GarbageListed, RevisionBacked
  <2> QED
    BY <2>1, <2>3, <2>4, <2>5
<1> QED
  BY <1>1, <1>2

-----------------------------------------------------------------------------
(* The instance *)

\* scheduleAlarm sets at most one time.
LEMMA NextAlarmIsOne ==
  ASSUME NEW rem, \A b \in DOMAIN rem : rem[b] \in 0..OldestAge,
         NEW waiting \in BOOLEAN, NEW notBefore \in Nat
  PROVE  /\ NextAlarm(rem, waiting, notBefore) \subseteq Nat
         /\ \A m, n \in NextAlarm(rem, waiting, notBefore) : m = n
<1> DEFINE times == (IF waiting THEN {RetryInterval} ELSE {})
                      \cup {Larger(t, notBefore) : t \in ReclaimIn(rem)}
<1>1. ReclaimIn(rem) \subseteq Nat
  BY DEF ReclaimIn, OldestAge
<1>2. \A t \in ReclaimIn(rem) : Larger(t, notBefore) \in Nat
  BY <1>1 DEF Larger
<1>3. times \subseteq Nat
  BY <1>2
<1>4. NextAlarm(rem, waiting, notBefore) = {t \in times : \A u \in times : t <= u}
  BY DEF NextAlarm
<1> HIDE DEF times
<1> DEFINE next == NextAlarm(rem, waiting, notBefore)
<1>5. next \subseteq Nat /\ \A m, n \in next : m <= n /\ n <= m
  BY <1>3, <1>4
<1> HIDE DEF next
<1>6. \A m, n \in next : m = n
  <2> SUFFICES ASSUME NEW m \in next, NEW n \in next PROVE m = n
    OBVIOUS
  <2>1. m \in Nat /\ n \in Nat /\ m <= n /\ n <= m
    BY ONLY <1>5, m \in next, n \in next
  <2> QED
    BY ONLY <2>1
<1> QED
  BY <1>5, <1>6 DEF next

\* The control state of the instance keeps its type.
LEMMA InstanceStep ==
  ASSUME IInv, [Next]_vars
  PROVE  InstanceTypeOK'
<1>0. /\ InstanceTypeOK
      /\ \A b \in DOMAIN removed : removed[b] \in 0..OldestAge
      /\ \A b \in DOMAIN removed' : removed'[b] \in 0..OldestAge'
      /\ OldestAge' = OldestAge
  BY TablesStep DEF IInv, TypeOK, TablesTypeOK, OldestAge
<1>1. \A waiting \in BOOLEAN : \A notBefore \in Nat :
        /\ NextAlarm(removed, waiting, notBefore) \subseteq Nat
        /\ \A m, n \in NextAlarm(removed, waiting, notBefore) : m = n
  BY <1>0, NextAlarmIsOne
<1>2. \A waiting \in BOOLEAN : \A notBefore \in Nat :
        /\ NextAlarm(removed', waiting, notBefore) \subseteq Nat
        /\ \A m, n \in NextAlarm(removed', waiting, notBefore) : m = n
  BY <1>0, NextAlarmIsOne
<1>3. CASE UNCHANGED vars
  BY <1>0, <1>3 DEF vars, InstanceTypeOK
<1>4. ASSUME NEW root \in Roots, Commit(root)
      PROVE  InstanceTypeOK'
  BY <1>0, <1>4 DEF Commit, StartDelivery, InstanceTypeOK
<1>5. CASE Announce
  BY <1>0, <1>5 DEF Announce, StartDelivery, InstanceTypeOK
<1>6. CASE DeliverySucceeds
  BY <1>0, <1>1, <1>6 DEF DeliverySucceeds, Resume, InstanceTypeOK
<1>7. CASE DeliveryFails
  BY <1>0, <1>7 DEF DeliveryFails, Resume, InstanceTypeOK
<1>8. CASE FireAlarm
  BY <1>0, <1>8 DEF FireAlarm, InstanceTypeOK
<1>9. CASE RunAlarm
  BY <1>0, <1>9 DEF RunAlarm, StartDelivery, InstanceTypeOK
<1>10. CASE Reclaim
  BY <1>0, <1>2, <1>10 DEF Reclaim, EndAlarm, InstanceTypeOK
<1>11. CASE ReclaimFails
  BY <1>0, <1>1, <1>11 DEF ReclaimFails, EndAlarm, InstanceTypeOK
<1>12. CASE Crash
  <2>1. /\ alarm' = alarm \/ alarm' = {0}
        /\ pc' = "down" /\ handler' = "none" /\ retry' = FALSE
        /\ undelivered' = undelivered
    BY <1>12 DEF Crash
  <2>2. alarm' \subseteq Nat /\ \A m, n \in alarm' : m = n
    <3>1. CASE alarm' = alarm
      BY <1>0, <3>1 DEF InstanceTypeOK
    <3>2. CASE alarm' = {0}
      BY ONLY <3>2
    <3> QED
      BY <2>1, <3>1, <3>2
  <2> QED
    BY <1>0, <2>1, <2>2 DEF InstanceTypeOK
<1>13. CASE Restart
  BY <1>0, <1>1, <1>13 DEF Restart, InstanceTypeOK
<1>14. CASE Tick
  <2>1. /\ UNCHANGED <<undelivered, handler, retry, pc>>
        /\ alarm' = {IF t = 0 THEN 0 ELSE t - 1 : t \in alarm}
    BY <1>14 DEF Tick
  <2>2. \A t \in alarm : (IF t = 0 THEN 0 ELSE t - 1) \in Nat
    BY <1>0 DEF InstanceTypeOK
  <2> QED
    BY <1>0, <2>1, <2>2 DEF InstanceTypeOK
<1>15. ASSUME NEW r \in Readers,
              \/ \E since \in 0..Rev : StartRead(r, since)
              \/ ReadBlocks(r)
              \/ EndRead(r)
       PROVE  InstanceTypeOK'
  BY <1>0, <1>15 DEF StartRead, ReadBlocks, EndRead, instance, InstanceTypeOK
<1> QED
  BY <1>3, <1>4, <1>5, <1>6, <1>7, <1>8, <1>9, <1>10, <1>11, <1>12, <1>13, <1>14,
     <1>15 DEF Next, Step

-----------------------------------------------------------------------------
(* The streams *)

\* A read wants blocks of its tree, and leaves items of its tree.
LEMMA ItemWithin ==
  ASSUME NEW q \in Revs, NEW item \in Within(q), NEW new
  PROVE  Wanted(item) \subseteq TreeAt(q) /\ Rest(item, new) \in Seq(Within(q))
<1>1. CASE item[1] = "commit"
  <2>1. Wanted(item) = Reach(item) /\ Rest(item, new) = <<>>
    BY <1>1 DEF Wanted, Reach, Rest
  <2> QED
    BY <2>1 DEF Within
<1>2. CASE item[1] # "commit"
  <2>0. item \in {"node", "records"} \X Nodes
    BY <1>2 DEF Within, Item
  <2> DEFINE n == item[2]
  <2>1. n \in Nodes /\ item = <<item[1], n>> /\ item[1] \in {"node", "records"}
    BY <2>0
  <2>2. Below[n] \subseteq TreeAt(q)
    BY <1>2 DEF Within, Reach
  <2>3. {n} \subseteq Below[n] /\ Values[n] \subseteq Below[n]
    BY <2>1
  <2>4. Wanted(item) \subseteq TreeAt(q)
    BY <2>2, <2>3 DEF Wanted
  <2>5. CASE item[1] = "node"
    <3>1. <<"records", n>> \in Within(q)
      BY <2>1, <2>2 DEF Within, Item, Reach
    <3>2. Rest(item, new) = <<>> \/ Rest(item, new) = <<<<"records", n>>>>
      BY <2>5 DEF Rest
    <3>3. \A z \in Within(q) : <<z>> \in Seq(Within(q))
      OBVIOUS
    <3>4. <<>> \in Seq(Within(q))
      OBVIOUS
    <3>5. Rest(item, new) \in Seq(Within(q))
      BY <3>1, <3>2, <3>3, <3>4
    <3> QED
      BY <2>4, <3>5
  <2>6. CASE item[1] = "records"
    <3> DEFINE s == Subtrees[n]
    <3>1. s \in Seq(Nodes)
      BY <2>1
    <3>2. ASSUME NEW i \in 1..Len(s)
          PROVE  <<"node", s[i]>> \in Within(q)
      <4>1. s[i] \in Nodes /\ i \in DOMAIN s
        BY <3>1
      <4>2. Below[s[i]] \subseteq Below[n]
        BY <2>1, <4>1
      <4> QED
        BY <2>2, <4>1, <4>2 DEF Within, Item, Reach
    <3>3. Rest(item, new) = [i \in 1..Len(s) |-> <<"node", s[i]>>]
      BY <2>6 DEF Rest
    <3>4. Len(s) \in Nat
      BY <3>1
    <3>5. [i \in 1..Len(s) |-> <<"node", s[i]>>] \in Seq(Within(q))
      <4> HIDE DEF s
      <4> QED
        BY ONLY <3>2, <3>4, IsASeq
    <3> QED
      BY <2>4, <3>3, <3>5
  <2> QED
    BY <2>1, <2>5, <2>6
<1> QED
  BY <1>1, <1>2

\* One read of a stream keeps its type and its cover, and fails only when the
\* stream has lasted the grace period.
LEMMA AfterReadCovered ==
  ASSUME TablesTypeOK, NEW rd \in Read, rd.state = "reading", StreamCovered(rd)
  PROVE  /\ AfterRead(rd) \in Read
         /\ AfterRead(rd).rev = rd.rev /\ AfterRead(rd).since = rd.since
         /\ AfterRead(rd).age = rd.age
         /\ AfterRead(rd).state = "failed" => rd.age >= GracePeriod
         /\ StreamCovered(AfterRead(rd))
<1> DEFINE item == Head(rd.todo)
           new == {c \in Wanted(item) : blocks[c] > rd.since}
           todo == Rest(item, new) \o Tail(rd.todo)
           next == [rd EXCEPT !.todo = todo, !.sent = @ \cup new,
                      !.state = IF todo = <<>> THEN "done" ELSE "reading"]
<1>0. /\ rd.rev \in Revs /\ rd.sent \subseteq Cids /\ rd.age \in 0..GracePeriod
      /\ rd.since \in 0..MaxRev
  BY DEF Read
<1>1. rd.todo # <<>> /\ rd.todo \in Seq(Within(rd.rev))
  BY DEF StreamCovered
<1>2. item \in Within(rd.rev) /\ Tail(rd.todo) \in Seq(Within(rd.rev))
  BY <1>1, HeadTailProperties
<1>3. Wanted(item) \subseteq TreeAt(rd.rev) /\ Rest(item, new) \in Seq(Within(rd.rev))
  BY <1>0, <1>2, ItemWithin
<1>4. todo \in Seq(Within(rd.rev))
  BY ONLY <1>2, <1>3, ConcatProperties
<1>5. todo \in Seq(Item)
  <2>1. Within(rd.rev) \subseteq Item
    BY DEF Within
  <2> HIDE DEF todo
  <2> QED
    BY ONLY <1>4, <2>1, SeqMonotonic
<1>6. CASE Wanted(item) \subseteq DOMAIN blocks
  <2>1. AfterRead(rd) = next
    BY <1>6 DEF AfterRead
  <2>2. new \subseteq Cids
    BY <1>6 DEF TablesTypeOK
  <2> HIDE DEF todo, new
  <2>3. /\ next \in Read /\ next.rev = rd.rev /\ next.since = rd.since
        /\ next.age = rd.age /\ next.todo = todo
        /\ next.state = IF todo = <<>> THEN "done" ELSE "reading"
    BY <1>0, <1>5, <2>2 DEF Read
  <2>4. StreamCovered(next)
    BY <1>4, <2>3 DEF StreamCovered
  <2> QED
    BY <2>1, <2>3, <2>4
<1>7. CASE ~ (Wanted(item) \subseteq DOMAIN blocks)
  <2>1. AfterRead(rd) = [rd EXCEPT !.state = "failed"]
    BY <1>7 DEF AfterRead
  <2>2. rd.age >= GracePeriod
    BY <1>0, <1>3, <1>7 DEF StreamCovered
  <2>3. /\ AfterRead(rd) \in Read /\ AfterRead(rd).rev = rd.rev
        /\ AfterRead(rd).since = rd.since
        /\ AfterRead(rd).age = rd.age /\ AfterRead(rd).state = "failed"
    BY <2>1 DEF Read
  <2> QED
    BY <2>2, <2>3 DEF StreamCovered
<1> QED
  BY <1>6, <1>7

\* Commits and reclamations keep a stream covered: a commit records what leaves
\* the tree as just removed, and reclamation spares what was removed since the
\* stream started.
LEMMA StreamKept ==
  ASSUME IInv, NEW rd \in Read, rd.rev <= Rev, StreamCovered(rd),
         \/ \E root \in Roots : Commit(root)
         \/ \E X \in Batches : roots' = roots /\ DeleteRemoved(X)
         \/ UNCHANGED <<roots, blocks, removed>>
  PROVE  StreamCovered(rd)'
<1> DEFINE Safe(b) == b \in DOMAIN blocks
                      /\ (b \in Current
                          \/ (b \in DOMAIN removed /\ removed[b] <= rd.age))
<1>0. /\ TablesTypeOK /\ Rev \in 1..MaxRev /\ rd.rev \in 1..Rev
      /\ rd.age \in 0..GracePeriod
      /\ \A b \in DOMAIN removed : removed[b] \in Nat
  BY DEF IInv, TypeOK, TablesTypeOK, Revs, Read, OldestAge
<1>1. ASSUME NEW b, Safe(b), rd.age < GracePeriod
      PROVE  Safe(b)'
  <2>1. ASSUME NEW root \in Roots, Commit(root)
        PROVE  Safe(b)'
    <3>1. PICK fresh \in SUBSET Cids, gone \in SUBSET Cids :
            /\ DOMAIN blocks' = DOMAIN blocks \cup fresh
            /\ DOMAIN removed' = DOMAIN removed \cup gone
            /\ \A c \in DOMAIN removed' :
                 removed'[c] = IF c \in gone THEN 0 ELSE removed[c]
            /\ Current \ Current' \subseteq gone
      BY <1>0, <2>1, CommitTables
    <3>2. b \in gone => b \in DOMAIN removed' /\ removed'[b] = 0
      BY <3>1
    <3>3. 0 <= rd.age
      BY <1>0
    <3> QED
      BY <1>1, <3>1, <3>2, <3>3
  <2>2. ASSUME NEW X \in Batches, roots' = roots, DeleteRemoved(X)
        PROVE  Safe(b)'
    <3>1. Current' = Current
      BY <2>2 DEF Current, TreeAt, Rev
    <3>2. /\ DOMAIN blocks' = DOMAIN blocks \ (X \ Current)
          /\ DOMAIN removed' = DOMAIN removed \ X
          /\ \A c \in DOMAIN removed' : removed'[c] = removed[c]
      BY <2>2 DEF DeleteRemoved
    <3>3. \A c \in X : c \in DOMAIN removed /\ removed[c] >= GracePeriod
      BY <2>2 DEF Batches
    <3>4. CASE b \in Current
      BY <1>1, <3>1, <3>2, <3>4
    <3>5. CASE b \notin Current
      <4>1. b \in DOMAIN removed /\ removed[b] <= rd.age
        BY <1>1, <3>5
      <4>2. b \notin X
        BY <1>0, <1>1, <3>3, <4>1
      <4> QED
        BY <1>1, <3>2, <4>1, <4>2
    <3> QED
      BY <3>4, <3>5
  <2>3. CASE UNCHANGED <<roots, blocks, removed>>
    BY <1>1, <2>3 DEF Current, TreeAt, Rev
  <2> QED
    BY <2>1, <2>2, <2>3
<1>2. TreeAt(rd.rev)' = TreeAt(rd.rev)
  <2>1. ASSUME NEW root \in Roots, Commit(root)
        PROVE  TreeAt(rd.rev)' = TreeAt(rd.rev)
    <3>1. roots' = Append(roots, root) /\ Rev < MaxRev
      BY <2>1 DEF Commit
    <3> QED
      BY <1>0, <3>1, TreesAppended
  <2>2. CASE roots' = roots
    BY <2>2 DEF TreeAt
  <2> QED
    BY <2>1, <2>2
<1>3. Within(rd.rev)' = Within(rd.rev)
  BY <1>2 DEF Within
<1> QED
  BY <1>1, <1>2, <1>3 DEF StreamCovered

\* Waiting keeps a stream covered: it ages with what it reads.
LEMMA StreamAged ==
  ASSUME IInv, Tick, NEW rd \in Read, rd.rev <= Rev, StreamCovered(rd),
         rd.state = "reading"
  PROVE  LET aged == [rd EXCEPT !.age = Older(@, GracePeriod)]
         IN  /\ aged \in Read /\ aged.rev = rd.rev /\ aged.since = rd.since
             /\ aged.state = rd.state
             /\ StreamCovered(aged)'
<1> DEFINE aged == [rd EXCEPT !.age = Older(@, GracePeriod)]
<1>0. /\ rd.age \in 0..GracePeriod
      /\ \A b \in DOMAIN removed : removed[b] \in Nat
  BY DEF IInv, TypeOK, TablesTypeOK, Read, OldestAge
<1>1. Older(rd.age, GracePeriod) \in 0..GracePeriod
  BY <1>0 DEF Older
<1>2. /\ aged \in Read /\ aged.rev = rd.rev /\ aged.since = rd.since
      /\ aged.state = rd.state /\ aged.todo = rd.todo
      /\ aged.age = Older(rd.age, GracePeriod)
  BY <1>1 DEF Read
<1>3. UNCHANGED <<roots, blocks>>
  BY DEF Tick
<1>4. /\ DOMAIN removed' = DOMAIN removed
      /\ \A b \in DOMAIN removed : removed'[b] = Older(removed[b], OldestAge)
  BY DEF Tick
<1>5. \A b \in DOMAIN removed : removed'[b] <= removed[b] + 1
  BY <1>0, <1>4 DEF Older
<1>6. Current' = Current /\ TreeAt(rd.rev)' = TreeAt(rd.rev)
  BY <1>3 DEF Current, TreeAt, Rev
<1>7. Within(rd.rev)' = Within(rd.rev)
  BY <1>6 DEF Within
<1>8. ASSUME aged.age < GracePeriod, NEW b \in TreeAt(rd.rev)
      PROVE  /\ b \in DOMAIN blocks'
             /\ b \in Current' \/ (b \in DOMAIN removed' /\ removed'[b] <= aged.age)
  <2>1. rd.age < GracePeriod /\ aged.age = rd.age + 1
    BY <1>0, <1>2, <1>8 DEF Older
  <2>2. /\ b \in DOMAIN blocks
        /\ b \in Current \/ (b \in DOMAIN removed /\ removed[b] <= rd.age)
    BY <2>1 DEF StreamCovered
  <2>3. CASE b \in Current
    BY <1>3, <1>6, <2>2, <2>3
  <2>4. CASE b \in DOMAIN removed /\ removed[b] <= rd.age
    <3>1. removed'[b] <= rd.age + 1
      <4>1. removed[b] \in Nat /\ removed'[b] <= removed[b] + 1 /\ rd.age \in Nat
        BY <1>0, <1>5, <2>4
      <4>2. removed'[b] = IF removed[b] < OldestAge THEN removed[b] + 1 ELSE removed[b]
        BY <1>4, <2>4 DEF Older
      <4> QED
        BY ONLY <2>4, <4>1, <4>2
    <3> QED
      BY <1>3, <1>4, <2>1, <2>2, <2>4, <3>1
  <2> QED
    BY <2>2, <2>3, <2>4
<1> HIDE DEF aged
<1>9. StreamCovered(aged)'
  <2>1. aged' = aged
    BY DEF aged
  <2> QED
    BY <1>2, <1>6, <1>7, <1>8, <2>1 DEF StreamCovered
<1> QED
  BY <1>2, <1>9 DEF aged

\* A stream is covered when it starts.
LEMMA StreamStarts ==
  ASSUME IInv, NEW since \in 0..Rev
  PROVE  LET rd == NewRead(since)
         IN  /\ rd \in Read /\ rd.rev = Rev /\ rd.since = since
             /\ rd.state = "reading" /\ StreamCovered(rd)
<1> DEFINE todo == <<<<"commit", Rev>>, <<"node", roots[Rev]>>>>
           rd == NewRead(since)
<1>0. /\ Rev \in 1..MaxRev /\ Rev = Len(roots) /\ roots \in Seq(Roots)
      /\ CurrentStored /\ since \in 0..MaxRev
  BY DEF IInv, TypeOK, TablesTypeOK, Revs, Rev
<1>1. roots[Rev] \in Nodes /\ Below[roots[Rev]] \subseteq Current /\ Rev \in Current
  BY <1>0 DEF Current, TreeAt
<1>2. <<"commit", Rev>> \in Within(Rev) /\ <<"node", roots[Rev]>> \in Within(Rev)
  BY <1>0, <1>1 DEF Within, Item, Reach, Revs, Current
<1>3. todo \in Seq(Within(Rev)) /\ todo # <<>>
  BY <1>2
<1>4. todo \in Seq(Item)
  <2>1. Within(Rev) \subseteq Item
    BY DEF Within
  <2> HIDE DEF todo
  <2> QED
    BY ONLY <1>3, <2>1, SeqMonotonic
<1> HIDE DEF todo
<1>5. /\ rd \in Read /\ rd.rev = Rev /\ rd.since = since /\ rd.todo = todo
      /\ rd.state = "reading"
  <2>1. rd = [state |-> "reading", rev |-> Rev, since |-> since, todo |-> todo,
              sent |-> {}, age |-> 0]
    BY DEF NewRead, todo
  <2>2. Rev \in Revs /\ 0 \in 0..GracePeriod
    BY <1>0 DEF Revs
  <2> HIDE DEF rd
  <2> QED
    BY <1>0, <1>4, <2>1, <2>2 DEF Read
<1> HIDE DEF rd
<1>6. StreamCovered(rd)
  <2>1. rd.todo \in Seq(Within(rd.rev)) /\ rd.todo # <<>>
    BY <1>3, <1>5
  <2>2. \A b \in TreeAt(rd.rev) : b \in DOMAIN blocks /\ b \in Current
    BY <1>0, <1>5 DEF CurrentStored, Current
  <2> QED
    BY ONLY <2>1, <2>2 DEF StreamCovered
<1> QED
  BY <1>5, <1>6 DEF rd, todo

\* What the step of one reader must keep of its stream.
Kept(rd) ==
  /\ rd \in Read /\ rd.since <= rd.rev /\ rd.rev <= Rev
  /\ StreamCovered(rd)
  /\ rd.state = "failed" => rd.age >= GracePeriod

\* No stream, no obligation.
LEMMA NoReadKept == TablesTypeOK => Kept(NoRead)
<1>1. NoRead \in Read /\ NoRead.state = "idle" /\ NoRead.since = 0 /\ NoRead.rev = 1
  <2>1. <<>> \in Seq(Item)
    OBVIOUS
  <2> QED
    BY <2>1 DEF NoRead, Read, Revs
<1> QED
  BY <1>1 DEF Kept, StreamCovered, TablesTypeOK, Revs

\* The same of the value a stream has after a step.
LEMMA KeptNext ==
  ASSUME NEW r \in Readers, NEW x, x = readers'[r], Kept(x)'
  PROVE  Kept(readers[r])'
  BY DEF Kept, StreamCovered, Within

\* The streams, for one step.
LEMMA ReadersStep ==
  ASSUME IInv, [Next]_vars
  PROVE  readers' \in [Readers -> Read] /\ \A r \in Readers : Kept(readers[r])'
<1>0. /\ readers \in [Readers -> Read] /\ \A r \in Readers : Kept(readers[r])
      /\ TablesTypeOK /\ TablesTypeOK' /\ Rev \in Nat /\ Rev' \in Nat /\ Rev <= Rev'
  <2>1. TablesTypeOK /\ TablesTypeOK'
    BY TablesStep DEF IInv, TypeOK
  <2>2. Rev \in Nat /\ Rev' \in Nat
    BY <2>1 DEF TablesTypeOK, Revs
  <2>3. ASSUME NEW root \in Roots, Commit(root)
        PROVE  Rev' = Rev + 1
    BY <2>1, <2>3, TreesAppended DEF Commit
  <2>4. ASSUME ~ \E root \in Roots : Commit(root)
        PROVE  Rev' = Rev
    BY <2>1, <2>4, OtherTables DEF Rev
  <2> QED
    BY <2>1, <2>2, <2>3, <2>4 DEF IInv, TypeOK, Kept, ReadsWithinGrace
<1>1. ASSUME readers' = readers,
             \/ \E root \in Roots : Commit(root)
             \/ \E X \in Batches : roots' = roots /\ DeleteRemoved(X)
             \/ UNCHANGED <<roots, blocks, removed>>
      PROVE  \A r \in Readers : Kept(readers[r])'
  <2> SUFFICES ASSUME NEW r \in Readers
               PROVE  Kept(readers[r])'
    OBVIOUS
  <2> PICK x : x = readers[r]
    OBVIOUS
  <2>1. x \in Read /\ x.rev <= Rev /\ StreamCovered(x) /\ Kept(x)
    BY <1>0 DEF Kept
  <2>2. x.rev <= Rev' /\ x.rev \in Nat
    BY <1>0, <2>1 DEF Read, Revs
  <2>3. StreamCovered(x)'
    BY <1>1, <2>1, StreamKept
  <2>4. Kept(x)'
    BY <2>1, <2>2, <2>3 DEF Kept
  <2> QED
    BY <1>1, <2>4, KeptNext
<1>2. CASE Tick
  <2>0. /\ roots' = roots
        /\ \A r \in Readers : readers'[r] =
             IF readers[r].state = "reading"
             THEN [readers[r] EXCEPT !.age = Older(@, GracePeriod)]
             ELSE readers[r]
        /\ readers' = [r \in Readers |-> readers'[r]]
    BY <1>2 DEF Tick
  <2>1. Rev' = Rev
    BY <2>0 DEF Rev
  <2>2. ASSUME NEW r \in Readers
        PROVE  Kept(readers[r])' /\ readers'[r] \in Read
    <3> PICK x : x = readers[r]
      OBVIOUS
    <3> PICK y : y = readers'[r]
      OBVIOUS
    <3>1. x \in Read /\ x.rev <= Rev /\ StreamCovered(x) /\ Kept(x)
      BY <1>0 DEF Kept
    <3>2. CASE x.state = "reading"
      <4>1. y = [x EXCEPT !.age = Older(@, GracePeriod)]
        BY <2>0, <3>2
      <4>2. /\ y \in Read /\ y.rev = x.rev /\ y.since = x.since /\ y.state = x.state
            /\ StreamCovered(y)'
        BY <1>2, <3>1, <3>2, <4>1, StreamAged
      <4>3. Kept(y)'
        BY <2>1, <3>1, <3>2, <4>2 DEF Kept
      <4> QED
        BY <4>2, <4>3, KeptNext
    <3>3. CASE x.state # "reading"
      <4>1. y = x
        BY <2>0, <3>3
      <4>2. Kept(y)'
        BY <2>1, <3>1, <3>3, <4>1 DEF Kept, StreamCovered
      <4> QED
        BY <3>1, <4>1, <4>2, KeptNext
    <3> QED
      BY <3>2, <3>3
  <2> QED
    BY <2>0, <2>2
<1>3. ASSUME NEW r \in Readers, NEW x, x \in Read, Kept(x),
             UNCHANGED <<roots, blocks, removed>>,
             readers' = [readers EXCEPT ![r] = x]
      PROVE  readers' \in [Readers -> Read] /\ \A c \in Readers : Kept(readers[c])'
  <2>1. readers' \in [Readers -> Read]
    BY <1>0, <1>3
  <2>2. ASSUME NEW c \in Readers
        PROVE  Kept(readers[c])'
    <3> PICK y : y = readers'[c]
      OBVIOUS
    <3>1. Kept(y)
      BY <1>0, <1>3
    <3>2. y \in Read /\ y.rev <= Rev /\ StreamCovered(y)
      BY <3>1 DEF Kept
    <3>3. StreamCovered(y)'
      BY <1>3, <3>2, StreamKept
    <3>4. Rev' = Rev
      BY <1>3 DEF Rev
    <3>5. Kept(y)'
      BY <3>1, <3>3, <3>4 DEF Kept
    <3> QED
      BY <3>5, KeptNext
  <2> QED
    BY <2>1, <2>2
<1>4. CASE readers' = readers
  <2>1. /\ readers' \in [Readers -> Read]
        /\ \/ \E root \in Roots : Commit(root)
           \/ \E X \in Batches : roots' = roots /\ DeleteRemoved(X)
           \/ UNCHANGED <<roots, blocks, removed>>
           \/ Tick
    BY <1>0, <1>4, OtherTables
  <2> QED
    BY <1>1, <1>2, <1>4, <2>1
<1>5. ASSUME NEW r \in Readers, NEW since \in 0..Rev, StartRead(r, since)
      PROVE  readers' \in [Readers -> Read] /\ \A c \in Readers : Kept(readers[c])'
  <2> PICK x : x = NewRead(since)
    OBVIOUS
  <2>1. x \in Read /\ x.rev = Rev /\ x.since = since /\ x.state = "reading"
        /\ StreamCovered(x)
    BY StreamStarts
  <2>2. Kept(x)
    BY <1>0, <2>1 DEF Kept
  <2>3. readers' = [readers EXCEPT ![r] = x] /\ UNCHANGED <<roots, blocks, removed>>
    BY <1>5 DEF StartRead
  <2> QED
    BY <1>3, <2>1, <2>2, <2>3
<1>6. ASSUME NEW r \in Readers, ReadBlocks(r)
      PROVE  readers' \in [Readers -> Read] /\ \A c \in Readers : Kept(readers[c])'
  <2> PICK rd : rd = readers[r]
    OBVIOUS
  <2> PICK x : x = AfterRead(rd)
    OBVIOUS
  <2>1. rd \in Read /\ Kept(rd) /\ rd.state = "reading" /\ StreamCovered(rd)
    BY <1>0, <1>6 DEF Kept, ReadBlocks
  <2>2. /\ x \in Read /\ x.rev = rd.rev /\ x.since = rd.since /\ x.age = rd.age
        /\ x.state = "failed" => rd.age >= GracePeriod
        /\ StreamCovered(x)
    BY <1>0, <2>1, AfterReadCovered
  <2>3. Kept(x)
    BY <2>1, <2>2 DEF Kept
  <2>4. readers' = [readers EXCEPT ![r] = x] /\ UNCHANGED <<roots, blocks, removed>>
    BY <1>6 DEF ReadBlocks
  <2> QED
    BY <1>3, <2>2, <2>3, <2>4
<1>7. ASSUME NEW r \in Readers, EndRead(r)
      PROVE  readers' \in [Readers -> Read] /\ \A c \in Readers : Kept(readers[c])'
  <2>1. readers' = [readers EXCEPT ![r] = NoRead] /\ UNCHANGED <<roots, blocks, removed>>
    BY <1>7 DEF EndRead
  <2>2. Kept(NoRead)
    BY <1>0, NoReadKept
  <2>3. NoRead \in Read
    BY <2>2 DEF Kept
  <2> QED
    BY <1>3, <2>1, <2>2, <2>3
<1>8. CASE Crash
  <2>1. readers' = [r \in Readers |-> NoRead] /\ roots' = roots
    BY <1>8 DEF Crash
  <2>2. Kept(NoRead)
    BY <1>0, NoReadKept
  <2>3. NoRead' = NoRead
    BY DEF NoRead
  <2>4. Kept(NoRead)' /\ NoRead \in Read
    BY <2>1, <2>2, <2>3 DEF Kept, StreamCovered, NoRead, Rev
  <2>5. \A r \in Readers : Kept(readers[r])'
    BY <2>1, <2>3, <2>4, KeptNext
  <2> QED
    BY <2>1, <2>4, <2>5
<1>9. CASE \E root \in Roots : Commit(root)
  BY <1>4, <1>9 DEF Commit
<1>10. CASE Announce \/ DeliverySucceeds \/ DeliveryFails \/ FireAlarm \/ RunAlarm
  BY <1>4, <1>10 DEF Announce, DeliverySucceeds, DeliveryFails, FireAlarm, RunAlarm
<1>11. CASE Reclaim \/ ReclaimFails \/ Restart
  BY <1>4, <1>11 DEF Reclaim, ReclaimFails, Restart
<1>12. CASE UNCHANGED vars
  BY <1>4, <1>12 DEF vars
<1> QED
  BY <1>2, <1>5, <1>6, <1>7, <1>8, <1>9, <1>10, <1>11, <1>12 DEF Next, Step

-----------------------------------------------------------------------------
(* The theorems *)

\* Both kinds of initial state satisfy the invariant.
LEMMA InitIInv == Init => IInv
<1> SUFFICES ASSUME Init PROVE IInv
  OBVIOUS
<1>1. PICK root \in Roots :
        /\ roots = <<root>>
        /\ blocks = [b \in Below[root] \cup {1} |-> 1]
        /\ \/ removed = [b \in {} |-> 0] /\ pc = "idle"
           \/ removed = [b \in Below[root] \cup {1} |-> OldestAge] /\ pc = "down"
  BY DEF Init
<1>2. /\ Rev = 1 /\ roots[1] = root /\ roots \in Seq(Roots) /\ root \in Nodes
      /\ Current = Below[root] \cup {1}
  BY <1>1 DEF Rev, Current, TreeAt
<1>3. Current \subseteq Cids
  BY <1>2 DEF Cids, Revs
<1>4. TablesTypeOK
  <2>1. \A b \in DOMAIN removed : removed[b] \in 0..OldestAge
    BY <1>1 DEF OldestAge
  <2>2. DOMAIN removed \subseteq Cids /\ DOMAIN blocks \subseteq Cids
    BY <1>1, <1>2, <1>3
  <2>3. \A b \in DOMAIN blocks : blocks[b] \in 1..Rev
    BY <1>1, <1>2
  <2> QED
    BY <1>2, <2>1, <2>2, <2>3 DEF TablesTypeOK, Revs
<1>5. InstanceTypeOK
  BY <1>1 DEF Init, InstanceTypeOK
<1>6. CurrentStored /\ GarbageListed /\ RevisionBacked
  BY <1>1, <1>2 DEF CurrentStored, GarbageListed, RevisionBacked
<1>7. readers = [r \in Readers |-> NoRead] /\ Kept(NoRead)
  BY <1>4, NoReadKept DEF Init
<1>8. \A r \in Readers : Kept(readers[r]) /\ readers[r] \in Read
  BY <1>7 DEF Kept
<1>9. readers \in [Readers -> Read]
  BY <1>7, <1>8
<1> QED
  BY <1>4, <1>5, <1>6, <1>8, <1>9 DEF IInv, TypeOK, Kept, ReadsWithinGrace

\* Every step keeps it.
LEMMA NextIInv == IInv /\ [Next]_vars => IInv'
<1> SUFFICES ASSUME IInv, [Next]_vars PROVE IInv'
  OBVIOUS
<1>1. TablesTypeOK' /\ CurrentStored' /\ GarbageListed' /\ RevisionBacked'
  BY TablesStep
<1>2. InstanceTypeOK'
  BY InstanceStep
<1>3. readers' \in [Readers -> Read] /\ \A r \in Readers : Kept(readers[r])'
  BY ReadersStep
<1> QED
  BY <1>1, <1>2, <1>3 DEF IInv, TypeOK, Kept, ReadsWithinGrace

\* The tables, the instance and the streams satisfy the inductive invariant
\* whatever is committed, reclaimed and lost (storage.ts, repo-do.ts, export.ts).
THEOREM SpecIInv == Spec => []IInv
  BY InitIInv, NextIInv, PTL DEF Spec

\* Every variable keeps its type.
THEOREM ReclaimTypeCorrect == Spec => []TypeOK
<1>1. IInv => TypeOK
  BY DEF IInv
<1> QED
  BY SpecIInv, <1>1, PTL

\* Reclamation deletes no block of the current tree (storage.ts 284-302).
THEOREM CurrentTreeStored == Spec => []CurrentStored
<1>1. IInv => CurrentStored
  BY DEF IInv
<1> QED
  BY SpecIInv, <1>1, PTL

\* rpcGetBlocks answers with exactly the blocks of the current tree
\* (repo-do.ts 449-476).
THEOREM GetBlocksCorrect == Spec => []GetBlocksExact
<1>1. IInv => GetBlocksExact
  BY DEF IInv, TypeOK, TablesTypeOK, CurrentStored, GarbageListed,
     GetBlocksExact, GetBlocks
<1> QED
  BY SpecIInv, <1>1, PTL

\* A current block has been current since the revision it is stored with
\* (export.ts 23-26).
THEOREM CurrentSinceRevision == Spec => []StoredSinceRevision
<1>1. IInv => StoredSinceRevision
  <2> SUFFICES ASSUME IInv, NEW b \in Current, b \in DOMAIN blocks,
                      NEW q \in blocks[b]..Rev
               PROVE  b \in TreeAt(q)
    BY DEF StoredSinceRevision
  <2>1. blocks[b] \in 1..Rev /\ Rev \in Nat
    BY DEF IInv, TypeOK, TablesTypeOK, Revs
  <2>2. Rev \in blocks[b]..Rev /\ q <= Rev /\ b \in TreeAt(Rev)
    BY <2>1 DEF Current
  <2> QED
    BY <2>2 DEF IInv, RevisionBacked
<1> QED
  BY SpecIInv, <1>1, PTL

\* A stream that has not lasted the grace period does not fail (ADR 0015).
THEOREM ReadsOutliveReclaim == Spec => []ReadsWithinGrace
<1>1. IInv => ReadsWithinGrace
  BY DEF IInv
<1> QED
  BY SpecIInv, <1>1, PTL

-----------------------------------------------------------------------------
(* Partial exports are complete *)

\* The blocks an item of todo will still send or find in the client's hands.
Pending(item) ==
  IF item[1] = "records" THEN Below[item[2]] \ {item[2]} ELSE Reach(item)

\* What a client that gives `since` holds.
Held(rd) == IF rd.since = 0 THEN {} ELSE TreeAt(rd.since)

StreamComplete(rd) ==
  rd.state \in {"reading", "done"} =>
    /\ rd.state = "done" => rd.todo = <<>>
    /\ \A b \in TreeAt(rd.rev) :
         \/ b \in rd.sent \cup Held(rd)
         \/ \E i \in DOMAIN rd.todo : b \in Pending(rd.todo[i])

CInv == IInv /\ \A r \in Readers : StreamComplete(readers[r])

\* A block of the stream's tree that is not newer than `since` is one the
\* client holds.
LEMMA OldIsHeld ==
  ASSUME IInv, NEW rd \in Read, rd.since <= rd.rev, rd.rev <= Rev,
         NEW b \in DOMAIN blocks, b \in TreeAt(rd.rev), blocks[b] <= rd.since
  PROVE  b \in Held(rd)
<1>1. blocks[b] \in 1..Rev /\ rd.since \in Nat /\ rd.rev \in Nat /\ Rev \in Nat
  BY DEF IInv, TypeOK, TablesTypeOK, Read, Revs
<1>2. rd.since # 0 /\ rd.since \in blocks[b]..Rev /\ rd.rev \in blocks[b]..Rev
  BY <1>1
<1>3. b \in TreeAt(rd.since)
  BY <1>2 DEF IInv, RevisionBacked
<1> QED
  BY <1>2, <1>3 DEF Held

\* With a node the client holds its whole subtree.
LEMMA SubtreeHeld ==
  ASSUME IInv, NEW rd \in Read, rd.since <= rd.rev, rd.rev <= Rev,
         NEW n \in Nodes, n \in Held(rd)
  PROVE  Below[n] \subseteq Held(rd)
<1>1. rd.since \in 1..Rev /\ n \in TreeAt(rd.since)
  BY DEF Held, Read, Revs, IInv, TypeOK, TablesTypeOK
<1>2. roots[rd.since] \in Nodes /\ rd.since \in Revs /\ rd.since # 0
  BY <1>1 DEF IInv, TypeOK, TablesTypeOK, Rev, Revs
<1>3. n # rd.since
  BY <1>2
<1>4. n \in Below[roots[rd.since]] \cap Nodes
  BY <1>1, <1>3 DEF TreeAt
<1>5. Below[n] \subseteq Below[roots[rd.since]]
  BY <1>2, <1>4
<1> QED
  BY <1>2, <1>5 DEF Held, TreeAt

LEMMA Singleton == \A x : 1 \in DOMAIN <<x>> /\ <<x>>[1] = x
OBVIOUS

\* What an item stood for is sent, held, or left to the items that follow it.
LEMMA ItemDone ==
  ASSUME IInv, NEW rd \in Read, rd.since <= rd.rev, rd.rev <= Rev,
         NEW item \in Within(rd.rev), NEW new,
         Wanted(item) \subseteq DOMAIN blocks,
         new = {c \in Wanted(item) : blocks[c] > rd.since},
         NEW b \in Pending(item)
  PROVE  \/ b \in new \cup Held(rd)
         \/ \E i \in DOMAIN Rest(item, new) : b \in Pending(Rest(item, new)[i])
<1>0. Wanted(item) \subseteq TreeAt(rd.rev)
  BY ItemWithin DEF Read
<1>1. \A c \in Wanted(item) : c \in new \/ c \in Held(rd)
  <2> SUFFICES ASSUME NEW c \in Wanted(item), c \notin new
               PROVE  c \in Held(rd)
    OBVIOUS
  <2>1. c \in DOMAIN blocks /\ c \in TreeAt(rd.rev) /\ ~ (blocks[c] > rd.since)
    BY <1>0
  <2>2. blocks[c] \in Nat /\ rd.since \in Nat
    BY <2>1 DEF IInv, TypeOK, TablesTypeOK, Read
  <2>3. blocks[c] <= rd.since
    BY <2>1, <2>2
  <2> QED
    BY <2>1, <2>3, OldIsHeld
<1>2. CASE item[1] = "commit"
  BY <1>1, <1>2 DEF Pending, Reach, Wanted
<1>3. CASE item[1] = "node"
  <2> DEFINE n == item[2]
  <2>1. n \in Nodes /\ Wanted(item) = {n} /\ Pending(item) = Below[n]
    BY <1>3 DEF Within, Item, Wanted, Pending, Reach
  <2>2. CASE n \in new
    <3>1. Rest(item, new) = <<<<"records", n>>>>
      BY <1>3, <2>2 DEF Rest
    <3>2. Pending(<<"records", n>>) = Below[n] \ {n}
      BY DEF Pending
    <3>3. \E x : x = <<"records", n>>
      OBVIOUS
    <3>4. PICK x : x = <<"records", n>>
      BY ONLY <3>3
    <3>5. 1 \in DOMAIN Rest(item, new) /\ Rest(item, new)[1] = x
      BY ONLY <3>1, <3>4, Singleton
    <3>6. Pending(x) = Below[n] \ {n}
      BY ONLY <3>2, <3>4
    <3>7. CASE b = n
      BY ONLY <2>2, <3>7
    <3>8. CASE b # n
      <4>1. b \in Pending(x)
        BY ONLY <2>1, <3>6, <3>8, b \in Pending(item)
      <4> QED
        BY ONLY <3>5, <4>1
    <3> QED
      BY ONLY <3>7, <3>8
  <2>3. CASE n \notin new
    <3>1. n \in Held(rd)
      BY <1>1, <2>1, <2>3
    <3> QED
      BY <2>1, <3>1, SubtreeHeld
  <2> QED
    BY <2>2, <2>3
<1>4. CASE item[1] = "records"
  <2> DEFINE n == item[2]
             s == Subtrees[n]
  <2>1. n \in Nodes /\ Wanted(item) = Values[n] /\ Pending(item) = Below[n] \ {n}
    BY <1>4 DEF Within, Item, Wanted, Pending, Reach
  <2>2. Below[n] = {n} \cup Values[n] \cup UNION {Below[s[i]] : i \in DOMAIN s}
    BY <2>1
  <2>3. Rest(item, new) = [i \in 1..Len(s) |-> <<"node", s[i]>>]
    BY <1>4 DEF Rest
  <2>4. s \in Seq(Nodes) /\ DOMAIN s = 1..Len(s)
    BY <2>1
  <2>5. \A m : Pending(<<"node", m>>) = Below[m]
    BY DEF Pending, Reach
  <2> HIDE DEF s
  <2>6. CASE b \in Values[n]
    BY <1>1, <2>1, <2>6
  <2>7. ASSUME NEW i \in DOMAIN s, b \in Below[s[i]]
        PROVE  \E j \in DOMAIN Rest(item, new) : b \in Pending(Rest(item, new)[j])
    <3>1. i \in DOMAIN Rest(item, new) /\ Rest(item, new)[i] = <<"node", s[i]>>
      BY ONLY <2>3, <2>4, <2>7
    <3>2. b \in Pending(Rest(item, new)[i])
      BY ONLY <2>5, <2>7, <3>1
    <3> QED
      BY ONLY <3>1, <3>2
  <2>8. b \in Below[n] /\ b # n
    BY ONLY <2>1, b \in Pending(item)
  <2>9. b \in Values[n] \/ \E i \in DOMAIN s : b \in Below[s[i]]
    BY ONLY <2>2, <2>8
  <2> QED
    BY ONLY <2>6, <2>7, <2>9
<1> QED
  BY <1>2, <1>3, <1>4 DEF Within, Item

\* One read keeps a stream complete.
LEMMA AfterReadComplete ==
  ASSUME IInv, NEW rd \in Read, rd.since <= rd.rev, rd.rev <= Rev,
         rd.state = "reading", StreamCovered(rd), StreamComplete(rd)
  PROVE  StreamComplete(AfterRead(rd))
<1> DEFINE item == Head(rd.todo)
           new == {c \in Wanted(item) : blocks[c] > rd.since}
           rest == Rest(item, new)
           todo == rest \o Tail(rd.todo)
           next == [rd EXCEPT !.todo = todo, !.sent = @ \cup new,
                      !.state = IF todo = <<>> THEN "done" ELSE "reading"]
<1>0. rd.todo # <<>> /\ rd.todo \in Seq(Within(rd.rev)) /\ rd.rev \in Revs
  BY DEF StreamCovered, Read
<1>1. item \in Within(rd.rev) /\ Tail(rd.todo) \in Seq(Within(rd.rev))
      /\ rd.todo[1] = item
      /\ \A i \in DOMAIN rd.todo : i # 1 =>
           i - 1 \in DOMAIN Tail(rd.todo) /\ Tail(rd.todo)[i - 1] = rd.todo[i]
  <2>1. /\ Len(rd.todo) \in Nat /\ Len(rd.todo) >= 1
        /\ DOMAIN rd.todo = 1..Len(rd.todo)
    BY ONLY <1>0, EmptySeq, LenProperties
  <2>2. /\ item \in Within(rd.rev) /\ Tail(rd.todo) \in Seq(Within(rd.rev))
        /\ rd.todo[1] = item /\ Len(Tail(rd.todo)) = Len(rd.todo) - 1
        /\ \A i \in 1..Len(Tail(rd.todo)) : Tail(rd.todo)[i] = rd.todo[i + 1]
    <3>1. /\ Head(rd.todo) \in Within(rd.rev)
          /\ Tail(rd.todo) \in Seq(Within(rd.rev))
          /\ Len(Tail(rd.todo)) = Len(rd.todo) - 1
          /\ \A i \in 1..Len(Tail(rd.todo)) : Tail(rd.todo)[i] = rd.todo[i + 1]
      BY ONLY <1>0, HeadTailProperties
    <3>2. rd.todo[1] = Head(rd.todo)
      OBVIOUS
    <3> QED
      BY ONLY <3>1, <3>2
  <2>3. DOMAIN Tail(rd.todo) = 1..Len(Tail(rd.todo))
    BY ONLY <2>2, LenProperties
  <2>4. ASSUME NEW i \in DOMAIN rd.todo, i # 1
        PROVE  i - 1 \in DOMAIN Tail(rd.todo) /\ Tail(rd.todo)[i - 1] = rd.todo[i]
    <3>1. i \in Nat /\ i - 1 \in 1..Len(Tail(rd.todo)) /\ (i - 1) + 1 = i
      BY ONLY <2>1, <2>2, <2>4
    <3> QED
      BY ONLY <2>2, <2>3, <3>1
  <2> QED
    BY ONLY <2>2, <2>4
<1>2. rest \in Seq(Within(rd.rev))
  BY <1>0, <1>1, ItemWithin
<1>3. CASE ~ (Wanted(item) \subseteq DOMAIN blocks)
  <2>1. AfterRead(rd) = [rd EXCEPT !.state = "failed"]
    BY <1>3 DEF AfterRead
  <2>2. AfterRead(rd).state = "failed"
    BY <2>1 DEF Read
  <2> QED
    BY <2>2 DEF StreamComplete
<1>4. CASE Wanted(item) \subseteq DOMAIN blocks
  <2>1. AfterRead(rd) = next
    BY <1>4 DEF AfterRead
  <2> HIDE DEF todo, new, rest, item
  <2>2. /\ next.rev = rd.rev /\ next.since = rd.since /\ next.todo = todo
        /\ next.sent = rd.sent \cup new
        /\ next.state = IF todo = <<>> THEN "done" ELSE "reading"
    BY DEF Read
  <2>3. /\ \A i \in DOMAIN rest : i \in DOMAIN todo /\ todo[i] = rest[i]
        /\ \A i \in DOMAIN Tail(rd.todo) :
             Len(rest) + i \in DOMAIN todo /\ todo[Len(rest) + i] = Tail(rd.todo)[i]
    <3>1. /\ todo = rest \o Tail(rd.todo)
          /\ rest \in Seq(Within(rd.rev)) /\ Tail(rd.todo) \in Seq(Within(rd.rev))
      BY <1>1, <1>2 DEF todo
    <3>2. /\ Len(todo) = Len(rest) + Len(Tail(rd.todo))
          /\ \A i \in 1..Len(rest) : todo[i] = rest[i]
          /\ \A i \in Len(rest) + 1 .. Len(rest) + Len(Tail(rd.todo)) :
               todo[i] = Tail(rd.todo)[i - Len(rest)]
          /\ todo \in Seq(Within(rd.rev))
      BY ONLY <3>1, ConcatProperties
    <3>3. /\ DOMAIN todo = 1..Len(todo) /\ DOMAIN rest = 1..Len(rest)
          /\ DOMAIN Tail(rd.todo) = 1..Len(Tail(rd.todo))
          /\ Len(rest) \in Nat /\ Len(Tail(rd.todo)) \in Nat
      BY ONLY <3>1, <3>2, LenProperties
    <3> HIDE DEF todo
    <3>4. ASSUME NEW i \in DOMAIN rest
          PROVE  i \in DOMAIN todo /\ todo[i] = rest[i]
      BY ONLY <3>2, <3>3, <3>4
    <3>5. ASSUME NEW i \in DOMAIN Tail(rd.todo)
          PROVE  Len(rest) + i \in DOMAIN todo
                 /\ todo[Len(rest) + i] = Tail(rd.todo)[i]
      <4>1. /\ Len(rest) + i \in Len(rest) + 1 .. Len(rest) + Len(Tail(rd.todo))
            /\ Len(rest) + i \in 1..Len(todo) /\ (Len(rest) + i) - Len(rest) = i
        BY ONLY <3>2, <3>3, <3>5
      <4> QED
        BY ONLY <3>2, <3>3, <4>1
    <3> QED
      BY ONLY <3>4, <3>5
  <2>4. ASSUME NEW b \in TreeAt(rd.rev)
        PROVE  \/ b \in rd.sent \cup new \cup Held(rd)
               \/ \E i \in DOMAIN todo : b \in Pending(todo[i])
    <3>1. CASE b \in rd.sent \cup Held(rd)
      BY <3>1
    <3>2. ASSUME NEW i \in DOMAIN rd.todo, i # 1, b \in Pending(rd.todo[i])
          PROVE  \E j \in DOMAIN todo : b \in Pending(todo[j])
      <4>1. i - 1 \in DOMAIN Tail(rd.todo) /\ Tail(rd.todo)[i - 1] = rd.todo[i]
        BY <1>1, <3>2
      <4>2. todo[Len(rest) + (i - 1)] = rd.todo[i]
            /\ Len(rest) + (i - 1) \in DOMAIN todo
        BY <2>3, <4>1
      <4> QED
        BY <3>2, <4>2
    <3>3. CASE b \in Pending(item)
      <4>1. \/ b \in new \cup Held(rd)
            \/ \E i \in DOMAIN rest : b \in Pending(rest[i])
        <5>1. /\ new = {c \in Wanted(item) : blocks[c] > rd.since}
              /\ rest = Rest(item, new)
          BY DEF new, rest
        <5> QED
          BY ONLY <1>1, <1>4, <3>3, <5>1, ItemDone, IInv, rd \in Read,
             rd.since <= rd.rev, rd.rev <= Rev, ZenonT(40)
      <4> QED
        BY <2>3, <4>1
    <3>4. \/ b \in rd.sent \cup Held(rd)
          \/ \E i \in DOMAIN rd.todo : b \in Pending(rd.todo[i])
      BY DEF StreamComplete
    <3> QED
      BY <1>1, <3>1, <3>2, <3>3, <3>4
  <2>5. Held(next) = Held(rd)
    BY <2>2 DEF Held
  <2> HIDE DEF next
  <2>6. StreamComplete(next)
    BY <2>2, <2>4, <2>5 DEF StreamComplete
  <2> QED
    BY <2>1, <2>6
<1> QED
  BY <1>3, <1>4

\* What a stream is about does not change: trees stay what they were.
LEMMA CompleteKept ==
  ASSUME TablesTypeOK, NEW rd \in Read, rd.since <= rd.rev, rd.rev <= Rev,
         StreamComplete(rd),
         roots' = roots \/ \E root \in Roots : Commit(root)
  PROVE  StreamComplete(rd)'
<1>0. Rev \in 1..MaxRev /\ rd.rev \in 1..Rev /\ rd.since \in 0..Rev
  BY DEF TablesTypeOK, Revs, Read
<1>1. \A q \in 1..Rev : TreeAt(q)' = TreeAt(q)
  <2>1. CASE roots' = roots
    BY <2>1 DEF TreeAt
  <2>2. ASSUME NEW root \in Roots, Commit(root)
        PROVE  \A q \in 1..Rev : TreeAt(q)' = TreeAt(q)
    BY <2>2, TreesAppended DEF Commit
  <2> QED
    BY <2>1, <2>2
<1>2. TreeAt(rd.rev)' = TreeAt(rd.rev)
  BY <1>0, <1>1
<1>3. Held(rd)' = Held(rd)
  <2>1. CASE rd.since = 0
    BY <2>1 DEF Held
  <2>2. CASE rd.since # 0
    <3>1. rd.since \in 1..Rev
      BY <1>0, <2>2
    <3>2. TreeAt(rd.since)' = TreeAt(rd.since)
      BY <1>1, <3>1
    <3> QED
      BY <2>2, <3>2 DEF Held
  <2> QED
    BY <2>1, <2>2
<1> QED
  BY <1>2, <1>3 DEF StreamComplete, Pending, Reach

\* The same of the value a stream has after a step.
LEMMA CompleteNext ==
  ASSUME NEW r \in Readers, NEW x, x = readers'[r], StreamComplete(x)'
  PROVE  StreamComplete(readers[r])'
  BY DEF StreamComplete, Held, Pending, Reach

\* A stream starts with everything ahead of it.
LEMMA StartComplete ==
  ASSUME NEW since
  PROVE  StreamComplete(NewRead(since))
<1> DEFINE todo == <<<<"commit", Rev>>, <<"node", roots[Rev]>>>>
           rd == NewRead(since)
<1>1. rd.state = "reading" /\ rd.rev = Rev /\ rd.todo = todo
  BY DEF NewRead
<1>2. /\ 1 \in DOMAIN todo /\ Pending(todo[1]) = {Rev}
      /\ 2 \in DOMAIN todo /\ Pending(todo[2]) = Below[roots[Rev]]
  BY DEF Pending, Reach
<1> HIDE DEF todo, rd
<1>3. \A b \in TreeAt(rd.rev) : \E i \in DOMAIN rd.todo : b \in Pending(rd.todo[i])
  BY <1>1, <1>2 DEF TreeAt
<1>4. StreamComplete(rd)
  BY <1>1, <1>3 DEF StreamComplete
<1> QED
  BY <1>4 DEF rd

\* A new or ended stream has nothing to be complete about.
LEMMA NoReadComplete == StreamComplete(NoRead)
  BY DEF StreamComplete, NoRead

\* A step of one reader r leaves the trees alone and gives r the stream x.
LEMMA CompleteReader ==
  ASSUME CInv, NEW r \in Readers, NEW x, StreamComplete(x),
         x.since \in 0..x.rev, x.rev \in 1..Rev, x \in Read,
         roots' = roots, readers' = [readers EXCEPT ![r] = x]
  PROVE  \A c \in Readers : StreamComplete(readers[c])'
<1> SUFFICES ASSUME NEW c \in Readers
             PROVE  StreamComplete(readers[c])'
  OBVIOUS
<1>0. TablesTypeOK /\ readers \in [Readers -> Read]
  BY DEF CInv, IInv, TypeOK
<1> PICK y : y = readers'[c]
  OBVIOUS
<1>1. y \in Read /\ y.since <= y.rev /\ y.rev <= Rev /\ StreamComplete(y)
  <2>1. CASE c = r
    BY <1>0, <2>1 DEF Read, Revs
  <2>2. CASE c # r
    BY <1>0, <2>2 DEF CInv, IInv, TypeOK
  <2> QED
    BY <2>1, <2>2
<1> QED
  BY <1>0, <1>1, CompleteKept, CompleteNext

\* The streams, for one step.
LEMMA NextCInv == CInv /\ [Next]_vars => CInv'
<1> SUFFICES ASSUME CInv, [Next]_vars PROVE CInv'
  OBVIOUS
<1>0. /\ IInv /\ IInv' /\ TablesTypeOK /\ readers \in [Readers -> Read]
      /\ Rev \in 1..MaxRev
      /\ \A r \in Readers : readers[r].since <= readers[r].rev
                            /\ readers[r].rev <= Rev
                            /\ StreamComplete(readers[r])
                            /\ StreamCovered(readers[r])
  BY NextIInv DEF CInv, IInv, TypeOK, TablesTypeOK, Revs
<1> SUFFICES \A r \in Readers : StreamComplete(readers[r])'
  BY <1>0 DEF CInv
<1>1. ASSUME readers' = readers, roots' = roots \/ \E root \in Roots : Commit(root)
      PROVE  \A r \in Readers : StreamComplete(readers[r])'
  <2> SUFFICES ASSUME NEW r \in Readers
               PROVE  StreamComplete(readers[r])'
    OBVIOUS
  <2> PICK x : x = readers[r]
    OBVIOUS
  <2>1. StreamComplete(x)'
    BY <1>0, <1>1, CompleteKept
  <2> QED
    BY <1>1, <2>1, CompleteNext
<1>2. CASE Tick
  <2> SUFFICES ASSUME NEW r \in Readers
               PROVE  StreamComplete(readers[r])'
    OBVIOUS
  <2>0. /\ roots' = roots
        /\ readers'[r] = IF readers[r].state = "reading"
                         THEN [readers[r] EXCEPT !.age = Older(@, GracePeriod)]
                         ELSE readers[r]
    BY <1>2 DEF Tick
  <2> PICK x : x = readers[r]
    OBVIOUS
  <2> PICK y : y = readers'[r]
    OBVIOUS
  <2>1. StreamComplete(x)'
    BY <1>0, <2>0, CompleteKept
  <2>2. /\ y.state = x.state /\ y.rev = x.rev /\ y.since = x.since
        /\ y.todo = x.todo /\ y.sent = x.sent
    BY <1>0, <2>0 DEF Read
  <2>3. StreamComplete(y)'
    BY <2>1, <2>2 DEF StreamComplete, Held
  <2> QED
    BY <2>3, CompleteNext
<1>3. ASSUME NEW r \in Readers, NEW since \in 0..Rev, StartRead(r, since)
      PROVE  \A c \in Readers : StreamComplete(readers[c])'
  <2> PICK x : x = NewRead(since)
    OBVIOUS
  <2>1. x \in Read /\ x.rev = Rev /\ x.since = since /\ StreamComplete(x)
    BY <1>0, StreamStarts, StartComplete
  <2>2. roots' = roots /\ readers' = [readers EXCEPT ![r] = x]
    BY <1>3 DEF StartRead
  <2>3. x.since \in 0..x.rev /\ x.rev \in 1..Rev
    BY ONLY <1>0, <2>1, since \in 0..Rev
  <2> QED
    BY <2>1, <2>2, <2>3, CompleteReader
<1>4. ASSUME NEW r \in Readers, ReadBlocks(r)
      PROVE  \A c \in Readers : StreamComplete(readers[c])'
  <2> PICK x : x = AfterRead(readers[r])
    OBVIOUS
  <2>1. readers[r].state = "reading"
    BY <1>4 DEF ReadBlocks
  <2>2. StreamComplete(x)
    BY <1>0, <2>1, AfterReadComplete
  <2>3. x \in Read /\ x.rev = readers[r].rev /\ x.since = readers[r].since
    BY <1>0, <2>1, AfterReadCovered
  <2>4. x.since \in 0..x.rev /\ x.rev \in 1..Rev
    BY <1>0, <2>3 DEF Read, Revs
  <2>5. roots' = roots /\ readers' = [readers EXCEPT ![r] = x]
    BY <1>4 DEF ReadBlocks
  <2> QED
    BY <2>2, <2>3, <2>4, <2>5, CompleteReader
<1>5. ASSUME NEW r \in Readers, EndRead(r)
      PROVE  \A c \in Readers : StreamComplete(readers[c])'
  <2>1. roots' = roots /\ readers' = [readers EXCEPT ![r] = NoRead]
    BY <1>5 DEF EndRead
  <2>2. NoRead \in Read /\ NoRead.since = 0 /\ NoRead.rev = 1
    BY <1>0, NoReadKept DEF Kept, NoRead
  <2>3. NoRead.since \in 0..NoRead.rev /\ NoRead.rev \in 1..Rev
    BY <1>0, <2>2
  <2> QED
    BY <2>1, <2>2, <2>3, NoReadComplete, CompleteReader
<1>6. CASE Crash
  <2> SUFFICES ASSUME NEW r \in Readers
               PROVE  StreamComplete(readers[r])'
    OBVIOUS
  <2>1. readers'[r] = NoRead
    BY <1>6 DEF Crash
  <2>2. NoRead.state = "idle"
    BY DEF NoRead
  <2> QED
    BY <2>1, <2>2 DEF StreamComplete
<1>7. CASE \E root \in Roots : Commit(root)
  BY <1>1, <1>7 DEF Commit
<1>8. CASE Announce \/ DeliverySucceeds \/ DeliveryFails \/ FireAlarm \/ RunAlarm
  BY <1>1, <1>8 DEF Announce, DeliverySucceeds, DeliveryFails, FireAlarm, RunAlarm
<1>9. CASE Reclaim \/ ReclaimFails \/ Restart
  BY <1>1, <1>9 DEF Reclaim, ReclaimFails, Restart
<1>10. CASE UNCHANGED vars
  BY <1>1, <1>10 DEF vars
<1> QED
  BY <1>2, <1>3, <1>4, <1>5, <1>6, <1>7, <1>8, <1>9, <1>10 DEF Next, Step

\* A finished export sent, with what the client of since held, the whole tree
\* of the revision it started from (export.ts 27-77).
THEOREM ExportsComplete == Spec => []ExportComplete
<1>1. Init => CInv
  BY InitIInv, NoReadComplete DEF CInv, Init
<1>2. CInv => ExportComplete
  <2> SUFFICES ASSUME CInv, NEW r \in Readers, readers[r].state = "done"
               PROVE  TreeAt(readers[r].rev) \subseteq
                        readers[r].sent \cup Held(readers[r])
    BY DEF ExportComplete, Held
  <2>1. readers[r].todo = <<>> /\ DOMAIN readers[r].todo = {}
    BY DEF CInv, StreamComplete
  <2> QED
    BY <2>1 DEF CInv, StreamComplete
<1> QED
  BY <1>1, <1>2, NextCInv, PTL DEF Spec
=============================================================================
