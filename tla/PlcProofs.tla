------------------------------ MODULE PlcProofs ------------------------------
EXTENDS PlcUpdate, TLAPS, SequenceTheorems

USE PlcAssumption, ManagedAssumption

-----------------------------------------------------------------------------
(* What the rules say of a log, whatever has been signed *)

Unique(log) == \A i, j \in DOMAIN log : log[i].cid = log[j].cid => i = j

\* The last operation counts, as only a later one can replace it.
LastLive(log) == log # <<>> => ~ log[Len(log)].nullified

\* The operation at b will never be the head again.
Superseded(log, b) == log[b].nullified \/ After(log, b) # {}

\* An operation follows the one it builds on, which it supersedes.
PrevStored(m, log) ==
  \A j \in DOMAIN log : m[log[j].cid].prev = NoCid \/ Stored(log, m[log[j].cid].prev)
Linked(m, log) ==
  \A j, b \in DOMAIN log :
    m[log[j].cid].prev = log[b].cid => b < j /\ Superseded(log, b)

Known(m, log) == \A i \in DOMAIN log : log[i].cid \in DOMAIN m

\* m2 has what m has.
Grown(m, m2) == DOMAIN m \subseteq DOMAIN m2 /\ \A c \in DOMAIN m : m2[c] = m[c]

\* A function on the indices of a sequence is one of the same length.
LEMMA MapIsSeq ==
  ASSUME NEW S, NEW T, NEW s \in Seq(S), NEW f, DOMAIN f = DOMAIN s,
         f = [i \in DOMAIN s |-> f[i]], \A i \in DOMAIN s : f[i] \in T
  PROVE  f \in Seq(T) /\ Len(f) = Len(s)
<1>1. DOMAIN s = 1..Len(s) /\ Len(s) \in Nat
  BY LenProperties
<1>2. f \in [1..Len(s) -> T]
  BY <1>1
<1> QED
  BY <1>1, <1>2, SeqDef, LenProperties

LEMMA NullifyFacts ==
  ASSUME NEW log \in Seq(Entries), NEW o \in Operations
  PROVE  LET new == Nullify(log, o) IN
         /\ new \in Seq(Entries) /\ Len(new) = Len(log) /\ DOMAIN new = DOMAIN log
         /\ \A i \in DOMAIN log :
              /\ new[i].cid = log[i].cid /\ new[i].at = log[i].at
              /\ new[i].nullified <=>
                   log[i].nullified \/ \E b \in Base(log, o) : i \in After(log, b)
<1> DEFINE new == Nullify(log, o)
<1>0. \A i \in DOMAIN log : log[i] \in Entries
  OBVIOUS
<1>1. DOMAIN new = DOMAIN log /\ new = [i \in DOMAIN log |-> new[i]]
  BY DEF Nullify
<1>2. ASSUME NEW i \in DOMAIN log
      PROVE  /\ new[i] \in Entries
             /\ new[i].cid = log[i].cid /\ new[i].at = log[i].at
             /\ new[i].nullified <=>
                  log[i].nullified \/ \E b \in Base(log, o) : i \in After(log, b)
  <2>1. log[i] \in [cid : Cids, at : Times, nullified : BOOLEAN]
    BY <1>0 DEF Entries
  <2>2. new[i] = IF \E b \in Base(log, o) : i \in After(log, b)
                 THEN [log[i] EXCEPT !.nullified = TRUE] ELSE log[i]
    BY DEF Nullify
  <2>3. CASE \E b \in Base(log, o) : i \in After(log, b)
    <3>1. new[i] = [log[i] EXCEPT !.nullified = TRUE]
      BY <2>2, <2>3
    <3> QED
      BY <2>1, <2>3, <3>1 DEF Entries
  <2>4. CASE ~ \E b \in Base(log, o) : i \in After(log, b)
    BY <2>1, <2>2, <2>4 DEF Entries
  <2> QED
    BY <2>3, <2>4
<1>3. new \in Seq(Entries) /\ Len(new) = Len(log)
  <2> HIDE DEF new
  <2> QED
    BY <1>1, <1>2, MapIsSeq
<1> QED
  BY <1>1, <1>2, <1>3

\* new is log with the entry of c at its end, and what o replaces nullified.
IsExtension(log, o, c, at, new) ==
  /\ new \in Seq(Entries) /\ Len(new) = Len(log) + 1
  /\ DOMAIN new = DOMAIN log \cup {Len(log) + 1}
  /\ new[Len(log) + 1] = [cid |-> c, at |-> at, nullified |-> FALSE]
  /\ \A i \in DOMAIN log :
       /\ new[i].cid = log[i].cid
       /\ new[i].nullified <=>
            log[i].nullified \/ \E b \in Base(log, o) : i \in After(log, b)

LEMMA ExtendedFacts ==
  ASSUME NEW log \in Seq(Entries), NEW o \in Operations,
         NEW c \in Cids, NEW at \in Times
  PROVE  IsExtension(log, o, c, at, Extended(log, o, c, at))
<1> DEFINE old == Nullify(log, o)
           e == [cid |-> c, at |-> at, nullified |-> FALSE]
           new == Extended(log, o, c, at)
<1>1. /\ old \in Seq(Entries) /\ Len(old) = Len(log) /\ DOMAIN old = DOMAIN log
      /\ \A i \in DOMAIN log :
           /\ old[i].cid = log[i].cid
           /\ old[i].nullified <=>
                log[i].nullified \/ \E b \in Base(log, o) : i \in After(log, b)
  BY NullifyFacts
<1>2. new = Append(old, e)
  BY DEF Extended
<1>3. e \in Entries
  BY DEF Entries
<1> HIDE DEF old, e, new
<1>4. /\ new \in Seq(Entries) /\ Len(new) = Len(old) + 1
      /\ DOMAIN new = 1..(Len(old) + 1) /\ DOMAIN old = 1..Len(old) /\ Len(old) \in Nat
      /\ new[Len(old) + 1] = e /\ \A i \in 1..Len(old) : new[i] = old[i]
  BY <1>1, <1>2, <1>3
<1> QED
  BY <1>1, <1>4 DEF new, e, IsExtension

\* Validity depends on what is stored only, which is never signed anew.
LEMMA ValidGrown ==
  ASSUME NEW m, NEW m2, NEW log \in Seq(Entries), NEW o, NEW at, Known(m, log),
         Grown(m, m2), ValidNext(m, log, o, at)
  PROVE  ValidNext(m2, log, o, at)
<1>1. \A i \in Live(log) : m2[log[i].cid] = m[log[i].cid]
  BY DEF Known, Grown, Live
<1>2. Base(log, o) \subseteq Live(log) /\ \A i : After(log, i) \subseteq Live(log)
  BY DEF Base, After
<1> QED
  BY <1>1, <1>2 DEF ValidNext

\* An operation received earlier is no later than the window allows.
LEMMA ValidEarlier ==
  ASSUME NEW m, NEW log \in Seq(Entries), NEW o, NEW at \in Nat, NEW t \in Nat,
         t <= at, ValidNext(m, log, o, at)
  PROVE  ValidNext(m, log, o, t)
<1>1. \A i, j : j \in After(log, i) => log[j].at \in Nat
  <2>1. \A j \in DOMAIN log : log[j] \in Entries
    OBVIOUS
  <2> QED
    BY <2>1 DEF After, Live, Entries, Times
<1>2. \A i, j : j \in After(log, i) /\ at <= log[j].at + Window => t <= log[j].at + Window
  BY <1>1
<1> QED
  BY <1>2 DEF ValidNext

-----------------------------------------------------------------------------
(* One operation added at once keeps the log in order *)

\* What Add requires.
CanAdd(m, log, c, at) ==
  c \in DOMAIN m /\ at \in Times /\ ~ Stored(log, c) /\ ValidNext(m, log, m[c], at)

Ordered(m, log) ==
  /\ log \in Seq(Entries) /\ Known(m, log)
  /\ Unique(log) /\ LastLive(log) /\ PrevStored(m, log) /\ Linked(m, log)

Made(m) == m \in Seq(Operations) /\ Len(m) <= MaxOps

LEMMA MadeFacts ==
  ASSUME NEW m, Made(m)
  PROVE  DOMAIN m \subseteq Cids /\ \A c \in DOMAIN m : m[c] \in Operations
BY DEF Made, Cids

\* What is superseded stays so.
LEMMA SupersededStays ==
  ASSUME NEW m, NEW log, NEW c, NEW at, Made(m), Ordered(m, log), CanAdd(m, log, c, at),
         NEW b \in DOMAIN log, Superseded(log, b)
  PROVE  Superseded(Extended(log, m[c], c, at), b)
<1> DEFINE new == Extended(log, m[c], c, at)
           n == Len(log) + 1
<1>1. /\ new \in Seq(Entries) /\ DOMAIN new = DOMAIN log \cup {n}
      /\ ~ new[n].nullified /\ b < n
  <2>1. log \in Seq(Entries) /\ m[c] \in Operations /\ c \in Cids /\ at \in Times
    BY MadeFacts DEF Ordered, CanAdd
  <2>2. /\ new \in Seq(Entries) /\ DOMAIN new = DOMAIN log \cup {n}
        /\ new[n] = [cid |-> c, at |-> at, nullified |-> FALSE]
    <3>1. IsExtension(log, m[c], c, at, new)
      BY ONLY <2>1, ExtendedFacts, Zenon
    <3> HIDE DEF new
    <3> QED
      BY <3>1 DEF IsExtension
  <2>3. b < n
    BY <2>1
  <2> QED
    BY <2>2, <2>3
<1> HIDE DEF new, n
<1>2. n \in After(new, b)
  BY <1>1 DEF After, Live
<1> QED
  BY <1>2 DEF Superseded, new

LEMMA AddOrdered ==
  ASSUME NEW m, NEW log, NEW c, NEW at, Made(m), Ordered(m, log), CanAdd(m, log, c, at)
  PROVE  Ordered(m, Extended(log, m[c], c, at))
<1> DEFINE new == Extended(log, m[c], c, at)
           n == Len(log) + 1
           o == m[c]
<1>0. log \in Seq(Entries) /\ o \in Operations /\ c \in Cids /\ at \in Times
  BY MadeFacts DEF Ordered, CanAdd
<1>1. /\ new \in Seq(Entries) /\ Len(new) = n /\ DOMAIN new = DOMAIN log \cup {n}
      /\ new[n].cid = c /\ ~ new[n].nullified
      /\ \A i \in DOMAIN log : new[i].cid = log[i].cid
  <2>1. /\ new \in Seq(Entries) /\ Len(new) = n /\ DOMAIN new = DOMAIN log \cup {n}
        /\ new[n] = [cid |-> c, at |-> at, nullified |-> FALSE]
        /\ \A i \in DOMAIN log : new[i].cid = log[i].cid
    <3>1. IsExtension(log, o, c, at, new)
      BY ONLY <1>0, ExtendedFacts, Zenon
    <3> HIDE DEF new, o
    <3> QED
      BY <3>1 DEF IsExtension
  <2> QED
    BY <2>1
<1>2. DOMAIN log = 1..Len(log) /\ Len(log) \in Nat /\ n \notin DOMAIN log
      /\ \A i \in DOMAIN log : i \in Nat /\ i < n
  BY <1>0
<1>3. \A i \in DOMAIN log : log[i].cid # c
  BY DEF CanAdd, Stored
<1>4. o.prev = NoCid \/ \E b \in DOMAIN log : log[b].cid = o.prev
  BY DEF CanAdd, ValidNext, Base, Live
<1>5. o.prev # c
  <2>1. NoCid \notin Cids
    BY DEF NoCid, Cids
  <2> QED
    BY <1>0, <1>3, <1>4, <2>1
<1>6. \A b \in DOMAIN log : Superseded(log, b) => Superseded(new, b)
  BY SupersededStays
<1>7. \A b \in DOMAIN log : Superseded(new, b)
  BY <1>1, <1>2 DEF Superseded, After, Live
<1> HIDE DEF new, n, o
<1>8. Known(m, new)
  BY <1>1 DEF Known, Ordered, CanAdd
<1>9. Unique(new)
  BY <1>1, <1>3 DEF Unique, Ordered
<1>10. LastLive(new)
  BY <1>1 DEF LastLive
<1>11. PrevStored(m, new)
  <2> SUFFICES ASSUME NEW j \in DOMAIN new, m[new[j].cid].prev # NoCid
               PROVE  Stored(new, m[new[j].cid].prev)
    BY DEF PrevStored
  <2>1. \E b \in DOMAIN log : log[b].cid = m[new[j].cid].prev
    <3>1. CASE j = n
      BY <1>1, <1>4, <3>1 DEF o
    <3>2. CASE j \in DOMAIN log
      BY <1>1, <3>2 DEF Ordered, PrevStored, Stored
    <3> QED
      BY <1>1, <3>1, <3>2
  <2> QED
    BY <1>1, <2>1 DEF Stored
<1>12. Linked(m, new)
  <2> SUFFICES ASSUME NEW j \in DOMAIN new, NEW b \in DOMAIN new,
                      m[new[j].cid].prev = new[b].cid
               PROVE  b < j /\ Superseded(new, b)
    BY DEF Linked
  <2>1. b # n
    <3>1. CASE j = n
      BY <1>1, <1>5, <3>1 DEF o
    <3>2. CASE j \in DOMAIN log
      <4>1. m[log[j].cid].prev # c
        <5>1. NoCid # c
          BY <1>0 DEF NoCid, Cids
        <5> QED
          BY <1>3, <3>2, <5>1 DEF Ordered, PrevStored, Stored
      <4> QED
        BY <1>1, <3>2, <4>1
    <3> QED
      BY <1>1, <3>1, <3>2
  <2>2. b \in DOMAIN log
    BY <1>1, <2>1
  <2>3. Superseded(new, b)
    BY <1>7, <2>2
  <2>4. b < j
    <3>1. CASE j = n
      BY <1>2, <2>2, <3>1
    <3>2. CASE j \in DOMAIN log
      BY <1>1, <2>2, <3>2 DEF Ordered, Linked
    <3> QED
      BY <1>1, <3>1, <3>2
  <2> QED
    BY <2>3, <2>4
<1> QED
  BY <1>1, <1>8, <1>9, <1>10, <1>11, <1>12 DEF Ordered, new, o

-----------------------------------------------------------------------------
(* The directory adds one operation at once *)

\* A submission that was found valid: what it read is the start of the table, and
\* the table itself if nothing was added since.
SnapshotOK(s) ==
  LET ops == post[s].ops
  IN  post[s].pc = "batch" =>
        /\ ops \in Seq(Entries) /\ Len(ops) <= Len(rows)
        /\ \A i \in DOMAIN ops : ops[i].cid = rows[i].cid
        /\ Len(ops) = Len(rows) => ops = rows
        /\ Known(made, ops) /\ LastLive(ops)
        /\ ValidNext(made, ops, made[post[s].cid], post[s].at)

PostOK(s) ==
  post[s].pc # "idle" => post[s].cid \in DOMAIN made /\ post[s].at <= now

\* The managed key signs on top of operations that list it last.
ManagedLast(m) ==
  \A c \in DOMAIN m :
    m[c].by = Managed /\ m[c].prev # NoCid =>
      LET ks == m[m[c].prev].keys
      IN  m[c].prev \in DOMAIN m /\ ks # <<>> /\ ks[Len(ks)] = Managed

PatchOK(u) ==
  patch[u].pc # "idle" =>
    /\ patch[u].cid \in DOMAIN made /\ patch[u].head \in Cids
    /\ made[patch[u].cid].by = Managed /\ made[patch[u].cid].prev = patch[u].head
    /\ Stored(rows, patch[u].head)
    /\ patch[u].pc = "conflict" =>
         \E b \in DOMAIN rows : rows[b].cid = patch[u].head /\ Superseded(rows, b)

IInv ==
  /\ TypeOK /\ Ordered(made, rows) /\ ManagedLast(made) /\ OneUpdatePerHead
  /\ \A s \in Posts : PostOK(s) /\ SnapshotOK(s)
  /\ \A u \in Patches : PatchOK(u)

\* The comparison of heads finds out that nothing was added since the read.
LEMMA HeadUnmoved ==
  ASSUME IInv, NEW s \in Posts, post[s].pc = "batch",
         HeadIs(Marked(s), made[post[s].cid].prev)
  PROVE  post[s].ops = rows
<1> DEFINE ops == post[s].ops
           o == made[post[s].cid]
           n == Len(rows)
           replaced == Replaced(ops, o)
           mk == Marked(s)
<1>1. /\ ops \in Seq(Entries) /\ Len(ops) <= n /\ rows \in Seq(Entries)
      /\ \A i \in DOMAIN ops : ops[i].cid = rows[i].cid
      /\ Len(ops) = n => ops = rows
      /\ LastLive(ops) /\ LastLive(rows) /\ Unique(rows)
      /\ ValidNext(made, ops, o, post[s].at)
  BY DEF IInv, SnapshotOK, Ordered
<1>2. SUFFICES ASSUME Len(ops) # n PROVE FALSE
  BY <1>1
<1>3. /\ DOMAIN ops = 1..Len(ops) /\ DOMAIN rows = 1..n /\ n \in Nat /\ Len(ops) \in Nat
      /\ Len(ops) < n /\ n \in DOMAIN rows /\ rows # <<>>
  BY <1>1, <1>2
<1>4. DOMAIN mk = DOMAIN rows
      /\ \A i \in DOMAIN rows :
           mk[i] = IF rows[i].cid \in replaced
                   THEN [rows[i] EXCEPT !.nullified = TRUE] ELSE rows[i]
  BY DEF Marked
<1>5. \A i \in DOMAIN rows : rows[i] \in Entries
  BY <1>1
<1>6. ~ rows[n].nullified
  BY <1>1, <1>3 DEF LastLive
<1>7. rows[n].cid \notin replaced
  <2>1. \A b, j : j \in After(ops, b) => j \in DOMAIN ops
    BY DEF After, Live
  <2>2. \A j \in DOMAIN ops : ops[j].cid # rows[n].cid
    BY <1>1, <1>3 DEF Unique
  <2> QED
    BY <2>1, <2>2 DEF Replaced
<1> HIDE DEF replaced, mk
<1>8. n \in Live(mk) /\ \A i \in Live(mk) : i <= n
  BY <1>3, <1>4, <1>6, <1>7 DEF Live
<1>9. o.prev = NoCid \/ \E i \in DOMAIN ops : ops[i].cid = o.prev
  BY <1>1 DEF ValidNext, Base, Live
<1>10. CASE o.prev = NoCid
  BY <1>8, <1>10 DEF HeadIs, mk
<1>11. CASE o.prev # NoCid
  <2>1. PICK i \in Live(mk) : IsHead(mk, i) /\ mk[i].cid = o.prev
    BY <1>11 DEF HeadIs, mk
  <2>2. i = n
    BY <1>3, <1>4, <1>8, <2>1 DEF IsHead, Live
  <2>3. mk[n].cid = rows[n].cid
    BY <1>3, <1>4, <1>5, <1>7
  <2>4. PICK j \in DOMAIN ops : ops[j].cid = o.prev
    BY <1>9, <1>11
  <2> QED
    BY <1>1, <1>3, <2>1, <2>2, <2>3, <2>4 DEF Unique
<1> QED
  BY <1>10, <1>11

\* So the batch stores a valid operation, or nothing.
LEMMA BatchAdds ==
  ASSUME IInv, NEW s \in Posts, Batch(s)
  PROVE  \/ rows' = rows
         \/ LET c == post[s].cid
                at == post[s].at
            IN  CanAdd(made, rows, c, at) /\ rows' = Extended(rows, made[c], c, at)
<1> DEFINE ops == post[s].ops
           c == post[s].cid
           o == made[c]
           replaced == Replaced(ops, o)
<1>1. SUFFICES ASSUME rows' # rows
               PROVE  CanAdd(made, rows, c, post[s].at)
                      /\ rows' = Extended(rows, o, c, post[s].at)
  OBVIOUS
<1>2. /\ post[s].pc = "batch" /\ HeadIs(Marked(s), o.prev) /\ ~ Stored(rows, c)
      /\ rows' = Append(Marked(s), [cid |-> c, at |-> post[s].at, nullified |-> FALSE])
  BY <1>1 DEF Batch
<1>3. ops = rows
  BY <1>2, HeadUnmoved
<1>4. CanAdd(made, rows, c, post[s].at)
  <2>1. ValidNext(made, ops, o, post[s].at)
    BY <1>2 DEF IInv, SnapshotOK
  <2>2. c \in DOMAIN made
    BY <1>2 DEF IInv, PostOK
  <2>3. post[s].at \in Times
    BY DEF IInv, TypeOK, DirectoryTypeOK
  <2> QED
    BY <1>2, <1>3, <2>1, <2>2, <2>3 DEF CanAdd
<1>5. Marked(s) = Nullify(rows, o)
  <2>1. \A i \in DOMAIN rows :
          rows[i].cid \in replaced <=> \E b \in Base(rows, o) : i \in After(rows, b)
    <3>1. \A b : After(rows, b) \subseteq DOMAIN rows
      BY DEF After, Live
    <3>2. Unique(rows) /\ \A i \in DOMAIN rows : rows[i] \in Entries
      BY DEF IInv, Ordered
    <3>3. \A i \in DOMAIN rows : rows[i].cid \in Cids
      BY <3>2 DEF Entries
    <3>4. \A i \in DOMAIN rows :
            rows[i].cid \in replaced
              <=> \E b \in Base(rows, o) : \E j \in After(rows, b) : rows[j].cid = rows[i].cid
      BY <1>3, <3>3 DEF Replaced
    <3> HIDE DEF replaced, o
    <3> QED
      BY <3>1, <3>2, <3>4 DEF Unique
  <2>2. Marked(s) = [i \in DOMAIN rows |->
                       IF rows[i].cid \in replaced
                       THEN [rows[i] EXCEPT !.nullified = TRUE] ELSE rows[i]]
    BY DEF Marked
  <2> HIDE DEF replaced
  <2> QED
    BY <2>1, <2>2 DEF Nullify
<1> QED
  BY <1>2, <1>4, <1>5 DEF Extended

-----------------------------------------------------------------------------
(* What the managed key adds, and what is added while it waits *)

LEMMA NoCidNotCid == NoCid \notin Cids
BY DEF NoCid, Cids

\* The managed key replaces nothing.
LEMMA ManagedReplacesNothing ==
  ASSUME IInv, NEW c, NEW at, CanAdd(made, rows, c, at), made[c].by = Managed,
         NEW b \in Base(rows, made[c])
  PROVE  After(rows, b) = {}
<1> DEFINE ks == made[made[c].prev].keys
<1>1. b \in DOMAIN rows /\ rows[b].cid = made[c].prev /\ b \in Live(rows)
  BY DEF Base, Live
<1>2. made[c].prev \in Cids /\ made[c].prev # NoCid
  <2>1. rows[b] \in Entries
    BY <1>1 DEF IInv, Ordered
  <2> QED
    BY <1>1, <2>1, NoCidNotCid DEF Entries
<1>3. c \in DOMAIN made
  BY DEF CanAdd
<1>4. ks # <<>> /\ ks[Len(ks)] = Managed /\ ks \in Rotations
  <2>1. made[c].prev \in DOMAIN made /\ ks # <<>> /\ ks[Len(ks)] = Managed
    BY <1>2, <1>3 DEF IInv, ManagedLast
  <2>2. made[made[c].prev] \in Operations
    BY <2>1 DEF IInv, TypeOK, DirectoryTypeOK
  <2> QED
    BY <2>1, <2>2 DEF Operations
<1>5. ASSUME NEW p, Outranks(made[c], p, ks)
      PROVE  FALSE
  <2>1. PICK i, j \in DOMAIN ks : i < j /\ ks[i] = Managed
    BY <1>5 DEF Outranks
  <2>2. ks \in Seq(Keys) /\ \A x, y \in DOMAIN ks : ks[x] = ks[y] => x = y
    BY <1>4
  <2>3. DOMAIN ks = 1..Len(ks) /\ Len(ks) \in Nat
    BY <2>2
  <2>4. Len(ks) \in DOMAIN ks
    BY <2>1, <2>3
  <2>5. i = Len(ks)
    BY <1>4, <2>1, <2>2, <2>4
  <2> QED
    BY <2>1, <2>3, <2>5
<1>6. ValidNext(made, rows, made[c], at) /\ Live(rows) # {}
  BY <1>1 DEF CanAdd
<1>7. PICK i \in Base(rows, made[c]) :
        \/ After(rows, i) = {}
        \/ \E j \in After(rows, i) : Outranks(made[c], made[rows[j].cid], made[rows[i].cid].keys)
  BY <1>6 DEF ValidNext
<1>8. i = b
  BY <1>1, <1>7 DEF Base, Live, IInv, Ordered, Unique
<1> QED
  BY <1>1, <1>5, <1>7, <1>8

\* So a managed operation for what is superseded is not valid.
LEMMA SupersededManaged ==
  ASSUME IInv, NEW c, NEW at, CanAdd(made, rows, c, at), made[c].by = Managed,
         NEW b \in DOMAIN rows, rows[b].cid = made[c].prev, Superseded(rows, b)
  PROVE  FALSE
<1>1. made[c].prev # NoCid
  <2>1. rows[b] \in Entries
    BY DEF IInv, Ordered
  <2> QED
    BY <2>1, NoCidNotCid DEF Entries
<1>2. ValidNext(made, rows, made[c], at)
  BY DEF CanAdd
<1>3. PICK i \in Base(rows, made[c]) : TRUE
  BY <1>1, <1>2 DEF ValidNext
<1>4. i = b
  BY <1>3 DEF Base, Live, IInv, Ordered, Unique
<1>5. b \in Base(rows, made[c])
  BY <1>3, <1>4
<1>6. After(rows, b) = {} /\ ~ rows[b].nullified
  BY <1>5, ManagedReplacesNothing DEF Base, Live
<1> QED
  BY <1>6 DEF Superseded

-----------------------------------------------------------------------------
(* The invariant holds initially and is preserved *)

LEMMA InitInv == Init => IInv
<1> SUFFICES ASSUME Init PROVE IInv
  OBVIOUS
<1>1. PICK o : o \in Operations /\ o.prev = NoCid /\ made = <<o>>
  BY DEF Init, Operations
<1>2. Made(made) /\ DOMAIN made = {1} /\ made[1] = o
  BY <1>1 DEF Made
<1>3. rows = <<>> /\ DOMAIN rows = {} /\ Live(rows) = {}
  BY DEF Init, DirectoryInit, Live
<1>4. TypeOK
  BY <1>2, <1>3 DEF Init, DirectoryInit, TypeOK, DirectoryTypeOK, Made, NoPost, NoPatch,
     Ended, Times
<1>5. Ordered(made, rows) /\ OneUpdatePerHead
  BY <1>3 DEF Ordered, Known, Unique, LastLive, PrevStored, Linked, OneUpdatePerHead
<1>6. ManagedLast(made)
  BY <1>1, <1>2 DEF ManagedLast
<1>7. \A s \in Posts : PostOK(s) /\ SnapshotOK(s)
  BY DEF Init, DirectoryInit, PostOK, SnapshotOK, NoPost
<1>8. \A u \in Patches : PatchOK(u)
  BY DEF Init, PatchOK, NoPatch
<1> QED
  BY <1>4, <1>5, <1>6, <1>7, <1>8 DEF IInv

LEMMA TypeFacts ==
  ASSUME IInv
  PROVE  /\ Made(made) /\ sent \subseteq DOMAIN made /\ rows \in Seq(Entries)
         /\ Known(made, rows) /\ now \in Times
         /\ \A s \in Posts : post[s] \in [pc : {"idle", "read", "batch"}, cid : Cids \cup {NoCid},
                                         at : Times, ops : Seq(Entries)]
         /\ \A u \in Patches : patch[u] \in [pc : Ended \cup {"signed", "submitted"},
                                            head : Cids \cup {NoCid}, cid : Cids \cup {NoCid}]
BY DEF IInv, TypeOK, DirectoryTypeOK, Made, Known

\* Signing makes an operation, or finds it made.
LEMMA SignedFacts ==
  ASSUME Made(made), NEW o \in Operations, NEW c \in Cids, Signed(o, c)
  PROVE  /\ Made(made') /\ Grown(made, made')
         /\ c \in DOMAIN made' /\ made'[c] = o
         /\ \A d \in DOMAIN made' : d \in DOMAIN made \/ made'[d] = o
<1>1. CASE \E d \in DOMAIN made : made[d] = o
  BY <1>1 DEF Signed, Grown
<1>2. CASE ~ \E d \in DOMAIN made : made[d] = o
  <2>1. /\ Len(made) < MaxOps /\ c = Len(made) + 1 /\ made' = Append(made, o)
        /\ made \in Seq(Operations) /\ Len(made) \in Nat
    BY <1>2 DEF Signed, Made
  <2> QED
    BY <2>1 DEF Made, Grown
<1> QED
  BY <1>1, <1>2

\* What is stored is as it was when more has been signed.
LEMMA OrderedGrown ==
  ASSUME NEW m, NEW m2, NEW log, Grown(m, m2), Ordered(m, log)
  PROVE  Ordered(m2, log)
<1>1. \A i \in DOMAIN log : m2[log[i].cid] = m[log[i].cid] /\ log[i].cid \in DOMAIN m2
  BY DEF Ordered, Known, Grown
<1> QED
  BY <1>1 DEF Ordered, Known, PrevStored, Linked

LEMMA SnapshotGrown ==
  ASSUME IInv, NEW s \in Posts, Grown(made, made'), rows' = rows, post'[s] = post[s],
         now' \in Nat, now <= now'
  PROVE  PostOK(s)' /\ SnapshotOK(s)'
<1>1. PostOK(s) /\ SnapshotOK(s) /\ post[s].at \in Nat /\ now \in Nat
  BY TypeFacts DEF IInv, Times
<1>2. PostOK(s)'
  BY <1>1 DEF PostOK, Grown
<1>3. ASSUME post[s].pc = "batch"
      PROVE  /\ Known(made', post[s].ops)
             /\ ValidNext(made', post[s].ops, made'[post[s].cid], post[s].at)
  <2>1. /\ post[s].ops \in Seq(Entries) /\ Known(made, post[s].ops)
        /\ ValidNext(made, post[s].ops, made[post[s].cid], post[s].at)
        /\ post[s].cid \in DOMAIN made
    BY <1>1, <1>3 DEF SnapshotOK, PostOK
  <2>2. made'[post[s].cid] = made[post[s].cid]
    BY <2>1 DEF Grown
  <2>3. ValidNext(made', post[s].ops, made[post[s].cid], post[s].at)
    BY <2>1, ValidGrown
  <2> QED
    BY <2>1, <2>2, <2>3 DEF Known, Grown
<1>4. SnapshotOK(s)'
  BY <1>1, <1>3 DEF SnapshotOK
<1> QED
  BY <1>2, <1>4

LEMMA PatchGrown ==
  ASSUME IInv, NEW u \in Patches, Grown(made, made'), rows' = rows, patch'[u] = patch[u]
  PROVE  PatchOK(u)'
<1>1. PatchOK(u)
  BY DEF IInv
<1> QED
  BY <1>1 DEF PatchOK, Grown

LEMMA OneUpdateGrown ==
  ASSUME IInv, Grown(made, made'), rows' = rows
  PROVE  OneUpdatePerHead'
<1>1. \A i \in DOMAIN rows : made'[rows[i].cid] = made[rows[i].cid]
  BY TypeFacts DEF Known, Grown
<1> QED
  BY <1>1 DEF IInv, OneUpdatePerHead

\* An operation is signed: by a holder, or by Accounts on top of one that lists
\* its key last.
LEMMA SignKeeps ==
  ASSUME IInv, NEW o \in Operations, NEW c \in Cids, Signed(o, c),
         o.by = Managed =>
           LET ks == made[o.prev].keys
           IN  o.prev \in DOMAIN made /\ ks # <<>> /\ ks[Len(ks)] = Managed,
         UNCHANGED directory
  PROVE  /\ Made(made') /\ Grown(made, made') /\ c \in DOMAIN made' /\ made'[c] = o
         /\ DOMAIN made' \subseteq Cids
         /\ Ordered(made', rows') /\ ManagedLast(made') /\ OneUpdatePerHead'
         /\ \A s \in Posts : PostOK(s)' /\ SnapshotOK(s)'
<1>1. /\ Made(made') /\ Grown(made, made') /\ c \in DOMAIN made' /\ made'[c] = o
      /\ \A d \in DOMAIN made' : d \in DOMAIN made \/ made'[d] = o
  BY TypeFacts, SignedFacts
<1>2. rows' = rows /\ post' = post /\ now' = now /\ now \in Nat
  BY TypeFacts DEF directory, Times
<1>3. Ordered(made', rows')
  BY <1>1, <1>2, OrderedGrown DEF IInv
<1>4. ManagedLast(made')
  <2> SUFFICES ASSUME NEW d \in DOMAIN made', made'[d].by = Managed, made'[d].prev # NoCid
               PROVE  LET ks == made'[made'[d].prev].keys
                      IN  made'[d].prev \in DOMAIN made' /\ ks # <<>> /\ ks[Len(ks)] = Managed
    BY DEF ManagedLast
  <2>1. CASE d \in DOMAIN made
    <3>1. made'[d] = made[d]
      BY <1>1, <2>1 DEF Grown
    <3>2. LET ks == made[made[d].prev].keys
          IN  made[d].prev \in DOMAIN made /\ ks # <<>> /\ ks[Len(ks)] = Managed
      BY <2>1, <3>1 DEF IInv, ManagedLast
    <3> QED
      BY <1>1, <3>1, <3>2 DEF Grown
  <2>2. CASE made'[d] = o
    BY <1>1, <2>2 DEF Grown
  <2> QED
    BY <1>1, <2>1, <2>2
<1>5. OneUpdatePerHead'
  BY <1>1, <1>2, OneUpdateGrown
<1>6. \A s \in Posts : PostOK(s)' /\ SnapshotOK(s)'
  BY <1>1, <1>2, SnapshotGrown
<1>7. DOMAIN made' \subseteq Cids
  BY <1>1, MadeFacts
<1> QED
  BY <1>1, <1>3, <1>4, <1>5, <1>6, <1>7

\* The parts about the table when neither it nor what was signed changes.
LEMMA Kept ==
  ASSUME IInv, made' = made, rows' = rows
  PROVE  Ordered(made, rows)' /\ ManagedLast(made)' /\ OneUpdatePerHead'
<1>1. Grown(made, made')
  BY DEF Grown
<1> QED
  BY <1>1, OneUpdateGrown DEF IInv

\* A step of one submission that stores nothing.
LEMMA PostStep ==
  ASSUME IInv, NEW s \in Posts, NEW new,
         new \in [pc : {"idle", "read", "batch"}, cid : Cids \cup {NoCid},
                  at : Times, ops : Seq(Entries)],
         post' = [post EXCEPT ![s] = new],
         UNCHANGED <<made, sent, rows, now, patch>>,
         PostOK(s)' /\ SnapshotOK(s)'
  PROVE  IInv'
<1>1. TypeOK'
  BY DEF IInv, TypeOK, DirectoryTypeOK
<1>2. Grown(made, made') /\ now \in Nat /\ now' = now
  BY TypeFacts DEF Grown, Times
<1>3. \A t \in Posts : PostOK(t)' /\ SnapshotOK(t)'
  <2> SUFFICES ASSUME NEW t \in Posts, t # s
               PROVE  PostOK(t)' /\ SnapshotOK(t)'
    OBVIOUS
  <2>1. post'[t] = post[t]
    BY TypeFacts DEF IInv, TypeOK, DirectoryTypeOK
  <2> QED
    BY <1>2, <2>1, SnapshotGrown
<1>4. \A u \in Patches : PatchOK(u)'
  BY <1>2, PatchGrown
<1> QED
  BY <1>1, <1>3, <1>4, Kept DEF IInv

LEMMA ReceiveInv ==
  ASSUME IInv, NEW s \in Posts, NEW c \in Cids, Receive(s, c), UNCHANGED patch
  PROVE  IInv'
<1> DEFINE new == [pc |-> "read", cid |-> c, at |-> now, ops |-> <<>>]
<1>1. /\ new \in [pc : {"idle", "read", "batch"}, cid : Cids \cup {NoCid},
                  at : Times, ops : Seq(Entries)]
      /\ post' = [post EXCEPT ![s] = new] /\ post'[s] = new
      /\ c \in DOMAIN made /\ UNCHANGED <<made, sent, rows, now, patch>> /\ now \in Nat
  BY TypeFacts DEF Receive, IInv, TypeOK, DirectoryTypeOK, Times
<1>2. PostOK(s)' /\ SnapshotOK(s)'
  BY <1>1 DEF PostOK, SnapshotOK
<1> QED
  BY <1>1, <1>2, PostStep

LEMMA EndPostInv ==
  ASSUME IInv, NEW s \in Posts, EndPost(s), UNCHANGED <<made, sent, rows, now, patch>>
  PROVE  IInv'
<1>1. /\ NoPost \in [pc : {"idle", "read", "batch"}, cid : Cids \cup {NoCid},
                     at : Times, ops : Seq(Entries)]
      /\ post' = [post EXCEPT ![s] = NoPost] /\ post'[s] = NoPost
  BY DEF EndPost, IInv, TypeOK, DirectoryTypeOK, NoPost, Times
<1>2. PostOK(s)' /\ SnapshotOK(s)'
  BY <1>1 DEF PostOK, SnapshotOK, NoPost
<1> QED
  BY <1>1, <1>2, PostStep

LEMMA ReadInv ==
  ASSUME IInv, NEW s \in Posts, Read(s), UNCHANGED patch
  PROVE  IInv'
<1>1. CASE EndPost(s)
  BY <1>1, EndPostInv DEF Read
<1>2. CASE ~ EndPost(s)
  <2> DEFINE new == [post[s] EXCEPT !.pc = "batch", !.ops = rows]
  <2>1. /\ new \in [pc : {"idle", "read", "batch"}, cid : Cids \cup {NoCid},
                    at : Times, ops : Seq(Entries)]
        /\ post' = [post EXCEPT ![s] = new] /\ post'[s] = new
        /\ UNCHANGED <<made, sent, rows, now, patch>>
        /\ ValidNext(made, rows, made[post[s].cid], now)
    BY <1>2, TypeFacts DEF Read, IInv, TypeOK, DirectoryTypeOK
  <2>2. new.pc = "batch" /\ new.cid = post[s].cid /\ new.at = post[s].at /\ new.ops = rows
    BY TypeFacts
  <2>3. post[s].cid \in DOMAIN made /\ post[s].at <= now /\ now \in Nat /\ post[s].at \in Nat
    BY TypeFacts DEF Read, IInv, PostOK, Times
  <2>4. ValidNext(made, rows, made[post[s].cid], post[s].at)
    BY <2>1, <2>3, ValidEarlier, TypeFacts
  <2> HIDE DEF new
  <2>5. PostOK(s)'
    BY <2>1, <2>2, <2>3 DEF PostOK
  <2>6. SnapshotOK(s)'
    BY <2>1, <2>2, <2>4, TypeFacts DEF SnapshotOK, IInv, Ordered
  <2> QED
    BY <2>1, <2>5, <2>6, PostStep
<1> QED
  BY <1>1, <1>2

LEMMA TickInv ==
  ASSUME IInv, Tick, UNCHANGED patch
  PROVE  IInv'
<1>1. now' \in Times /\ now' \in Nat /\ now <= now' /\ UNCHANGED <<made, sent, rows, post, patch>>
  BY TypeFacts DEF Tick, Times
<1>2. TypeOK'
  BY <1>1 DEF IInv, TypeOK, DirectoryTypeOK
<1>3. Grown(made, made')
  BY <1>1 DEF Grown
<1>4. \A s \in Posts : PostOK(s)' /\ SnapshotOK(s)'
  BY <1>1, <1>3, SnapshotGrown
<1>5. \A u \in Patches : PatchOK(u)'
  BY <1>1, <1>3, PatchGrown
<1> QED
  BY <1>1, <1>2, <1>4, <1>5, Kept DEF IInv

-----------------------------------------------------------------------------
(* An operation is stored *)

LEMMA AddSnapshot ==
  ASSUME IInv, NEW c, NEW at, CanAdd(made, rows, c, at), rows' = Extended(rows, made[c], c, at),
         made' = made, now' = now, NEW s \in Posts, post'[s] = post[s]
  PROVE  PostOK(s)' /\ SnapshotOK(s)'
<1>1. PostOK(s) /\ SnapshotOK(s)
  BY DEF IInv
<1>2. rows \in Seq(Entries) /\ made[c] \in Operations /\ c \in Cids /\ at \in Times
  BY TypeFacts, MadeFacts DEF CanAdd
<1>3. IsExtension(rows, made[c], c, at, rows')
  BY <1>2, ExtendedFacts
<1>4. Len(rows') = Len(rows) + 1 /\ Len(rows) \in Nat /\ \A i \in DOMAIN rows : rows'[i].cid = rows[i].cid
  BY <1>2, <1>3 DEF IsExtension
<1>5. ASSUME post[s].pc = "batch"
      PROVE  /\ Len(post[s].ops) <= Len(rows') /\ Len(post[s].ops) # Len(rows')
             /\ \A i \in DOMAIN post[s].ops : post[s].ops[i].cid = rows'[i].cid
  <2>1. /\ post[s].ops \in Seq(Entries) /\ Len(post[s].ops) <= Len(rows)
        /\ \A i \in DOMAIN post[s].ops : post[s].ops[i].cid = rows[i].cid
    BY <1>1, <1>5 DEF SnapshotOK
  <2>2. Len(post[s].ops) \in Nat /\ DOMAIN post[s].ops \subseteq DOMAIN rows
    BY <1>2, <2>1
  <2> QED
    BY <1>4, <2>1, <2>2
<1> QED
  BY <1>1, <1>5 DEF PostOK, SnapshotOK

LEMMA AddPatch ==
  ASSUME IInv, NEW c, NEW at, CanAdd(made, rows, c, at), rows' = Extended(rows, made[c], c, at),
         made' = made, NEW u \in Patches, patch' = patch
  PROVE  PatchOK(u)'
<1>1. rows \in Seq(Entries) /\ made[c] \in Operations /\ c \in Cids /\ at \in Times
  BY TypeFacts, MadeFacts DEF CanAdd
<1>2. IsExtension(rows, made[c], c, at, rows')
  BY <1>1, ExtendedFacts
<1>3. DOMAIN rows \subseteq DOMAIN rows' /\ \A i \in DOMAIN rows : rows'[i].cid = rows[i].cid
  BY <1>2 DEF IsExtension
<1>4. \A b \in DOMAIN rows : Superseded(rows, b) => Superseded(rows', b)
  BY SupersededStays DEF IInv, Made, TypeOK, DirectoryTypeOK
<1>5. PatchOK(u)
  BY DEF IInv
<1> QED
  BY <1>3, <1>4, <1>5 DEF PatchOK, Stored

LEMMA AddOneUpdate ==
  ASSUME IInv, NEW c, NEW at, CanAdd(made, rows, c, at), rows' = Extended(rows, made[c], c, at),
         made' = made
  PROVE  OneUpdatePerHead'
<1> DEFINE n == Len(rows) + 1
<1>1. rows \in Seq(Entries) /\ made[c] \in Operations /\ c \in Cids /\ at \in Times
  BY TypeFacts, MadeFacts DEF CanAdd
<1>2. IsExtension(rows, made[c], c, at, rows')
  BY <1>1, ExtendedFacts
<1>3. /\ DOMAIN rows' = DOMAIN rows \cup {n} /\ rows'[n].cid = c
      /\ \A i \in DOMAIN rows : rows'[i].cid = rows[i].cid
  BY <1>2 DEF IsExtension
<1>4. ASSUME NEW j \in DOMAIN rows, made[c].by = Managed, made[c].prev # NoCid,
             made[rows[j].cid].prev = made[c].prev
      PROVE  FALSE
  <2>1. PICK b \in DOMAIN rows : rows[b].cid = made[c].prev
    BY <1>4 DEF IInv, Ordered, PrevStored, Stored
  <2>2. Superseded(rows, b)
    BY <1>4, <2>1 DEF IInv, Ordered, Linked
  <2> QED
    BY <1>4, <2>1, <2>2, SupersededManaged
<1> HIDE DEF n
<1> QED
  BY <1>3, <1>4 DEF IInv, OneUpdatePerHead

LEMMA BatchInv ==
  ASSUME IInv, NEW s \in Posts, Batch(s), UNCHANGED patch
  PROVE  IInv'
<1>1. CASE rows' = rows
  BY <1>1, EndPostInv DEF Batch
<1>2. CASE rows' # rows
  <2>1. PICK c, at : CanAdd(made, rows, c, at) /\ rows' = Extended(rows, made[c], c, at)
    BY <1>2, BatchAdds
  <2>2. /\ UNCHANGED <<made, sent, now, patch>> /\ post' = [post EXCEPT ![s] = NoPost]
        /\ \A t \in Posts : t # s => post'[t] = post[t]
        /\ post'[s] = NoPost
    BY DEF Batch, EndPost, IInv, TypeOK, DirectoryTypeOK
  <2>3. Ordered(made, rows')
    BY <2>1, AddOrdered, TypeFacts DEF IInv
  <2>4. TypeOK'
    <3>1. NoPost \in [pc : {"idle", "read", "batch"}, cid : Cids \cup {NoCid},
                     at : Times, ops : Seq(Entries)]
      BY DEF NoPost, Times
    <3> QED
      BY <2>2, <2>3, <3>1 DEF IInv, TypeOK, DirectoryTypeOK, Ordered, Known
  <2>5. \A t \in Posts : PostOK(t)' /\ SnapshotOK(t)'
    <3>1. PostOK(s)' /\ SnapshotOK(s)'
      BY <2>2 DEF PostOK, SnapshotOK, NoPost
    <3>2. ASSUME NEW t \in Posts, t # s PROVE PostOK(t)' /\ SnapshotOK(t)'
      BY <2>1, <2>2, <3>2, AddSnapshot
    <3> QED
      BY <3>1, <3>2
  <2>6. \A u \in Patches : PatchOK(u)'
    BY <2>1, <2>2, AddPatch
  <2>7. OneUpdatePerHead'
    BY <2>1, <2>2, AddOneUpdate
  <2> QED
    BY <2>2, <2>3, <2>4, <2>5, <2>6, <2>7 DEF IInv
<1> QED
  BY <1>1, <1>2

-----------------------------------------------------------------------------
(* Holders and Accounts *)

LEMMA HoldInv ==
  ASSUME IInv, NEW k \in Keys, NEW p \in Cids, NEW ks \in Rotations, NEW tomb \in BOOLEAN,
         Hold(k, p, ks, tomb)
  PROVE  IInv'
<1> DEFINE o == [prev |-> p, by |-> k, keys |-> ks, endpoint |-> made[p].endpoint, tomb |-> tomb]
<1>1. p \in DOMAIN made /\ made[p] \in Operations
  BY TypeFacts, MadeFacts DEF Hold, Stored, Known
<1>2. o \in Operations /\ o.by = k
  BY <1>1 DEF Operations
<1>3. PICK c \in Cids : Signed(o, c) /\ sent' = sent \cup {c}
  BY DEF Hold
<1>4. k # Managed /\ UNCHANGED directory /\ patch' = patch
  BY DEF Hold
<1> HIDE DEF o
<1>5. /\ Made(made') /\ Grown(made, made') /\ c \in DOMAIN made'
      /\ Ordered(made', rows') /\ ManagedLast(made') /\ OneUpdatePerHead'
      /\ \A s \in Posts : PostOK(s)' /\ SnapshotOK(s)'
  BY <1>2, <1>3, <1>4, SignKeeps
<1>6. rows' = rows /\ post' = post /\ now' = now
  BY <1>4 DEF directory
<1>7. TypeOK'
  BY <1>3, <1>4, <1>5, <1>6, TypeFacts
  DEF IInv, TypeOK, DirectoryTypeOK, Made, Grown, Ordered, Known
<1>8. \A u \in Patches : PatchOK(u)'
  BY <1>4, <1>5, <1>6, PatchGrown
<1> QED
  BY <1>5, <1>7, <1>8 DEF IInv

\* A step of one request to Accounts that signs nothing.
LEMMA PatchStep ==
  ASSUME IInv, NEW u \in Patches, NEW new,
         new \in [pc : Ended \cup {"signed", "submitted"},
                 head : Cids \cup {NoCid}, cid : Cids \cup {NoCid}],
         patch' = [patch EXCEPT ![u] = new], PatchOK(u)',
         sent' \subseteq DOMAIN made, UNCHANGED <<made, directory>>
  PROVE  IInv'
<1>1. Grown(made, made') /\ rows' = rows /\ post' = post /\ now' = now /\ now \in Nat
  BY TypeFacts DEF Grown, directory, Times
<1>2. TypeOK'
  BY <1>1 DEF IInv, TypeOK, DirectoryTypeOK
<1>3. \A s \in Posts : PostOK(s)' /\ SnapshotOK(s)'
  BY <1>1, SnapshotGrown
<1>4. \A v \in Patches : PatchOK(v)'
  <2> SUFFICES ASSUME NEW v \in Patches, v # u PROVE PatchOK(v)'
    OBVIOUS
  <2>1. patch'[v] = patch[v]
    BY DEF IInv, TypeOK
  <2> QED
    BY <1>1, <2>1, PatchGrown
<1> QED
  BY <1>1, <1>2, <1>3, <1>4, Kept DEF IInv

LEMMA EndPatchInv ==
  ASSUME IInv, NEW u \in Patches, EndPatch(u), UNCHANGED <<made, sent, directory>>
  PROVE  IInv'
<1>1. /\ NoPatch \in [pc : Ended \cup {"signed", "submitted"},
                      head : Cids \cup {NoCid}, cid : Cids \cup {NoCid}]
      /\ patch' = [patch EXCEPT ![u] = NoPatch] /\ patch'[u] = NoPatch
      /\ sent' \subseteq DOMAIN made
  BY TypeFacts DEF EndPatch, IInv, TypeOK, NoPatch, Ended
<1>2. PatchOK(u)'
  BY <1>1 DEF PatchOK, NoPatch
<1> QED
  BY <1>1, <1>2, PatchStep

LEMMA SignUpdateInv ==
  ASSUME IInv, NEW u \in Patches, NEW e \in Endpoints, SignUpdate(u, e)
  PROVE  IInv'
<1>1. PICK i \in Resolved(rows) :
        LET h == rows[i].cid
            ks == made[h].keys
        IN  /\ ks # <<>> /\ ks[Len(ks)] = Managed
            /\ \E c \in Cids :
                 /\ Signed([made[h] EXCEPT !.prev = h, !.by = Managed, !.endpoint = e], c)
                 /\ patch' = [patch EXCEPT ![u] = [pc |-> "signed", head |-> h, cid |-> c]]
  BY DEF SignUpdate
<1> DEFINE h == rows[i].cid
           o == [made[h] EXCEPT !.prev = h, !.by = Managed, !.endpoint = e]
<1>2. PICK c \in Cids :
        /\ Signed(o, c)
        /\ patch' = [patch EXCEPT ![u] = [pc |-> "signed", head |-> h, cid |-> c]]
  BY <1>1
<1>3. h \in Cids /\ h \in DOMAIN made /\ made[h] \in Operations /\ i \in DOMAIN rows
  BY TypeFacts, MadeFacts DEF Resolved, Known
<1>4. o \in Operations /\ o.by = Managed /\ o.prev = h
  BY <1>3 DEF Operations
<1>5. made[h].keys # <<>> /\ made[h].keys[Len(made[h].keys)] = Managed
  BY <1>1
<1>6. UNCHANGED directory /\ sent' = sent
  BY DEF SignUpdate
<1> HIDE DEF o, h
<1>7. /\ Made(made') /\ Grown(made, made') /\ c \in DOMAIN made' /\ made'[c] = o
      /\ Ordered(made', rows') /\ ManagedLast(made') /\ OneUpdatePerHead'
      /\ \A s \in Posts : PostOK(s)' /\ SnapshotOK(s)'
  BY <1>2, <1>3, <1>4, <1>5, <1>6, SignKeeps
<1>8. rows' = rows /\ post' = post /\ now' = now
  BY <1>6 DEF directory
<1>9. TypeOK'
  BY <1>2, <1>3, <1>6, <1>7, <1>8, TypeFacts
  DEF IInv, TypeOK, DirectoryTypeOK, Made, Grown, Ordered, Known
<1>10. ASSUME NEW v \in Patches
       PROVE  PatchOK(v)'
  <2>1. CASE v = u
    <3>1. patch'[u] = [pc |-> "signed", head |-> h, cid |-> c]
      BY <1>2 DEF IInv, TypeOK
    <3>2. Stored(rows', h)
      BY <1>3, <1>8 DEF Stored, h
    <3> QED
      BY <1>3, <1>4, <1>7, <2>1, <3>1, <3>2 DEF PatchOK
  <2>2. CASE v # u
    <3>1. patch'[v] = patch[v]
      BY <1>2, <2>2 DEF IInv, TypeOK
    <3> QED
      BY <1>7, <1>8, <3>1, PatchGrown
  <2> QED
    BY <2>1, <2>2
<1> QED
  BY <1>7, <1>9, <1>10 DEF IInv

LEMMA SubmitInv ==
  ASSUME IInv, NEW u \in Patches, Submit(u)
  PROVE  IInv'
<1>1. CASE EndPatch(u) /\ sent' = sent
  BY <1>1, EndPatchInv DEF Submit
<1>2. CASE ~ (EndPatch(u) /\ sent' = sent)
  <2> DEFINE new == [patch[u] EXCEPT !.pc = "submitted"]
  <2>1. /\ sent' = sent \cup {patch[u].cid} /\ patch[u].pc = "signed"
        /\ UNCHANGED <<made, directory>> /\ patch' = [patch EXCEPT ![u] = new]
    BY <1>2 DEF Submit
  <2>2. /\ new \in [pc : Ended \cup {"signed", "submitted"},
                    head : Cids \cup {NoCid}, cid : Cids \cup {NoCid}]
        /\ new.pc = "submitted" /\ new.head = patch[u].head /\ new.cid = patch[u].cid
        /\ patch'[u] = new
    BY <2>1, TypeFacts DEF IInv, TypeOK
  <2>3. PatchOK(u)
    BY DEF IInv
  <2>4. sent' \subseteq DOMAIN made /\ rows' = rows /\ made' = made
    BY <2>1, <2>3, TypeFacts DEF PatchOK, directory
  <2> HIDE DEF new
  <2>5. PatchOK(u)'
    BY <2>1, <2>2, <2>3, <2>4 DEF PatchOK
  <2> QED
    BY <2>1, <2>2, <2>4, <2>5, PatchStep
<1> QED
  BY <1>1, <1>2

LEMMA ObserveInv ==
  ASSUME IInv, NEW u \in Patches, Observe(u)
  PROVE  IInv'
<1>1. PICK i \in Resolved(rows) :
        patch' = [patch EXCEPT ![u].pc =
          IF rows[i].cid = patch[u].cid THEN "changed"
          ELSE IF rows[i].cid # patch[u].head THEN "conflict" ELSE "unknown"]
  BY DEF Observe
<1> DEFINE pc == IF rows[i].cid = patch[u].cid THEN "changed"
                 ELSE IF rows[i].cid # patch[u].head THEN "conflict" ELSE "unknown"
           new == [patch[u] EXCEPT !.pc = pc]
<1>2. pc \in Ended /\ pc # "idle" /\ (pc = "conflict" => rows[i].cid # patch[u].head)
  BY DEF Ended
<1>3. /\ new \in [pc : Ended \cup {"signed", "submitted"},
                  head : Cids \cup {NoCid}, cid : Cids \cup {NoCid}]
      /\ new.pc = pc /\ new.head = patch[u].head /\ new.cid = patch[u].cid
      /\ patch' = [patch EXCEPT ![u] = new] /\ patch'[u] = new
  BY <1>1, <1>2, TypeFacts DEF IInv, TypeOK
<1>4. PatchOK(u) /\ patch[u].pc = "submitted" /\ UNCHANGED <<made, sent, directory>>
      /\ sent \subseteq DOMAIN made
  BY TypeFacts DEF IInv, Observe
<1> HIDE DEF pc, new
<1>5. ASSUME pc = "conflict"
      PROVE  \E b \in DOMAIN rows : rows[b].cid = patch[u].head /\ Superseded(rows, b)
  <2>1. PICK b \in DOMAIN rows : rows[b].cid = patch[u].head
    BY <1>4 DEF PatchOK, Stored
  <2>2. IsHead(rows, i) /\ rows[i].cid # rows[b].cid
    BY <1>1, <1>2, <1>5, <2>1 DEF Resolved, pc
  <2>3. i \in Nat /\ b \in Nat /\ i # b
    <3>1. rows \in Seq(Entries) /\ i \in DOMAIN rows
      BY TypeFacts DEF Resolved
    <3> QED
      BY <2>2, <3>1
  <2>4. ~ rows[b].nullified => i \in After(rows, b)
    BY <2>2, <2>3 DEF IsHead, After, Live
  <2> QED
    BY <2>1, <2>4 DEF Superseded
<1>6. PatchOK(u)'
  BY <1>2, <1>3, <1>4, <1>5 DEF PatchOK, directory
<1> QED
  BY <1>3, <1>4, <1>6, PatchStep

-----------------------------------------------------------------------------
(* The theorems *)

LEMMA NextInv == IInv /\ [Next]_vars => IInv'
<1> SUFFICES ASSUME IInv, [Next]_vars PROVE IInv'
  OBVIOUS
<1>1. CASE UNCHANGED vars
  BY <1>1 DEF vars, directory, IInv, TypeOK, DirectoryTypeOK, OneUpdatePerHead, PostOK,
     SnapshotOK, PatchOK
<1>2. CASE DirectoryNext /\ UNCHANGED patch
  <2>1. ASSUME NEW s \in Posts, NEW c \in Cids, Receive(s, c) PROVE IInv'
    BY <1>2, <2>1, ReceiveInv
  <2>2. ASSUME NEW s \in Posts, Read(s) PROVE IInv'
    BY <1>2, <2>2, ReadInv
  <2>3. ASSUME NEW s \in Posts, Batch(s) PROVE IInv'
    BY <1>2, <2>3, BatchInv
  <2>4. ASSUME NEW s \in Posts, PostLost(s) PROVE IInv'
    BY <1>2, <2>4, EndPostInv DEF PostLost
  <2>5. ASSUME Tick PROVE IInv'
    BY <1>2, <2>5, TickInv
  <2> QED
    BY <1>2, <2>1, <2>2, <2>3, <2>4, <2>5 DEF DirectoryNext
<1>3. ASSUME NEW k \in Keys, NEW p \in Cids, NEW ks \in Rotations, NEW tomb \in BOOLEAN,
             Hold(k, p, ks, tomb)
      PROVE  IInv'
  BY <1>3, HoldInv
<1>4. ASSUME NEW u \in Patches, NEW e \in Endpoints, SignUpdate(u, e) PROVE IInv'
  BY <1>4, SignUpdateInv
<1>5. ASSUME NEW u \in Patches, Submit(u) PROVE IInv'
  BY <1>5, SubmitInv
<1>6. ASSUME NEW u \in Patches, Observe(u) PROVE IInv'
  BY <1>6, ObserveInv
<1>7. ASSUME NEW u \in Patches, PatchLost(u) PROVE IInv'
  BY <1>7, EndPatchInv DEF PatchLost
<1> QED
  BY <1>1, <1>2, <1>3, <1>4, <1>5, <1>6, <1>7 DEF Next

LEMMA SpecInv == Spec => []IInv
<1>1. Init => IInv
  BY InitInv
<1>2. IInv /\ [Next]_vars => IInv'
  BY NextInv
<1> QED
  BY <1>1, <1>2, PTL DEF Spec

\* The state of PlcUpdate and of the directory has its types.
THEOREM TypeCorrect == Spec => []TypeOK
<1>1. IInv => TypeOK
  BY DEF IInv
<1> QED
  BY <1>1, SpecInv, PTL

\* Two updates that Accounts signed for one head are never both stored.
THEOREM UpdatesOncePerHead == Spec => []OneUpdatePerHead
<1>1. IInv => OneUpdatePerHead
  BY DEF IInv
<1> QED
  BY <1>1, SpecInv, PTL

\* The table changes by one valid operation at a time.
LEMMA StepAdds ==
  ASSUME IInv, [Next]_vars, rows' # rows
  PROVE  made' = made /\ patch' = patch
         /\ \E c, at : CanAdd(made, rows, c, at) /\ rows' = Extended(rows, made[c], c, at)
<1>1. PICK s \in Posts : Batch(s) /\ UNCHANGED patch
  BY DEF Next, vars, directory, DirectoryNext, Receive, Read, PostLost, Tick, Hold, SignUpdate,
     Submit, Observe, PatchLost
<1>2. made' = made
  BY <1>1 DEF Batch
<1> QED
  BY <1>1, <1>2, BatchAdds

\* What Accounts signs takes no other operation out of the log.
THEOREM ManagedNeverRecovers == Spec => NoAccidentalRecovery
<1> DEFINE A == \A i \in DOMAIN rows :
                  rows'[i].nullified # rows[i].nullified =>
                    made[rows'[Len(rows')].cid].by # Managed
<1>1. IInv /\ [Next]_vars => [A]_rows
  <2> SUFFICES ASSUME IInv, [Next]_vars, rows' # rows PROVE A
    OBVIOUS
  <2>1. PICK c, at : CanAdd(made, rows, c, at) /\ rows' = Extended(rows, made[c], c, at)
    BY StepAdds
  <2>2. rows \in Seq(Entries) /\ made[c] \in Operations /\ c \in Cids /\ at \in Times
    BY <2>1, TypeFacts, MadeFacts DEF CanAdd
  <2>3. IsExtension(rows, made[c], c, at, rows')
    BY <2>1, <2>2, ExtendedFacts
  <2>4. rows'[Len(rows')].cid = c
    BY <2>2, <2>3 DEF IsExtension
  <2>5. ASSUME NEW i \in DOMAIN rows, rows'[i].nullified # rows[i].nullified,
               made[c].by = Managed
        PROVE  FALSE
    <3>1. rows[i].nullified \in BOOLEAN /\ rows'[i].nullified \in BOOLEAN
      <4>1. rows[i] \in Entries /\ rows' \in Seq(Entries) /\ i \in DOMAIN rows'
        BY <2>2, <2>3 DEF IsExtension
      <4>2. rows'[i] \in Entries
        BY <4>1
      <4> QED
        BY <4>1, <4>2 DEF Entries
    <3>2. rows'[i].nullified <=>
            rows[i].nullified \/ \E b \in Base(rows, made[c]) : i \in After(rows, b)
      BY <2>3 DEF IsExtension
    <3>3. \A b \in Base(rows, made[c]) : After(rows, b) = {}
      BY <2>1, <2>5, ManagedReplacesNothing
    <3>4. rows'[i].nullified <=> rows[i].nullified
      BY <3>2, <3>3
    <3> QED
      BY <2>5, <3>1, <3>4
  <2> QED
    BY <2>4, <2>5
<1> QED
  BY <1>1, SpecInv, PTL DEF Spec, NoAccidentalRecovery

\* An update that was answered with a conflict is stored already, or never.
THEOREM ConflictStays == Spec => ConflictIsFinal
<1> DEFINE A == \A u \in Patches :
                  patch[u].pc = "conflict" /\ patch'[u] = patch[u] /\ ~ Stored(rows, patch[u].cid)
                    => ~ Stored(rows', patch[u].cid)
<1>1. IInv /\ [Next]_vars => [A]_vars
  <2> SUFFICES ASSUME IInv, [Next]_vars, NEW u \in Patches, patch[u].pc = "conflict",
                      ~ Stored(rows, patch[u].cid), Stored(rows', patch[u].cid)
               PROVE  FALSE
    OBVIOUS
  <2>1. rows' # rows
    OBVIOUS
  <2>2. PICK c, at : CanAdd(made, rows, c, at) /\ rows' = Extended(rows, made[c], c, at)
    BY <2>1, StepAdds
  <2>3. rows \in Seq(Entries) /\ made[c] \in Operations /\ c \in Cids /\ at \in Times
    BY <2>2, TypeFacts, MadeFacts DEF CanAdd
  <2>4. IsExtension(rows, made[c], c, at, rows')
    BY <2>2, <2>3, ExtendedFacts
  <2>5. patch[u].cid = c
    BY <2>4 DEF IsExtension, Stored
  <2>6. made[c].by = Managed /\ \E b \in DOMAIN rows : rows[b].cid = made[c].prev /\ Superseded(rows, b)
    BY <2>5 DEF IInv, PatchOK
  <2> QED
    BY <2>2, <2>6, SupersededManaged
<1> QED
  BY <1>1, SpecInv, PTL DEF Spec, ConflictIsFinal

-----------------------------------------------------------------------------
(* Refinement *)

LEMMA LogOperators ==
  ASSUME NEW m, NEW log, NEW o, NEW c, NEW at
  PROVE  /\ Log!ValidNext(m, log, o, at) = ValidNext(m, log, o, at)
         /\ Log!Extended(log, o, c, at) = Extended(log, o, c, at)
         /\ Log!Stored(log, c) = Stored(log, c)
BY DEF ValidNext, Log!ValidNext, Live, Log!Live, Base, Log!Base, After, Log!After,
   Signs, Log!Signs, Outranks, Log!Outranks, Extended, Log!Extended,
   Nullify, Log!Nullify, Stored, Log!Stored, NoCid, Log!NoCid

\* Reading, validating and storing in separate steps implements the log that adds
\* one valid operation at a time.
THEOREM DirectoryImplementsLog == Spec => ImplementsLog
<1>1. IInv /\ [Next]_vars => [Log!Next]_<<made, rows>>
  <2> SUFFICES ASSUME IInv, [Next]_vars, <<made, rows>>' # <<made, rows>>
               PROVE  Log!Next
    OBVIOUS
  <2>1. CASE rows' # rows
    <3>1. PICK c, at : CanAdd(made, rows, c, at) /\ rows' = Extended(rows, made[c], c, at)
      BY <2>1, StepAdds
    <3>2. made' = made
      BY <2>1, StepAdds
    <3>3. c \in Cids /\ at \in Times
      BY <3>1, TypeFacts, MadeFacts DEF CanAdd
    <3>4. Log!Add(c, at)
      BY <3>1, <3>2, LogOperators DEF Log!Add, CanAdd
    <3>5. c \in Log!Cids /\ at \in Log!Times
      BY <3>3 DEF Cids, Times, Log!Cids, Log!Times
    <3> QED
      BY <3>4, <3>5 DEF Log!Next
  <2>2. CASE rows' = rows /\ made' # made
    <3>1. PICK o : made' = Append(made, o) /\ o \in Operations
      <4>1. made' # made => \E o, c : c \in Cids /\ Signed(o, c) /\ o \in Operations
        <5>1. ASSUME NEW k \in Keys, NEW p \in Cids, NEW ks \in Rotations,
                     NEW tomb \in BOOLEAN, Hold(k, p, ks, tomb)
              PROVE  \E o, c : c \in Cids /\ Signed(o, c) /\ o \in Operations
          <6>1. made[p] \in Operations
            BY <5>1, TypeFacts, MadeFacts DEF Hold, Stored, Known
          <6> QED
            BY <5>1, <6>1 DEF Hold, Operations
        <5>2. ASSUME NEW u \in Patches, NEW e \in Endpoints, SignUpdate(u, e)
              PROVE  \E o, c : c \in Cids /\ Signed(o, c) /\ o \in Operations
          <6>1. PICK i \in Resolved(rows), c \in Cids :
                  Signed([made[rows[i].cid] EXCEPT !.prev = rows[i].cid, !.by = Managed,
                                                   !.endpoint = e], c)
            BY <5>2 DEF SignUpdate
          <6>2. rows[i].cid \in Cids /\ made[rows[i].cid] \in Operations
            BY TypeFacts, MadeFacts DEF Resolved, Known
          <6> DEFINE o == [made[rows[i].cid] EXCEPT !.prev = rows[i].cid, !.by = Managed,
                                                    !.endpoint = e]
          <6>3. o \in Operations
            BY <6>2 DEF Operations
          <6> HIDE DEF o
          <6> QED
            BY <6>1, <6>3 DEF o
        <5> QED
          BY <5>1, <5>2 DEF Next, vars, directory, DirectoryNext, Receive, Read, Batch, PostLost,
             Tick, Submit, Observe, PatchLost
      <4> QED
        BY <2>2, <4>1 DEF Signed
    <3>2. o \in Log!Operations
      BY <3>1 DEF Operations, Log!Operations, Cids, Log!Cids, NoCid, Log!NoCid
    <3>3. Log!Sign(o)
      BY <2>2, <3>1 DEF Log!Sign
    <3> QED
      BY <3>2, <3>3 DEF Log!Next
  <2> QED
    BY <2>1, <2>2
<1> QED
  BY <1>1, SpecInv, PTL DEF Spec, ImplementsLog
=============================================================================
