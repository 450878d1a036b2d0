------------------------------- MODULE PdsProofs -------------------------------
(***************************************************************************)
(* Proofs about what the PDS keeps for its accounts: the records of a      *)
(* repository with the blobs they reference, for any number of paths,      *)
(* records, blobs, uploads and calls of reserveRepo and batches of any     *)
(* length; and the signing keys it reserves, for any number of DIDs, keys  *)
(* and requests.  And about its clients: the page of Town, for any number  *)
(* of posts and profiles, and lists read page by page, for any keys, blobs *)
(* and accounts and pages of any length.                                   *)
(***************************************************************************)
EXTENDS RepoRecords, KeyReservations, Town, Listings, WellFoundedInduction,
        FiniteSetTheorems, SequenceTheorems, TLAPS

USE RepoRecordsAssumption

-----------------------------------------------------------------------------
(***************************************************************************)
(* Records and blobs (RepoRecords)                                         *)
(***************************************************************************)

-----------------------------------------------------------------------------
(* A batch, one write after the other *)

Started(repo) == [ok |-> TRUE, tree |-> repo, touched |-> {}]

\* acc has what is prepared after each of the first n writes.
Prepares(acc, repo, batch, n) ==
  acc = [i \in 0..n |-> IF i = 0 THEN Started(repo) ELSE Prepared(acc[i - 1], batch[i])]

LEMMA LeastNumber ==
  ASSUME NEW S, S \subseteq Nat, S # {}
  PROVE  \E n \in S : \A m \in S : n <= m
<1>1. IsWellFoundedOn(OpToRel(<, Nat), Nat)
  BY NatLessThanWellFounded
<1>2. PICK n \in S : \A m \in S : <<m, n>> \notin OpToRel(<, Nat)
  BY <1>1, WFMin
<1>3. \A m \in S : ~ (m < n)
  BY <1>2 DEF OpToRel
<1> QED
  BY <1>3

LEMMA PreparesExists ==
  ASSUME NEW repo, NEW batch, NEW n \in Nat
  PROVE  \E acc : Prepares(acc, repo, batch, n)
<1> DEFINE Bad == {m \in Nat : ~ \E acc : Prepares(acc, repo, batch, m)}
<1> SUFFICES ASSUME Bad # {}
             PROVE  FALSE
  OBVIOUS
<1>1. PICK m \in Bad : \A k \in Bad : m <= k
  <2> HIDE DEF Bad
  <2>1. Bad \subseteq Nat
    BY DEF Bad
  <2> QED
    BY <2>1, LeastNumber
<1>2. m \in Nat /\ ~ \E acc : Prepares(acc, repo, batch, m)
  OBVIOUS
<1>3. CASE m = 0
  <2> DEFINE f == [i \in 0..0 |-> Started(repo)]
  <2>1. f = [i \in 0..0 |-> IF i = 0 THEN Started(repo) ELSE Prepared(f[i - 1], batch[i])]
    OBVIOUS
  <2>2. Prepares(f, repo, batch, 0)
    BY <2>1 DEF Prepares
  <2> QED
    BY <1>2, <1>3, <2>2
<1>4. CASE m # 0
  <2>1. m - 1 \in Nat /\ m - 1 \notin Bad
    <3> HIDE DEF Bad
    <3>1. m - 1 \in Nat /\ ~ (m <= m - 1)
      BY <1>2, <1>4
    <3> QED
      BY <1>1, <3>1
  <2>2. PICK g : Prepares(g, repo, batch, m - 1)
    BY <2>1
  <2> DEFINE f == [i \in 0..m |-> IF i = m THEN Prepared(g[m - 1], batch[m]) ELSE g[i]]
  <2>3. \A i \in 0..m : f[i] = IF i = 0 THEN Started(repo) ELSE Prepared(f[i - 1], batch[i])
    <3> SUFFICES ASSUME NEW i \in 0..m
                 PROVE  f[i] = IF i = 0 THEN Started(repo) ELSE Prepared(f[i - 1], batch[i])
      OBVIOUS
    <3>1. CASE i = m
      <4>1. f[m] = Prepared(g[m - 1], batch[m]) /\ f[m - 1] = g[m - 1]
        BY <1>2, <1>4
      <4> QED
        BY <1>4, <3>1, <4>1
    <3>2. CASE i # m
      <4>1. i \in 0..(m - 1) /\ f[i] = g[i]
        BY <1>2, <3>2
      <4>2. g[i] = IF i = 0 THEN Started(repo) ELSE Prepared(g[i - 1], batch[i])
        BY <2>2, <4>1 DEF Prepares
      <4>3. i # 0 => i - 1 \in 0..m /\ i - 1 # m
        BY <1>2, <3>2
      <4>4. i # 0 => f[i - 1] = g[i - 1]
        BY <4>3
      <4> QED
        BY <4>1, <4>2, <4>4
    <3> QED
      BY <3>1, <3>2
  <2>4. Prepares(f, repo, batch, m)
    <3>1. f = [i \in 0..m |-> f[i]]
      OBVIOUS
    <3> HIDE DEF f
    <3> QED
      BY <2>3, <3>1 DEF Prepares
  <2> QED
    BY <1>2, <2>4
<1> QED
  BY <1>3, <1>4

LEMMA PrepareIsLast ==
  ASSUME NEW repo, NEW batch, Len(batch) \in Nat
  PROVE  \E acc : Prepares(acc, repo, batch, Len(batch)) /\ Prepare(repo, batch) = acc[Len(batch)]
<1> DEFINE acc == CHOOSE acc : Prepares(acc, repo, batch, Len(batch))
<1>1. Prepares(acc, repo, batch, Len(batch))
  BY PreparesExists
<1>2. Prepare(repo, batch) = acc[Len(batch)]
  BY DEF Prepare, Prepares, Started
<1> QED
  BY <1>1, <1>2

-----------------------------------------------------------------------------
(* What a batch makes of the repository *)

Accs == [ok : BOOLEAN, tree : Trees, touched : SUBSET Paths]

\* Paths that are not touched keep their record; what the others mention is available.
PreparedOK(acc, repo) ==
  /\ acc \in Accs
  /\ \A p \in Paths \ acc.touched : acc.tree[p] = repo[p]
  /\ \A p \in acc.touched : \A b \in MentionsAt(acc.tree, p) : Available(b)

WriteOK(w) == w.path \in Paths /\ w.record \in Records \cup {NoRecord}

LEMMA PreparedStep ==
  ASSUME NEW repo, NEW acc, PreparedOK(acc, repo), NEW w, WriteOK(w)
  PROVE  PreparedOK(Prepared(acc, w), repo)
<1> DEFINE q == w.path
           previous == acc.tree[q]
           fails == \/ ~ acc.ok \/ ~ Precondition(w, previous)
                    \/ w.record # NoRecord /\ \E b \in Mentions[w.record] : ~ Available(b)
<1>1. acc \in Accs /\ q \in Paths /\ w.record \in Records \cup {NoRecord}
  BY DEF PreparedOK, WriteOK
<1>2. acc.tree \in Trees /\ acc.touched \subseteq Paths
  BY <1>1 DEF Accs
<1>3. CASE fails
  <2>1. Prepared(acc, w) = [acc EXCEPT !.ok = FALSE]
    BY <1>3 DEF Prepared
  <2>2. PICK v : v = [acc EXCEPT !.ok = FALSE]
    OBVIOUS
  <2>3. v \in Accs /\ v.tree = acc.tree /\ v.touched = acc.touched
    BY ONLY <1>1, <2>2 DEF Accs
  <2> QED
    BY <2>1, <2>2, <2>3 DEF PreparedOK
<1>4. CASE ~ fails
  <2> DEFINE t == [acc.tree EXCEPT ![q] = w.record]
             c == IF previous = w.record THEN acc.touched ELSE acc.touched \cup {q}
  <2>1. PICK v : v = [acc EXCEPT !.tree[w.path] = w.record,
                                 !.touched = IF previous = w.record THEN @ ELSE @ \cup {w.path}]
    OBVIOUS
  <2>2. Prepared(acc, w) = v
    BY <1>4, <2>1 DEF Prepared
  <2>3. v = [acc EXCEPT !.tree = t, !.touched = c]
    BY ONLY <1>1, <2>1 DEF Accs
  <2>4. t \in Trees /\ t[q] = w.record /\ \A p \in Paths : p # q => t[p] = acc.tree[p]
    BY <1>1, <1>2 DEF Trees
  <2>5. c \subseteq Paths /\ acc.touched \subseteq c /\ c \subseteq acc.touched \cup {q}
    BY <1>1, <1>2
  <2>6. q \notin c => t[q] = acc.tree[q]
    BY <2>4
  <2> HIDE DEF t, c
  <2>7. v \in Accs /\ v.tree = t /\ v.touched = c
    BY ONLY <1>1, <2>3, <2>4, <2>5 DEF Accs
  <2>8. \A p \in Paths \ c : t[p] = repo[p]
    BY <2>4, <2>5, <2>6 DEF PreparedOK
  <2>9. ASSUME NEW p \in c, NEW b \in MentionsAt(t, p)
        PROVE  Available(b)
    <3>1. CASE p = q
      <4>1. w.record # NoRecord /\ b \in Mentions[w.record]
        BY <2>4, <2>9, <3>1 DEF MentionsAt
      <4> QED
        BY <1>4, <4>1
    <3>2. CASE p # q
      <4>1. p \in acc.touched /\ t[p] = acc.tree[p]
        BY <2>4, <2>5, <3>2
      <4>2. b \in MentionsAt(acc.tree, p)
        BY <2>9, <4>1 DEF MentionsAt
      <4> QED
        BY <4>1, <4>2 DEF PreparedOK
    <3> QED
      BY <3>1, <3>2
  <2> QED
    BY <2>2, <2>7, <2>8, <2>9 DEF PreparedOK
<1> QED
  BY <1>3, <1>4

LEMMA StartedOK ==
  ASSUME NEW repo \in Trees
  PROVE  PreparedOK(Started(repo), repo)
BY DEF PreparedOK, Started, Accs

LEMMA PrepareOK ==
  ASSUME NEW repo \in Trees, NEW batch, Len(batch) \in Nat,
         \A i \in 1..Len(batch) : WriteOK(batch[i])
  PROVE  PreparedOK(Prepare(repo, batch), repo)
<1>1. PICK acc, n : /\ n = Len(batch) /\ Prepares(acc, repo, batch, n)
                    /\ Prepare(repo, batch) = acc[n]
  BY PrepareIsLast
<1> DEFINE Bad == {i \in 0..n : ~ PreparedOK(acc[i], repo)}
<1>2. Bad = {}
  <2> SUFFICES ASSUME Bad # {}
               PROVE  FALSE
    OBVIOUS
  <2>1. PICK i \in Bad : \A j \in Bad : i <= j
    <3>1. Bad \subseteq Nat
      BY <1>1
    <3> HIDE DEF Bad
    <3> QED
      BY <3>1, LeastNumber
  <2>2. i \in 0..n /\ ~ PreparedOK(acc[i], repo)
    OBVIOUS
  <2>3. acc[i] = IF i = 0 THEN Started(repo) ELSE Prepared(acc[i - 1], batch[i])
    BY <1>1, <2>2 DEF Prepares
  <2>4. i # 0
    BY <2>2, <2>3, StartedOK
  <2>5. i - 1 \in 0..n /\ i - 1 \notin Bad /\ i \in 1..n
    <3> HIDE DEF Bad
    <3>1. i - 1 \in 0..n /\ ~ (i <= i - 1) /\ i \in 1..n
      BY <1>1, <2>2, <2>4
    <3> QED
      BY <2>1, <3>1
  <2>6. PreparedOK(acc[i - 1], repo)
    BY <2>5
  <2>7. WriteOK(batch[i])
    BY <1>1, <2>5
  <2> QED
    BY <2>2, <2>3, <2>4, <2>6, <2>7, PreparedStep
<1>3. n \in 0..n
  BY <1>1
<1> QED
  BY <1>1, <1>2, <1>3

\* The requests are sequences of writes.
LEMMA BatchFacts ==
  ASSUME NEW batch \in Batches
  PROVE  Len(batch) \in Nat /\ \A i \in 1..Len(batch) : WriteOK(batch[i])
<1>1. \/ \E n \in 1..MaxBatch : batch \in [1..n -> Applied]
      \/ \E w \in Puts \cup Deletes : batch = <<w>>
  BY DEF Batches
<1>2. \A w \in Applied \cup Puts \cup Deletes : WriteOK(w)
  BY DEF WriteOK, Writes, Applied, Puts, Deletes
<1>3. ASSUME NEW n \in 1..MaxBatch, batch \in [1..n -> Applied]
      PROVE  Len(batch) = n /\ n \in Nat /\ \A i \in 1..n : batch[i] \in Applied
  <2>1. n \in Nat /\ \A i \in 1..n : batch[i] \in Applied
    BY <1>3
  <2>2. batch \in Seq(Applied)
    BY <1>3, <2>1, SeqDef
  <2>3. 1..Len(batch) = 1..n /\ Len(batch) \in Nat
    BY <1>3, <2>2, LenProperties
  <2> QED
    BY <2>1, <2>3
<1>4. ASSUME NEW w \in Puts \cup Deletes, batch = <<w>>
      PROVE  Len(batch) = 1 /\ \A i \in 1..1 : batch[i] = w
  BY <1>4
<1> QED
  BY <1>1, <1>2, <1>3, <1>4

-----------------------------------------------------------------------------
(* The invariant *)

\* What is registered or about to be has its bytes in the bucket.
Objects ==
  /\ \A b \in DOMAIN blobs : blobs[b].key \in bucket
  /\ \A u \in Uploads : /\ upload[u].pc # "idle" => upload[u].blob \in Blobs
                        /\ upload[u].pc = "register" => upload[u].key \in bucket

\* A promise is about a row that no record references, and that lives as long.
PromisesKept ==
  \A b \in DOMAIN promised :
    /\ b \in DOMAIN blobs /\ ~ Referenced(b)
    /\ blobs[b].expires >= promised[b]

\* The repository that initializeRepo makes is as empty as what it replaces.
NothingYet == rev = 0 => tree = Empty

IInv == TypeOK /\ CacheIsHead /\ ReferencesExact /\ Objects /\ PromisesKept /\ NothingYet

LEMMA RecordsInit ==
  Init => IInv
<1> SUFFICES ASSUME Init
             PROVE  IInv
  OBVIOUS
<1>1. rev = 0 /\ refs = {} /\ DOMAIN blobs = {} /\ DOMAIN promised = {}
  BY DEF Init
<1>2. Empty \in Trees /\ \A p \in Paths : Empty[p] = NoRecord
  BY DEF Empty, Trees
<1>3. TypeOK
  <2>1. 0 \in Revs /\ 0 \in 0..MaxKeys /\ 0 \in 0..MaxTime
    BY DEF Revs
  <2>2. NoUpload \in [pc : {"idle", "put", "register"}, blob : Blobs \cup {NoBlob}, key : 0..MaxKeys]
    BY DEF NoUpload
  <2> QED
    BY <1>1, <1>2, <2>1, <2>2 DEF Init, TypeOK
<1>4. CacheIsHead
  BY DEF Init, CacheIsHead
<1>5. ReferencesExact
  <2>1. tree = Empty
    BY DEF Init
  <2>2. \A p \in Paths : MentionsAt(tree, p) = {}
    BY <1>2, <2>1 DEF MentionsAt
  <2> QED
    BY <1>1, <2>2 DEF ReferencesExact
<1>6. Objects
  BY <1>1 DEF Init, Objects, NoUpload
<1>7. PromisesKept
  BY <1>1 DEF PromisesKept
<1>8. NothingYet
  BY DEF Init, NothingYet
<1> QED
  BY <1>3, <1>4, <1>5, <1>6, <1>7, <1>8 DEF IInv

-----------------------------------------------------------------------------
(* A commit *)

\* The rows that a commit leaves.
RowsOf(acc) ==
  {r \in refs : r.path \notin acc.touched}
  \cup UNION {{[path |-> p, blob |-> b, rev |-> rev + 1] : b \in MentionsAt(acc.tree, p)} : p \in acc.touched}

\* ApplyWrites on the head, of what the batch made of it.
Applies(acc) ==
  /\ PreparedOK(acc, tree)
  /\ rev \in Nat /\ rev > 0 /\ rev < MaxRev
  /\ rev' = rev + 1 /\ tree' = acc.tree
  /\ refs' = RowsOf(acc)
  /\ blobs' = Only(blobs, Blobs \ Unreferenced(acc.touched, RowsOf(acc)))
  /\ event' = NetOps(tree, acc.tree, acc.touched)
  /\ cache' = DropCache /\ busy' = TRUE
  /\ promised' = Only(promised, {b \in Blobs : \A r \in RowsOf(acc) : r.blob # b})
  /\ UNCHANGED <<scope, bucket, upload, reserve, keys, now>>

LEMMA WriteApplies ==
  ASSUME TypeOK, CacheIsHead, NEW batch \in Batches, ApplyWrites(batch)
  PROVE  \E acc : Applies(acc)
<1> DEFINE base == IF cache.rev # 0 THEN cache ELSE [rev |-> rev, tree |-> tree]
<1>1. base.tree = tree
  BY DEF CacheIsHead
<1>2. tree \in Trees /\ rev \in Nat
  BY DEF TypeOK, Revs
<1>3. PICK acc : acc = Prepare(base.tree, batch)
  OBVIOUS
<1>4. PreparedOK(acc, tree)
  BY <1>1, <1>2, <1>3, BatchFacts, PrepareOK
<1>5. /\ rev > 0 /\ rev < MaxRev /\ rev' = rev + 1 /\ tree' = acc.tree
      /\ refs' = RowsOf(acc)
      /\ blobs' = Only(blobs, Blobs \ Unreferenced(acc.touched, RowsOf(acc)))
      /\ event' = NetOps(base.tree, acc.tree, acc.touched)
      /\ cache' = DropCache /\ busy' = TRUE
      /\ promised' = Only(promised, {b \in Blobs : \A r \in RowsOf(acc) : r.blob # b})
      /\ UNCHANGED <<scope, bucket, upload, reserve, keys, now>>
  BY <1>3 DEF ApplyWrites, RowsOf
<1> QED
  BY <1>1, <1>2, <1>4, <1>5 DEF Applies

\* What the state is after a commit, without its definitions.
LEMMA CommitFacts ==
  ASSUME TypeOK, NEW acc, Applies(acc)
  PROVE  /\ acc.tree \in Trees /\ acc.touched \subseteq Paths
         /\ tree' = acc.tree
         /\ \A p \in Paths \ acc.touched : tree'[p] = tree[p]
         /\ \A r : r \in refs' <=>
              \/ r \in refs /\ r.path \notin acc.touched
              \/ \E p \in acc.touched : \E b \in MentionsAt(tree', p) :
                   r = [path |-> p, blob |-> b, rev |-> rev + 1]
         /\ \A p \in acc.touched : \A b \in MentionsAt(tree', p) : b \in DOMAIN blobs
         /\ \A b : b \in DOMAIN blobs' <=>
              b \in DOMAIN blobs /\ ((\E r \in refs : r.path \in acc.touched /\ r.blob = b) => Referenced(b)')
         /\ \A b \in DOMAIN blobs' : blobs'[b] = blobs[b]
         /\ \A b : b \in DOMAIN promised' <=> b \in DOMAIN promised /\ ~ Referenced(b)'
         /\ \A b \in DOMAIN promised' : promised'[b] = promised[b]
<1>1. /\ acc.tree \in Trees /\ acc.touched \subseteq Paths /\ tree' = acc.tree
      /\ \A p \in Paths \ acc.touched : tree'[p] = tree[p]
  BY DEF Applies, PreparedOK, Accs
<1>2. \A r : r \in refs' <=>
        \/ r \in refs /\ r.path \notin acc.touched
        \/ \E p \in acc.touched : \E b \in MentionsAt(tree', p) :
             r = [path |-> p, blob |-> b, rev |-> rev + 1]
  BY <1>1 DEF Applies, RowsOf
<1>3. \A p \in acc.touched : \A b \in MentionsAt(tree', p) : b \in DOMAIN blobs
  BY <1>1 DEF Applies, PreparedOK, Available
<1>4. DOMAIN blobs \subseteq Blobs /\ DOMAIN promised \subseteq Blobs
  BY DEF TypeOK
<1>5. refs' = RowsOf(acc) /\ \A b : Referenced(b)' <=> \E r \in RowsOf(acc) : r.blob = b
  BY DEF Applies, Referenced
<1>6. /\ \A b : b \in DOMAIN blobs' <=>
           b \in DOMAIN blobs /\ ((\E r \in refs : r.path \in acc.touched /\ r.blob = b) => Referenced(b)')
      /\ \A b \in DOMAIN blobs' : blobs'[b] = blobs[b]
  <2>1. PICK gone : gone = Unreferenced(acc.touched, RowsOf(acc))
    OBVIOUS
  <2>2. \A b : b \in gone <=>
          (\E r \in refs : r.path \in acc.touched /\ r.blob = b) /\ ~ Referenced(b)'
    BY <1>5, <2>1 DEF Unreferenced
  <2>3. blobs' = Only(blobs, Blobs \ gone)
    BY <2>1 DEF Applies
  <2>4. DOMAIN blobs' = DOMAIN blobs \cap (Blobs \ gone) /\ \A b \in DOMAIN blobs' : blobs'[b] = blobs[b]
    BY <2>3 DEF Only
  <2> QED
    BY <1>4, <2>2, <2>4
<1>7. /\ \A b : b \in DOMAIN promised' <=> b \in DOMAIN promised /\ ~ Referenced(b)'
      /\ \A b \in DOMAIN promised' : promised'[b] = promised[b]
  <2>1. PICK free : free = {b \in Blobs : \A r \in RowsOf(acc) : r.blob # b}
    OBVIOUS
  <2>2. \A b : b \in free <=> b \in Blobs /\ ~ Referenced(b)'
    BY <1>5, <2>1
  <2>3. promised' = Only(promised, free)
    BY <2>1 DEF Applies
  <2>4. DOMAIN promised' = DOMAIN promised \cap free /\ \A b \in DOMAIN promised' : promised'[b] = promised[b]
    BY <2>3 DEF Only
  <2> QED
    BY <1>4, <2>2, <2>4
<1> QED
  BY <1>1, <1>2, <1>3, <1>6, <1>7

LEMMA CommitType ==
  ASSUME TypeOK, NEW acc, Applies(acc)
  PROVE  TypeOK'
<1>1. /\ acc.tree \in Trees /\ acc.touched \subseteq Paths /\ tree' = acc.tree
      /\ \A r : r \in refs' <=>
           \/ r \in refs /\ r.path \notin acc.touched
           \/ \E p \in acc.touched : \E b \in MentionsAt(tree', p) :
                r = [path |-> p, blob |-> b, rev |-> rev + 1]
      /\ \A b \in DOMAIN blobs' : b \in DOMAIN blobs /\ blobs'[b] = blobs[b]
      /\ \A b \in DOMAIN promised' : b \in DOMAIN promised /\ promised'[b] = promised[b]
  BY CommitFacts
<1>2. rev + 1 \in Revs /\ 0 \in Revs
  BY DEF Applies, Revs
<1>3. refs' \subseteq [path : Paths, blob : Blobs, rev : Revs]
  <2>1. \A p \in acc.touched : MentionsAt(tree', p) \subseteq Blobs
    BY <1>1 DEF MentionsAt, Trees
  <2> QED
    BY <1>1, <1>2, <2>1 DEF TypeOK
<1>4. event' \subseteq [path : Paths, old : Records \cup {NoRecord}, new : Records \cup {NoRecord}]
  BY <1>1 DEF Applies, NetOps, TypeOK, Trees
<1>5. cache' \in [rev : Revs, tree : Trees]
  BY <1>2 DEF Applies, DropCache, Empty, Trees
<1>6. blobs' \in [DOMAIN blobs' -> Blob] /\ DOMAIN blobs' \subseteq Blobs
  <2>1. \A b \in DOMAIN blobs' : blobs'[b] \in Blob /\ b \in Blobs
    BY <1>1 DEF TypeOK
  <2>2. blobs' = [b \in DOMAIN blobs' |-> blobs'[b]]
    BY DEF Applies, Only
  <2> QED
    BY <2>1, <2>2
<1>7. promised' \in [DOMAIN promised' -> Nat] /\ DOMAIN promised' \subseteq Blobs
  <2>1. \A b \in DOMAIN promised' : promised'[b] \in Nat /\ b \in Blobs
    BY <1>1 DEF TypeOK
  <2>2. promised' = [b \in DOMAIN promised' |-> promised'[b]]
    BY DEF Applies, Only
  <2> QED
    BY <2>1, <2>2
<1>8. scope' \in Scopes /\ rev' \in Revs /\ tree' \in Trees /\ busy' \in BOOLEAN
  BY <1>1, <1>2 DEF Applies, TypeOK
<1> QED
  BY <1>3, <1>4, <1>5, <1>6, <1>7, <1>8 DEF Applies, TypeOK

\* The rows and the records agree on who references what.
LEMMA RefsMatch ==
  ASSUME refs \subseteq [path : Paths, blob : Blobs, rev : Revs]
  PROVE  {<<r.path, r.blob>> : r \in refs} = UNION {{<<p, b>> : b \in MentionsAt(tree, p)} : p \in Paths}
         <=> /\ \A r \in refs : r.blob \in MentionsAt(tree, r.path)
             /\ \A p \in Paths : \A b \in MentionsAt(tree, p) : \E r \in refs : r.path = p /\ r.blob = b
<1> DEFINE L == {<<r.path, r.blob>> : r \in refs}
           R == UNION {{<<p, b>> : b \in MentionsAt(tree, p)} : p \in Paths}
<1>1. \A p, b : <<p, b>> \in L <=> \E r \in refs : r.path = p /\ r.blob = b
  OBVIOUS
<1>2. \A p, b : <<p, b>> \in R <=> p \in Paths /\ b \in MentionsAt(tree, p)
  OBVIOUS
<1>3. \A t \in L \cup R : \E p, b : t = <<p, b>>
  OBVIOUS
<1>4. \A r \in refs : r.path \in Paths
  OBVIOUS
<1> HIDE DEF L, R
<1>5. ASSUME L = R
      PROVE  /\ \A r \in refs : r.blob \in MentionsAt(tree, r.path)
             /\ \A p \in Paths : \A b \in MentionsAt(tree, p) : \E r \in refs : r.path = p /\ r.blob = b
  BY <1>1, <1>2, <1>5
<1>6. ASSUME \A r \in refs : r.blob \in MentionsAt(tree, r.path),
             \A p \in Paths : \A b \in MentionsAt(tree, p) : \E r \in refs : r.path = p /\ r.blob = b
      PROVE  L = R
  <2>1. ASSUME NEW p, NEW b
        PROVE  <<p, b>> \in L <=> <<p, b>> \in R
    <3>1. (\E r \in refs : r.path = p /\ r.blob = b) <=> p \in Paths /\ b \in MentionsAt(tree, p)
      BY <1>4, <1>6
    <3> QED
      BY <1>1, <1>2, <3>1
  <2> QED
    BY <1>3, <2>1
<1> QED
  BY <1>5, <1>6 DEF L, R

\* The same, with what else ReferencesExact says.
Exact ==
  /\ \A r \in refs : r.blob \in MentionsAt(tree, r.path) /\ Served(r.blob)
  /\ \A p \in Paths : \A b \in MentionsAt(tree, p) : \E r \in refs : r.path = p /\ r.blob = b

LEMMA ExactMeans ==
  TypeOK => (ReferencesExact <=> Exact)
<1> SUFFICES ASSUME TypeOK
             PROVE  ReferencesExact <=> Exact
  OBVIOUS
<1>1. refs \subseteq [path : Paths, blob : Blobs, rev : Revs]
  BY DEF TypeOK
<1> QED
  BY <1>1, RefsMatch DEF ReferencesExact, Exact

LEMMA CommitExact ==
  ASSUME IInv, NEW acc, Applies(acc)
  PROVE  Exact' /\ Objects' /\ PromisesKept'
<1>1. TypeOK /\ Exact /\ Objects /\ PromisesKept
  BY ExactMeans DEF IInv
<1>2. /\ acc.tree \in Trees /\ acc.touched \subseteq Paths /\ tree' = acc.tree
      /\ \A p \in Paths \ acc.touched : tree'[p] = tree[p]
      /\ \A r : r \in refs' <=>
           \/ r \in refs /\ r.path \notin acc.touched
           \/ \E p \in acc.touched : \E b \in MentionsAt(tree', p) :
                r = [path |-> p, blob |-> b, rev |-> rev + 1]
      /\ \A p \in acc.touched : \A b \in MentionsAt(tree', p) : b \in DOMAIN blobs
      /\ \A b : b \in DOMAIN blobs' <=>
           b \in DOMAIN blobs /\ ((\E r \in refs : r.path \in acc.touched /\ r.blob = b) => Referenced(b)')
      /\ \A b \in DOMAIN blobs' : blobs'[b] = blobs[b]
      /\ \A b : b \in DOMAIN promised' <=> b \in DOMAIN promised /\ ~ Referenced(b)'
      /\ \A b \in DOMAIN promised' : promised'[b] = promised[b]
  BY <1>1, CommitFacts
<1>3. bucket' = bucket /\ upload' = upload
  BY DEF Applies
<1>4. Objects'
  BY <1>1, <1>2, <1>3 DEF Objects
<1>5. ASSUME NEW r \in refs'
      PROVE  (r.blob \in MentionsAt(tree, r.path) /\ Served(r.blob))'
  <2>1. Referenced(r.blob)'
    BY DEF Referenced
  <2>2. CASE r \in refs /\ r.path \notin acc.touched
    <3>1. r.path \in Paths /\ r.blob \in MentionsAt(tree, r.path) /\ r.blob \in DOMAIN blobs
      BY <1>1, <2>2 DEF TypeOK, Exact, Served, Published
    <3>2. r.blob \in MentionsAt(tree', r.path)
      BY <1>2, <2>2, <3>1 DEF MentionsAt
    <3>3. r.blob \in DOMAIN blobs'
      BY <1>2, <2>1, <3>1
    <3> QED
      BY <1>4, <2>1, <3>2, <3>3 DEF Served, Published, MentionsAt, Objects
  <2>3. ASSUME NEW p \in acc.touched, NEW b \in MentionsAt(tree', p),
               r = [path |-> p, blob |-> b, rev |-> rev + 1]
        PROVE  (r.blob \in MentionsAt(tree, r.path) /\ Served(r.blob))'
    <3>1. r.path = p /\ r.blob = b
      BY <2>3
    <3>2. b \in DOMAIN blobs'
      BY <1>2, <2>1, <3>1
    <3> QED
      BY <1>4, <2>1, <3>1, <3>2 DEF Served, Published, MentionsAt, Objects
  <2> QED
    BY <1>2, <2>2, <2>3
<1>6. ASSUME NEW p \in Paths, NEW b \in MentionsAt(tree', p)
      PROVE  \E r \in refs' : r.path = p /\ r.blob = b
  <2>1. CASE p \in acc.touched
    <3>1. [path |-> p, blob |-> b, rev |-> rev + 1] \in refs'
      BY <1>2, <2>1
    <3> QED
      BY <3>1
  <2>2. CASE p \notin acc.touched
    <3>1. b \in MentionsAt(tree, p)
      BY <1>2, <2>2 DEF MentionsAt
    <3>2. PICK r \in refs : r.path = p /\ r.blob = b
      BY <1>1, <3>1 DEF Exact
    <3> QED
      BY <1>2, <2>2, <3>2
  <2> QED
    BY <2>1, <2>2
<1>7. Exact'
  <2>1. \A p : MentionsAt(tree, p)' = MentionsAt(tree', p)
    BY DEF MentionsAt
  <2> QED
    BY <1>5, <1>6, <2>1 DEF Exact
<1>8. PromisesKept'
  <2> SUFFICES ASSUME NEW b \in DOMAIN promised'
               PROVE  /\ b \in DOMAIN blobs' /\ ~ Referenced(b)'
                      /\ blobs'[b].expires >= promised'[b]
    BY DEF PromisesKept
  <2>1. b \in DOMAIN promised /\ ~ Referenced(b)' /\ promised'[b] = promised[b]
    BY <1>2
  <2>2. b \in DOMAIN blobs /\ ~ Referenced(b) /\ blobs[b].expires >= promised[b]
    BY <1>1, <2>1 DEF PromisesKept
  <2>3. b \in DOMAIN blobs' /\ blobs'[b] = blobs[b]
    BY <1>2, <2>2 DEF Referenced
  <2> QED
    BY <2>1, <2>2, <2>3
<1> QED
  BY <1>4, <1>7, <1>8

-----------------------------------------------------------------------------
(* The other steps *)

UploadRows == [pc : {"idle", "put", "register"}, blob : Blobs \cup {NoBlob}, key : 0..MaxKeys]

\* What PutBytes makes of the upload.
LEMMA PutRow ==
  ASSUME NEW u \in Uploads, upload \in [Uploads -> UploadRows], NEW k \in 0..MaxKeys,
         upload' = [upload EXCEPT ![u].pc = "register", ![u].key = k]
  PROVE  /\ upload' \in [Uploads -> UploadRows]
         /\ upload'[u] = [pc |-> "register", blob |-> upload[u].blob, key |-> k]
         /\ \A v \in Uploads : v # u => upload'[v] = upload[v]
<1>1. PICK row : row = [pc |-> "register", blob |-> upload[u].blob, key |-> k]
  OBVIOUS
<1>2. upload[u] \in UploadRows
  OBVIOUS
<1>3. row \in UploadRows /\ row = [[upload[u] EXCEPT !.pc = "register"] EXCEPT !.key = k]
  <2>1. PICK old, K : old = upload[u] /\ K = 0..MaxKeys
    OBVIOUS
  <2>2. old \in [pc : {"idle", "put", "register"}, blob : Blobs \cup {NoBlob}, key : K] /\ k \in K
    BY <1>2, <2>1 DEF UploadRows
  <2>3. row = [pc |-> "register", blob |-> old.blob, key |-> k]
    BY <1>1, <2>1
  <2>4. row = [[old EXCEPT !.pc = "register"] EXCEPT !.key = k]
    <3>1. old = [pc |-> old.pc, blob |-> old.blob, key |-> old.key]
      BY ONLY <2>2
    <3>2. [old EXCEPT !.pc = "register"] = [pc |-> "register", blob |-> old.blob, key |-> old.key]
      BY ONLY <3>1
    <3>3. PICK mid : mid = [old EXCEPT !.pc = "register"]
      OBVIOUS
    <3>4. mid = [pc |-> "register", blob |-> old.blob, key |-> old.key]
      BY ONLY <3>2, <3>3
    <3>5. [mid EXCEPT !.key = k] = [pc |-> "register", blob |-> old.blob, key |-> k]
      BY ONLY <3>4
    <3>6. row = [mid EXCEPT !.key = k]
      BY ONLY <2>3, <3>5
    <3> QED
      BY <3>3, <3>6
  <2>5. row \in [pc : {"idle", "put", "register"}, blob : Blobs \cup {NoBlob}, key : K]
    BY ONLY <2>2, <2>3
  <2> QED
    BY <2>1, <2>4, <2>5 DEF UploadRows
<1>4. upload' = [upload EXCEPT ![u] = row]
  <2>1. PICK a : a = [upload[u] EXCEPT !.pc = "register"]
    OBVIOUS
  <2>2. upload' = [[upload EXCEPT ![u] = a] EXCEPT ![u] = [[upload EXCEPT ![u] = a][u] EXCEPT !.key = k]]
    BY <2>1
  <2>3. [upload EXCEPT ![u] = a][u] = a
    OBVIOUS
  <2>4. row = [a EXCEPT !.key = k]
    BY <1>3, <2>1
  <2>5. upload' = [[upload EXCEPT ![u] = a] EXCEPT ![u] = row]
    BY <2>2, <2>3, <2>4
  <2> QED
    BY <2>5
<1>5. /\ upload' \in [Uploads -> UploadRows] /\ upload'[u] = row
      /\ \A v \in Uploads : v # u => upload'[v] = upload[v]
  BY ONLY <1>3, <1>4, u \in Uploads, upload \in [Uploads -> UploadRows]
<1> QED
  BY <1>1, <1>5

LEMMA TypeStep ==
  ASSUME IInv, Next
  PROVE  TypeOK'
<1>0. TypeOK /\ CacheIsHead /\ Objects
  BY DEF IInv
<1>1. ASSUME NEW v \in Reservations, ReadMetadata(v)
      PROVE  TypeOK'
  BY <1>0, <1>1 DEF ReadMetadata, store, TypeOK
<1>2. ASSUME NEW v \in Reservations, InitializeRepo(v)
      PROVE  TypeOK'
  <2>1. Empty \in Trees
    BY DEF Empty, Trees
  <2>2. CASE Insertable
    <3>1. rev' = 1 /\ tree' = Empty /\ cache' = [rev |-> 1, tree |-> Empty]
      BY <1>2, <2>2 DEF InitializeRepo
    <3> QED
      BY <1>0, <1>2, <2>1, <3>1 DEF InitializeRepo, TypeOK, Revs
  <2>3. CASE ~ Insertable
    BY <1>0, <1>2, <2>3 DEF InitializeRepo, TypeOK
  <2> QED
    BY <2>2, <2>3
<1>3. ASSUME NEW batch \in Batches, ApplyWrites(batch)
      PROVE  TypeOK'
  BY <1>0, <1>3, WriteApplies, CommitType
<1>4. CASE FinishWrite
  <2>1. [rev |-> rev, tree |-> tree] \in [rev : Revs, tree : Trees]
    BY <1>0 DEF TypeOK
  <2> QED
    BY <1>0, <1>4, <2>1 DEF FinishWrite, TypeOK
<1>5. CASE Restart
  <2>1. [rev |-> 0, tree |-> Empty] \in [rev : Revs, tree : Trees]
    BY DEF Empty, Trees, Revs
  <2> QED
    BY <1>0, <1>5, <2>1 DEF Restart, TypeOK
<1>6. ASSUME NEW u \in Uploads, NEW b \in Blobs, Upload(u, b)
      PROVE  TypeOK'
  <2>1. [pc |-> "put", blob |-> b, key |-> 0] \in [pc : {"idle", "put", "register"}, blob : Blobs \cup {NoBlob}, key : 0..MaxKeys]
    OBVIOUS
  <2> QED
    BY <1>0, <1>6, <2>1 DEF Upload, store, TypeOK
<1>7. ASSUME NEW u \in Uploads, PutBytes(u)
      PROVE  TypeOK'
  <2>1. /\ keys' = keys + 1 /\ bucket' = bucket \cup {keys + 1}
        /\ upload' = [upload EXCEPT ![u].pc = "register", ![u].key = keys + 1]
        /\ UNCHANGED <<scope, store, blobs, busy, event, reserve, now, promised>>
        /\ keys \in Nat /\ keys < MaxKeys /\ bucket \subseteq 1..keys
    BY <1>0, <1>7 DEF PutBytes, Put, TypeOK
  <2>2. keys + 1 \in 0..MaxKeys /\ keys' \in 0..MaxKeys /\ bucket' \subseteq 1..keys'
    BY <2>1
  <2>3. upload' \in [Uploads -> UploadRows]
    BY <1>0, <2>1, <2>2, PutRow DEF TypeOK, UploadRows
  <2> QED
    BY <1>0, <2>1, <2>2, <2>3 DEF TypeOK, UploadRows, store
<1>8. ASSUME NEW u \in Uploads, RegisterBlob(u)
      PROVE  TypeOK'
  <2>1. upload' \in [Uploads -> UploadRows]
    BY <1>0, <1>8 DEF RegisterBlob, NoUpload, TypeOK, UploadRows
  <2>2. PICK row \in Blob : blobs' = [x \in DOMAIN blobs \cup {upload[u].blob} |->
                                         IF x = upload[u].blob THEN row ELSE blobs[x]]
    <3>1. upload[u].key \in 1..MaxKeys /\ upload[u].blob \in Blobs
      <4>1. upload[u].pc = "register"
        BY <1>8 DEF RegisterBlob
      <4>2. upload[u].key \in bucket /\ upload[u].blob \in Blobs
        BY <1>0, <4>1 DEF Objects
      <4>3. bucket \subseteq 1..keys /\ keys \in 0..MaxKeys
        BY <1>0 DEF TypeOK
      <4>4. 1..keys \subseteq 1..MaxKeys
        BY ONLY <4>3, MaxKeys \in Nat
      <4> QED
        BY <4>2, <4>3, <4>4
    <3>2. now + Life \in Nat
      BY <1>0 DEF TypeOK
    <3>3. PICK b : b = upload[u].blob
      OBVIOUS
    <3>4. Available(b) => blobs[b].key \in 1..MaxKeys
      BY <1>0 DEF Available, TypeOK, Blob
    <3>5. PICK row : row = [key |-> IF Available(b) THEN blobs[b].key ELSE upload[u].key,
                            expires |-> now + Life]
      OBVIOUS
    <3>6. row \in Blob
      BY <3>1, <3>2, <3>4, <3>5 DEF Blob
    <3>7. blobs' = [x \in DOMAIN blobs \cup {b} |-> IF x = b THEN row ELSE blobs[x]]
      BY <1>8, <3>3, <3>5 DEF RegisterBlob, NewLife
    <3> QED
      BY <3>3, <3>6, <3>7
  <2>3. upload[u].blob \in Blobs
    BY <1>0, <1>8 DEF RegisterBlob, Objects
  <2>4. DOMAIN blobs' \subseteq Blobs /\ blobs' \in [DOMAIN blobs' -> Blob]
    <3>1. DOMAIN blobs \subseteq Blobs /\ \A x \in DOMAIN blobs : blobs[x] \in Blob
      BY <1>0 DEF TypeOK
    <3> QED
      BY <2>2, <2>3, <3>1
  <2>5. DOMAIN promised' \subseteq Blobs /\ promised' \in [DOMAIN promised' -> Nat]
    <3>1. DOMAIN promised \subseteq Blobs /\ promised \in [DOMAIN promised -> Nat] /\ now + Life \in Nat
      BY <1>0 DEF TypeOK
    <3>2. CASE Referenced(upload[u].blob)
      BY <1>8, <3>1, <3>2 DEF RegisterBlob
    <3>3. CASE ~ Referenced(upload[u].blob)
      <4>1. promised' = [x \in DOMAIN promised \cup {upload[u].blob} |->
                           IF x = upload[u].blob THEN now + Life ELSE promised[x]]
        BY <1>8, <3>3 DEF RegisterBlob
      <4> QED
        BY <2>3, <3>1, <4>1
    <3> QED
      BY <3>2, <3>3
  <2> QED
    BY <1>0, <1>8, <2>1, <2>4, <2>5 DEF RegisterBlob, TypeOK, UploadRows, store
<1>9. ASSUME NEW u \in Uploads, UploadLost(u)
      PROVE  TypeOK'
  BY <1>0, <1>9 DEF UploadLost, NoUpload, store, TypeOK
<1>10. CASE Tick
  BY <1>0, <1>10 DEF Tick, store, TypeOK
<1> QED
  BY <1>1, <1>2, <1>3, <1>4, <1>5, <1>6, <1>7, <1>8, <1>9, <1>10 DEF Next

\* The rows, the blobs and the promises stay what they were, while bytes may be added.
LEMMA RowsKept ==
  ASSUME Exact, Objects, PromisesKept, \A p \in Paths : MentionsAt(tree', p) = MentionsAt(tree, p),
         refs \subseteq [path : Paths, blob : Blobs, rev : Revs],
         refs' = refs, blobs' = blobs, promised' = promised, bucket \subseteq bucket'
  PROVE  Exact' /\ PromisesKept' /\ \A b \in DOMAIN blobs' : blobs'[b].key \in bucket'
<1>1. \A b : Referenced(b)' <=> Referenced(b)
  BY DEF Referenced
<1>2. \A b : Served(b) => Served(b)'
  BY <1>1 DEF Served, Published
<1>3. PromisesKept'
  BY <1>1 DEF PromisesKept
<1>4. \A p \in Paths : MentionsAt(tree, p)' = MentionsAt(tree, p)
  BY DEF MentionsAt
<1>5. \A r \in refs : r.path \in Paths
  OBVIOUS
<1>6. \A r \in refs : r.blob \in MentionsAt(tree, r.path)' /\ Served(r.blob)'
  BY <1>2, <1>4, <1>5 DEF Exact
<1>7. \A p \in Paths : \A b \in MentionsAt(tree, p)' : \E r \in refs : r.path = p /\ r.blob = b
  BY <1>4 DEF Exact
<1>8. Exact'
  BY <1>6, <1>7 DEF Exact
<1> QED
  BY <1>3, <1>8 DEF Objects

\* rpcRegisterBlob
LEMMA RegisterKeeps ==
  ASSUME IInv, NEW u \in Uploads, RegisterBlob(u)
  PROVE  Exact' /\ PromisesKept' /\ Objects'
<1>1. TypeOK /\ Exact /\ Objects /\ PromisesKept
  BY ExactMeans DEF IInv
<1>2. PICK b : b = upload[u].blob
  OBVIOUS
<1>3. b \in Blobs /\ upload[u].key \in bucket /\ now \in Nat
  BY <1>1, <1>2 DEF RegisterBlob, Objects, TypeOK
<1>4. PICK row : row = [key |-> IF Available(b) THEN blobs[b].key ELSE upload[u].key,
                        expires |-> now + Life]
  OBVIOUS
<1>5. row.key \in bucket /\ row.expires = now + Life /\ now + Life \in Nat
  BY <1>1, <1>3, <1>4 DEF Objects, Available
<1>6. blobs' = [x \in DOMAIN blobs \cup {b} |-> IF x = b THEN row ELSE blobs[x]]
  BY <1>2, <1>4 DEF RegisterBlob, NewLife
<1>7. DOMAIN blobs' = DOMAIN blobs \cup {b} /\ blobs'[b] = row
      /\ \A x \in DOMAIN blobs : x # b => blobs'[x] = blobs[x]
  BY <1>6
<1>8. UNCHANGED <<tree, refs, bucket>>
  BY DEF RegisterBlob, store
<1>9. \A x : Referenced(x)' <=> Referenced(x)
  BY <1>8 DEF Referenced
<1>10. \A x \in DOMAIN blobs' : blobs'[x].key \in bucket'
  BY <1>1, <1>5, <1>7, <1>8 DEF Objects
<1>11. Objects'
  <2>1. upload' = [upload EXCEPT ![u] = NoUpload] /\ upload \in [Uploads -> UploadRows]
    BY <1>1 DEF RegisterBlob, TypeOK, UploadRows
  <2>2. \A v \in Uploads : upload'[v] = IF v = u THEN NoUpload ELSE upload[v]
    BY <2>1
  <2> QED
    BY <1>1, <1>8, <1>10, <2>2 DEF Objects, NoUpload
<1>12. Exact'
  <2>1. \A x : Served(x) => Served(x)'
    BY <1>7, <1>9, <1>10 DEF Served, Published
  <2>2. \A p : MentionsAt(tree, p)' = MentionsAt(tree, p)
    BY <1>8 DEF MentionsAt
  <2>3. \A r \in refs : r.blob \in MentionsAt(tree, r.path)' /\ Served(r.blob)'
    BY <1>1, <2>1, <2>2 DEF Exact
  <2>4. \A p \in Paths : \A x \in MentionsAt(tree, p)' : \E r \in refs : r.path = p /\ r.blob = x
    BY <1>1, <2>2 DEF Exact
  <2> QED
    BY <1>8, <2>3, <2>4 DEF Exact
<1>13. PromisesKept'
  <2>1. CASE Referenced(b)
    <3>1. promised' = promised /\ b \notin DOMAIN promised
      BY <1>1, <1>2, <2>1 DEF RegisterBlob, PromisesKept
    <3> QED
      BY <1>1, <1>7, <1>9, <3>1 DEF PromisesKept
  <2>2. CASE ~ Referenced(b)
    <3>1. promised' = [x \in DOMAIN promised \cup {b} |-> IF x = b THEN now + Life ELSE promised[x]]
      BY <1>2, <2>2 DEF RegisterBlob
    <3>2. DOMAIN promised' = DOMAIN promised \cup {b} /\ promised'[b] = now + Life
          /\ \A x \in DOMAIN promised : x # b => promised'[x] = promised[x]
      BY <3>1
    <3> SUFFICES ASSUME NEW x \in DOMAIN promised'
                 PROVE  /\ x \in DOMAIN blobs' /\ ~ Referenced(x)'
                        /\ blobs'[x].expires >= promised'[x]
      BY DEF PromisesKept
    <3>3. CASE x = b
      BY <1>5, <1>7, <1>9, <2>2, <3>2, <3>3
    <3>4. CASE x # b
      BY <1>1, <1>7, <1>9, <3>2, <3>4 DEF PromisesKept
    <3> QED
      BY <3>3, <3>4
  <2> QED
    BY <2>1, <2>2
<1> QED
  BY <1>11, <1>12, <1>13

LEMMA CacheStep ==
  ASSUME IInv, Next
  PROVE  CacheIsHead' /\ NothingYet'
<1>1. TypeOK /\ CacheIsHead /\ NothingYet
  BY DEF IInv
<1>2. ASSUME NEW v \in Reservations, InitializeRepo(v)
      PROVE  CacheIsHead' /\ NothingYet'
  BY <1>1, <1>2 DEF InitializeRepo, CacheIsHead, NothingYet
<1>3. ASSUME NEW batch \in Batches, ApplyWrites(batch)
      PROVE  CacheIsHead' /\ NothingYet'
  <2>1. PICK acc : Applies(acc)
    BY <1>1, <1>3, WriteApplies
  <2>2. cache'.rev = 0 /\ rev' = rev + 1 /\ rev \in Nat
    BY <2>1 DEF Applies, DropCache
  <2> QED
    BY <2>2 DEF CacheIsHead, NothingYet
<1>4. CASE FinishWrite
  BY <1>1, <1>4 DEF FinishWrite, CacheIsHead, NothingYet
<1>5. CASE Restart
  BY <1>1, <1>5 DEF Restart, CacheIsHead, NothingYet
<1>6. ASSUME UNCHANGED store
      PROVE  CacheIsHead' /\ NothingYet'
  BY <1>1, <1>6 DEF store, CacheIsHead, NothingYet
<1> QED
  BY <1>2, <1>3, <1>4, <1>5, <1>6
     DEF Next, ReadMetadata, Upload, PutBytes, RegisterBlob, UploadLost, Tick

LEMMA RecordsStep ==
  ASSUME IInv, Next
  PROVE  Exact' /\ Objects' /\ PromisesKept'
<1>1. TypeOK /\ Exact /\ Objects /\ PromisesKept /\ NothingYet
  BY ExactMeans DEF IInv
<1>2. refs \subseteq [path : Paths, blob : Blobs, rev : Revs]
  BY <1>1 DEF TypeOK
<1>3. upload \in [Uploads -> UploadRows]
  BY <1>1 DEF TypeOK, UploadRows
<1>4. ASSUME \A p \in Paths : MentionsAt(tree', p) = MentionsAt(tree, p),
             UNCHANGED <<refs, blobs, promised>>, bucket \subseteq bucket',
             \A u \in Uploads : /\ upload'[u].pc # "idle" => upload'[u].blob \in Blobs
                                /\ upload'[u].pc = "register" => upload'[u].key \in bucket'
      PROVE  Exact' /\ Objects' /\ PromisesKept'
  BY <1>1, <1>2, <1>4, RowsKept DEF Objects
<1>5. ASSUME UNCHANGED <<tree, refs, blobs, promised, bucket, upload>>
      PROVE  Exact' /\ Objects' /\ PromisesKept'
  <2>1. \A p \in Paths : MentionsAt(tree', p) = MentionsAt(tree, p)
    BY <1>5
  <2>2. \A u \in Uploads : /\ upload'[u].pc # "idle" => upload'[u].blob \in Blobs
                           /\ upload'[u].pc = "register" => upload'[u].key \in bucket'
    BY <1>1, <1>5 DEF Objects
  <2> QED
    BY <1>4, <1>5, <2>1, <2>2
<1>6. ASSUME NEW v \in Reservations, ReadMetadata(v)
      PROVE  Exact' /\ Objects' /\ PromisesKept'
  BY <1>5, <1>6 DEF ReadMetadata, store
<1>7. ASSUME NEW v \in Reservations, InitializeRepo(v)
      PROVE  Exact' /\ Objects' /\ PromisesKept'
  <2>1. tree' = tree
    BY <1>1, <1>7 DEF InitializeRepo, Insertable, NothingYet
  <2> QED
    BY <1>5, <1>7, <2>1 DEF InitializeRepo
<1>8. ASSUME NEW batch \in Batches, ApplyWrites(batch)
      PROVE  Exact' /\ Objects' /\ PromisesKept'
  <2>1. PICK acc : Applies(acc)
    BY <1>8, WriteApplies DEF IInv
  <2> QED
    BY <2>1, CommitExact
<1>9. CASE FinishWrite \/ Restart \/ Tick
  BY <1>5, <1>9 DEF FinishWrite, Restart, Tick, store
<1>10. ASSUME NEW u \in Uploads, NEW b \in Blobs, Upload(u, b)
       PROVE  Exact' /\ Objects' /\ PromisesKept'
  <2>1. UNCHANGED <<tree, refs, blobs, promised, bucket>>
        /\ upload' = [upload EXCEPT ![u] = [pc |-> "put", blob |-> b, key |-> 0]]
    BY <1>10 DEF Upload, store
  <2>2. \A v \in Uploads : upload'[v] = IF v = u THEN [pc |-> "put", blob |-> b, key |-> 0] ELSE upload[v]
    BY <1>3, <2>1
  <2> QED
    BY <1>1, <1>4, <2>1, <2>2 DEF Objects
<1>11. ASSUME NEW u \in Uploads, PutBytes(u)
       PROVE  Exact' /\ Objects' /\ PromisesKept'
  <2>1. UNCHANGED <<tree, refs, blobs, promised>> /\ bucket' = bucket \cup {keys + 1}
        /\ upload' = [upload EXCEPT ![u].pc = "register", ![u].key = keys + 1]
        /\ upload[u].pc = "put" /\ keys + 1 \in 0..MaxKeys
    BY <1>1, <1>11 DEF PutBytes, Put, store, TypeOK
  <2>2. upload'[u] = [pc |-> "register", blob |-> upload[u].blob, key |-> keys + 1]
        /\ \A v \in Uploads : v # u => upload'[v] = upload[v]
    BY <1>3, <2>1, PutRow
  <2>3. \A v \in Uploads : /\ upload'[v].pc # "idle" => upload'[v].blob \in Blobs
                           /\ upload'[v].pc = "register" => upload'[v].key \in bucket'
    <3> SUFFICES ASSUME NEW v \in Uploads
                 PROVE  /\ upload'[v].pc # "idle" => upload'[v].blob \in Blobs
                        /\ upload'[v].pc = "register" => upload'[v].key \in bucket'
      OBVIOUS
    <3>1. CASE v = u
      <4>1. upload'[v].blob = upload[u].blob /\ upload'[v].key = keys + 1
        BY <2>2, <3>1
      <4>2. upload[u].blob \in Blobs
        BY <1>1, <2>1 DEF Objects
      <4>3. keys + 1 \in bucket'
        BY <2>1
      <4> QED
        BY <4>1, <4>2, <4>3
    <3>2. CASE v # u
      <4>1. upload'[v] = upload[v] /\ bucket \subseteq bucket'
        BY <2>1, <2>2, <3>2
      <4> QED
        BY <1>1, <4>1 DEF Objects
    <3> QED
      BY <3>1, <3>2
  <2> QED
    BY <1>4, <2>1, <2>3
<1>12. ASSUME NEW u \in Uploads, RegisterBlob(u)
       PROVE  Exact' /\ Objects' /\ PromisesKept'
  BY <1>12, RegisterKeeps
<1>13. ASSUME NEW u \in Uploads, UploadLost(u)
       PROVE  Exact' /\ Objects' /\ PromisesKept'
  <2>1. UNCHANGED <<tree, refs, blobs, promised, bucket>> /\ upload' = [upload EXCEPT ![u] = NoUpload]
    BY <1>13 DEF UploadLost, store
  <2>2. \A v \in Uploads : upload'[v] = IF v = u THEN NoUpload ELSE upload[v]
    BY <1>3, <2>1
  <2> QED
    BY <1>1, <1>4, <2>1, <2>2 DEF Objects, NoUpload
<1> QED
  BY <1>6, <1>7, <1>8, <1>9, <1>10, <1>11, <1>12, <1>13 DEF Next

LEMMA Inductive ==
  IInv /\ [Next]_vars => IInv'
<1>1. ASSUME IInv, Next
      PROVE  IInv'
  <2>1. TypeOK' /\ CacheIsHead' /\ NothingYet' /\ Exact' /\ Objects' /\ PromisesKept'
    BY <1>1, TypeStep, CacheStep, RecordsStep
  <2>2. ReferencesExact'
    <3>1. (TypeOK => (ReferencesExact <=> Exact))'
      BY ExactMeans, PTL
    <3> QED
      BY <2>1, <3>1
  <2> QED
    BY <2>1, <2>2 DEF IInv
<1>2. ASSUME IInv, UNCHANGED vars
      PROVE  IInv'
  <2>1. UNCHANGED <<scope, rev, tree, cache, refs, blobs, bucket, busy, event, upload, reserve,
                    keys, now, promised>>
    BY <1>2 DEF vars, store
  <2>2. TypeOK' /\ CacheIsHead' /\ NothingYet' /\ Objects'
    BY <1>2, <2>1 DEF IInv, TypeOK, CacheIsHead, NothingYet, Objects
  <2>3. \A b : (Referenced(b)' <=> Referenced(b)) /\ (Served(b)' <=> Served(b))
    BY <2>1 DEF Referenced, Served, Published
  <2>4. \A p : MentionsAt(tree, p)' = MentionsAt(tree, p)
    BY <2>1 DEF MentionsAt
  <2>5. ReferencesExact'
    BY <1>2, <2>1, <2>3, <2>4 DEF IInv, ReferencesExact
  <2>6. PromisesKept'
    BY <1>2, <2>1, <2>3 DEF IInv, PromisesKept
  <2> QED
    BY <2>2, <2>5, <2>6 DEF IInv
<1> QED
  BY <1>1, <1>2

LEMMA RecordsHold ==
  Spec => []IInv
BY RecordsInit, Inductive, PTL DEF Spec

-----------------------------------------------------------------------------

\* The tables, the bucket and the queue of a repository keep their types; every revision,
\* object and instant stays within its bound.
THEOREM RecordsTypeCorrect == Spec => []TypeOK
<1>1. IInv => TypeOK
  BY DEF IInv
<1> QED
  BY <1>1, RecordsHold, PTL

\* The stored references are those of the records, and the bytes of each are served, for
\* batches of any length that give a blob from one record to another (storage.ts 166-199).
THEOREM ReferencesStayExact == Spec => []ReferencesExact
<1>1. IInv => ReferencesExact
  BY DEF IInv
<1> QED
  BY <1>1, RecordsHold, PTL

\* A blob that was uploaded stays usable for its 24 hours, through any other uploads and
\* writes (blobs.ts 48-96).
THEOREM UploadsStayUsable == Spec => []UploadUsable
<1>1. IInv => UploadUsable
  <2> SUFFICES ASSUME IInv, NEW b \in DOMAIN promised, promised[b] > now
               PROVE  Available(b)
    BY DEF UploadUsable
  <2>1. b \in DOMAIN blobs /\ blobs[b].expires >= promised[b]
    BY DEF IInv, PromisesKept
  <2>2. promised[b] \in Nat /\ now \in Nat /\ blobs[b].expires \in Nat
    BY <2>1 DEF IInv, TypeOK, Blob
  <2> QED
    BY <2>1, <2>2 DEF Available
<1> QED
  BY <1>1, RecordsHold, PTL

\* The repository in memory is the head or nothing, after failures between the commit and
\* the loading of the head too (repo-do.ts 84-129).
THEOREM CacheStaysHead == Spec => []CacheIsHead
<1>1. IInv => CacheIsHead
  BY DEF IInv
<1> QED
  BY <1>1, RecordsHold, PTL

\* An event tells exactly what its commit changed (writes.ts 71-86).
THEOREM EventsTellTheDifference == Spec => EventIsDifference
<1> DEFINE Tells == rev' > rev /\ rev > 0 =>
                      event' = {[path |-> p, old |-> tree[p], new |-> tree'[p]] :
                                  p \in {q \in Paths : tree[q] # tree'[q]}}
<1>1. ASSUME IInv, [Next]_vars
      PROVE  Tells
  <2>1. TypeOK /\ CacheIsHead /\ rev \in Nat
    BY <1>1 DEF IInv, TypeOK, Revs
  <2>2. ASSUME NEW batch \in Batches, ApplyWrites(batch)
        PROVE  Tells
    <3>1. PICK acc : Applies(acc)
      BY <2>1, <2>2, WriteApplies
    <3>2. /\ acc.touched \subseteq Paths /\ tree' = acc.tree
          /\ \A p \in Paths \ acc.touched : tree'[p] = tree[p]
      BY <2>1, <3>1, CommitFacts
    <3>3. {q \in acc.touched : tree[q] # acc.tree[q]} = {q \in Paths : tree[q] # tree'[q]}
      BY <3>2
    <3>4. event' = {[path |-> p, old |-> tree[p], new |-> acc.tree[p]] :
                      p \in {q \in acc.touched : tree[q] # acc.tree[q]}}
      BY <3>1 DEF Applies, NetOps
    <3> QED
      BY <3>2, <3>3, <3>4
  <2>3. ASSUME rev > 0, NEW v \in Reservations, ReadMetadata(v) \/ InitializeRepo(v)
        PROVE  rev' = rev
    BY <2>3 DEF ReadMetadata, InitializeRepo, Insertable, store
  <2>4. CASE UNCHANGED rev
    BY <2>1, <2>4
  <2> QED
    BY <1>1, <2>2, <2>3, <2>4
       DEF Next, FinishWrite, Restart, Upload, PutBytes, RegisterBlob, UploadLost, Tick, store, vars
<1> QED
  BY <1>1, RecordsHold, PTL DEF Spec, EventIsDifference

-----------------------------------------------------------------------------
(***************************************************************************)
(* Signing keys (KeyReservations): a reserved key serves one DID           *)
(***************************************************************************)

USE KeyAssumption

-----------------------------------------------------------------------------
(* The inductive invariant *)

\* The DIDs of the rows are unique.
UniqueDids ==
  \A j, k \in Keys, d \in Owners : Bound(j, d) /\ Bound(k, d) => j = k

OneRepositoryPerKey ==
  \A d, e \in Owners : repoKey[d] = repoKey[e] /\ repoKey[d] # NoKey => d = e

\* The key of a repository is reserved for its DID until it has its account, and never
\* for another one.
RepoKeysBound ==
  \A d \in Owners : repoKey[d] # NoKey =>
    /\ d \in hosted \/ Bound(repoKey[d], d)
    /\ repoKey[d] \in DOMAIN reservations => Bound(repoKey[d], d)

AnswersKept ==
  \A a \in answered : a.did \in Owners => a.did \in hosted \/ Bound(a.key, a.did)

\* A key that was answered is stored, here or in a repository.
Known(k) == k \in DOMAIN reservations \/ \E d \in Owners : repoKey[d] = k
AnswersKnown == \A a \in answered : Known(a.key)

\* What a request relies on; the key that one is about to insert is nowhere else.
RequestOK(r) ==
  LET d == request[r].did
      k == request[r].key
  IN  /\ request[r].pc # "idle" => d \in Owners
      /\ request[r].pc \in {"insert", "claim", "repo", "commit"} => k \in Keys
      /\ request[r].pc = "insert" => ~ Known(k)
      /\ request[r].pc = "repo" => Bound(k, d) \/ repoKey[d] = k
      /\ request[r].pc = "commit" => repoKey[d] = k
RequestsOK == \A r \in Requests : RequestOK(r)

NewKeysDiffer ==
  \A r, q \in Requests :
    request[r].pc = "insert" /\ request[q].pc = "insert" /\ request[r].key = request[q].key
      => r = q

KeyInv ==
  /\ KeyTypeOK
  /\ UniqueDids /\ OneRepositoryPerKey /\ RepoKeysBound
  /\ AnswersKept /\ AnswersKnown
  /\ RequestsOK /\ NewKeysDiffer

-----------------------------------------------------------------------------
(* The rows *)

LEMMA BindFacts ==
  ASSUME NEW k \in Keys, NEW d \in Owners \cup {NoDid}, KeyTypeOK,
         reservations' = Bind(k, d)
  PROVE  /\ DOMAIN reservations' = DOMAIN reservations \cup {k}
         /\ DOMAIN reservations' \subseteq Keys
         /\ reservations' \in [DOMAIN reservations' -> Owners \cup {NoDid}]
         /\ \A j, e : Bound(j, e)' <=> IF j = k THEN e = d ELSE Bound(j, e)
<1>1. /\ DOMAIN reservations' = DOMAIN reservations \cup {k}
      /\ \A j \in DOMAIN reservations' :
           reservations'[j] = IF j = k THEN d ELSE reservations[j]
      /\ reservations' = [j \in DOMAIN reservations' |-> reservations'[j]]
  BY DEF Bind
<1>2. /\ DOMAIN reservations \subseteq Keys
      /\ \A j \in DOMAIN reservations : reservations[j] \in Owners \cup {NoDid}
  BY DEF KeyTypeOK
<1> QED
  BY <1>1, <1>2 DEF Bound

-----------------------------------------------------------------------------
(* Steps that leave the rows and the repositories alone *)

\* Only the point that one request has reached changes, and perhaps its DID and key.
LEMMA RequestStep ==
  ASSUME KeyInv, NEW r \in Requests, UNCHANGED <<reservations, hosted, repoKey, answered>>,
         request' \in [Requests ->
           [pc : {"idle", "find", "insert", "claim", "repo", "commit"},
            did : Owners \cup {NoDid}, key : Keys \cup {NoKey}]],
         \A q \in Requests \ {r} : request'[q] = request[q],
         RequestOK(r)',
         request'[r].pc = "insert" =>
           \A q \in Requests \ {r} : request[q].key # request'[r].key
  PROVE  KeyInv'
<1>1. RequestsOK'
  BY DEF KeyInv, RequestsOK, RequestOK, Bound, Known
<1>2. NewKeysDiffer'
  BY DEF KeyInv, NewKeysDiffer
<1> QED
  BY <1>1, <1>2
  DEF KeyInv, KeyTypeOK, UniqueDids, OneRepositoryPerKey, RepoKeysBound, AnswersKept,
      AnswersKnown, Bound, Known

\* A request has ended, or goes on with the DID and the key that it has.
LEMMA EndType ==
  ASSUME KeyTypeOK, NEW r \in Requests, End(r)
  PROVE  /\ request' \in [Requests ->
              [pc : {"idle", "find", "insert", "claim", "repo", "commit"},
               did : Owners \cup {NoDid}, key : Keys \cup {NoKey}]]
         /\ \A q \in Requests \ {r} : request'[q] = request[q]
         /\ request'[r] = NoRequest
BY DEF KeyTypeOK, End, NoRequest

LEMMA GotoType ==
  ASSUME KeyTypeOK, NEW r \in Requests,
         NEW place \in {"find", "insert", "claim", "repo", "commit"}, Goto(r, place)
  PROVE  /\ request' \in [Requests ->
              [pc : {"idle", "find", "insert", "claim", "repo", "commit"},
               did : Owners \cup {NoDid}, key : Keys \cup {NoKey}]]
         /\ \A q \in Requests \ {r} : request'[q] = request[q]
         /\ request'[r].pc = place
         /\ request'[r].did = request[r].did /\ request'[r].key = request[r].key
BY DEF KeyTypeOK, Goto

LEMMA EndStep ==
  ASSUME KeyInv, NEW r \in Requests, End(r),
         UNCHANGED <<reservations, hosted, repoKey, answered>>
  PROVE  KeyInv'
<1>1. KeyTypeOK
  BY DEF KeyInv
<1>2. RequestOK(r)' /\ request'[r].pc # "insert"
  BY <1>1, EndType DEF RequestOK, NoRequest
<1> QED
  BY <1>1, <1>2, EndType, RequestStep

LEMMA ReserveForStep ==
  ASSUME KeyInv, NEW r \in Requests, NEW d \in Owners, ReserveFor(r, d)
  PROVE  KeyInv'
<1>1. KeyTypeOK
  BY DEF KeyInv
<1>2. /\ request' \in [Requests ->
              [pc : {"idle", "find", "insert", "claim", "repo", "commit"},
               did : Owners \cup {NoDid}, key : Keys \cup {NoKey}]]
      /\ \A q \in Requests \ {r} : request'[q] = request[q]
      /\ request'[r].pc = "find" /\ request'[r].did = d
  BY <1>1 DEF ReserveFor, KeyTypeOK, NoRequest
<1>3. RequestOK(r)'
  BY <1>2 DEF RequestOK
<1> QED
  BY <1>2, <1>3, RequestStep DEF ReserveFor

LEMMA CreateAccountStep ==
  ASSUME KeyInv, NEW r \in Requests, NEW d \in Owners, NEW k \in Keys, CreateAccount(r, d, k)
  PROVE  KeyInv'
<1>1. KeyTypeOK
  BY DEF KeyInv
<1>2. /\ request' \in [Requests ->
              [pc : {"idle", "find", "insert", "claim", "repo", "commit"},
               did : Owners \cup {NoDid}, key : Keys \cup {NoKey}]]
      /\ \A q \in Requests \ {r} : request'[q] = request[q]
      /\ request'[r].pc = "claim" /\ request'[r].did = d /\ request'[r].key = k
  BY <1>1 DEF CreateAccount, KeyTypeOK
<1>3. RequestOK(r)'
  BY <1>2 DEF RequestOK
<1> QED
  BY <1>2, <1>3, RequestStep DEF CreateAccount

\* The key that is found is answered, which adds nothing but an answer.
LEMMA FindStep ==
  ASSUME KeyInv, NEW r \in Requests, Find(r)
  PROVE  KeyInv'
<1> DEFINE d == request[r].did
<1>1. KeyTypeOK /\ d \in Owners
  BY DEF KeyInv, Find, RequestsOK, RequestOK
<1>2. ASSUME NEW k \in Keys, Bound(k, d), Answer(d, k), End(r)
      PROVE  KeyInv'
  <2>1. RequestOK(r)' /\ request'[r].pc # "insert"
    BY <1>1, <1>2, EndType DEF RequestOK, NoRequest
  <2>2. RequestsOK'
    BY <1>1, <1>2, <2>1, EndType DEF KeyInv, RequestsOK, RequestOK, Bound, Known, Find
  <2>3. NewKeysDiffer'
    BY <1>1, <1>2, <2>1, EndType DEF KeyInv, NewKeysDiffer
  <2>4. KeyTypeOK'
    BY <1>1, <1>2, EndType DEF KeyTypeOK, Find, Answer
  <2>5. AnswersKept' /\ AnswersKnown'
    BY <1>2 DEF KeyInv, AnswersKept, AnswersKnown, Known, Bound, Find, Answer
  <2> QED
    BY <2>2, <2>3, <2>4, <2>5
    DEF KeyInv, Find, UniqueDids, OneRepositoryPerKey, RepoKeysBound, Bound
<1>3. ASSUME NEW k \in Keys, Fresh(k), answered' = answered,
             request' = [request EXCEPT ![r].pc = "insert", ![r].key = k]
      PROVE  KeyInv'
  <2>1. /\ request' \in [Requests ->
              [pc : {"idle", "find", "insert", "claim", "repo", "commit"},
               did : Owners \cup {NoDid}, key : Keys \cup {NoKey}]]
        /\ \A q \in Requests \ {r} : request'[q] = request[q]
        /\ request'[r].pc = "insert" /\ request'[r].did = d /\ request'[r].key = k
    BY <1>1, <1>3 DEF KeyTypeOK
  <2>2. ~ Known(k)'
    BY <1>3 DEF Fresh, Known, Find
  <2>3. RequestOK(r)'
    BY <1>1, <1>3, <2>1, <2>2 DEF RequestOK
  <2>4. \A q \in Requests \ {r} : request[q].key # request'[r].key
    BY <1>3, <2>1 DEF Fresh
  <2> QED
    BY <1>3, <2>1, <2>3, <2>4, RequestStep DEF Find
<1> QED
  BY <1>2, <1>3 DEF Find

-----------------------------------------------------------------------------
(* Steps that write a row *)

\* Key k, which is new or free or d's already, is bound to d, which has no other.
LEMMA BindStep ==
  ASSUME KeyInv, NEW k \in Keys, NEW d \in Owners \cup {NoDid},
         reservations' = Bind(k, d), UNCHANGED <<hosted, repoKey>>,
         ~ Known(k) \/ Bound(k, NoDid) \/ Bound(k, d),
         d \in Owners => \A j \in Keys \ {k} : ~ Bound(j, d),
         answered' \in {answered, answered \cup {[did |-> d, key |-> k]}},
         request' \in [Requests ->
           [pc : {"idle", "find", "insert", "claim", "repo", "commit"},
            did : Owners \cup {NoDid}, key : Keys \cup {NoKey}]],
         \A q \in Requests :
           \/ request'[q] = request[q]
           \/ request'[q].pc # "insert" /\ RequestOK(q)',
         \A q \in Requests : request'[q].pc = "insert" => request'[q].key # k
  PROVE  KeyInv'
<1>1. KeyTypeOK
  BY DEF KeyInv
<1>2. /\ DOMAIN reservations' = DOMAIN reservations \cup {k}
      /\ DOMAIN reservations' \subseteq Keys
      /\ reservations' \in [DOMAIN reservations' -> Owners \cup {NoDid}]
      /\ \A j, e : Bound(j, e)' <=> IF j = k THEN e = d ELSE Bound(j, e)
  BY <1>1, BindFacts
<1>3. KeyTypeOK'
  BY <1>1, <1>2 DEF KeyTypeOK
<1>4. UniqueDids'
  BY <1>2 DEF KeyInv, UniqueDids
<1>5. OneRepositoryPerKey'
  BY DEF KeyInv, OneRepositoryPerKey
<1>6. \A e \in Owners : Bound(k, e) => d = e
  BY DEF Bound, Known
<1>7. \A e \in Owners : repoKey[e] = k => Bound(k, e)
  <2>1. SUFFICES ASSUME NEW e \in Owners, repoKey[e] = k PROVE Bound(k, e)
    OBVIOUS
  <2>2. k \in DOMAIN reservations
    BY <2>1 DEF Known, Bound
  <2> QED
    BY <2>1, <2>2 DEF KeyInv, RepoKeysBound
<1>8. RepoKeysBound'
  BY <1>2, <1>6, <1>7 DEF KeyInv, RepoKeysBound
<1>9. AnswersKept'
  BY <1>2, <1>6 DEF KeyInv, AnswersKept
<1>10. \A j : Known(j)' <=> Known(j) \/ j = k
  BY <1>2 DEF Known
<1>11. AnswersKnown'
  BY <1>10 DEF KeyInv, AnswersKnown
<1>12. RequestsOK'
  <2>1. SUFFICES ASSUME NEW q \in Requests, request'[q] = request[q] PROVE RequestOK(q)'
    BY DEF RequestsOK
  <2>2. RequestOK(q)
    BY DEF KeyInv, RequestsOK
  <2> QED
    BY <1>2, <1>6, <1>10, <2>1, <2>2 DEF RequestOK
<1>13. NewKeysDiffer'
  BY DEF KeyInv, NewKeysDiffer
<1> QED
  BY <1>3, <1>4, <1>5, <1>8, <1>9, <1>11, <1>12, <1>13 DEF KeyInv

LEMMA ReserveStep ==
  ASSUME KeyInv, NEW k \in Keys, Reserve(k)
  PROVE  KeyInv'
<1>1. KeyTypeOK /\ request' = request /\ ~ Known(k)
  BY DEF KeyInv, Reserve, Fresh, Known
<1>2. \A q \in Requests : request[q].key # k
  BY DEF Reserve, Fresh
<1> QED
  BY <1>1, <1>2, BindStep DEF Reserve, Answer, KeyTypeOK

LEMMA InsertStep ==
  ASSUME KeyInv, NEW r \in Requests, Insert(r)
  PROVE  KeyInv'
<1> DEFINE d == request[r].did
           k == request[r].key
<1>1. KeyTypeOK /\ RequestOK(r) /\ d \in Owners /\ k \in Keys /\ ~ Known(k)
  BY DEF KeyInv, Insert, RequestsOK, RequestOK
<1>2. CASE reservations' = Bind(k, d) /\ Answer(d, k) /\ End(r) /\ \A j \in Keys : ~ Bound(j, d)
  <2>1. RequestOK(r)' /\ request'[r].pc # "insert"
    BY <1>1, <1>2, EndType DEF RequestOK, NoRequest
  <2>2. \A q \in Requests : request'[q].pc = "insert" => request'[q].key # k
    BY <1>1, <1>2, <2>1, EndType DEF KeyInv, NewKeysDiffer, Insert
  <2> QED
    BY <1>1, <1>2, <2>1, <2>2, EndType, BindStep DEF Insert, Answer
<1>3. CASE /\ request' = [request EXCEPT ![r].pc = "find", ![r].key = NoKey]
           /\ UNCHANGED <<reservations, answered>>
  <2>1. /\ request' \in [Requests ->
              [pc : {"idle", "find", "insert", "claim", "repo", "commit"},
               did : Owners \cup {NoDid}, key : Keys \cup {NoKey}]]
        /\ \A q \in Requests \ {r} : request'[q] = request[q]
        /\ request'[r].pc = "find" /\ request'[r].did = d
    BY <1>1, <1>3 DEF KeyTypeOK
  <2>2. RequestOK(r)'
    BY <1>1, <2>1 DEF RequestOK
  <2> QED
    BY <1>3, <2>1, <2>2, RequestStep DEF Insert
<1> QED
  BY <1>2, <1>3 DEF Insert

LEMMA ClaimStep ==
  ASSUME KeyInv, NEW r \in Requests, Claim(r)
  PROVE  KeyInv'
<1> DEFINE d == request[r].did
           k == request[r].key
<1>1. KeyTypeOK /\ d \in Owners /\ k \in Keys
  BY DEF KeyInv, Claim, RequestsOK, RequestOK
<1>2. CASE Claimable(k, d) /\ reservations' = Bind(k, d) /\ Goto(r, "repo")
  <2>1. /\ \A q \in Requests \ {r} : request'[q] = request[q]
        /\ request'[r].pc = "repo" /\ request'[r].did = d /\ request'[r].key = k
    BY <1>1, <1>2, GotoType
  <2>2. k \in DOMAIN reservations' /\ reservations'[k] = d
    BY <1>1, <1>2 DEF Bind
  <2>3. RequestOK(r)'
    BY <1>1, <2>1, <2>2 DEF RequestOK, Bound
  <2>4. Known(k)
    BY <1>2 DEF Claimable, Bound, Known
  <2>5. \A q \in Requests : request'[q].pc = "insert" => request'[q].key # k
    BY <2>1, <2>4 DEF KeyInv, RequestsOK, RequestOK
  <2> QED
    BY <1>1, <1>2, <2>1, <2>3, <2>5, GotoType, BindStep DEF Claim, Claimable
<1>3. CASE End(r) /\ reservations' = reservations
  BY <1>3, EndStep DEF Claim
<1> QED
  BY <1>2, <1>3 DEF Claim

-----------------------------------------------------------------------------
(* The repository and the account *)

LEMMA ReserveRepoStep ==
  ASSUME KeyInv, NEW r \in Requests, ReserveRepo(r)
  PROVE  KeyInv'
<1> DEFINE d == request[r].did
           k == request[r].key
<1>1. /\ KeyTypeOK /\ d \in Owners /\ k \in Keys /\ k # NoKey
      /\ Bound(k, d) \/ repoKey[d] = k
  BY DEF KeyInv, ReserveRepo, RequestsOK, RequestOK
<1>2. CASE /\ repoKey[d] \in {NoKey, k}
           /\ repoKey' = [repoKey EXCEPT ![d] = k] /\ Goto(r, "commit")
  <2>1. /\ repoKey' \in [Owners -> Keys \cup {NoKey}] /\ repoKey'[d] = k
        /\ \A e \in Owners \ {d} : repoKey'[e] = repoKey[e]
    BY <1>1, <1>2 DEF KeyTypeOK
  <2>2. /\ \A q \in Requests \ {r} : request'[q] = request[q]
        /\ request'[r].pc = "commit" /\ request'[r].did = d /\ request'[r].key = k
    BY <1>1, <1>2, GotoType
  <2>3. KeyTypeOK'
    BY <1>1, <1>2, <2>1, GotoType DEF KeyTypeOK, ReserveRepo
  <2>4. ASSUME NEW e \in Owners, repoKey[e] = k
        PROVE  e = d
    <3>1. CASE repoKey[d] = k
      BY <1>1, <2>4, <3>1 DEF KeyInv, OneRepositoryPerKey
    <3>2. CASE Bound(k, d)
      <4>1. Bound(k, e)
        BY <1>1, <2>4, <3>2 DEF KeyInv, RepoKeysBound, Bound
      <4> QED
        BY <3>2, <4>1 DEF Bound
    <3> QED
      BY <1>1, <3>1, <3>2
  <2>5. OneRepositoryPerKey'
    BY <1>1, <2>1, <2>4 DEF KeyInv, OneRepositoryPerKey
  <2>6. RepoKeysBound'
    <3>1. /\ d \in hosted \/ Bound(k, d)
          /\ k \in DOMAIN reservations => Bound(k, d)
      BY <1>1 DEF KeyInv, RepoKeysBound
    <3>2. \A e \in Owners \ {d} : repoKey[e] # NoKey =>
            /\ e \in hosted \/ Bound(repoKey[e], e)
            /\ repoKey[e] \in DOMAIN reservations => Bound(repoKey[e], e)
      BY DEF KeyInv, RepoKeysBound
    <3>3. reservations' = reservations /\ hosted' = hosted
      BY DEF ReserveRepo
    <3>4. ASSUME NEW e \in Owners, (repoKey[e] # NoKey)'
          PROVE  /\ (e \in hosted \/ Bound(repoKey[e], e))'
                 /\ (repoKey[e] \in DOMAIN reservations => Bound(repoKey[e], e))'
      <4>1. CASE e = d
        BY <2>1, <3>1, <3>3, <4>1 DEF Bound
      <4>2. CASE e # d
        BY <2>1, <3>2, <3>3, <3>4, <4>2 DEF Bound
      <4> QED
        BY <4>1, <4>2
    <3> QED
      BY <3>4 DEF RepoKeysBound
  <2>7. \A j \in Keys : Known(j)' <=> Known(j)
    <3>1. Known(k)
      BY <1>1 DEF Known, Bound
    <3>2. ASSUME NEW j \in Keys, j # k
          PROVE  Known(j)' <=> Known(j)
      BY <1>1, <1>2, <2>1, <3>2 DEF Known, ReserveRepo
    <3> QED
      BY <1>1, <2>1, <3>1, <3>2 DEF Known
  <2>8. AnswersKnown'
    BY <1>1, <2>7 DEF KeyInv, AnswersKnown, KeyTypeOK, ReserveRepo
  <2>9. ASSUME NEW q \in Requests
        PROVE  RequestOK(q)'
    <3>1. CASE q = r
      BY <1>1, <2>1, <2>2, <3>1 DEF RequestOK
    <3>2. CASE q # r
      <4>1. RequestOK(q) /\ request'[q] = request[q]
        BY <2>2, <3>2 DEF KeyInv, RequestsOK
      <4> QED
        BY <1>1, <1>2, <2>1, <2>7, <4>1 DEF RequestOK, ReserveRepo, Bound
    <3> QED
      BY <3>1, <3>2
  <2>10. NewKeysDiffer'
    BY <2>2 DEF KeyInv, NewKeysDiffer
  <2> QED
    BY <2>3, <2>5, <2>6, <2>8, <2>9, <2>10
    DEF KeyInv, ReserveRepo, UniqueDids, AnswersKept, RequestsOK, Bound
<1>3. CASE End(r) /\ repoKey' = repoKey
  BY <1>3, EndStep DEF ReserveRepo
<1> QED
  BY <1>2, <1>3 DEF ReserveRepo

\* What the batch takes from others is nothing: the row was d's.
LEMMA CommitStep ==
  ASSUME KeyInv, NEW r \in Requests, Commit(r)
  PROVE  KeyInv'
<1> DEFINE d == request[r].did
           k == request[r].key
<1>1. KeyTypeOK /\ d \in Owners /\ k \in Keys /\ repoKey[d] = k /\ k # NoKey
  BY DEF KeyInv, Commit, RequestsOK, RequestOK
<1>2. /\ hosted' = hosted \cup {d} /\ repoKey' = repoKey /\ answered' = answered
      /\ End(r)
  BY DEF Commit
<1>3. /\ DOMAIN reservations' = {j \in DOMAIN reservations : ~ (j = k /\ Bound(k, d))}
      /\ reservations' = [j \in DOMAIN reservations' |-> reservations'[j]]
      /\ \A j \in DOMAIN reservations' : reservations'[j] = reservations[j]
  BY DEF Commit
<1>4. \A j, e : Bound(j, e)' <=> Bound(j, e) /\ ~ (j = k /\ Bound(k, d))
  BY <1>3 DEF Bound
<1>5. \A e : Bound(k, d) /\ Bound(k, e) => e = d
  BY DEF Bound
<1>6. KeyTypeOK'
  BY <1>1, <1>2, <1>3, EndType DEF KeyTypeOK
<1>7. UniqueDids'
  BY <1>4 DEF KeyInv, UniqueDids
<1>8. OneRepositoryPerKey'
  BY <1>2 DEF KeyInv, OneRepositoryPerKey
<1>9. RepoKeysBound'
  <2>1. SUFFICES ASSUME NEW e \in Owners, repoKey[e] # NoKey
                 PROVE  /\ e \in hosted' \/ Bound(repoKey[e], e)'
                        /\ repoKey[e] \in DOMAIN reservations' => Bound(repoKey[e], e)'
    BY <1>2 DEF RepoKeysBound
  <2>2. e \in hosted \/ Bound(repoKey[e], e)
    BY <2>1 DEF KeyInv, RepoKeysBound
  <2>3. repoKey[e] \in DOMAIN reservations => Bound(repoKey[e], e)
    BY <2>1 DEF KeyInv, RepoKeysBound
  <2> QED
    BY <1>2, <1>3, <1>4, <1>5, <2>2, <2>3
<1>10. AnswersKept'
  BY <1>2, <1>4, <1>5 DEF KeyInv, AnswersKept
<1>11. \A j : Known(j)' <=> Known(j)
  BY <1>1, <1>2, <1>3 DEF Known
<1>12. AnswersKnown'
  BY <1>2, <1>11 DEF KeyInv, AnswersKnown
<1>13. ASSUME NEW q \in Requests
       PROVE  RequestOK(q)'
  <2>1. CASE q = r
    BY <1>1, <1>2, <2>1, EndType DEF RequestOK, NoRequest
  <2>2. CASE q # r
    <3>1. RequestOK(q) /\ request'[q] = request[q]
      BY <1>1, <1>2, <2>2, EndType DEF KeyInv, RequestsOK
    <3> QED
      BY <1>1, <1>2, <1>4, <1>5, <1>11, <3>1 DEF RequestOK
  <2> QED
    BY <2>1, <2>2
<1>14. NewKeysDiffer'
  BY <1>1, <1>2, EndType DEF KeyInv, NewKeysDiffer, NoRequest
<1> QED
  BY <1>6, <1>7, <1>8, <1>9, <1>10, <1>12, <1>13, <1>14 DEF KeyInv, RequestsOK

-----------------------------------------------------------------------------
(* The theorems *)

LEMMA KeyInvInit == KeyInit => KeyInv
<1> SUFFICES ASSUME KeyInit PROVE KeyInv
  OBVIOUS
<1>1. DOMAIN reservations = {} /\ answered = {} /\ \A d \in Owners : repoKey[d] = NoKey
  BY DEF KeyInit
<1>2. \A r \in Requests : request[r] = NoRequest
  BY DEF KeyInit
<1>3. KeyTypeOK
  BY DEF KeyInit, KeyTypeOK, NoRequest
<1> QED
  BY <1>1, <1>2, <1>3
  DEF KeyInv, UniqueDids, OneRepositoryPerKey, RepoKeysBound, AnswersKept, AnswersKnown,
      RequestsOK, RequestOK, NewKeysDiffer, Bound, NoRequest

LEMMA KeyInvNext == KeyInv /\ [KeyNext]_keyVars => KeyInv'
<1> SUFFICES ASSUME KeyInv, [KeyNext]_keyVars PROVE KeyInv'
  OBVIOUS
<1>1. ASSUME NEW k \in Keys, Reserve(k) PROVE KeyInv'
  BY <1>1, ReserveStep
<1>2. ASSUME NEW r \in Requests, NEW d \in Owners, ReserveFor(r, d) PROVE KeyInv'
  BY <1>2, ReserveForStep
<1>3. ASSUME NEW r \in Requests, NEW d \in Owners, NEW k \in Keys, CreateAccount(r, d, k)
      PROVE KeyInv'
  BY <1>3, CreateAccountStep
<1>4. ASSUME NEW r \in Requests, Find(r) PROVE KeyInv'
  BY <1>4, FindStep
<1>5. ASSUME NEW r \in Requests, Insert(r) PROVE KeyInv'
  BY <1>5, InsertStep
<1>6. ASSUME NEW r \in Requests, Claim(r) PROVE KeyInv'
  BY <1>6, ClaimStep
<1>7. ASSUME NEW r \in Requests, ReserveRepo(r) PROVE KeyInv'
  BY <1>7, ReserveRepoStep
<1>8. ASSUME NEW r \in Requests, Commit(r) PROVE KeyInv'
  BY <1>8, CommitStep
<1>9. ASSUME NEW r \in Requests, RequestFails(r) PROVE KeyInv'
  BY <1>9, EndStep DEF RequestFails
<1>10. CASE UNCHANGED keyVars
  BY <1>10
  DEF keyVars, KeyInv, KeyTypeOK, UniqueDids, OneRepositoryPerKey, RepoKeysBound, AnswersKept,
      AnswersKnown, RequestsOK, RequestOK, NewKeysDiffer, Bound, Known
<1> QED
  BY <1>1, <1>2, <1>3, <1>4, <1>5, <1>6, <1>7, <1>8, <1>9, <1>10 DEF KeyNext

\* The types of the module's variables.
THEOREM KeyTypeCorrect == KeySpec => []KeyTypeOK
<1>1. KeyInv => KeyTypeOK
  BY DEF KeyInv
<1> QED
  BY <1>1, KeyInvInit, KeyInvNext, PTL DEF KeySpec

\* A key that the PDS reserved or used for a DID serves no other one, and is there until
\* the DID has its account.
THEOREM KeyServesOneDid == KeySpec => []KeyForOneDid
<1>1. KeyInv => KeyForOneDid
  <2>1. SUFFICES ASSUME KeyInv, NEW p \in Promised
                 PROVE  p.did \in hosted \/ Bound(p.key, p.did)
    BY DEF KeyInv, KeyForOneDid, OneRepositoryPerKey
  <2>2. CASE p \in answered /\ p.did # NoDid
    <3>1. p.did \in Owners
      BY <2>1, <2>2 DEF KeyInv, KeyTypeOK
    <3> QED
      BY <2>1, <2>2, <3>1 DEF KeyInv, AnswersKept
  <2>3. CASE \E d \in Owners : repoKey[d] # NoKey /\ p = [did |-> d, key |-> repoKey[d]]
    BY <2>1, <2>3 DEF KeyInv, RepoKeysBound
  <2> QED
    BY <2>2, <2>3 DEF Promised
<1> QED
  BY <1>1, KeyInvInit, KeyInvNext, PTL DEF KeySpec

-----------------------------------------------------------------------------
(***************************************************************************)
(* A client: the page of Town (Town)                                       *)
(***************************************************************************)

USE TownAssumption, NoPostAssumption DEF PostKeys

-----------------------------------------------------------------------------
(* The inductive invariant *)

\* The publisher's post is the one in local storage, and the one its request carries.
ComposerOK ==
  /\ storage.pending = pending
  /\ pending # NoPost => pending.key <= used /\ body[pending.key] = pending.text
  /\ pc # "idle" => pending # NoPost

\* PostKeys are used in order, each for another text.
BodiesOK ==
  /\ \A k \in PostKeys : k <= used <=> body[k] \in Texts
  /\ \A j, k \in PostKeys : body[j] \in Texts /\ body[j] = body[k] => j = k
  /\ \A k \in PostKeys : sent[k] > 0 => k <= used
  /\ \A k \in created : k <= used

\* What the user has not typed yet was not sent; nor is, without a pending post, what is in
\* the text area or in the draft.
TextsOK ==
  /\ \A k \in PostKeys : body[k] \notin texts
  /\ text \notin texts /\ storage.draft \notin texts
  /\ pending = NoPost => \A k \in PostKeys : body[k] \in Texts => body[k] # text /\ body[k] # storage.draft

\* The posts at these keys are there, unless another client deleted them.
There(K) == \A k \in K : posts[k] # NoText \/ k \in deleted

\* At most one list is awaited, and it has what the page shows.
ShownOK ==
  /\ \A l, m \in lists : l = m
  /\ \A l \in lists : l.read => There(l.keys) /\ \A k \in shown : k \in l.keys \/ k \in deleted
  /\ There(shown)
  /\ pc = "answer" /\ seen \in Texts => There({pending.key})

\* A request to replace the profile names the one that the user saw.
PutsOK == \A m \in puts : m.swap = m.seen

RepoType ==
  /\ posts \in [PostKeys -> Texts \cup {NoText}] /\ body \in [PostKeys -> Texts \cup {NoText}]
  /\ sent \in [PostKeys -> 0..MaxSends]
  /\ created \subseteq PostKeys /\ deleted \subseteq PostKeys

PublisherType ==
  /\ pending \in Post \cup {NoPost} /\ canRetry \in BOOLEAN
  /\ pc \in {"idle", "read", "answer", "write"} /\ why \in {"check", "retry", "recover", "readback"}
  /\ seen \in {"nothing"} \cup Texts \cup {NoText}

PageType ==
  /\ storage \in [pending : Post \cup {NoPost}, draft : Texts \cup {NoText}]
  /\ text \in Texts \cup {NoText} /\ texts \subseteq Texts /\ used \in 0..MaxPosts
  /\ shown \subseteq PostKeys /\ lists \subseteq [keys : SUBSET PostKeys, read : BOOLEAN]

EditorType ==
  /\ profile \in Profiles \cup {NoProfile}
  /\ puts \subseteq [swap : Profiles \cup {NoProfile, "any"}, seen : Profiles \cup {NoProfile},
                     record : Profiles]
  /\ form \in [pc : {"closed", "load", "open", "saving", "reload"}, snapshot : Profiles \cup {NoProfile}]
  /\ edits \in 0..MaxEdits

TownInv ==
  /\ RepoType /\ PublisherType /\ PageType /\ EditorType
  /\ ComposerOK /\ BodiesOK /\ TextsOK /\ ShownOK /\ PutsOK

LEMMA TypesAre ==
  TownTypeOK <=> RepoType /\ PublisherType /\ PageType /\ EditorType
BY DEF TownTypeOK, RepoType, PublisherType, PageType, EditorType

LEMMA NewList == Asked \in [keys : SUBSET PostKeys, read : BOOLEAN] /\ ~ Asked.read
BY DEF Asked

LEMMA TownInvInit ==
  TownInit => TownInv
<1> SUFFICES ASSUME TownInit
             PROVE  TownInv
  OBVIOUS
<1>1. RepoType
  BY DEF TownInit, RepoType
<1>2. PublisherType
  BY DEF TownInit, PublisherType
<1>3. PageType
  BY NewList DEF TownInit, PageType
<1>4. EditorType
  BY DEF TownInit, EditorType, Closed
<1>5. \A k \in PostKeys : body[k] = NoText /\ sent[k] = 0 /\ ~ (k <= 0)
  BY DEF TownInit
<1>6. ComposerOK /\ TextsOK
  BY <1>5 DEF TownInit, ComposerOK, TextsOK
<1>7. BodiesOK
  BY <1>5 DEF TownInit, BodiesOK
<1>8. ShownOK /\ PutsOK
  BY NewList DEF TownInit, ShownOK, There, PutsOK
<1> QED
  BY <1>1, <1>2, <1>3, <1>4, <1>6, <1>7, <1>8 DEF TownInv

-----------------------------------------------------------------------------
(* The profile *)

LEMMA EditorKeeps ==
  ASSUME TownInv, UNCHANGED <<repository, composer, history>>, EditorType', PutsOK'
  PROVE  TownInv'
<1>1. UNCHANGED <<posts, sent, body, created, deleted>>
  BY DEF repository, history
<1>2. UNCHANGED <<storage, pending, canRetry, pc, why, seen, text, shown, lists, used, texts>>
  BY DEF composer, publisher
<1>3. RepoType' /\ PublisherType' /\ PageType'
  BY <1>1, <1>2 DEF TownInv, RepoType, PublisherType, PageType
<1>4. ComposerOK' /\ BodiesOK' /\ TextsOK' /\ ShownOK'
  BY <1>1, <1>2 DEF TownInv, ComposerOK, BodiesOK, TextsOK, ShownOK, There
<1> QED
  BY <1>3, <1>4 DEF TownInv

FormType == [pc : {"closed", "load", "open", "saving", "reload"}, snapshot : Profiles \cup {NoProfile}]

\* Steps of the form alone.
LEMMA FormKeeps ==
  ASSUME TownInv, UNCHANGED <<repository, composer, history, profile, puts, edits>>, form' \in FormType
  PROVE  TownInv'
<1>1. EditorType' /\ PutsOK'
  BY DEF TownInv, EditorType, PutsOK, FormType
<1> QED
  BY <1>1, EditorKeeps

LEMMA FormSteps ==
  ASSUME TownInv, OpenEditor \/ LoadProfile \/ SaveFails \/ LeaveForm
  PROVE  TownInv'
<1>1. form \in FormType /\ profile \in Profiles \cup {NoProfile}
  BY DEF TownInv, EditorType, FormType
<1>2. Closed \in FormType /\ [Closed EXCEPT !.pc = "load"] \in FormType
  BY DEF Closed, FormType
<1>3. [pc |-> "open", snapshot |-> profile] \in FormType
  BY <1>1 DEF FormType
<1>4. [form EXCEPT !.pc = "reload"] \in FormType
  BY <1>1 DEF FormType
<1>5. form' \in FormType
  BY <1>2, <1>3, <1>4 DEF OpenEditor, LoadProfile, SaveFails, LeaveForm
<1>6. UNCHANGED <<repository, composer, history, profile, puts, edits>>
  BY DEF OpenEditor, LoadProfile, SaveFails, LeaveForm
<1> QED
  BY <1>5, <1>6, FormKeeps

LEMMA SaveKeeps ==
  ASSUME TownInv, NEW p \in Profiles, Save(p)
  PROVE  TownInv'
<1>1. form \in FormType
  BY DEF TownInv, EditorType, FormType
<1>2. PICK m : m = [swap |-> Swap(form.snapshot), seen |-> form.snapshot, record |-> p]
  OBVIOUS
<1>3. m.swap = m.seen
      /\ m \in [swap : Profiles \cup {NoProfile, "any"}, seen : Profiles \cup {NoProfile}, record : Profiles]
  BY <1>1, <1>2 DEF Swap, FormType
<1>4. puts' = puts \cup {m} /\ form' = [form EXCEPT !.pc = "saving"]
      /\ UNCHANGED <<repository, composer, profile, edits, history>>
  BY <1>2 DEF Save
<1>5. form' \in FormType
  BY <1>1, <1>4 DEF FormType
<1>6. EditorType' /\ PutsOK'
  BY <1>3, <1>4, <1>5 DEF TownInv, EditorType, PutsOK, FormType
<1> QED
  BY <1>4, <1>6, EditorKeeps

LEMMA PutRecordKeeps ==
  ASSUME TownInv, NEW m \in puts, PutRecord(m)
  PROVE  TownInv'
<1>1. form \in FormType
  BY DEF TownInv, EditorType, FormType
<1>2. Closed \in FormType /\ [form EXCEPT !.pc = "reload"] \in FormType
  BY <1>1 DEF Closed, FormType
<1>3. form' \in FormType
  BY <1>1, <1>2 DEF PutRecord
<1>4. profile' \in Profiles \cup {NoProfile} /\ puts' \subseteq puts
      /\ UNCHANGED <<repository, composer, edits, history>>
  BY DEF PutRecord, TownInv, EditorType
<1>5. EditorType' /\ PutsOK'
  BY <1>3, <1>4 DEF TownInv, EditorType, PutsOK, FormType
<1> QED
  BY <1>4, <1>5, EditorKeeps

LEMMA EditProfileKeeps ==
  ASSUME TownInv, NEW p \in Profiles \cup {NoProfile}, EditProfile(p)
  PROVE  TownInv'
<1>1. edits \in 0..MaxEdits /\ edits < MaxEdits /\ MaxEdits \in Nat
  BY DEF TownInv, EditorType, EditProfile
<1>2. edits + 1 \in 0..MaxEdits
  BY ONLY <1>1
<1>3. EditorType' /\ PutsOK'
  BY <1>2 DEF TownInv, EditorType, PutsOK, EditProfile
<1> QED
  BY <1>3, EditorKeeps DEF EditProfile

-----------------------------------------------------------------------------
(* The list of posts *)

LEMMA EditorKept ==
  ASSUME TownInv, UNCHANGED editor
  PROVE  EditorType' /\ PutsOK'
<1>1. UNCHANGED <<profile, puts, form, edits>>
  BY DEF editor
<1> QED
  BY <1>1 DEF TownInv, EditorType, PutsOK

\* A step of the page and the repository that leaves the editor alone.
LEMMA Keeps ==
  ASSUME TownInv, UNCHANGED editor, RepoType', PublisherType', PageType',
         ComposerOK', BodiesOK', TextsOK', ShownOK'
  PROVE  TownInv'
BY EditorKept DEF TownInv

LEMMA RepoKept ==
  ASSUME TownInv, UNCHANGED <<repository, history, used>>
  PROVE  /\ RepoType' /\ BodiesOK'
         /\ posts' = posts /\ sent' = sent /\ body' = body /\ created' = created /\ deleted' = deleted
         /\ \A K : There(K)' <=> There(K)
<1>1. posts' = posts /\ sent' = sent /\ body' = body /\ created' = created /\ deleted' = deleted
      /\ used' = used
  BY DEF repository, history
<1> QED
  BY <1>1 DEF TownInv, RepoType, BodiesOK, There

\* Only the list that is shown and those that are awaited change.
LEMMA ListKeeps ==
  ASSUME TownInv, UNCHANGED <<repository, storage, publisher, text, used, texts, editor, history>>,
         shown' \subseteq PostKeys, There(shown'),
         lists' \subseteq [keys : SUBSET PostKeys, read : BOOLEAN], \A l, m \in lists' : l = m,
         \A l \in lists' : l.read => There(l.keys) /\ \A k \in shown' : k \in l.keys \/ k \in deleted
  PROVE  TownInv'
<1>1. UNCHANGED <<storage, pending, canRetry, pc, why, seen, text, used, texts>>
  BY DEF publisher
<1>2. RepoType' /\ BodiesOK' /\ body' = body /\ deleted' = deleted /\ \A K : There(K)' <=> There(K)
  BY <1>1, RepoKept
<1>3. PublisherType' /\ PageType'
  BY <1>1 DEF TownInv, PublisherType, PageType
<1>4. ComposerOK' /\ TextsOK'
  BY <1>1, <1>2 DEF TownInv, ComposerOK, TextsOK
<1>5. pc = "answer" /\ seen \in Texts => There({pending.key})
  BY DEF TownInv, ShownOK
<1>6. posts' = posts
  BY DEF repository
<1>7. ShownOK'
  BY <1>1, <1>2, <1>5, <1>6 DEF ShownOK, There
<1> QED
  BY <1>2, <1>3, <1>4, <1>7, Keeps

LEMMA ReadListKeeps ==
  ASSUME TownInv, ReadList
  PROVE  TownInv'
<1>1. PICK l : l = [keys |-> {k \in PostKeys : posts[k] # NoText}, read |-> TRUE]
  OBVIOUS
<1>2. l.keys = {k \in PostKeys : posts[k] # NoText} /\ l.read
      /\ l \in [keys : SUBSET PostKeys, read : BOOLEAN]
  BY <1>1
<1>3. lists' = {l}
  <2>1. lists \ {Asked} = {}
    BY DEF TownInv, ShownOK, ReadList
  <2> QED
    BY <1>1, <2>1 DEF ReadList
<1>4. There(l.keys)
  BY <1>2 DEF There
<1>5. There(shown) /\ shown \subseteq PostKeys
  BY DEF TownInv, ShownOK, PageType
<1>6. \A k \in shown : k \in l.keys \/ k \in deleted
  BY <1>2, <1>5 DEF There
<1>7. shown' = shown
      /\ UNCHANGED <<repository, storage, publisher, text, used, texts, editor, history>>
  BY DEF ReadList
<1>8. \A a, b \in lists' : a = b
  BY <1>3
<1>9. \A a \in lists' : a.read => There(a.keys) /\ \A k \in shown' : k \in a.keys \/ k \in deleted
  BY <1>3, <1>4, <1>6, <1>7
<1>10. There(shown') /\ lists' \subseteq [keys : SUBSET PostKeys, read : BOOLEAN] /\ shown' \subseteq PostKeys
  BY <1>2, <1>3, <1>5, <1>7
<1> QED
  BY <1>7, <1>8, <1>9, <1>10, ListKeeps

LEMMA ShowListKeeps ==
  ASSUME TownInv, NEW l \in lists, ShowList(l)
  PROVE  TownInv'
<1>1. lists' = {}
  BY DEF TownInv, ShownOK, ShowList
<1>2. l \in [keys : SUBSET PostKeys, read : BOOLEAN] /\ shown \subseteq PostKeys /\ There(shown)
      /\ (l.read => There(l.keys))
  BY DEF TownInv, ShownOK, PageType
<1>3. shown' = IF l.read THEN l.keys ELSE shown
  BY DEF ShowList
<1>4. shown' \subseteq PostKeys /\ There(shown')
  BY <1>2, <1>3
<1>5. UNCHANGED <<repository, storage, publisher, text, used, texts, editor, history>>
  BY DEF ShowList
<1> QED
  BY <1>1, <1>4, <1>5, ListKeeps

-----------------------------------------------------------------------------
(* Posts *)

LEMMA TypeKeeps ==
  ASSUME TownInv, NEW t \in Texts \cup {NoText}, Type(t)
  PROVE  TownInv'
<1>1. UNCHANGED <<repository, publisher, shown, lists, used, editor, history>> /\ pending = NoPost
      /\ text' = t /\ storage' = [pending |-> storage.pending, draft |-> t]
  BY DEF Type, UpdateText
<1>2. UNCHANGED <<pending, canRetry, pc, why, seen>>
  BY <1>1 DEF publisher
<1>3. RepoType' /\ BodiesOK' /\ body' = body /\ posts' = posts /\ deleted' = deleted
      /\ \A K : There(K)' <=> There(K)
  BY <1>1, RepoKept
<1>4. texts' \subseteq texts /\ t \notin texts' /\ (t \in texts \/ t = NoText)
  BY DEF Type, TownInv, PageType
<1>5. storage'.pending = storage.pending /\ storage'.draft = t
      /\ storage' \in [pending : Post \cup {NoPost}, draft : Texts \cup {NoText}]
  BY <1>1 DEF TownInv, PageType
<1>6. PublisherType' /\ PageType'
  BY <1>1, <1>2, <1>4, <1>5 DEF TownInv, PublisherType, PageType
<1>7. ComposerOK'
  BY <1>1, <1>2, <1>3, <1>5 DEF TownInv, ComposerOK
<1>8. TextsOK'
  BY <1>1, <1>2, <1>3, <1>4, <1>5 DEF TownInv, TextsOK
<1>9. ShownOK'
  BY <1>1, <1>2, <1>3 DEF TownInv, ShownOK, There
<1> QED
  BY <1>1, <1>3, <1>6, <1>7, <1>8, <1>9, Keeps

LEMMA PublishKeeps ==
  ASSUME TownInv, Publish
  PROVE  TownInv'
<1>1. PICK k : k = used + 1
  OBVIOUS
<1>2. PICK post : post = [text |-> text, key |-> k, confirmed |-> FALSE]
  OBVIOUS
<1>3. /\ pc = "idle" /\ pending = NoPost /\ text # NoText /\ used < MaxPosts /\ used' = k
      /\ storage' = [storage EXCEPT !.pending = post] /\ pending' = post
      /\ body' = [body EXCEPT ![k] = text] /\ sent' = [sent EXCEPT ![k] = @ + 1] /\ sent[k] < MaxSends
      /\ canRetry' = FALSE /\ pc' = "write" /\ why' = "check" /\ seen' = "nothing"
      /\ lists' = {}
      /\ UNCHANGED <<posts, text, shown, texts, editor, history>>
  BY <1>1, <1>2 DEF Publish, Send, Saved, Free, Outdated
<1>4. used \in 0..MaxPosts /\ MaxPosts \in Nat /\ text \in Texts
  BY <1>3 DEF TownInv, PageType
<1>5. k \in PostKeys /\ k \in 0..MaxPosts /\ used < k /\ \A j \in PostKeys : j <= k <=> (j <= used \/ j = k)
  BY <1>1, <1>3, <1>4
<1>6. post \in Post /\ post.key = k /\ post.text = text
  BY <1>2, <1>4, <1>5 DEF Post
<1>7. created' = created /\ deleted' = deleted
  BY <1>3 DEF history
<1>8. /\ body \in [PostKeys -> Texts \cup {NoText}] /\ sent \in [PostKeys -> 0..MaxSends]
      /\ created \subseteq PostKeys /\ MaxSends \in Nat
  BY DEF TownInv, RepoType
<1>9. body' \in [PostKeys -> Texts \cup {NoText}] /\ body'[k] = text
      /\ \A j \in PostKeys : j # k => body'[j] = body[j]
  BY <1>3, <1>4, <1>5, <1>8
<1>10. sent[k] \in 0..MaxSends /\ sent[k] + 1 \in 0..MaxSends
  <2>1. sent[k] \in 0..MaxSends /\ sent[k] < MaxSends /\ MaxSends \in Nat
    BY <1>3, <1>5, <1>8
  <2> QED
    BY ONLY <2>1
<1>11. sent' \in [PostKeys -> 0..MaxSends] /\ \A j \in PostKeys : j # k => sent'[j] = sent[j]
  BY <1>3, <1>5, <1>8, <1>10
<1>12. RepoType'
  BY <1>3, <1>7, <1>9, <1>11 DEF TownInv, RepoType
<1>13. PublisherType'
  BY <1>3, <1>6 DEF PublisherType
<1>14. storage' \in [pending : Post \cup {NoPost}, draft : Texts \cup {NoText}]
       /\ storage'.pending = post /\ storage'.draft = storage.draft
  BY <1>3, <1>6 DEF TownInv, PageType
<1>15. PageType'
  BY <1>3, <1>5, <1>14 DEF TownInv, PageType
<1>16. ComposerOK'
  <2>1. k <= k
    BY <1>5
  <2> QED
    BY <1>3, <1>6, <1>9, <1>14, <2>1 DEF ComposerOK
<1>17. /\ \A j \in PostKeys : j <= used <=> body[j] \in Texts
       /\ \A j \in PostKeys : body[j] \in Texts => body[j] # text
       /\ \A i, j \in PostKeys : body[i] \in Texts /\ body[i] = body[j] => i = j
  BY <1>3 DEF TownInv, BodiesOK, TextsOK
<1>18. BodiesOK'
  <2>1. \A j \in PostKeys : j <= used' <=> body'[j] \in Texts
    BY <1>3, <1>4, <1>5, <1>9, <1>17
  <2>2. \A i, j \in PostKeys : body'[i] \in Texts /\ body'[i] = body'[j] => i = j
    BY <1>9, <1>17
  <2>3. \A j \in PostKeys : sent'[j] > 0 => j <= used'
    BY <1>3, <1>5, <1>11 DEF TownInv, BodiesOK
  <2>4. \A j \in created' : j <= used'
    BY <1>3, <1>5, <1>7, <1>8 DEF TownInv, BodiesOK
  <2> QED
    BY <2>1, <2>2, <2>3, <2>4 DEF BodiesOK
<1>19. TextsOK'
  <2>1. post # NoPost
    BY <1>6
  <2> QED
    BY <1>3, <1>9, <1>14, <2>1 DEF TownInv, TextsOK
<1>20. ShownOK'
  BY <1>3, <1>7 DEF TownInv, ShownOK, There
<1> QED
  BY <1>3, <1>12, <1>13, <1>15, <1>16, <1>18, <1>19, <1>20, Keeps

\* A step in which the publisher reads, waits or gives up; the text that is not needed any
\* more may go.
LEMMA PublisherKeeps ==
  ASSUME TownInv, UNCHANGED <<repository, pending, shown, used, texts, editor, history>>,
         lists' \subseteq lists, PublisherType',
         storage' \in [pending : Post \cup {NoPost}, draft : Texts \cup {NoText}],
         storage'.pending = storage.pending, storage'.draft \in {storage.draft, NoText},
         text' \in {text, NoText}, pc' # "idle" => pending # NoPost,
         pc' = "answer" /\ seen' \in Texts => There({pending.key})
  PROVE  TownInv'
<1>1. RepoType' /\ BodiesOK' /\ body' = body /\ posts' = posts /\ deleted' = deleted
      /\ \A K : There(K)' <=> There(K)
  BY RepoKept
<1>2. PageType'
  BY DEF TownInv, PageType
<1>3. ComposerOK'
  BY <1>1 DEF TownInv, ComposerOK
<1>4. TextsOK'
  <2>1. NoText \notin texts /\ \A k \in PostKeys : body[k] \in Texts => body[k] # NoText
    BY DEF TownInv, PageType
  <2> QED
    BY <1>1, <2>1 DEF TownInv, TextsOK
<1>5. ShownOK'
  BY <1>1 DEF TownInv, ShownOK, There
<1> QED
  BY <1>1, <1>2, <1>3, <1>4, <1>5, Keeps

LEMMA StorageKept ==
  ASSUME TownInv, UNCHANGED <<storage, text>>
  PROVE  /\ storage' \in [pending : Post \cup {NoPost}, draft : Texts \cup {NoText}]
         /\ storage'.pending = storage.pending /\ storage'.draft \in {storage.draft, NoText}
         /\ text' \in {text, NoText}
BY DEF TownInv, PageType

LEMMA CheckOrRetryKeeps ==
  ASSUME TownInv, NEW for \in {"check", "retry"}, CheckOrRetry(for)
  PROVE  TownInv'
<1>1. /\ pending # NoPost /\ pc' = "read" /\ why' = for /\ seen' = "nothing" /\ canRetry' = FALSE
      /\ lists' = {} /\ UNCHANGED <<storage, text>>
      /\ UNCHANGED <<repository, pending, shown, used, texts, editor, history>>
  BY DEF CheckOrRetry, Read, Outdated
<1>2. PublisherType'
  BY <1>1 DEF TownInv, PublisherType
<1> QED
  BY <1>1, <1>2, StorageKept, PublisherKeeps

LEMMA ReadPendingKeeps ==
  ASSUME TownInv, ReadPending
  PROVE  TownInv'
<1>1. /\ pc = "read" /\ pc' = "answer" /\ seen' = posts[pending.key]
      /\ UNCHANGED <<storage, text, canRetry, why, lists>>
      /\ UNCHANGED <<repository, pending, shown, used, texts, editor, history>>
  BY DEF ReadPending
<1>2. pending \in Post /\ pending # NoPost
  BY <1>1 DEF TownInv, ComposerOK, PublisherType
<1>3. pending.key \in PostKeys
  BY <1>2 DEF Post
<1>4. posts[pending.key] \in Texts \cup {NoText}
  BY <1>3 DEF TownInv, RepoType
<1>5. PublisherType'
  BY <1>1, <1>4 DEF TownInv, PublisherType
<1>6. seen' \in Texts => There({pending.key})
  BY <1>1 DEF There
<1> QED
  BY <1>1, <1>2, <1>5, <1>6, StorageKept, PublisherKeeps

LEMMA WriteFailsKeeps ==
  ASSUME TownInv, WriteFails
  PROVE  TownInv'
<1>1. /\ pc = "write" /\ pc' = "read" /\ why' = "recover" /\ seen' = "nothing"
      /\ UNCHANGED <<storage, text, canRetry, lists>>
      /\ UNCHANGED <<repository, pending, shown, used, texts, editor, history>>
  BY DEF WriteFails, Read
<1>2. PublisherType' /\ pending # NoPost
  BY <1>1 DEF TownInv, PublisherType, ComposerOK
<1> QED
  BY <1>1, <1>2, StorageKept, PublisherKeeps

LEMMA RunFailsKeeps ==
  ASSUME TownInv, RunFails, canRetry' \in BOOLEAN,
         UNCHANGED <<repository, pending, used, texts, editor, history>>
  PROVE  TownInv'
<1>1. pc' = "idle" /\ why' = "check" /\ seen' = "nothing" /\ UNCHANGED <<shown, lists>>
  BY DEF RunFails
<1>2. /\ storage' \in [pending : Post \cup {NoPost}, draft : Texts \cup {NoText}]
      /\ storage'.pending = storage.pending /\ storage'.draft \in {storage.draft, NoText}
      /\ text' \in {text, NoText}
  <2>1. CASE UNCHANGED <<storage, text>>
    BY <2>1, StorageKept
  <2>2. CASE UpdateText(NoText, storage.pending)
    BY <2>2 DEF UpdateText, TownInv, PageType
  <2> QED
    BY <2>1, <2>2 DEF RunFails
<1>3. PublisherType'
  BY <1>1 DEF TownInv, PublisherType
<1> QED
  BY <1>1, <1>2, <1>3, PublisherKeeps

LEMMA FoundKeeps ==
  ASSUME TownInv, Found
  PROVE  TownInv'
<1>1. /\ pc = "answer" /\ seen = pending.text /\ pending' = NoPost /\ canRetry' = FALSE
      /\ text' = NoText /\ storage' = [pending |-> NoPost, draft |-> NoText]
      /\ shown' = shown \cup {pending.key} /\ lists' = {Asked}
      /\ pc' = "idle" /\ why' = "check" /\ seen' = "nothing"
      /\ UNCHANGED <<repository, used, texts, editor, history>>
  BY DEF Found, UpdateText, LoadRecent, Outdated
<1>2. pending \in Post
  BY <1>1 DEF TownInv, ComposerOK, PublisherType
<1>3. pending.key \in PostKeys /\ pending.text \in Texts
  BY <1>2 DEF Post
<1>4. There({pending.key})
  BY <1>1, <1>3 DEF TownInv, ShownOK
<1>5. RepoType' /\ BodiesOK' /\ body' = body /\ posts' = posts /\ deleted' = deleted
      /\ \A K : There(K)' <=> There(K)
  BY <1>1, RepoKept
<1>6. PublisherType'
  BY <1>1 DEF PublisherType
<1>7. PageType'
  BY <1>1, <1>3, NewList DEF TownInv, PageType
<1>8. ComposerOK'
  BY <1>1 DEF ComposerOK
<1>9. TextsOK'
  <2>1. NoText \notin texts /\ \A k \in PostKeys : body[k] \in Texts => body[k] # NoText
    BY DEF TownInv, PageType
  <2>2. storage'.draft = NoText
    BY <1>1
  <2> QED
    BY <1>1, <1>5, <2>1, <2>2 DEF TownInv, TextsOK
<1>10. ShownOK'
  <2>1. There(shown')
    BY <1>1, <1>4 DEF TownInv, ShownOK, There
  <2> QED
    BY <1>1, <1>5, <2>1, NewList DEF ShownOK, There
<1> QED
  BY <1>1, <1>5, <1>6, <1>7, <1>8, <1>9, <1>10, Keeps

\* The request for the pending post is sent again.
LEMMA SendKeeps ==
  ASSUME TownInv, pc = "answer", Send(pending),
         UNCHANGED <<posts, body, storage, pending, text, shown, lists, used, texts, editor, history>>
  PROVE  TownInv'
<1>1. PICK k : k = pending.key
  OBVIOUS
<1>2. pending \in Post /\ pending # NoPost
  BY DEF TownInv, ComposerOK, PublisherType
<1>3. k \in PostKeys /\ k <= used
  BY <1>1, <1>2 DEF Post, TownInv, ComposerOK
<1>4. /\ sent[k] < MaxSends /\ sent' = [sent EXCEPT ![k] = @ + 1] /\ canRetry' = FALSE
      /\ pc' = "write" /\ why' = "check" /\ seen' = "nothing"
  BY <1>1 DEF Send
<1>5. sent \in [PostKeys -> 0..MaxSends] /\ created' = created /\ deleted' = deleted
  BY DEF TownInv, RepoType, history
<1>6. sent[k] + 1 \in 0..MaxSends
  <2>1. sent[k] \in 0..MaxSends /\ sent[k] < MaxSends /\ MaxSends \in Nat
    BY <1>3, <1>4, <1>5
  <2> QED
    BY ONLY <2>1
<1>7. sent' \in [PostKeys -> 0..MaxSends] /\ \A j \in PostKeys : j # k => sent'[j] = sent[j]
  BY <1>3, <1>4, <1>5, <1>6
<1>8. RepoType' /\ BodiesOK'
  BY <1>3, <1>5, <1>7 DEF TownInv, RepoType, BodiesOK
<1>9. PublisherType' /\ PageType'
  BY <1>4 DEF TownInv, PublisherType, PageType
<1>10. ComposerOK' /\ TextsOK'
  BY <1>2 DEF TownInv, ComposerOK, TextsOK
<1>11. ShownOK'
  BY <1>4, <1>5 DEF TownInv, ShownOK, There
<1> QED
  BY <1>8, <1>9, <1>10, <1>11, Keeps

LEMMA NotFoundKeeps ==
  ASSUME TownInv, NotFound
  PROVE  TownInv'
<1>1. CASE RunFails /\ UNCHANGED sent /\ canRetry' \in BOOLEAN /\ UNCHANGED pending
  <2>1. UNCHANGED <<repository, pending, used, texts, editor, history>>
    BY <1>1 DEF NotFound, repository
  <2> QED
    BY <1>1, <2>1, RunFailsKeeps
<1>2. CASE Send(pending) /\ UNCHANGED <<storage, pending, text, shown, lists>>
  BY <1>2, SendKeeps DEF NotFound
<1>3. canRetry \in BOOLEAN
  BY DEF TownInv, PublisherType
<1> QED
  BY <1>1, <1>2, <1>3 DEF NotFound

\* What other clients and late requests do to the posts: those that are there, or were
\* deleted, stay so.
LEMMA PostsChange ==
  ASSUME TownInv, posts' \in [PostKeys -> Texts \cup {NoText}], deleted \subseteq deleted',
         \A k \in PostKeys : posts[k] # NoText => posts'[k] # NoText \/ k \in deleted'
  PROVE  \A K \in SUBSET PostKeys : There(K) => There(K)'
BY DEF There

LEMMA SameShown ==
  ASSUME TownInv, UNCHANGED <<lists, shown>>, deleted \subseteq deleted',
         \A K \in SUBSET PostKeys : There(K) => There(K)',
         pc' = "answer" => pc = "answer" /\ seen' = seen /\ pending' = pending
  PROVE  ShownOK'
<1>1. shown \subseteq PostKeys /\ \A l \in lists : l.keys \subseteq PostKeys
  BY DEF TownInv, PageType
<1>2. There(shown)'
  BY <1>1 DEF TownInv, ShownOK
<1>3. ASSUME pc' = "answer", seen' \in Texts
      PROVE  There({pending.key})'
  <2>1. pending \in Post /\ There({pending.key})
    BY <1>3 DEF TownInv, ShownOK, ComposerOK, PublisherType
  <2>2. PICK k \in PostKeys : k = pending.key
    BY <2>1 DEF Post
  <2>3. There({k})'
    BY <2>1, <2>2
  <2>4. pending' = pending
    BY <1>3
  <2> QED
    BY <2>2, <2>3, <2>4 DEF There
<1>4. \A l \in lists : l.read => There(l.keys)' /\ \A k \in shown : k \in l.keys \/ k \in deleted'
  BY <1>1 DEF TownInv, ShownOK
<1>5. \A l, m \in lists : l = m
  BY DEF TownInv, ShownOK
<1> QED
  BY <1>2, <1>3, <1>4, <1>5 DEF ShownOK, There

LEMMA CreateRecordKeeps ==
  ASSUME TownInv, NEW k \in PostKeys, CreateRecord(k)
  PROVE  TownInv'
<1>1. PICK post : post = [pending EXCEPT !.confirmed = TRUE]
  OBVIOUS
<1>2. /\ sent[k] > 0 /\ sent' = [sent EXCEPT ![k] = @ - 1]
      /\ posts' = IF posts[k] = NoText THEN [posts EXCEPT ![k] = body[k]] ELSE posts
      /\ created' = created \cup {k}
      /\ UNCHANGED <<body, canRetry, text, shown, lists, used, texts, editor, deleted>>
  BY DEF CreateRecord
<1>3. \/ /\ pc = "write" /\ pc' = "read" /\ why' = "readback" /\ seen' = "nothing"
         /\ storage' = [storage EXCEPT !.pending = post] /\ pending' = post
      \/ /\ pc = "write" /\ pc' = "read" /\ why' = "recover" /\ seen' = "nothing"
         /\ UNCHANGED <<storage, pending>>
      \/ UNCHANGED <<storage, pending, pc, why, seen>>
  BY <1>1 DEF CreateRecord, Read, Saved
<1>4. k <= used /\ body[k] \in Texts
  BY <1>2 DEF TownInv, BodiesOK
<1>5. posts \in [PostKeys -> Texts \cup {NoText}] /\ sent \in [PostKeys -> 0..MaxSends]
      /\ created \subseteq PostKeys
  BY DEF TownInv, RepoType
<1>6. posts' \in [PostKeys -> Texts \cup {NoText}]
      /\ \A j \in PostKeys : posts[j] # NoText => posts'[j] # NoText
  BY <1>2, <1>4, <1>5
<1>7. sent[k] - 1 \in 0..MaxSends
  <2>1. sent[k] \in 0..MaxSends /\ sent[k] > 0 /\ MaxSends \in Nat
    BY <1>2, <1>5
  <2> QED
    BY ONLY <2>1
<1>8. sent' \in [PostKeys -> 0..MaxSends] /\ \A j \in PostKeys : j # k => sent'[j] = sent[j]
  BY <1>2, <1>5, <1>7
<1>9. RepoType' /\ BodiesOK'
  BY <1>2, <1>4, <1>6, <1>8 DEF TownInv, RepoType, BodiesOK
<1>10. pc = "write" => /\ pending \in Post /\ pending # NoPost /\ post \in Post /\ post # NoPost
                       /\ post.key = pending.key /\ post.text = pending.text
  <2>1. ASSUME pc = "write"
        PROVE  pending \in Post /\ pending # NoPost
    BY <2>1 DEF TownInv, ComposerOK, PublisherType
  <2> QED
    BY <1>1, <2>1 DEF Post
<1>11. storage \in [pending : Post \cup {NoPost}, draft : Texts \cup {NoText}]
  BY DEF TownInv, PageType
<1>12. /\ storage' \in [pending : Post \cup {NoPost}, draft : Texts \cup {NoText}]
       /\ storage'.draft = storage.draft
       /\ \/ pending' = pending /\ storage'.pending = storage.pending
          \/ pc = "write" /\ pending' = post /\ storage'.pending = post
  BY <1>3, <1>10, <1>11
<1>13. PublisherType'
  BY <1>2, <1>3, <1>10 DEF TownInv, PublisherType
<1>14. PageType'
  BY <1>2, <1>12 DEF TownInv, PageType
<1>15. ComposerOK'
  BY <1>2, <1>3, <1>10, <1>12 DEF TownInv, ComposerOK
<1>16. TextsOK'
  BY <1>2, <1>10, <1>12 DEF TownInv, TextsOK
<1>17. ShownOK'
  <2>1. \A K \in SUBSET PostKeys : There(K) => There(K)'
    BY <1>2, <1>6, PostsChange
  <2> QED
    BY <1>2, <1>3, <2>1, SameShown
<1> QED
  BY <1>2, <1>9, <1>13, <1>14, <1>15, <1>16, <1>17, Keeps

LEMMA DeletePostKeeps ==
  ASSUME TownInv, NEW k \in PostKeys, DeletePost(k)
  PROVE  TownInv'
<1>1. posts' = [posts EXCEPT ![k] = NoText] /\ deleted' = deleted \cup {k}
      /\ UNCHANGED <<sent, body, composer, editor, created>>
  BY DEF DeletePost
<1>2. UNCHANGED <<storage, pending, canRetry, pc, why, seen, text, shown, lists, used, texts>>
  BY <1>1 DEF composer, publisher
<1>3. posts' \in [PostKeys -> Texts \cup {NoText}]
      /\ \A j \in PostKeys : posts[j] # NoText => posts'[j] # NoText \/ j \in deleted'
  BY <1>1 DEF TownInv, RepoType
<1>4. RepoType' /\ BodiesOK'
  BY <1>1, <1>2, <1>3 DEF TownInv, RepoType, BodiesOK
<1>5. PublisherType' /\ PageType'
  BY <1>2 DEF TownInv, PublisherType, PageType
<1>6. ComposerOK' /\ TextsOK'
  BY <1>1, <1>2 DEF TownInv, ComposerOK, TextsOK
<1>7. ShownOK'
  <2>1. \A K \in SUBSET PostKeys : There(K) => There(K)'
    BY <1>1, <1>3, PostsChange
  <2> QED
    BY <1>1, <1>2, <2>1, SameShown
<1> QED
  BY <1>1, <1>4, <1>5, <1>6, <1>7, Keeps

LEMMA ReloadKeeps ==
  ASSUME TownInv, Reload
  PROVE  TownInv'
<1>1. /\ pending' = pending /\ canRetry' = FALSE /\ pc' = "idle" /\ why' = "check" /\ seen' = "nothing"
      /\ shown' = {} /\ lists' = {Asked} /\ form' = Closed
      /\ UNCHANGED <<storage, used, texts, profile, puts, edits>>
  BY DEF Reload, TownInv, ComposerOK
<1>2. UNCHANGED <<posts, sent, body, created, deleted>>
  BY DEF Reload, repository, history
<1>3. text' = IF pending = NoPost THEN storage.draft
              ELSE IF pending.confirmed THEN NoText ELSE pending.text
  BY <1>1 DEF Reload
<1>4. pending # NoPost => pending \in Post /\ pending.text \in Texts /\ pending.key \in PostKeys
      /\ body[pending.key] = pending.text
  BY DEF TownInv, PublisherType, ComposerOK, Post
<1>5. NoText \notin texts /\ storage.draft \notin texts /\ storage.draft \in Texts \cup {NoText}
  BY DEF TownInv, PageType, TextsOK
<1>6. text' \in Texts \cup {NoText} /\ text' \notin texts
  BY <1>3, <1>4, <1>5 DEF TownInv, TextsOK
<1>7. RepoType' /\ BodiesOK'
  BY <1>1, <1>2 DEF TownInv, RepoType, BodiesOK
<1>8. PublisherType'
  BY <1>1 DEF TownInv, PublisherType
<1>9. PageType'
  BY <1>1, <1>6, NewList DEF TownInv, PageType
<1>10. EditorType' /\ PutsOK'
  BY <1>1 DEF TownInv, EditorType, PutsOK, Closed
<1>11. ComposerOK'
  BY <1>1, <1>2 DEF TownInv, ComposerOK
<1>12. TextsOK'
  BY <1>1, <1>2, <1>3, <1>6 DEF TownInv, TextsOK
<1>13. ShownOK'
  BY <1>1, NewList DEF ShownOK, There
<1> QED
  BY <1>7, <1>8, <1>9, <1>10, <1>11, <1>12, <1>13 DEF TownInv

-----------------------------------------------------------------------------

LEMMA TownStep ==
  TownInv /\ [TownNext]_townVars => TownInv'
<1> SUFFICES ASSUME TownInv, [TownNext]_townVars
             PROVE  TownInv'
  OBVIOUS
<1>1. CASE UNCHANGED townVars
  <2>1. UNCHANGED <<repository, composer, history>> /\ UNCHANGED editor
    BY <1>1 DEF townVars
  <2> QED
    BY <2>1, EditorKept, EditorKeeps
<1>2. CASE ReadList
  BY <1>2, ReadListKeeps
<1>3. ASSUME NEW l \in lists, ShowList(l)
      PROVE  TownInv'
  BY <1>3, ShowListKeeps
<1>4. ASSUME NEW t \in Texts \cup {NoText}, Type(t)
      PROVE  TownInv'
  BY <1>4, TypeKeeps
<1>5. CASE Publish
  BY <1>5, PublishKeeps
<1>6. ASSUME NEW for \in {"check", "retry"}, CheckOrRetry(for)
      PROVE  TownInv'
  BY <1>6, CheckOrRetryKeeps
<1>7. CASE ReadPending
  BY <1>7, ReadPendingKeeps
<1>8. CASE ReadFails
  <2>1. canRetry' \in BOOLEAN /\ RunFails
        /\ UNCHANGED <<repository, pending, used, texts, editor, history>>
    BY <1>8 DEF ReadFails, TownInv, PublisherType
  <2> QED
    BY <2>1, RunFailsKeeps
<1>9. CASE Found
  BY <1>9, FoundKeeps
<1>10. CASE NotFound
  BY <1>10, NotFoundKeeps
<1>11. ASSUME NEW k \in PostKeys, CreateRecord(k)
       PROVE  TownInv'
  BY <1>11, CreateRecordKeeps
<1>12. ASSUME NEW k \in PostKeys, DeletePost(k)
       PROVE  TownInv'
  BY <1>12, DeletePostKeeps
<1>13. CASE WriteFails
  BY <1>13, WriteFailsKeeps
<1>14. CASE OpenEditor \/ LoadProfile \/ SaveFails \/ LeaveForm
  BY <1>14, FormSteps
<1>15. ASSUME NEW p \in Profiles, Save(p)
       PROVE  TownInv'
  BY <1>15, SaveKeeps
<1>16. ASSUME NEW p \in Profiles \cup {NoProfile}, EditProfile(p)
       PROVE  TownInv'
  BY <1>16, EditProfileKeeps
<1>17. ASSUME NEW m \in puts, PutRecord(m)
       PROVE  TownInv'
  BY <1>17, PutRecordKeeps
<1>18. CASE Reload
  BY <1>18, ReloadKeeps
<1> QED
  BY <1>1, <1>2, <1>3, <1>4, <1>5, <1>6, <1>7, <1>8, <1>9, <1>10, <1>11, <1>12, <1>13, <1>14,
     <1>15, <1>16, <1>17, <1>18 DEF TownNext

LEMMA TownInvariant ==
  TownSpec => []TownInv
BY TownInvInit, TownStep, PTL DEF TownSpec

\* The repository, the publisher, the page and the profile editor have their types in every
\* state (posts.ts, profile.ts, post-composer.tsx).
THEOREM TownTypeCorrect ==
  TownSpec => []TownTypeOK
<1>1. TownInv => TownTypeOK
  BY TypesAre DEF TownInv
<1> QED
  BY <1>1, TownInvariant, PTL

\* A text is posted under one key, whatever is lost, late, repeated or reloaded (Town README 20-24).
THEOREM TextsPostedOnce ==
  TownSpec => []NoDuplicate
<1>1. ASSUME TownInv
      PROVE  NoDuplicate
  <2>1. \A k \in created : k \in PostKeys /\ body[k] \in Texts
    BY <1>1 DEF TownInv, RepoType, BodiesOK
  <2> QED
    BY <1>1, <2>1 DEF NoDuplicate, TownInv, BodiesOK
<1> QED
  BY <1>1, TownInvariant, PTL

\* What was read back stays in the list of this page until another client deletes it
\* (post-composer.tsx 49-63, 92, 100-104).
THEOREM PostsStayShown ==
  TownSpec => ShownStays
<1>1. ASSUME TownInv, [TownNext]_townVars
      PROVE  [\A k \in shown \ shown' : k \in deleted \/ Reload]_townVars
  <2>1. CASE shown' = shown
    BY <2>1
  <2>2. ASSUME NEW l \in lists, ShowList(l)
        PROVE  \A k \in shown \ shown' : k \in deleted
    BY <1>1, <2>2 DEF TownInv, ShownOK, ShowList
  <2>3. CASE Found
    BY <2>3 DEF Found
  <2>4. CASE Reload
    BY <2>4
  <2>5. UNCHANGED composer => UNCHANGED shown
    BY DEF composer
  <2>6. \/ shown' = shown \/ \E l \in lists : ShowList(l)
        \/ Found \/ Reload
    <3>1. CASE UNCHANGED townVars
      BY <3>1, <2>5 DEF townVars
    <3>2. CASE \E t \in Texts \cup {NoText} : Type(t)
      BY <3>2 DEF Type
    <3>3. CASE \E for \in {"check", "retry"} : CheckOrRetry(for)
      BY <3>3 DEF CheckOrRetry
    <3>4. CASE ReadList \/ Publish \/ ReadPending \/ WriteFails
      BY <3>4 DEF ReadList, Publish, ReadPending, WriteFails
    <3>5. CASE ReadFails \/ NotFound
      BY <3>5 DEF ReadFails, NotFound, RunFails
    <3>6. CASE \E k \in PostKeys : CreateRecord(k) \/ DeletePost(k)
      BY <3>6, <2>5 DEF CreateRecord, DeletePost
    <3>7. CASE OpenEditor \/ LoadProfile \/ SaveFails \/ LeaveForm
      BY <3>7, <2>5 DEF OpenEditor, LoadProfile, SaveFails, LeaveForm
    <3>8. CASE \E p \in Profiles : Save(p)
      BY <3>8, <2>5 DEF Save
    <3>9. CASE \E p \in Profiles \cup {NoProfile} : EditProfile(p)
      BY <3>9, <2>5 DEF EditProfile
    <3>10. CASE \E m \in puts : PutRecord(m)
      BY <3>10, <2>5 DEF PutRecord
    <3> QED
      BY <1>1, <3>1, <3>2, <3>3, <3>4, <3>5, <3>6, <3>7, <3>8, <3>9, <3>10 DEF TownNext
  <2> QED
    BY <2>1, <2>2, <2>3, <2>4, <2>6
<1> QED
  BY <1>1, TownInvariant, PTL DEF TownSpec, ShownStays

\* A save replaces the profile that the user saw, also one that is executed late
\* (Town README 30, profile.ts 46-70).
THEOREM EditsReplaceSeen ==
  TownSpec => EditReplacesSeen
<1>1. ASSUME TownInv, [TownNext]_townVars
      PROVE  [\A m \in puts \ puts' : profile' # profile => profile = m.seen]_townVars
  <2>1. CASE puts \subseteq puts'
    BY <2>1
  <2>2. ASSUME NEW m \in puts, PutRecord(m)
        PROVE  \A n \in puts \ puts' : profile' # profile => profile = n.seen
    <3>1. puts' = puts \ {m} /\ (profile' # profile => m.swap \in {"any", profile})
      BY <2>2 DEF PutRecord
    <3>2. m.swap = m.seen /\ m.seen \in Profiles \cup {NoProfile}
      BY <1>1 DEF TownInv, PutsOK, EditorType
    <3> QED
      BY <3>1, <3>2
  <2>3. UNCHANGED editor => UNCHANGED puts
    BY DEF editor
  <2>4. puts \subseteq puts' \/ \E m \in puts : PutRecord(m)
    <3>1. CASE UNCHANGED townVars
      BY <3>1, <2>3 DEF townVars
    <3>2. CASE \/ ReadList \/ (\E l \in lists : ShowList(l))
               \/ (\E t \in Texts \cup {NoText} : Type(t))
               \/ Publish \/ (\E for \in {"check", "retry"} : CheckOrRetry(for))
      BY <3>2, <2>3 DEF ReadList, ShowList, Type, Publish, CheckOrRetry
    <3>3. CASE ReadPending \/ ReadFails \/ Found \/ NotFound \/ WriteFails
      BY <3>3, <2>3 DEF ReadPending, ReadFails, Found, NotFound, WriteFails
    <3>4. CASE \E k \in PostKeys : CreateRecord(k) \/ DeletePost(k)
      BY <3>4, <2>3 DEF CreateRecord, DeletePost
    <3>5. CASE OpenEditor \/ LoadProfile \/ SaveFails \/ LeaveForm \/ Reload
      BY <3>5 DEF OpenEditor, LoadProfile, SaveFails, LeaveForm, Reload
    <3>6. CASE \E p \in Profiles : Save(p)
      BY <3>6 DEF Save
    <3>7. CASE \E p \in Profiles \cup {NoProfile} : EditProfile(p)
      BY <3>7 DEF EditProfile
    <3> QED
      BY <1>1, <3>1, <3>2, <3>3, <3>4, <3>5, <3>6, <3>7 DEF TownNext
  <2> QED
    BY <2>1, <2>2, <2>4
<1> QED
  BY <1>1, TownInvariant, PTL DEF TownSpec, EditReplacesSeen

HIDE TownAssumption DEF PostKeys
HIDE KeyAssumption
HIDE RepoRecordsAssumption

-----------------------------------------------------------------------------
(***************************************************************************)
(* What clients list page by page (Listings)                               *)
(***************************************************************************)

-----------------------------------------------------------------------------
(* Sequences in order *)

IsAscending(s, n, S) ==
  s \in [1..n -> S] /\ \A i, j \in 1..n : i < j => s[i] < s[j]

\* n is the size of a set of numbers that is in no ascending sequence.
Unsorted(n) ==
  \E S \in SUBSET Nat : IsFiniteSet(S) /\ Cardinality(S) = n /\ ~ \E s : IsAscending(s, n, S)

LEMMA SmallestFirst ==
  ASSUME NEW n \in Nat, n # 0, ~ Unsorted(n - 1)
  PROVE  ~ Unsorted(n)
<1> SUFFICES ASSUME NEW S \in SUBSET Nat, IsFiniteSet(S), Cardinality(S) = n
             PROVE  \E s : IsAscending(s, n, S)
  BY DEF Unsorted
<1>1. S # {}
  BY FS_EmptySet
<1>2. PICK x \in S : \A y \in S : x <= y
  BY <1>1, LeastNumber
<1>3. IsFiniteSet(S \ {x}) /\ Cardinality(S \ {x}) = n - 1
  BY <1>2, FS_RemoveElement
<1>4. PICK s : IsAscending(s, n - 1, S \ {x})
  BY <1>3 DEF Unsorted
<1> DEFINE t == [i \in 1..n |-> IF i = 1 THEN x ELSE s[i - 1]]
<1>5. \A i \in 1..n : i # 1 => i - 1 \in 1..(n - 1) /\ s[i - 1] \in S \ {x}
  BY <1>4 DEF IsAscending
<1>6. t \in [1..n -> S]
  BY <1>5
<1>7. ASSUME NEW i \in 1..n, NEW j \in 1..n, i < j
      PROVE  t[i] < t[j]
  <2>1. j # 1 /\ t[j] = s[j - 1] /\ s[j - 1] \in S \ {x}
    BY <1>5, <1>7
  <2>2. CASE i = 1
    <3>1. t[i] = x /\ x \in Nat /\ s[j - 1] \in Nat /\ x # s[j - 1] /\ x <= s[j - 1]
      BY <1>2, <2>1, <2>2
    <3> QED
      BY ONLY <2>1, <3>1
  <2>3. CASE i # 1
    <3>1. t[i] = s[i - 1] /\ i - 1 \in 1..(n - 1) /\ j - 1 \in 1..(n - 1) /\ i - 1 < j - 1
      BY <1>5, <1>7, <2>1, <2>3
    <3> QED
      BY <1>4, <2>1, <3>1 DEF IsAscending
  <2> QED
    BY <2>2, <2>3
<1> HIDE DEF t
<1> QED
  BY <1>6, <1>7 DEF IsAscending

LEMMA AllSorted ==
  \A n \in Nat : ~ Unsorted(n)
<1> DEFINE Bad == {n \in Nat : Unsorted(n)}
<1> SUFFICES ASSUME Bad # {}
             PROVE  FALSE
  OBVIOUS
<1>1. Bad \subseteq Nat
  OBVIOUS
<1> HIDE DEF Bad
<1>2. PICK n \in Bad : \A m \in Bad : n <= m
  BY <1>1, LeastNumber
<1>3. n \in Nat /\ Unsorted(n)
  BY <1>2 DEF Bad
<1>4. n # 0
  <2>1. ASSUME NEW S \in SUBSET Nat, IsFiniteSet(S), Cardinality(S) = 0
        PROVE  IsAscending([i \in 1..0 |-> 0], 0, S)
    BY DEF IsAscending
  <2> QED
    BY <1>3, <2>1 DEF Unsorted
<1>5. n - 1 \in Nat /\ n - 1 \notin Bad
  BY <1>1, <1>2, <1>3, <1>4
<1>6. ~ Unsorted(n - 1)
  BY <1>5 DEF Bad
<1> QED
  BY <1>3, <1>4, <1>6, SmallestFirst

\* Every finite set of numbers has its ascending sequence.
LEMMA AscendingIs ==
  ASSUME NEW S \in SUBSET Nat, IsFiniteSet(S)
  PROVE  /\ Ascending(S) \in Seq(S) /\ Len(Ascending(S)) = Cardinality(S)
         /\ \A i, j \in DOMAIN Ascending(S) : i < j => Ascending(S)[i] < Ascending(S)[j]
         /\ \A x \in S : \E i \in DOMAIN Ascending(S) : Ascending(S)[i] = x
<1> DEFINE n == Cardinality(S)
<1>1. n \in Nat
  BY FS_CardinalityType
<1>2. \E s : IsAscending(s, n, S)
  BY <1>1, AllSorted DEF Unsorted
<1>3. PICK s : s = Ascending(S)
  OBVIOUS
<1>4. IsAscending(s, n, S)
  BY <1>2, <1>3 DEF Ascending, IsAscending
<1>5. s \in Injection(1..n, S)
  <2>1. \A i, j \in 1..n : i # j => s[i] # s[j]
    <3> SUFFICES ASSUME NEW i \in 1..n, NEW j \in 1..n, i < j
                 PROVE  s[i] # s[j]
      BY <1>1
    <3>1. s[i] \in Nat /\ s[j] \in Nat /\ s[i] < s[j]
      BY <1>4 DEF IsAscending
    <3> QED
      BY <3>1
  <2> QED
    BY <1>4, <2>1 DEF IsAscending, Injection, IsInjective
<1>6. Cardinality(1..n) = Cardinality(S)
  <2>1. Cardinality(1..n) = IF 1 > n THEN 0 ELSE n - 1 + 1
    BY <1>1, FS_Interval
  <2> QED
    BY <1>1, <2>1
<1>7. s \in Surjection(1..n, S)
  BY <1>5, <1>6, FS_Injection
<1>8. \A x \in S : \E i \in 1..n : s[i] = x
  BY <1>7 DEF Surjection
<1>9. s \in Seq(S) /\ Len(s) = n /\ DOMAIN s = 1..n
  BY <1>1, <1>4 DEF IsAscending
<1> QED
  BY <1>3, <1>4, <1>8, <1>9 DEF IsAscending

-----------------------------------------------------------------------------
(* The leaves that are retained *)

\* The last n items of the first i.
Window(s, i, n) == [j \in 1..n |-> s[i - n + j]]

Room(i, limit) == IF i > limit + 1 THEN limit + 1 ELSE i

WindowOf(w, s, i, n, S) ==
  /\ w \in Seq(S) /\ Len(w) = n
  /\ \A j \in 1..n : w[j] = s[i - n + j] /\ i - n + j \in 1..Len(s)

LEMMA WindowIs ==
  ASSUME NEW S, NEW s \in Seq(S), NEW i \in 0..Len(s), NEW n \in 0..i,
         NEW w, w = Window(s, i, n)
  PROVE  WindowOf(w, s, i, n, S)
<1>1. \A j \in 1..n : i - n + j \in 1..Len(s)
  OBVIOUS
<1>2. w \in [1..n -> S]
  BY <1>1 DEF Window
<1>3. w \in Seq(S) /\ Len(w) = n
  BY <1>2
<1> QED
  BY <1>1, <1>3 DEF Window, WindowOf

LEMMA WindowPushed ==
  ASSUME NEW S, NEW s \in Seq(S), NEW i \in 1..Len(s), NEW limit \in Nat
  PROVE  Pushed(Window(s, i - 1, Room(i - 1, limit)), s[i], limit) = Window(s, i, Room(i, limit))
<1>1. i - 1 \in 0..Len(s) /\ Room(i - 1, limit) \in 0..(i - 1) /\ Room(i, limit) \in 0..i
      /\ i \in 0..Len(s) /\ s[i] \in S
  BY DEF Room
<1>2. PICK m \in Nat : m = Room(i - 1, limit)
  BY <1>1
<1>3. PICK w : w = Window(s, i - 1, m)
  OBVIOUS
<1>4. w \in Seq(S) /\ Len(w) = m /\ \A j \in 1..m : w[j] = s[i - 1 - m + j]
  <2>1. WindowOf(w, s, i - 1, m, S)
    BY <1>1, <1>2, <1>3, WindowIs
  <2> QED
    BY <2>1 DEF WindowOf
<1>5. PICK l : l = Append(w, s[i])
  OBVIOUS
<1>6. l \in Seq(S) /\ Len(l) = m + 1 /\ l[m + 1] = s[i] /\ \A j \in 1..m : l[j] = w[j]
  BY <1>1, <1>4, <1>5, AppendProperties
<1>7. PICK v : v = Window(s, i, Room(i, limit))
  OBVIOUS
<1>8. v \in Seq(S) /\ Len(v) = Room(i, limit)
      /\ \A j \in 1..Room(i, limit) : v[j] = s[i - Room(i, limit) + j]
  <2>1. WindowOf(v, s, i, Room(i, limit), S)
    BY <1>1, <1>7, WindowIs
  <2> QED
    BY <2>1 DEF WindowOf
<1>9. CASE m + 1 > limit + 1
  <2>1. m = limit + 1 /\ Room(i, limit) = limit + 1
    BY <1>2, <1>9 DEF Room
  <2>2. l # <<>>
    BY <1>6
  <2>3. Tail(l) \in Seq(S) /\ Len(Tail(l)) = m /\ \A j \in 1..m : Tail(l)[j] = l[j + 1]
    BY <1>6, <2>2, HeadTailProperties
  <2>4. \A j \in 1..m : Tail(l)[j] = v[j]
    <3> SUFFICES ASSUME NEW j \in 1..m PROVE Tail(l)[j] = v[j]
      OBVIOUS
    <3>1. v[j] = s[i - m + j]
      BY <1>8, <2>1
    <3>2. CASE j = m
      BY <1>6, <2>3, <3>1, <3>2
    <3>3. CASE j # m
      <4>1. j + 1 \in 1..m /\ i - 1 - m + (j + 1) = i - m + j
        BY <3>3
      <4> QED
        BY <1>4, <1>6, <2>3, <3>1, <4>1
    <3> QED
      BY <3>2, <3>3
  <2>5. Tail(l) = v
    BY <1>8, <2>1, <2>3, <2>4, SeqEqual
  <2> QED
    BY <1>2, <1>3, <1>5, <1>6, <1>7, <1>9, <2>5 DEF Pushed
<1>10. CASE ~ (m + 1 > limit + 1)
  <2>1. m = i - 1 /\ Room(i, limit) = i
    BY <1>2, <1>10 DEF Room
  <2>2. \A j \in 1..i : l[j] = v[j]
    <3> SUFFICES ASSUME NEW j \in 1..i PROVE l[j] = v[j]
      OBVIOUS
    <3>1. v[j] = s[j]
      BY <1>8, <2>1
    <3>2. CASE j = i
      BY <1>6, <2>1, <3>1, <3>2
    <3>3. CASE j # i
      <4>1. j \in 1..m /\ i - 1 - m + j = j
        BY <2>1, <3>3
      <4> QED
        BY <1>4, <1>6, <3>1, <4>1
    <3> QED
      BY <3>2, <3>3
  <2>3. l = v
    <3>1. Len(l) = i /\ Len(v) = i
      BY <1>6, <1>8, <2>1
    <3> QED
      BY <1>6, <1>8, <2>2, <3>1, SeqEqual
  <2> QED
    BY <1>2, <1>3, <1>5, <1>6, <1>7, <1>10, <2>3 DEF Pushed
<1> QED
  BY <1>9, <1>10

Retains(r, s, limit) ==
  r = [i \in 0..Len(s) |-> IF i = 0 THEN <<>> ELSE Pushed(r[i - 1], s[i], limit)]

LEMMA RetainsWindows ==
  ASSUME NEW S, NEW s \in Seq(S), NEW limit \in Nat
  PROVE  Retains([i \in 0..Len(s) |-> Window(s, i, Room(i, limit))], s, limit)
<1> DEFINE r == [i \in 0..Len(s) |-> Window(s, i, Room(i, limit))]
<1>1. \A i \in 0..Len(s) : r[i] = IF i = 0 THEN <<>> ELSE Pushed(r[i - 1], s[i], limit)
  <2> SUFFICES ASSUME NEW i \in 0..Len(s)
               PROVE  r[i] = IF i = 0 THEN <<>> ELSE Pushed(r[i - 1], s[i], limit)
    OBVIOUS
  <2>1. CASE i = 0
    <3>1. Room(0, limit) = 0 /\ 0 \in 0..0
      BY DEF Room
    <3>2. WindowOf(Window(s, 0, 0), s, 0, 0, S)
      BY <2>1, <3>1, WindowIs
    <3> QED
      BY <2>1, <3>1, <3>2 DEF WindowOf
  <2>2. CASE i # 0
    <3>1. i \in 1..Len(s) /\ i - 1 \in 0..Len(s)
      BY <2>2
    <3>2. r[i - 1] = Window(s, i - 1, Room(i - 1, limit))
      BY <3>1
    <3> QED
      BY <2>2, <3>1, <3>2, WindowPushed
  <2> QED
    BY <2>1, <2>2
<1>2. r = [i \in 0..Len(s) |-> r[i]]
  OBVIOUS
<1> HIDE DEF r
<1>3. Retains(r, s, limit)
  BY <1>1, <1>2 DEF Retains
<1> QED
  BY <1>3 DEF r

LEMMA RetainedIs ==
  ASSUME NEW S, NEW s \in Seq(S), NEW limit \in Nat
  PROVE  Retained(s, limit) = Window(s, Len(s), Room(Len(s), limit))
<1>1. \E r : Retains(r, s, limit)
  BY RetainsWindows
<1>2. PICK r : r = CHOOSE x : Retains(x, s, limit)
  OBVIOUS
<1>3. Retains(r, s, limit)
  BY <1>1, <1>2
<1>4. Retained(s, limit) = r[Len(s)]
  BY <1>2 DEF Retained, Retains
<1> DEFINE Bad == {i \in 0..Len(s) : r[i] # Window(s, i, Room(i, limit))}
<1>5. Bad = {}
  <2> SUFFICES ASSUME Bad # {} PROVE FALSE
    OBVIOUS
  <2>1. Bad \subseteq Nat
    OBVIOUS
  <2>2. PICK i \in Bad : \A k \in Bad : i <= k
    <3> HIDE DEF Bad
    <3> QED
      BY <2>1, LeastNumber
  <2>3. i \in 0..Len(s) /\ r[i] # Window(s, i, Room(i, limit))
    OBVIOUS
  <2>4. r[i] = IF i = 0 THEN <<>> ELSE Pushed(r[i - 1], s[i], limit)
    BY <1>3, <2>3 DEF Retains
  <2>5. PICK q : q = [k \in 0..Len(s) |-> Window(s, k, Room(k, limit))]
    OBVIOUS
  <2>6. q[i] = IF i = 0 THEN <<>> ELSE Pushed(q[i - 1], s[i], limit)
    <3>1. Retains(q, s, limit)
      BY <2>5, RetainsWindows
    <3> QED
      BY <2>3, <3>1 DEF Retains
  <2>7. i # 0
    BY <2>3, <2>4, <2>5, <2>6
  <2>8. i - 1 \in 0..Len(s) /\ ~ (i <= i - 1)
    BY <2>3, <2>7
  <2>9. r[i - 1] = q[i - 1]
    <3>1. i - 1 \notin Bad
      <4> HIDE DEF Bad
      <4> QED
        BY <2>2, <2>8
    <3> QED
      BY <2>5, <2>8, <3>1
  <2> QED
    BY <2>3, <2>4, <2>5, <2>6, <2>7, <2>9
<1>6. Len(s) \in 0..Len(s)
  OBVIOUS
<1> QED
  BY <1>4, <1>5, <1>6

-----------------------------------------------------------------------------
(* A page *)

Before(a, b) == IF what = "newest" THEN a > b ELSE a < b

Ordered(s) == \A i, j \in DOMAIN s : i < j => Before(s[i], s[j])

\* What is found for a page of the items of S, in the order of the list: all of them, or
\* one more than the page holds, and then whatever is not after the last of the page is in it.
GoodPage(found, limit, S) ==
  /\ found \in Seq(S) /\ Ordered(found)
  /\ Len(found) <= limit => \A x \in S : \E i \in 1..Len(found) : found[i] = x
  /\ Len(found) > limit =>
       \A x \in S : ~ Before(found[limit], x) => \E i \in 1..limit : found[i] = x

FirstOf(f, s, n, S) ==
  /\ f \in Seq(S) /\ Len(f) = (IF Len(s) < n THEN Len(s) ELSE n)
  /\ \A i \in 1..Len(f) : f[i] = s[i]

LEMMA FirstIs ==
  ASSUME NEW S, NEW s \in Seq(S), NEW n \in Nat, NEW f, f = First(s, n)
  PROVE  FirstOf(f, s, n, S)
<1> DEFINE m == IF Len(s) < n THEN Len(s) ELSE n
<1>1. m \in 0..Len(s) /\ m \in Nat
  OBVIOUS
<1>2. f = SubSeq(s, 1, m)
  BY DEF First
<1> HIDE DEF m
<1>3. \A i \in 1..m : s[i] \in S
  BY <1>1
<1>4. SubSeq(s, 1, m) = [i \in 1..m |-> s[i]]
  BY <1>1
<1>5. [i \in 1..m |-> s[i]] \in [1..m -> S]
  BY <1>3
<1>6. [i \in 1..m |-> s[i]] \in Seq(S) /\ Len([i \in 1..m |-> s[i]]) = m
  BY <1>1, <1>5
<1>7. Len(f) = m /\ f \in Seq(S)
  BY <1>2, <1>4, <1>6
<1>8. \A i \in 1..m : f[i] = s[i]
  BY <1>2, <1>4
<1> QED
  BY <1>7, <1>8 DEF m, FirstOf

LEMMA ForwardPage ==
  ASSUME NEW S \in SUBSET Nat, IsFiniteSet(S), NEW limit \in Nat \ {0}, what # "newest"
  PROVE  GoodPage(First(Ascending(S), limit + 1), limit, S)
<1>1. PICK s : s = Ascending(S)
  OBVIOUS
<1>2. s \in Seq(S) /\ \A i, j \in DOMAIN s : i < j => s[i] < s[j]
  BY <1>1, AscendingIs
<1>3. \A x \in S : \E i \in DOMAIN s : s[i] = x
  BY <1>1, AscendingIs
<1>4. PICK f : f = First(s, limit + 1)
  OBVIOUS
<1>5. limit + 1 \in Nat /\ Len(s) \in Nat /\ DOMAIN s = 1..Len(s)
  BY <1>2
<1>6. FirstOf(f, s, limit + 1, S)
  BY <1>2, <1>4, <1>5, FirstIs
<1>7. f \in Seq(S) /\ \A i \in 1..Len(f) : f[i] = s[i]
  BY <1>6 DEF FirstOf
<1>8. Len(f) \in Nat /\ DOMAIN f = 1..Len(f) /\ Len(f) <= Len(s)
  BY <1>5, <1>6 DEF FirstOf
<1>9. Ordered(f)
  BY <1>2, <1>5, <1>7, <1>8 DEF Ordered, Before
<1>10. ASSUME Len(f) <= limit, NEW x \in S
       PROVE  \E i \in 1..Len(f) : f[i] = x
  <2>1. Len(f) = Len(s)
    <3>1. PICK l \in Nat : l = Len(s)
      BY <1>5
    <3>2. CASE l < limit + 1
      BY <1>6, <3>1, <3>2 DEF FirstOf
    <3>3. CASE ~ (l < limit + 1)
      <4>1. Len(f) = limit + 1
        BY <1>6, <3>1, <3>3 DEF FirstOf
      <4> QED
        BY ONLY <1>10, <4>1, limit \in Nat
    <3> QED
      BY <3>2, <3>3, Zenon
  <2> QED
    BY <1>3, <1>5, <1>7, <1>10, <2>1
<1>11. ASSUME Len(f) > limit, NEW x \in S, ~ Before(f[limit], x)
       PROVE  \E i \in 1..limit : f[i] = x
  <2>1. PICK i \in 1..Len(s) : s[i] = x
    BY <1>3, <1>5, <1>11
  <2>2. limit \in 1..Len(s) /\ limit \in 1..Len(f) /\ f[limit] = s[limit]
    BY <1>7, <1>8, <1>11
  <2>3. s[i] \in Nat /\ s[limit] \in Nat
    <3>1. \A j \in 1..Len(s) : s[j] \in S
      BY <1>2
    <3> QED
      BY <2>1, <2>2, <3>1
  <2>4. ~ (s[limit] < s[i])
    BY <1>11, <2>1, <2>2 DEF Before
  <2>5. i <= limit
    BY <1>2, <1>5, <2>1, <2>2, <2>4
  <2>6. i \in 1..limit /\ i \in 1..Len(f)
    BY <1>8, <1>11, <2>1, <2>5
  <2> QED
    BY <1>7, <2>1, <2>6
<1> QED
  BY <1>1, <1>4, <1>7, <1>9, <1>10, <1>11 DEF GoodPage

LEMMA BackwardPage ==
  ASSUME NEW S \in SUBSET Nat, IsFiniteSet(S), NEW limit \in Nat \ {0}, what = "newest"
  PROVE  GoodPage(Reverse(Retained(Ascending(S), limit)), limit, S)
<1>1. PICK s : s = Ascending(S)
  OBVIOUS
<1>2. s \in Seq(S) /\ \A i, j \in DOMAIN s : i < j => s[i] < s[j]
  BY <1>1, AscendingIs
<1>3. \A x \in S : \E i \in DOMAIN s : s[i] = x
  BY <1>1, AscendingIs
<1>4. PICK n \in Nat : n = Len(s) /\ DOMAIN s = 1..n
  BY <1>2
<1>5. PICK m \in 0..n : m = IF n > limit + 1 THEN limit + 1 ELSE n
  BY <1>4
<1>6. PICK r : r = Retained(s, limit)
  OBVIOUS
<1>7. r = Window(s, n, m)
  BY <1>2, <1>4, <1>5, <1>6, RetainedIs DEF Room
<1>8. n \in 0..Len(s)
  BY <1>4
<1>9. r \in Seq(S) /\ Len(r) = m /\ \A i \in 1..m : r[i] = s[n - m + i]
  <2>1. WindowOf(r, s, n, m, S)
    BY <1>2, <1>7, <1>8, WindowIs
  <2> QED
    BY <2>1 DEF WindowOf
<1>10. PICK f : f = [i \in 1..m |-> r[(m - i) + 1]]
  OBVIOUS
<1>11. Reverse(r) = f
  BY <1>9, <1>10 DEF Reverse
<1>12. \A i \in 1..m : (m - i) + 1 \in 1..m /\ n - i + 1 \in 1..n
  BY <1>4, <1>5
<1>13. \A i \in 1..m : f[i] = s[n - i + 1]
  <2> SUFFICES ASSUME NEW i \in 1..m PROVE f[i] = s[n - i + 1]
    OBVIOUS
  <2>1. f[i] = r[(m - i) + 1] /\ (m - i) + 1 \in 1..m
    BY <1>10, <1>12
  <2>2. n - m + ((m - i) + 1) = n - i + 1
    BY ONLY n \in Nat, m \in 0..n, i \in 1..m
  <2> QED
    BY <1>9, <2>1, <2>2
<1>14. f \in [1..m -> S]
  <2>1. \A i \in 1..m : r[(m - i) + 1] \in S
    BY <1>9, <1>12
  <2> QED
    BY <1>10, <2>1
<1>15. f \in Seq(S) /\ Len(f) = m /\ DOMAIN f = 1..m
  BY <1>5, <1>14
<1>16. Ordered(f)
  <2> SUFFICES ASSUME NEW i \in 1..m, NEW j \in 1..m, i < j PROVE f[i] > f[j]
    BY <1>15 DEF Ordered, Before
  <2>1. n - j + 1 \in 1..n /\ n - i + 1 \in 1..n /\ n - j + 1 < n - i + 1
    BY <1>4, <1>12
  <2>2. s[n - j + 1] < s[n - i + 1]
    BY <1>2, <1>4, <2>1
  <2>3. f[i] = s[n - i + 1] /\ f[j] = s[n - j + 1] /\ f[i] \in Nat /\ f[j] \in Nat
    BY <1>13, <1>14
  <2> QED
    BY <2>2, <2>3
<1>17. \A x \in S : \E i \in 1..n : s[n - i + 1] = x
  <2> SUFFICES ASSUME NEW x \in S PROVE \E i \in 1..n : s[n - i + 1] = x
    OBVIOUS
  <2>1. PICK k \in 1..n : s[k] = x
    BY <1>3, <1>4
  <2>2. n - k + 1 \in 1..n /\ n - (n - k + 1) + 1 = k
    BY <1>4
  <2> QED
    BY <2>1, <2>2
<1>18. ASSUME Len(f) <= limit, NEW x \in S
       PROVE  \E i \in 1..Len(f) : f[i] = x
  <2>1. m = n
    BY <1>4, <1>5, <1>15, <1>18
  <2> QED
    BY <1>13, <1>15, <1>17, <1>18, <2>1
<1>19. ASSUME Len(f) > limit, NEW x \in S, ~ Before(f[limit], x)
       PROVE  \E i \in 1..limit : f[i] = x
  <2>1. PICK i \in 1..n : s[n - i + 1] = x
    BY <1>17, <1>19
  <2>2. limit \in 1..m /\ limit \in 1..n /\ f[limit] = s[n - limit + 1]
    BY <1>5, <1>13, <1>15, <1>19
  <2>3. n - i + 1 \in 1..n /\ n - limit + 1 \in 1..n
    BY <1>4, <2>1, <2>2
  <2>4. s[n - i + 1] \in Nat /\ s[n - limit + 1] \in Nat
    <3>1. \A j \in 1..n : s[j] \in S
      BY <1>2, <1>4
    <3> QED
      BY <2>3, <3>1
  <2>5. ~ (s[n - limit + 1] > s[n - i + 1])
    BY <1>19, <2>1, <2>2 DEF Before
  <2>6. ~ (n - i + 1 < n - limit + 1)
    BY <1>2, <1>4, <2>3, <2>4, <2>5
  <2>7. i \in 1..limit /\ i \in 1..m
    BY <1>4, <1>5, <2>1, <2>2, <2>6
  <2> QED
    BY <1>13, <2>1, <2>7
<1> QED
  BY <1>1, <1>6, <1>11, <1>15, <1>16, <1>18, <1>19 DEF GoodPage

\* The items that are not omitted, in their order.
LEMMA WithoutIs ==
  ASSUME NEW s \in Seq(Nat), NEW S, NEW w, w = Without(s, S)
  PROVE  /\ w \in Seq(Nat)
         /\ \A j \in DOMAIN w : \E i \in DOMAIN s : w[j] = s[i]
         /\ Ordered(s) => Ordered(w)
         /\ \A i \in DOMAIN s : s[i] \notin S => \E j \in DOMAIN w : w[j] = s[i]
<1> DEFINE I == {i \in DOMAIN s : s[i] \notin S}
<1>1. DOMAIN s = 1..Len(s) /\ Len(s) \in Nat
  OBVIOUS
<1>2. IsFiniteSet(1..Len(s))
  BY <1>1, FS_Interval
<1>3. IsFiniteSet(I) /\ I \in SUBSET Nat /\ I \subseteq DOMAIN s
  BY <1>1, <1>2, FS_Subset
<1>4. PICK k : k = Ascending(I)
  OBVIOUS
<1>5. w = [n \in DOMAIN k |-> s[k[n]]]
  BY <1>4 DEF Without
<1>6. \A i \in I : s[i] \notin S
  OBVIOUS
<1>7. \A i \in DOMAIN s : s[i] \notin S => i \in I
  OBVIOUS
<1> HIDE DEF I
<1>8. k \in Seq(I) /\ \A i, j \in DOMAIN k : i < j => k[i] < k[j]
  BY <1>3, <1>4, AscendingIs
<1>9. \A i \in I : \E n \in DOMAIN k : k[n] = i
  BY <1>3, <1>4, AscendingIs
<1>10. DOMAIN k = 1..Len(k) /\ Len(k) \in Nat /\ \A n \in DOMAIN k : k[n] \in I
  BY <1>8
<1>11. \A n \in DOMAIN k : k[n] \in DOMAIN s /\ s[k[n]] \in Nat
  <2>1. \A i \in DOMAIN s : s[i] \in Nat
    OBVIOUS
  <2> QED
    BY <1>3, <1>10, <2>1
<1>12. w \in [1..Len(k) -> Nat]
  BY <1>5, <1>10, <1>11
<1>13. w \in Seq(Nat) /\ DOMAIN w = DOMAIN k
  BY <1>5, <1>10, <1>12
<1>14. \A j \in DOMAIN w : \E i \in DOMAIN s : w[j] = s[i]
  BY <1>5, <1>11, <1>13
<1>15. ASSUME Ordered(s) PROVE Ordered(w)
  BY <1>5, <1>8, <1>11, <1>13, <1>15 DEF Ordered
<1>16. \A i \in DOMAIN s : s[i] \notin S => \E j \in DOMAIN w : w[j] = s[i]
  BY <1>5, <1>7, <1>9, <1>13
<1> QED
  BY <1>13, <1>14, <1>15, <1>16

-----------------------------------------------------------------------------
(* The invariant *)

\* The list is past x.
Passed(x) == cursor # None /\ ~ Before(cursor, x)

\* The client has x: from a page, or from its copy.
Got(x) == x \in had \/ \E i \in DOMAIN listed : listed[i] = x

\* What records mention that were there at the revision of the copy is in the copy.
CopyKnown ==
  /\ since <= head
  /\ \A k \in DOMAIN leaves :
       /\ leaves[k].rev <= head
       /\ since # 0 /\ leaves[k].rev <= since => leaves[k].cid \in had \cup {None}

\* The pages so far hold what was there all the time as far as the cursor.
ListedSoFar ==
  /\ Ordered(listed)
  /\ what \in {"newest", "oldest"} => \A i \in DOMAIN listed : listed[i] \in Collection
  /\ progress = "idle" => listed = <<>> /\ cursor = None /\ stayed = {}
  /\ progress = "paging" =>
       /\ stayed \subseteq Present(leaves, accounts)
       /\ \A i \in DOMAIN listed : Passed(listed[i])
       /\ \A x \in stayed : Passed(x) => Got(x)
  /\ progress = "done" => \A x \in stayed : Got(x)

ListInv == ListTypeOK /\ CopyKnown /\ ListedSoFar

\* Up to now or from the next page, the client gets what stayed.
Covers(S) ==
  /\ S \subseteq Nat \ {None}
  /\ \A x \in S : cursor # None => Before(cursor, x)
  /\ \A x \in stayed : Passed(x) \/ x \in S \/ x \in had
  /\ what \in {"newest", "oldest"} => S \subseteq Collection

\* The items that a page adds.
Adds(w, found, limit, omitted) ==
  /\ w \in Seq(Nat) /\ Ordered(w)
  /\ \A j \in DOMAIN w : \E i \in 1..Len(found) : (Len(found) > limit => i <= limit) /\ w[j] = found[i]
  /\ \A i \in 1..Len(found) :
       (Len(found) > limit => i <= limit) /\ found[i] \notin omitted => \E j \in DOMAIN w : w[j] = found[i]

LEMMA PageAdds ==
  ASSUME NEW S \in SUBSET Nat, NEW limit \in Nat, NEW found, GoodPage(found, limit, S),
         NEW omitted, NEW w, w = Without(First(found, limit), omitted)
  PROVE  Adds(w, found, limit, omitted)
<1>1. found \in Seq(S) /\ Ordered(found) /\ Len(found) \in Nat /\ DOMAIN found = 1..Len(found)
  BY DEF GoodPage
<1>2. PICK f : f = First(found, limit)
  OBVIOUS
<1>3. FirstOf(f, found, limit, S)
  BY <1>1, <1>2, FirstIs
<1>4. f \in Seq(S) /\ \A i \in 1..Len(f) : f[i] = found[i]
  BY <1>3 DEF FirstOf
<1>5. PICK n \in Nat : n = Len(found)
  BY <1>1
<1>6. PICK m \in 0..n : m = Len(f) /\ (n < limit => m = n) /\ (~ (n < limit) => m = limit)
  <2>1. Len(f) = IF n < limit THEN n ELSE limit
    BY <1>3, <1>5 DEF FirstOf
  <2>2. PICK m : m = Len(f)
    OBVIOUS
  <2>3. (n < limit => m = n) /\ (~ (n < limit) => m = limit)
    BY <2>1, <2>2
  <2>4. m \in 0..n
    BY <2>3
  <2> QED
    BY <2>2, <2>3, <2>4
<1>7. DOMAIN f = 1..m /\ DOMAIN found = 1..n /\ \A i \in 1..m : i \in 1..n /\ f[i] = found[i]
  <2>1. DOMAIN f = 1..m
    BY <1>4, <1>6
  <2>2. DOMAIN found = 1..n
    BY <1>1, <1>5
  <2>3. \A i \in 1..m : f[i] = found[i]
    BY <1>4, <1>6
  <2>4. \A i \in 1..m : i \in 1..n
    OBVIOUS
  <2> QED
    BY <2>1, <2>2, <2>3, <2>4
<1>8. f \in Seq(Nat)
  BY <1>4, SeqMonotonic
<1>9. Ordered(f)
  BY <1>1, <1>7 DEF Ordered
<1>10. \A i \in 1..n : i \in 1..m <=> (n > limit => i <= limit)
  BY <1>6
<1>11. /\ w \in Seq(Nat) /\ Ordered(w)
       /\ \A j \in DOMAIN w : \E i \in DOMAIN f : w[j] = f[i]
       /\ \A i \in DOMAIN f : f[i] \notin omitted => \E j \in DOMAIN w : w[j] = f[i]
  BY <1>2, <1>8, <1>9, WithoutIs
<1>12. \A j \in DOMAIN w : \E i \in 1..n : (n > limit => i <= limit) /\ w[j] = found[i]
  <2> SUFFICES ASSUME NEW j \in DOMAIN w
               PROVE  \E i \in 1..n : (n > limit => i <= limit) /\ w[j] = found[i]
    OBVIOUS
  <2>1. PICK i \in 1..m : w[j] = f[i]
    BY <1>7, <1>11
  <2>2. i \in 1..n /\ f[i] = found[i]
    BY <1>7
  <2> QED
    BY <1>10, <2>1, <2>2
<1>13. \A i \in 1..n :
         (n > limit => i <= limit) /\ found[i] \notin omitted => \E j \in DOMAIN w : w[j] = found[i]
  <2> SUFFICES ASSUME NEW i \in 1..n, n > limit => i <= limit, found[i] \notin omitted
               PROVE  \E j \in DOMAIN w : w[j] = found[i]
    OBVIOUS
  <2>1. i \in DOMAIN f /\ f[i] = found[i]
    BY <1>7, <1>10
  <2> QED
    BY <1>11, <2>1
<1> QED
  BY <1>5, <1>11, <1>12, <1>13 DEF Adds

\* c has the items of a and of b, and is in order when b continues a.
Joins(c, a, b) ==
  /\ \A i \in DOMAIN c : (\E j \in DOMAIN a : c[i] = a[j]) \/ (\E j \in DOMAIN b : c[i] = b[j])
  /\ \A j \in DOMAIN a : \E i \in DOMAIN c : c[i] = a[j]
  /\ \A j \in DOMAIN b : \E i \in DOMAIN c : c[i] = b[j]
  /\ Ordered(a) /\ Ordered(b) /\ (\A i \in DOMAIN a, j \in DOMAIN b : Before(a[i], b[j]))
       => Ordered(c)

LEMMA Joined ==
  ASSUME NEW a \in Seq(Nat), NEW b \in Seq(Nat), NEW c, c = a \o b
  PROVE  c \in Seq(Nat) /\ Joins(c, a, b)
<1>1. c \in Seq(Nat) /\ Len(c) = Len(a) + Len(b)
  BY ConcatProperties
<1>2. \A i \in 1..(Len(a) + Len(b)) : c[i] = IF i <= Len(a) THEN a[i] ELSE b[i - Len(a)]
  BY ConcatProperties
<1>3. PICK m \in Nat, n \in Nat : /\ m = Len(a) /\ n = Len(b) /\ DOMAIN a = 1..m /\ DOMAIN b = 1..n
                                  /\ DOMAIN c = 1..(m + n)
  BY <1>1
<1>4. \A i \in 1..m : c[i] = a[i] /\ i \in 1..(m + n)
  BY <1>2, <1>3
<1>5. \A i \in 1..(m + n) : i \notin 1..m => c[i] = b[i - m] /\ i - m \in 1..n
  BY <1>2, <1>3
<1>6. \A j \in 1..n : j + m \in 1..(m + n) /\ c[j + m] = b[j]
  <2> SUFFICES ASSUME NEW j \in 1..n PROVE j + m \in 1..(m + n) /\ c[j + m] = b[j]
    OBVIOUS
  <2>1. j + m \in 1..(m + n) /\ j + m \notin 1..m /\ (j + m) - m = j
    OBVIOUS
  <2> QED
    BY <1>5, <2>1
<1>7. ASSUME Ordered(a), Ordered(b), \A i \in DOMAIN a, j \in DOMAIN b : Before(a[i], b[j])
      PROVE  Ordered(c)
  <2> SUFFICES ASSUME NEW i \in 1..(m + n), NEW j \in 1..(m + n), i < j
               PROVE  Before(c[i], c[j])
    BY <1>3 DEF Ordered
  <2>1. CASE i \in 1..m /\ j \in 1..m
    BY <1>3, <1>4, <1>7, <2>1 DEF Ordered
  <2>2. CASE i \in 1..m /\ j \notin 1..m
    <3>1. j - m \in 1..n /\ c[i] = a[i] /\ c[j] = b[j - m]
      BY <1>4, <1>5, <2>2
    <3> QED
      BY <1>3, <1>7, <2>2, <3>1
  <2>3. CASE i \notin 1..m
    <3>1. j \notin 1..m /\ i - m < j - m
      BY <2>3
    <3>2. i - m \in 1..n /\ j - m \in 1..n /\ c[i] = b[i - m] /\ c[j] = b[j - m]
      BY <1>5, <2>3, <3>1
    <3> QED
      BY <1>3, <1>7, <3>1, <3>2 DEF Ordered
  <2> QED
    BY <2>1, <2>2, <2>3
<1>8. \A i \in DOMAIN c : (\E j \in DOMAIN a : c[i] = a[j]) \/ (\E j \in DOMAIN b : c[i] = b[j])
  BY <1>3, <1>4, <1>5
<1>9. /\ \A j \in DOMAIN a : \E i \in DOMAIN c : c[i] = a[j]
      /\ \A j \in DOMAIN b : \E i \in DOMAIN c : c[i] = b[j]
  BY <1>3, <1>4, <1>6
<1> QED
  BY <1>1, <1>7, <1>8, <1>9 DEF Joins

LEMMA PageKeeps ==
  ASSUME ListInv, NEW S \in SUBSET Nat, Covers(S), NEW limit \in Nat \ {0},
         NEW found, GoodPage(found, limit, S), NEW omitted, Page(found, limit, omitted)
  PROVE  ListInv'
<1>1. PICK w : w = Without(First(found, limit), omitted)
  OBVIOUS
<1>2. Adds(w, found, limit, omitted)
  BY <1>1, PageAdds
<1>3. progress = "paging" /\ listed' = listed \o w /\ stayed' = stayed \ omitted
  BY <1>1 DEF Page
<1>4. /\ cursor' = IF Len(found) > limit THEN found[limit] ELSE None
      /\ progress' = IF cursor' = None THEN "done" ELSE "paging"
      /\ leaves' = leaves /\ head' = head /\ accounts' = accounts /\ what' = what
      /\ since' = since /\ had' = had
  BY DEF Page, Cursor
<1>5. PICK n \in Nat : n = Len(found) /\ \A i \in 1..n : found[i] \in S
  BY DEF GoodPage
<1>6. \A i \in 1..n : found[i] \in Nat \ {None} /\ (cursor # None => Before(cursor, found[i]))
                     /\ (what \in {"newest", "oldest"} => found[i] \in Collection)
  BY <1>5 DEF Covers
<1>7. listed \in Seq(Nat) /\ cursor \in Nat /\ stayed \subseteq Nat /\ listed' \in Seq(Nat)
  BY <1>2, <1>3, Joined DEF ListInv, ListTypeOK, Adds
<1>8. \A i \in DOMAIN listed : listed[i] \in Nat /\ Passed(listed[i])
  BY <1>3, <1>7 DEF ListInv, ListedSoFar
<1>9. w \in Seq(Nat) /\ Ordered(w)
  BY <1>2 DEF Adds
<1>10. \A j \in DOMAIN w : \E i \in 1..n : (n > limit => i <= limit) /\ w[j] = found[i]
  BY <1>2, <1>5 DEF Adds
<1>11. \A i \in 1..n : (n > limit => i <= limit) /\ found[i] \notin omitted
                         => \E j \in DOMAIN w : w[j] = found[i]
  BY <1>2, <1>5 DEF Adds
<1>12. \A i \in DOMAIN listed, j \in DOMAIN w : Before(listed[i], w[j])
  <2> SUFFICES ASSUME NEW i \in DOMAIN listed, NEW j \in DOMAIN w
               PROVE  Before(listed[i], w[j])
    OBVIOUS
  <2>1. PICK k \in 1..n : w[j] = found[k]
    BY <1>10
  <2>2. found[k] \in Nat /\ listed[i] \in Nat /\ cursor # None /\ Before(cursor, found[k])
        /\ ~ Before(cursor, listed[i])
    BY <1>6, <1>8 DEF Passed
  <2> QED
    BY <1>7, <2>1, <2>2 DEF Before
<1>13. PICK c : c = listed \o w
  OBVIOUS
<1>14. Ordered(listed)
  BY DEF ListInv, ListedSoFar
<1>15. Joins(c, listed, w)
  BY <1>7, <1>9, <1>13, Joined
<1>16. Ordered(c)
  BY <1>9, <1>12, <1>14, <1>15 DEF Joins
<1>17. /\ \A i \in DOMAIN c : (\E j \in DOMAIN listed : c[i] = listed[j]) \/ (\E j \in DOMAIN w : c[i] = w[j])
       /\ \A j \in DOMAIN listed : \E i \in DOMAIN c : c[i] = listed[j]
       /\ \A j \in DOMAIN w : \E i \in DOMAIN c : c[i] = w[j]
  BY <1>15 DEF Joins
<1>18. listed' = c
  BY <1>3, <1>13
<1>19. ASSUME NEW x, x \in stayed'
       PROVE  x \in had \/ (\E i \in DOMAIN c : c[i] = x) \/ (n > limit /\ Before(found[limit], x))
  <2>1. x \in stayed /\ x \notin omitted
    BY <1>3, <1>19
  <2>2. CASE Passed(x)
    <3>1. Got(x)
      BY <1>3, <2>1, <2>2 DEF ListInv, ListedSoFar
    <3> QED
      BY <1>17, <3>1 DEF Got
  <2>3. CASE x \in had
    BY <2>3
  <2>4. CASE x \in S
    <3>1. CASE n > limit /\ ~ Before(found[limit], x)
      <4>1. PICK i \in 1..limit : found[i] = x
        BY <1>5, <2>4, <3>1 DEF GoodPage
      <4>2. i \in 1..n /\ i <= limit
        BY <3>1
      <4> QED
        BY <1>11, <1>17, <2>1, <4>1, <4>2
    <3>2. CASE ~ (n > limit)
      <4>1. n <= limit
        BY <3>2
      <4>2. PICK i \in 1..n : found[i] = x
        BY <1>5, <2>4, <4>1 DEF GoodPage
      <4> QED
        BY <1>11, <1>17, <2>1, <3>2, <4>2
    <3> QED
      BY <3>1, <3>2
  <2> QED
    BY <2>1, <2>2, <2>3, <2>4 DEF Covers
<1>20. ListTypeOK'
  <2>1. cursor' \in Nat /\ progress' \in {"idle", "paging", "done"}
    <3>1. CASE n > limit
      <4>1. limit \in 1..n
        BY <1>5, <3>1
      <4>2. found[limit] \in Nat /\ cursor' = found[limit]
        BY <1>4, <1>5, <1>6, <3>1, <4>1
      <4> QED
        BY <1>4, <4>2
    <3>2. CASE ~ (n > limit)
      BY <1>4, <1>5, <3>2 DEF None
    <3> QED
      BY <3>1, <3>2
  <2> QED
    BY <1>3, <1>4, <1>7, <2>1 DEF ListInv, ListTypeOK
<1>21. CopyKnown'
  BY <1>4 DEF ListInv, CopyKnown
<1>22. Ordered(listed)'
  BY <1>4, <1>16, <1>18 DEF Ordered, Before
<1>23. ASSUME what' \in {"newest", "oldest"}, NEW i \in DOMAIN listed'
       PROVE  listed'[i] \in Collection
  <2>1. \A j \in DOMAIN listed : listed[j] \in Collection
    BY <1>4, <1>23 DEF ListInv, ListedSoFar
  <2>2. \A j \in DOMAIN w : w[j] \in Collection
    BY <1>4, <1>6, <1>10, <1>23
  <2> QED
    BY <1>17, <1>18, <1>23, <2>1, <2>2
<1>24. CASE n > limit
  <2>1. limit \in 1..n /\ Len(found) > limit
    BY <1>5, <1>24
  <2>2. cursor' = found[limit] /\ cursor' \in Nat \ {None} /\ progress' = "paging"
    BY <1>4, <1>6, <2>1
  <2>3. \A i \in DOMAIN listed : ~ Before(found[limit], listed[i])
    <3> SUFFICES ASSUME NEW i \in DOMAIN listed PROVE ~ Before(found[limit], listed[i])
      OBVIOUS
    <3>1. cursor # None /\ ~ Before(cursor, listed[i]) /\ listed[i] \in Nat
      BY <1>8 DEF Passed
    <3>2. Before(cursor, found[limit]) /\ found[limit] \in Nat
      BY <1>6, <2>1, <3>1
    <3> QED
      BY <1>7, <3>1, <3>2 DEF Before
  <2>4. \A j \in DOMAIN w : ~ Before(found[limit], w[j])
    <3> SUFFICES ASSUME NEW j \in DOMAIN w PROVE ~ Before(found[limit], w[j])
      OBVIOUS
    <3>1. PICK i \in 1..n : i <= limit /\ w[j] = found[i]
      BY <1>10, <1>24
    <3>2. found[i] \in Nat /\ found[limit] \in Nat
      BY <1>6, <2>1
    <3>3. i = limit \/ Before(found[i], found[limit])
      <4>1. DOMAIN found = 1..n /\ Ordered(found)
        BY <1>5 DEF GoodPage
      <4> QED
        BY <2>1, <3>1, <4>1 DEF Ordered
    <3> QED
      BY <3>1, <3>2, <3>3 DEF Before
  <2>5. \A i \in DOMAIN c : ~ Before(found[limit], c[i])
    BY <1>17, <2>3, <2>4
  <2>6. \A i \in DOMAIN listed' : Passed(listed[i])'
    BY <1>4, <1>18, <2>2, <2>5 DEF Passed, Before
  <2>7. \A x \in stayed' : Passed(x)' => Got(x)'
    BY <1>4, <1>18, <1>19, <2>2 DEF Passed, Before, Got
  <2>8. stayed' \subseteq Present(leaves, accounts)'
    <3>1. stayed \subseteq Present(leaves, accounts)
      BY <1>3 DEF ListInv, ListedSoFar
    <3> QED
      BY <1>3, <1>4, <3>1 DEF Present, Mentioned
  <2>9. ListedSoFar'
    BY <1>22, <1>23, <2>2, <2>6, <2>7, <2>8 DEF ListedSoFar
  <2> QED
    BY <1>20, <1>21, <2>9 DEF ListInv
<1>25. CASE ~ (n > limit)
  <2>1. cursor' = None /\ progress' = "done"
    BY <1>4, <1>5, <1>25
  <2>2. \A x \in stayed' : Got(x)'
    BY <1>4, <1>18, <1>19, <1>25 DEF Got
  <2>3. ListedSoFar'
    BY <1>22, <1>23, <2>1, <2>2 DEF ListedSoFar
  <2> QED
    BY <1>20, <1>21, <2>3 DEF ListInv
<1> QED
  BY <1>24, <1>25

-----------------------------------------------------------------------------
(* The steps *)

LEMMA OldestCovers ==
  ASSUME ListInv, what \in {"newest", "oldest"}, progress = "paging",
         NEW S, S = {k \in DOMAIN leaves \cap Collection :
                       cursor # None => IF what = "newest" THEN k < cursor ELSE k > cursor}
  PROVE  S \in SUBSET Nat /\ IsFiniteSet(S) /\ Covers(S)
<1>1. DOMAIN leaves \subseteq Nat \ {None} /\ IsFiniteSet(RecordKeys) /\ S \in SUBSET RecordKeys
      /\ cursor \in Nat
  BY ListAssumption DEF ListInv, ListTypeOK
<1>2. IsFiniteSet(S)
  BY <1>1, FS_Subset
<1>3. \A k \in S : cursor # None => Before(cursor, k)
  BY <1>1 DEF Before
<1>4. \A k \in stayed : k \in DOMAIN leaves \cap Collection
  BY DEF ListInv, ListedSoFar, Present
<1>5. \A k \in stayed : Passed(k) \/ k \in S
  <2> SUFFICES ASSUME NEW k \in stayed, ~ Passed(k) PROVE k \in S
    OBVIOUS
  <2>1. k \in Nat /\ k \in DOMAIN leaves \cap Collection
    BY <1>1, <1>4
  <2>2. cursor # None => Before(cursor, k)
    BY DEF Passed
  <2> QED
    BY <1>1, <2>1, <2>2 DEF Before
<1> QED
  BY <1>1, <1>2, <1>3, <1>5 DEF Covers

LEMMA BlobsCover ==
  ASSUME ListInv, what = "blobs", progress = "paging", NEW rows, NEW S,
         rows = {leaves[k] : k \in {l \in DOMAIN leaves : leaves[l].cid # None}},
         S = {r.cid : r \in {q \in rows : q.cid > cursor /\ (since # 0 => q.rev > since)}}
  PROVE  S \in SUBSET Nat /\ IsFiniteSet(S) /\ Covers(S)
<1>1. /\ IsFiniteSet(RecordKeys) /\ DOMAIN leaves \in SUBSET RecordKeys
      /\ Cids \subseteq Nat \ {None} /\ cursor \in Nat /\ since \in Nat
      /\ \A k \in DOMAIN leaves : leaves[k].cid \in Cids \cup {None} /\ leaves[k].rev \in Nat
  BY ListAssumption DEF ListInv, ListTypeOK
<1>2. IsFiniteSet(S)
  <2>1. IsFiniteSet(DOMAIN leaves)
    BY <1>1, FS_Subset
  <2> DEFINE C == {leaves[k].cid : k \in DOMAIN leaves}
             f == [k \in DOMAIN leaves |-> leaves[k].cid]
  <2>2. IsFiniteSet(C)
    <3>1. f \in Surjection(DOMAIN leaves, C)
      BY DEF Surjection
    <3> HIDE DEF f, C
    <3> QED
      BY <2>1, <3>1, FS_Surjection
  <2>3. S \in SUBSET C
    OBVIOUS
  <2> HIDE DEF C
  <2> QED
    BY <2>2, <2>3, FS_Subset
<1>3. S = {leaves[k].cid : k \in {l \in DOMAIN leaves : leaves[l].cid # None /\ leaves[l].cid > cursor
                                                        /\ (since # 0 => leaves[l].rev > since)}}
  OBVIOUS
<1>4. S \subseteq Nat \ {None} /\ \A x \in S : x > cursor
  BY <1>1, <1>3
<1>5. \A x \in S : cursor # None => Before(cursor, x)
  BY <1>1, <1>4 DEF Before
<1>6. \A x \in stayed : Passed(x) \/ x \in S \/ x \in had
  <2> SUFFICES ASSUME NEW x \in stayed, ~ Passed(x), x \notin had PROVE x \in S
    OBVIOUS
  <2>1. PICK k \in DOMAIN leaves : leaves[k].cid = x /\ x # None
    BY DEF ListInv, ListedSoFar, Present, Mentioned
  <2>2. x \in Nat /\ x > cursor
    <3>1. cursor = None \/ Before(cursor, x)
      BY DEF Passed
    <3>2. x \in Cids
      BY <1>1, <2>1
    <3>3. x \in Nat \ {None}
      BY <1>1, <3>2
    <3> QED
      BY <1>1, <3>1, <3>3 DEF Before, None
  <2>3. since # 0 => leaves[k].rev > since
    BY <1>1, <2>1 DEF ListInv, CopyKnown
  <2> QED
    BY <1>3, <2>1, <2>2, <2>3
<1> QED
  BY <1>2, <1>4, <1>5, <1>6 DEF Covers

LEMMA HostedCover ==
  ASSUME ListInv, what = "repos", progress = "paging", NEW S, S = {d \in accounts : d > cursor}
  PROVE  S \in SUBSET Nat /\ IsFiniteSet(S) /\ Covers(S)
<1>1. /\ IsFiniteSet(Dids) /\ S \in SUBSET Dids /\ Dids \subseteq Nat \ {None} /\ cursor \in Nat
      /\ accounts \subseteq Dids
  BY ListAssumption DEF ListInv, ListTypeOK
<1>2. IsFiniteSet(S)
  BY <1>1, FS_Subset
<1>3. \A d \in S : cursor # None => Before(cursor, d)
  BY <1>1 DEF Before
<1>4. \A d \in stayed : Passed(d) \/ d \in S
  <2> SUFFICES ASSUME NEW d \in stayed, ~ Passed(d) PROVE d \in S
    OBVIOUS
  <2>1. d \in accounts /\ d \in Nat \ {None}
    BY <1>1 DEF ListInv, ListedSoFar, Present
  <2>2. cursor = None \/ Before(cursor, d)
    BY DEF Passed
  <2> QED
    BY <1>1, <2>1, <2>2 DEF Before, None
<1> QED
  BY <1>1, <1>2, <1>3, <1>4 DEF Covers

LEMMA ListRecordsKeeps ==
  ASSUME ListInv, NEW limit \in Nat \ {0}, ListRecords(limit)
  PROVE  ListInv'
<1>1. PICK S : S = {k \in DOMAIN leaves \cap Collection :
                      cursor # None => IF what = "newest" THEN k < cursor ELSE k > cursor}
  OBVIOUS
<1>2. what \in {"newest", "oldest"} /\ progress = "paging"
  BY DEF ListRecords, Page
<1>3. S \in SUBSET Nat /\ IsFiniteSet(S) /\ Covers(S)
  BY <1>1, <1>2, OldestCovers
<1>4. CASE what = "oldest"
  <2>1. S = {k \in DOMAIN leaves \cap Collection : k > cursor}
    <3>1. \A k \in DOMAIN leaves : k \in Nat \ {None}
      BY ListAssumption DEF ListInv, ListTypeOK
    <3> QED
      BY <1>1, <1>4, <3>1 DEF None
  <2>2. Oldest(limit) = First(Ascending(S), limit + 1)
    BY <2>1 DEF Oldest
  <2>3. Page(Oldest(limit), limit, {})
    BY <1>4 DEF ListRecords
  <2>4. GoodPage(Oldest(limit), limit, S)
    BY <1>3, <1>4, <2>2, ForwardPage
  <2> QED
    BY <1>3, <2>3, <2>4, PageKeeps
<1>5. CASE what = "newest"
  <2>1. S = {k \in DOMAIN leaves \cap Collection : cursor # None => k < cursor}
    BY <1>1, <1>5
  <2>2. Newest(limit) = Reverse(Retained(Ascending(S), limit))
    BY <2>1 DEF Newest
  <2>3. Page(Newest(limit), limit, {})
    BY <1>5 DEF ListRecords
  <2>4. GoodPage(Newest(limit), limit, S)
    BY <1>3, <1>5, <2>2, BackwardPage
  <2> QED
    BY <1>3, <2>3, <2>4, PageKeeps
<1> QED
  BY <1>2, <1>4, <1>5

LEMMA ListBlobsKeeps ==
  ASSUME ListInv, NEW limit \in Nat \ {0}, ListBlobs(limit)
  PROVE  ListInv'
<1>1. PICK rows : rows = {leaves[k] : k \in {l \in DOMAIN leaves : leaves[l].cid # None}}
  OBVIOUS
<1>2. PICK S : S = {r.cid : r \in {q \in rows : q.cid > cursor /\ (since # 0 => q.rev > since)}}
  OBVIOUS
<1>3. what = "blobs" /\ progress = "paging" /\ Page(BlobsSince(limit), limit, {})
  BY DEF ListBlobs, Page
<1>4. S \in SUBSET Nat /\ IsFiniteSet(S) /\ Covers(S)
  BY <1>1, <1>2, <1>3, BlobsCover
<1>5. BlobsSince(limit) = First(Ascending(S), limit + 1)
  BY <1>1, <1>2 DEF BlobsSince
<1>6. GoodPage(BlobsSince(limit), limit, S)
  BY <1>3, <1>4, <1>5, ForwardPage
<1> QED
  BY <1>3, <1>4, <1>6, PageKeeps

LEMMA ListReposKeeps ==
  ASSUME ListInv, NEW limit \in Nat \ {0}, NEW ds, ListRepos(limit, ds)
  PROVE  ListInv'
<1>1. PICK S : S = {d \in accounts : d > cursor}
  OBVIOUS
<1>2. what = "repos" /\ progress = "paging" /\ Page(HostedAfter(limit), limit, ds)
  BY DEF ListRepos, Page
<1>3. S \in SUBSET Nat /\ IsFiniteSet(S) /\ Covers(S)
  BY <1>1, <1>2, HostedCover
<1>4. HostedAfter(limit) = First(Ascending(S), limit + 1)
  BY <1>1 DEF HostedAfter
<1>5. GoodPage(HostedAfter(limit), limit, S)
  BY <1>2, <1>3, <1>4, ForwardPage
<1> QED
  BY <1>2, <1>3, <1>5, PageKeeps

LEMMA CommitKeeps ==
  ASSUME ListInv, NEW K \in SUBSET RecordKeys, ApplyCommit(K)
  PROVE  ListInv'
<1>1. PICK W \in SUBSET K : \E f \in [W -> Cids \cup {None}] :
        leaves' = [k \in (DOMAIN leaves \ K) \cup W |->
                     IF k \in W THEN [cid |-> f[k], rev |-> head'] ELSE leaves[k]]
  BY DEF ApplyCommit
<1>2. PICK f \in [W -> Cids \cup {None}] :
        leaves' = [k \in (DOMAIN leaves \ K) \cup W |->
                     IF k \in W THEN [cid |-> f[k], rev |-> head'] ELSE leaves[k]]
  BY <1>1
<1>3. PICK ls : ls = leaves'
  OBVIOUS
<1>4. head \in Nat /\ since \in Nat /\ head' = head + 1 /\ since <= head
  BY DEF ApplyCommit, ListInv, ListTypeOK, CopyKnown
<1>5. DOMAIN ls = (DOMAIN leaves \ K) \cup W /\ ls = [k \in DOMAIN ls |-> ls[k]]
  BY <1>2, <1>3
<1>6. \A k \in W : k \in DOMAIN ls /\ ls[k] = [cid |-> f[k], rev |-> head + 1]
                   /\ f[k] \in Cids \cup {None}
  BY <1>2, <1>3, <1>4
<1>7. \A k \in DOMAIN ls : k \notin W => k \in DOMAIN leaves /\ ls[k] = leaves[k]
  BY <1>2, <1>3
<1>8. DOMAIN leaves \subseteq RecordKeys
      /\ \A k \in DOMAIN leaves : leaves[k] \in [cid : Cids \cup {None}, rev : Nat]
  BY DEF ListInv, ListTypeOK
<1>9. DOMAIN ls \subseteq RecordKeys
  BY <1>5, <1>8
<1>10. \A k \in DOMAIN ls : ls[k] \in [cid : Cids \cup {None}, rev : Nat]
  <2>1. head + 1 \in Nat
    BY <1>4
  <2>2. \A k \in W : [cid |-> f[k], rev |-> head + 1] \in [cid : Cids \cup {None}, rev : Nat]
    BY <1>6, <2>1
  <2> QED
    BY <1>6, <1>7, <1>8, <2>2
<1>11. ls \in [DOMAIN ls -> [cid : Cids \cup {None}, rev : Nat]]
  BY <1>5, <1>10
<1>12. /\ accounts' = accounts /\ what' = what /\ progress' = progress /\ cursor' = cursor
       /\ listed' = listed /\ since' = since /\ had' = had
       /\ stayed' = stayed \cap Present(leaves', accounts)
  BY DEF ApplyCommit, client
<1>13. ListTypeOK'
  BY <1>3, <1>4, <1>9, <1>11, <1>12 DEF ListInv, ListTypeOK
<1>14. CopyKnown'
  <2> SUFFICES ASSUME NEW k \in DOMAIN ls
               PROVE  /\ ls[k].rev <= head + 1
                      /\ since # 0 /\ ls[k].rev <= since => ls[k].cid \in had \cup {None}
    BY <1>3, <1>4, <1>12 DEF CopyKnown
  <2>1. CASE k \in W
    <3>1. ls[k] = [cid |-> f[k], rev |-> head + 1]
      BY <1>6, <2>1
    <3>2. ls[k].rev = head + 1
      BY ONLY <3>1
    <3> QED
      BY <1>4, <3>2
  <2>2. CASE k \notin W
    <3>1. k \in DOMAIN leaves /\ ls[k] = leaves[k] /\ leaves[k].rev \in Nat
      BY <1>7, <1>8, <2>2
    <3> QED
      BY <1>4, <3>1 DEF ListInv, CopyKnown
  <2> QED
    BY <2>1, <2>2
<1>15. ListedSoFar'
  <2>1. stayed' \subseteq Present(leaves', accounts) /\ stayed' \subseteq stayed
    BY <1>12
  <2>2. Present(leaves', accounts) = Present(leaves, accounts)'
    BY <1>12 DEF Present, Mentioned
  <2>3. Ordered(listed)' /\ \A x : (Passed(x)' <=> Passed(x)) /\ (Got(x)' <=> Got(x))
    BY <1>12 DEF ListInv, ListedSoFar, Ordered, Passed, Before, Got
  <2> QED
    BY <1>12, <2>1, <2>2, <2>3 DEF ListInv, ListedSoFar
<1> QED
  BY <1>13, <1>14, <1>15 DEF ListInv

LEMMA AddKeeps ==
  ASSUME ListInv, NEW d \in Dids, AddAccount(d)
  PROVE  ListInv'
<1>1. /\ what' = what /\ progress' = progress /\ cursor' = cursor /\ listed' = listed
      /\ since' = since /\ had' = had /\ stayed' = stayed /\ leaves' = leaves /\ head' = head
      /\ accounts' = accounts \cup {d}
  BY DEF AddAccount, client
<1>2. ListTypeOK' /\ CopyKnown'
  BY <1>1 DEF ListInv, ListTypeOK, CopyKnown
<1>3. Present(leaves, accounts) \subseteq Present(leaves, accounts)'
  BY <1>1 DEF Present, Mentioned
<1>4. Ordered(listed)' /\ \A x : (Passed(x)' <=> Passed(x)) /\ (Got(x)' <=> Got(x))
  BY <1>1 DEF ListInv, ListedSoFar, Ordered, Passed, Before, Got
<1>5. ListedSoFar'
  BY <1>1, <1>3, <1>4 DEF ListInv, ListedSoFar
<1> QED
  BY <1>2, <1>5 DEF ListInv

LEMMA CopyKeeps ==
  ASSUME ListInv, Copy
  PROVE  ListInv'
<1>1. /\ what' = what /\ progress' = "idle" /\ progress = "idle" /\ cursor' = cursor
      /\ listed' = listed /\ stayed' = stayed /\ leaves' = leaves /\ head' = head
      /\ accounts' = accounts /\ since' = head /\ had' = Mentioned(leaves)
  BY DEF Copy
<1>2. \A k \in DOMAIN leaves : leaves[k].cid \in Cids \cup {None}
                               /\ leaves[k].cid \in Mentioned(leaves) \cup {None}
  BY DEF ListInv, ListTypeOK, Mentioned
<1>3. Mentioned(leaves) \subseteq Cids
  BY <1>2 DEF Mentioned
<1>4. ListTypeOK'
  BY <1>1, <1>3 DEF ListInv, ListTypeOK
<1>5. CopyKnown'
  BY <1>1, <1>2 DEF ListInv, ListTypeOK, CopyKnown
<1>6. ListedSoFar'
  BY <1>1 DEF ListInv, ListedSoFar, Ordered, Before
<1> QED
  BY <1>4, <1>5, <1>6 DEF ListInv

LEMMA BeginKeeps ==
  ASSUME ListInv, Begin
  PROVE  ListInv'
<1>1. /\ what' = what /\ progress' = "paging" /\ progress = "idle" /\ cursor' = cursor
      /\ listed' = listed /\ leaves' = leaves /\ head' = head
      /\ accounts' = accounts /\ since' = since /\ had' = had
      /\ stayed' = Present(leaves, accounts)
  BY DEF Begin
<1>2. listed = <<>> /\ cursor = None
  BY <1>1 DEF ListInv, ListedSoFar
<1>3. Present(leaves, accounts) \subseteq Nat
  <2>1. \A k \in DOMAIN leaves : leaves[k].cid \in Nat /\ k \in Nat
    <3>1. \A k \in DOMAIN leaves : leaves[k].cid \in Cids \cup {None} /\ k \in RecordKeys
      BY DEF ListInv, ListTypeOK
    <3> QED
      BY <3>1, ListAssumption DEF None
  <2>2. accounts \subseteq Nat
    BY ListAssumption DEF ListInv, ListTypeOK
  <2> QED
    BY <2>1, <2>2 DEF Present, Mentioned
<1>4. ListTypeOK' /\ CopyKnown'
  BY <1>1, <1>3 DEF ListInv, ListTypeOK, CopyKnown
<1>5. Present(leaves, accounts)' = Present(leaves, accounts)
  BY <1>1 DEF Present, Mentioned
<1>6. ListedSoFar'
  BY <1>1, <1>2, <1>5 DEF ListInv, ListedSoFar, Ordered, Before, Passed
<1> QED
  BY <1>4, <1>6 DEF ListInv

LEMMA ListStarts ==
  ASSUME ListInit
  PROVE  ListInv
<1>1. PICK K \in SUBSET RecordKeys : leaves \in [K -> [cid : Cids \cup {None}, rev : {1}]]
  BY DEF ListInit
<1>2. head = 1 /\ since = 0 /\ cursor = 0 /\ listed = <<>> /\ stayed = {} /\ had = {}
      /\ accounts = {} /\ progress = "idle" /\ what \in {"newest", "oldest", "blobs", "repos"}
  BY DEF ListInit, None
<1>3. DOMAIN leaves = K /\ \A k \in K : leaves[k] \in [cid : Cids \cup {None}, rev : {1}]
  BY <1>1
<1>4. \A k \in K : leaves[k] \in [cid : Cids \cup {None}, rev : Nat] /\ leaves[k].rev = 1
  BY <1>3
<1>5. leaves \in [DOMAIN leaves -> [cid : Cids \cup {None}, rev : Nat]]
  BY <1>1, <1>3, <1>4
<1>6. ListTypeOK
  BY <1>2, <1>3, <1>5 DEF ListTypeOK
<1>7. CopyKnown
  BY <1>2, <1>3, <1>4 DEF CopyKnown
<1>8. ListedSoFar
  BY <1>2 DEF ListedSoFar, Ordered, None
<1> QED
  BY <1>6, <1>7, <1>8 DEF ListInv

LEMMA ListSteps ==
  ASSUME ListInv, [ListNext]_listVars
  PROVE  ListInv'
<1>1. CASE UNCHANGED listVars
  BY <1>1 DEF listVars, client, ListInv, ListTypeOK, CopyKnown, ListedSoFar, Ordered, Before,
              Passed, Got, Present, Mentioned
<1>2. CASE \E k, l \in RecordKeys : ApplyCommit({k, l})
  <2>1. PICK K \in SUBSET RecordKeys : ApplyCommit(K)
    BY <1>2
  <2> QED
    BY <2>1, CommitKeeps
<1>3. CASE \E d \in Dids : AddAccount(d)
  BY <1>3, AddKeeps
<1>4. CASE Copy
  BY <1>4, CopyKeeps
<1>5. CASE Begin
  BY <1>5, BeginKeeps
<1>6. \A limit \in 1..MaxLimit : limit \in Nat \ {0}
  BY ListAssumption
<1>7. CASE \E limit \in 1..MaxLimit : ListRecords(limit)
  BY <1>6, <1>7, ListRecordsKeeps
<1>8. CASE \E limit \in 1..MaxLimit : ListBlobs(limit)
  BY <1>6, <1>8, ListBlobsKeeps
<1>9. CASE \E limit \in 1..MaxLimit : \E ds \in SUBSET Dids : ListRepos(limit, ds)
  BY <1>6, <1>9, ListReposKeeps
<1> QED
  BY <1>1, <1>2, <1>3, <1>4, <1>5, <1>7, <1>8, <1>9 DEF ListNext

\* The listing has its type in every state.
THEOREM ListTypeCorrect == ListSpec => []ListTypeOK
<1>1. ListInit => ListInv
  BY ListStarts
<1>2. ListInv /\ [ListNext]_listVars => ListInv'
  BY ListSteps
<1>3. ListInv => ListTypeOK
  BY DEF ListInv
<1> QED
  BY <1>1, <1>2, <1>3, PTL DEF ListSpec

\* Whatever is committed between the pages and however long each of them is, the client gets
\* what was there all the time, in the order it asked for and nothing twice, and with the
\* blobs of its copy it has those that the records mention.
THEOREM ListsComplete == ListSpec => []ListingComplete
<1>1. ListInit => ListInv
  BY ListStarts
<1>2. ListInv /\ [ListNext]_listVars => ListInv'
  BY ListSteps
<1>3. ASSUME ListInv
      PROVE  ListingComplete
  <2>1. ToSet(listed) = {listed[i] : i \in DOMAIN listed}
    BY DEF ToSet
  <2>2. progress = "done" => stayed \subseteq ToSet(listed) \cup had
    BY <1>3, <2>1 DEF ListInv, ListedSoFar, Got
  <2>3. Ordered(listed)
    BY <1>3 DEF ListInv, ListedSoFar
  <2>4. what \in {"newest", "oldest"} => ToSet(listed) \subseteq Collection
    BY <1>3, <2>1 DEF ListInv, ListedSoFar
  <2> QED
    BY <2>2, <2>3, <2>4 DEF ListingComplete, Ordered, Before
<1> QED
  BY <1>1, <1>2, <1>3, PTL DEF ListSpec
===============================================================================
