----------------------------- MODULE RepoRecords -----------------------------
(***************************************************************************)
(* The records of one repository and the blobs they reference.  The PDS    *)
(* checks a write and hands it to the repository's Durable Object, which   *)
(* applies writes and registers blobs one at a time; uploads put bytes     *)
(* into the bucket before they are registered, outside that queue.         *)
(***************************************************************************)
EXTENDS Naturals, FiniteSets, Sequences

CONSTANTS
  Paths, Records, Blobs,
  Mentions,     \* the blobs that each record references
  Scopes,       \* what the client's scope may allow: sets of actions
  Uploads,      \* slots for concurrent uploads
  Reservations, \* slots for concurrent calls of reserveRepo
  Life,         \* 24 hours, of a blob that no record references
  MaxBatch, MaxRev, MaxKeys, MaxTime, \* bounds: writes, commits, objects, the clock
  NoRecord, NoBlob

ASSUME RepoRecordsAssumption ==
  /\ Mentions \in [Records -> SUBSET Blobs]
  /\ NoRecord \notin Records /\ NoBlob \notin Blobs
  /\ Life \in Nat /\ MaxBatch \in Nat /\ MaxRev \in Nat \ {0} /\ MaxKeys \in Nat /\ MaxTime \in Nat

VARIABLES
  scope,    \* of the client's token
  rev,      \* the revision of the root, 0 before initializeRepo
  tree,     \* the record at each path
  cache,    \* this.repo: the revision and tree that it holds, revision 0 for null
  refs,     \* record_blobs: the rows of the references
  blobs,    \* the rows of the blobs
  bucket,   \* the keys that hold bytes
  busy,     \* a write holds the queue, after its transaction
  event,    \* the net changes of the last commit
  upload,   \* the uploads
  reserve,  \* the calls of reserveRepo
  keys,     \* how many keys were made up
  now,      \* the clock
  promised  \* history: blobs that were registered and not referenced since, until when

store == <<rev, tree, cache, refs>>
vars == <<scope, store, blobs, bucket, busy, event, upload, reserve, keys, now, promised>>

Revs == 0..MaxRev
Trees == [Paths -> Records \cup {NoRecord}]
Blob == [key : 1..MaxKeys, expires : Nat]
Empty == [p \in Paths |-> NoRecord]
NoUpload == [pc |-> "idle", blob |-> NoBlob, key |-> 0]

TypeOK ==
  /\ scope \in Scopes
  /\ rev \in Revs /\ tree \in Trees
  /\ cache \in [rev : Revs, tree : Trees]
  /\ refs \subseteq [path : Paths, blob : Blobs, rev : Revs]
  /\ DOMAIN blobs \subseteq Blobs /\ blobs \in [DOMAIN blobs -> Blob]
  /\ bucket \subseteq 1..keys /\ keys \in 0..MaxKeys
  /\ busy \in BOOLEAN
  /\ event \subseteq [path : Paths, old : Records \cup {NoRecord}, new : Records \cup {NoRecord}]
  /\ upload \in [Uploads -> [pc : {"idle", "put", "register"}, blob : Blobs \cup {NoBlob},
                             key : 0..MaxKeys]]
  /\ reserve \in [Reservations -> {"idle", "create", "done"}]
  /\ now \in 0..MaxTime
  /\ DOMAIN promised \subseteq Blobs /\ promised \in [DOMAIN promised -> Nat]

Init ==
  /\ scope \in Scopes
  /\ rev = 0 /\ tree = Empty /\ cache = [rev |-> 0, tree |-> Empty]
  /\ refs = {} /\ blobs = [b \in {} |-> 0] /\ bucket = {} /\ keys = 0
  /\ busy = FALSE /\ event = {}
  /\ upload = [u \in Uploads |-> NoUpload]
  /\ reserve = [v \in Reservations |-> "idle"]
  /\ now = 0 /\ promised = [b \in {} |-> 0]

Referenced(b) == \E r \in refs : r.blob = b
Only(f, S) == [x \in DOMAIN f \cap S |-> f[x]]

\* getBlob
Published(b) == b \in DOMAIN blobs /\ Referenced(b)
Available(b) == b \in DOMAIN blobs /\ (Referenced(b) \/ blobs[b].expires > now)

\* Anybody who asks the PDS for the blob gets its bytes.
Served(b) == Published(b) /\ blobs[b].key \in bucket

-----------------------------------------------------------------------------
(* reserveRepo, which does not wait in the queue *)

\* There is no metadata yet: a commit is prepared.
ReadMetadata(v) ==
  /\ reserve[v] = "idle"
  /\ reserve' = [reserve EXCEPT ![v] = IF rev = 0 THEN "create" ELSE "done"]
  /\ UNCHANGED <<scope, store, blobs, bucket, busy, event, upload, keys, now, promised>>

\* The only row of the metadata can be inserted once.
Insertable == rev = 0

\* What is awaited between the row and the cache reads local storage: nothing else of the
\* Durable Object runs meanwhile that could make a commit.

InitializeRepo(v) ==
  /\ reserve[v] = "create"
  /\ reserve' = [reserve EXCEPT ![v] = "done"]
  /\ IF Insertable
     THEN rev' = 1 /\ tree' = Empty /\ cache' = [rev |-> 1, tree |-> Empty]
     ELSE UNCHANGED <<rev, tree, cache>>
  /\ UNCHANGED <<scope, refs, blobs, bucket, busy, event, upload, keys, now, promised>>

-----------------------------------------------------------------------------
(* Writes *)

Writes(actions, records, swaps, ensureAbsent) ==
  [action : actions, path : Paths, record : records, swap : swaps, ensureAbsent : {ensureAbsent}]

PutNeeds == {"create", "update"}

AnySwap == {"any", NoRecord} \cup Records

\* What apply (and create, for one write), put and delete of the RepoWriter make of a
\* request, if the scope allows it.
Applied ==
  Writes({"create", "update"} \cap scope, Records, {"any"}, FALSE)
  \cup Writes({"delete"} \cap scope, {NoRecord}, {"any"}, FALSE)
Puts == IF PutNeeds \subseteq scope THEN Writes({"put"}, Records, AnySwap, FALSE) ELSE {}
Deletes == IF "delete" \in scope THEN Writes({"delete"}, {NoRecord}, AnySwap, TRUE) ELSE {}

Batches ==
  (UNION {[1..n -> Applied] : n \in 1..MaxBatch}) \cup {<<w>> : w \in Puts \cup Deletes}

\* checkRecordPrecondition
Precondition(w, previous) ==
  /\ w.swap \in {"any", previous}
  /\ w.action = "create" => previous = NoRecord
  /\ w.action = "update" \/ (w.action = "delete" /\ ~ w.ensureAbsent) => previous # NoRecord

\* One write of prepareCommit, on what the writes before it left.
Prepared(acc, w) ==
  LET previous == acc.tree[w.path]
  IN  IF \/ ~ acc.ok \/ ~ Precondition(w, previous)
         \/ w.record # NoRecord /\ \E b \in Mentions[w.record] : ~ Available(b)
      THEN [acc EXCEPT !.ok = FALSE]
      ELSE [acc EXCEPT !.tree[w.path] = w.record,
                       !.touched = IF previous = w.record THEN @ ELSE @ \cup {w.path}]

\* The loop of prepareCommit: the first write works on the repository, which is the head.
Prepare(repo, batch) ==
  LET acc[i \in 0..Len(batch)] ==
        IF i = 0 THEN [ok |-> TRUE, tree |-> repo, touched |-> {}]
        ELSE Prepared(acc[i - 1], batch[i])
  IN  acc[Len(batch)]

MentionsAt(t, p) == IF t[p] = NoRecord THEN {} ELSE Mentions[t[p]]

\* Fault: every operation is reported, although a later one undid it.
EveryOp(old, new, touched) == {[path |-> p, old |-> old[p], new |-> new[p]] : p \in touched}

\* netRecordOps
NetOps(old, new, touched) ==
  {[path |-> p, old |-> old[p], new |-> new[p]] : p \in {q \in touched : old[q] # new[q]}}

\* Fault: a blob is gone with the record, whatever other records reference.
GoneWithRecord(touched, rows) ==
  {r.blob : r \in {x \in refs : x.path \in touched /\ \A y \in rows : y.path = x.path => y.blob # x.blob}}

\* The blobs of changed records that no record references any more.
Unreferenced(touched, rows) ==
  {r.blob : r \in {x \in refs : x.path \in touched}} \ {r.blob : r \in rows}

\* Fault: the repository that was cached stays.
KeepCache == cache

\* this.repo after the transaction.
DropCache == [rev |-> 0, tree |-> Empty]

\* rpcApplyWrites up to the transaction of applyCommit.  A batch that changes nothing
\* makes no commit; writes that undo each other do.
ApplyWrites(batch) ==
  LET base == IF cache.rev # 0 THEN cache ELSE [rev |-> rev, tree |-> tree]
      acc == Prepare(base.tree, batch)
      rows == {r \in refs : r.path \notin acc.touched}
              \cup UNION {{[path |-> p, blob |-> b, rev |-> rev + 1] :
                             b \in MentionsAt(acc.tree, p)} : p \in acc.touched}
      gone == Unreferenced(acc.touched, rows)
  IN  /\ rev > 0 /\ rev < MaxRev /\ ~ busy
      /\ acc.ok /\ acc.touched # {}
      /\ rev' = rev + 1 /\ tree' = acc.tree
      /\ refs' = rows
      /\ blobs' = Only(blobs, Blobs \ gone)
      /\ event' = NetOps(base.tree, acc.tree, acc.touched)
      /\ cache' = DropCache
      /\ busy' = TRUE
      /\ promised' = Only(promised, {b \in Blobs : \A r \in rows : r.blob # b})
      /\ UNCHANGED <<scope, bucket, upload, reserve, keys, now>>

\* The events were delivered and the head is loaded; or either failed.
FinishWrite ==
  /\ busy
  /\ busy' = FALSE
  /\ cache' \in {cache, [rev |-> rev, tree |-> tree]}
  /\ UNCHANGED <<scope, rev, tree, refs, blobs, bucket, event, upload, reserve, keys, now, promised>>

\* The Durable Object is restarted.
Restart ==
  /\ cache' = [rev |-> 0, tree |-> Empty]
  /\ busy' = FALSE
  /\ UNCHANGED <<scope, rev, tree, refs, blobs, bucket, event, upload, reserve, keys, now, promised>>

-----------------------------------------------------------------------------
(* uploadBlob *)

Upload(u, b) ==
  /\ upload[u].pc = "idle" /\ rev > 0
  /\ ~ Published(b)
  /\ upload' = [upload EXCEPT ![u] = [pc |-> "put", blob |-> b, key |-> 0]]
  /\ UNCHANGED <<scope, store, blobs, bucket, busy, event, reserve, keys, now, promised>>

Put(k) == bucket' = bucket \cup {k}

PutBytes(u) ==
  /\ upload[u].pc = "put" /\ keys < MaxKeys
  /\ keys' = keys + 1
  /\ Put(keys + 1)
  /\ upload' = [upload EXCEPT ![u].pc = "register", ![u].key = keys + 1]
  /\ UNCHANGED <<scope, store, blobs, busy, event, reserve, now, promised>>

\* Fault: an upload does not prolong the life of a blob that is registered.
SameLife(b) == IF Available(b) THEN blobs[b].expires ELSE now + Life

NewLife(b) == now + Life

\* rpcRegisterBlob: a blob that is available keeps its object.
RegisterBlob(u) ==
  LET b == upload[u].blob
      row == [key |-> IF Available(b) THEN blobs[b].key ELSE upload[u].key,
              expires |-> NewLife(b)]
  IN  /\ upload[u].pc = "register" /\ ~ busy
      /\ blobs' = [x \in DOMAIN blobs \cup {b} |-> IF x = b THEN row ELSE blobs[x]]
      /\ promised' = IF Referenced(b) THEN promised
                     ELSE [x \in DOMAIN promised \cup {b} |->
                             IF x = b THEN now + Life ELSE promised[x]]
      /\ upload' = [upload EXCEPT ![u] = NoUpload]
      /\ UNCHANGED <<scope, store, bucket, busy, event, reserve, keys, now>>

UploadLost(u) ==
  /\ upload[u].pc # "idle"
  /\ upload' = [upload EXCEPT ![u] = NoUpload]
  /\ UNCHANGED <<scope, store, blobs, bucket, busy, event, reserve, keys, now, promised>>

Tick ==
  /\ now < MaxTime
  /\ now' = now + 1
  /\ UNCHANGED <<scope, store, blobs, bucket, busy, event, upload, reserve, keys, promised>>

Next ==
  \/ \E v \in Reservations : ReadMetadata(v) \/ InitializeRepo(v)
  \/ \E batch \in Batches : ApplyWrites(batch)
  \/ FinishWrite \/ Restart
  \/ \E u \in Uploads : (\E b \in Blobs : Upload(u, b)) \/ PutBytes(u) \/ RegisterBlob(u) \/ UploadLost(u)
  \/ Tick

Spec == Init /\ [][Next]_vars

-----------------------------------------------------------------------------

\* The references that are stored are those of the records, and each of these blobs is
\* served with its bytes: what one record gives up while another takes it in the same
\* batch stays (storage.ts 166-199, blobs.ts 116-138, repo-do README 11).
ReferencesExact ==
  /\ {<<r.path, r.blob>> : r \in refs} = UNION {{<<p, b>> : b \in MentionsAt(tree, p)} : p \in Paths}
  /\ \A r \in refs : Served(r.blob)

\* A blob that was uploaded and that no record references can be referenced for 24 hours,
\* whatever other uploads of it and writes do meanwhile (PDS README 47).
UploadUsable ==
  \A b \in DOMAIN promised : promised[b] > now => Available(b)

\* The event of a commit tells how the records differ from those before it, whatever the
\* writes of the batch did to one another (writes.ts 71-86, 103-109).
EventIsDifference ==
  [][rev' > rev /\ rev > 0 =>
       event' = {[path |-> p, old |-> tree[p], new |-> tree'[p]] :
                   p \in {q \in Paths : tree[q] # tree'[q]}}]_vars

\* The next write builds on the head, although a write may fail after its transaction and
\* the object may be reserved and restarted at any time (repo-do.ts 84-129, 186-196).
CacheIsHead ==
  cache.rev # 0 => cache = [rev |-> rev, tree |-> tree]
=============================================================================
