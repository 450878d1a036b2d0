------------------------------ MODULE Listings ------------------------------
(***************************************************************************)
(* What clients of the PDS read page by page: the records of a collection, *)
(* by newest or by oldest key first, the blobs of a repository since a     *)
(* revision, and the hosted repositories.  Commits and new accounts come   *)
(* between the pages.  One client lists one of these.  Record keys, CIDs   *)
(* and DIDs are numbers, in their order.                                   *)
(***************************************************************************)
EXTENDS Naturals, FiniteSets, SequencesExt

CONSTANTS
  RecordKeys,
  Collection,  \* those of the collection that is listed
  Cids, Dids,
  MaxLimit,    \* of a page
  MaxHead      \* bound: commits

None == 0  \* no blob, no cursor

ASSUME ListAssumption ==
  /\ IsFiniteSet(RecordKeys) /\ IsFiniteSet(Dids)
  /\ RecordKeys \cup Cids \cup Dids \subseteq Nat \ {None}
  /\ MaxLimit \in Nat

VARIABLES
  leaves,    \* the record at a key: the blob that it mentions and the revision that wrote it
  head,      \* the revision of the root
  accounts,  \* their rows
  what,      \* the client lists: "newest", "oldest", "blobs" or "repos"
  progress,  \* "idle", "paging" or "done"
  cursor,
  listed,    \* what the pages held
  since,     \* the revision of the copy that the client has
  had,       \* history: the blobs of that revision
  stayed     \* history: what was there all the time since the client began

client == <<what, progress, cursor, listed, since, had>>
listVars == <<leaves, head, accounts, client, stayed>>

ListTypeOK ==
  /\ DOMAIN leaves \subseteq RecordKeys
  /\ leaves \in [DOMAIN leaves -> [cid : Cids \cup {None}, rev : Nat]]
  /\ head \in Nat /\ since \in Nat /\ cursor \in Nat
  /\ accounts \subseteq Dids /\ had \subseteq Cids
  /\ what \in {"newest", "oldest", "blobs", "repos"}
  /\ progress \in {"idle", "paging", "done"}
  /\ listed \in Seq(Nat) /\ stayed \subseteq Nat

Mentioned(ls) == {ls[k].cid : k \in DOMAIN ls} \ {None}

Present(ls, ds) ==
  IF what = "repos" THEN ds
  ELSE IF what = "blobs" THEN Mentioned(ls)
  ELSE DOMAIN ls \cap Collection

ListInit ==
  /\ head = 1 /\ accounts = {}
  /\ leaves \in UNION {[K -> [cid : Cids \cup {None}, rev : {1}]] : K \in SUBSET RecordKeys}
  /\ what \in {"newest", "oldest", "blobs", "repos"}
  /\ progress = "idle" /\ cursor = None /\ listed = <<>>
  /\ since = 0 /\ had = {} /\ stayed = {}

-----------------------------------------------------------------------------
(* Between the pages *)

\* applyCommit: the records at K are removed or written.
ApplyCommit(K) ==
  /\ head < MaxHead
  /\ head' = head + 1
  /\ \E W \in SUBSET K : \E f \in [W -> Cids \cup {None}] :
       leaves' = [k \in (DOMAIN leaves \ K) \cup W |->
                    IF k \in W THEN [cid |-> f[k], rev |-> head'] ELSE leaves[k]]
  /\ stayed' = stayed \cap Present(leaves', accounts)
  /\ UNCHANGED <<accounts, client>>

AddAccount(d) ==
  /\ accounts' = accounts \cup {d}
  /\ UNCHANGED <<leaves, head, client, stayed>>

\* The client copies the repository before it lists the blobs that it lacks.
Copy ==
  /\ what = "blobs" /\ progress = "idle"
  /\ since' = head /\ had' = Mentioned(leaves)
  /\ UNCHANGED <<leaves, head, accounts, what, progress, cursor, listed, stayed>>

Begin ==
  /\ progress = "idle"
  /\ progress' = "paging" /\ stayed' = Present(leaves, accounts)
  /\ UNCHANGED <<leaves, head, accounts, what, cursor, listed, since, had>>

-----------------------------------------------------------------------------
(* One page: one more is found than the page holds *)

Ascending(S) ==
  CHOOSE s \in [1..Cardinality(S) -> S] : \A i, j \in 1..Cardinality(S) : i < j => s[i] < s[j]

First(s, n) == SubSeq(s, 1, IF Len(s) < n THEN Len(s) ELSE n)

\* repo.data.list: the keys of the collection after the cursor.
Oldest(limit) ==
  First(Ascending({k \in DOMAIN leaves \cap Collection : k > cursor}), limit + 1)

\* A leaf is pushed; the first is shifted out when there are too many.
Pushed(found, leaf, limit) ==
  LET longer == Append(found, leaf)
  IN  IF Len(longer) > limit + 1 THEN Tail(longer) ELSE longer

Retained(s, limit) ==
  LET retained[i \in 0..Len(s)] ==
        IF i = 0 THEN <<>> ELSE Pushed(retained[i - 1], s[i], limit)
  IN  retained[Len(s)]

\* The keys before the cursor, scanned forward; only the last ones are retained.
Newest(limit) ==
  Reverse(Retained(
    Ascending({k \in DOMAIN leaves \cap Collection : cursor # None => k < cursor}), limit))

\* listBlobs: the blobs that records reference since the revision.
BlobsSince(limit) ==
  LET rows == {leaves[k] : k \in {l \in DOMAIN leaves : leaves[l].cid # None}}
      cids == {r.cid : r \in {x \in rows : x.cid > cursor /\ (since # 0 => x.rev > since)}}
  IN  First(Ascending(cids), limit + 1)

\* AccountRepository.list
HostedAfter(limit) == First(Ascending({d \in accounts : d > cursor}), limit + 1)

\* Fault: the next page starts after the item that was only looked at.
CursorAhead(found, limit) == IF Len(found) > limit THEN found[limit + 1] ELSE None

Cursor(found, limit) == IF Len(found) > limit THEN found[limit] ELSE None

\* The sequence without the items that are in S.
Without(s, S) ==
  LET kept == Ascending({i \in DOMAIN s : s[i] \notin S})
  IN  [n \in DOMAIN kept |-> s[kept[n]]]

\* The client gets the page without what is omitted, and goes on while it gets a cursor.
Page(found, limit, omitted) ==
  /\ progress = "paging"
  /\ listed' = listed \o Without(First(found, limit), omitted)
  /\ cursor' = Cursor(found, limit)
  /\ progress' = IF cursor' = None THEN "done" ELSE "paging"
  /\ stayed' = stayed \ omitted
  /\ UNCHANGED <<leaves, head, accounts, what, since, had>>

\* rpcListRecords
ListRecords(limit) ==
  \/ what = "oldest" /\ Page(Oldest(limit), limit, {})
  \/ what = "newest" /\ Page(Newest(limit), limit, {})

\* rpcListBlobs
ListBlobs(limit) == what = "blobs" /\ Page(BlobsSince(limit), limit, {})

\* listRepos: those whose repository cannot be read are omitted.
ListRepos(limit, unreadable) ==
  what = "repos" /\ Page(HostedAfter(limit), limit, unreadable)

ListNext ==
  \/ \E k, l \in RecordKeys : ApplyCommit({k, l})
  \/ \E d \in Dids : AddAccount(d)
  \/ Copy \/ Begin
  \/ \E limit \in 1..MaxLimit :
       \/ ListRecords(limit) \/ ListBlobs(limit)
       \/ \E ds \in SUBSET Dids : ListRepos(limit, ds)

ListSpec == ListInit /\ [][ListNext]_listVars

-----------------------------------------------------------------------------

\* Whatever is committed, removed and written again between the pages, and however long
\* each of them is: the client gets what was there all the time, nothing twice, in the order
\* it asked for; and with the blobs of its copy it has those that the records mention
\* (repo-do.ts 366-419, storage.ts 338-360, repo-reader.ts 120-142, PDS README 59).
ListingComplete ==
  /\ progress = "done" => stayed \subseteq ToSet(listed) \cup had
  /\ \A i, j \in DOMAIN listed :
       i < j => IF what = "newest" THEN listed[i] > listed[j] ELSE listed[i] < listed[j]
  /\ what \in {"newest", "oldest"} => ToSet(listed) \subseteq Collection
=============================================================================
