# Minisphere: specifications and proofs

This directory specifies Minisphere, a small AT Protocol network on Cloudflare
Workers, in TLA+. Small instances are model-checked with TLC; the main results
about the event path and its stream, block reclamation, records and blobs,
account creation, reserved signing keys, PLC updates, app passwords and their sessions,
preferences, OAuth authorization and grants, and Town's publisher are proved for every
instance with TLAPS.

    tlc -config MCFirehose.cfg           MCFirehose.tla
    tlc -config MCBlockReclaim.cfg       MCBlockReclaim.tla
    tlc -config MCBlockReclaimFair.cfg   MCBlockReclaim.tla
    tlc -config ProvisioningRetry.cfg    ProvisioningRetry.tla
    tlc -config ActiveAnnounced.cfg      MCProvisioning.tla   (a violation, section 4)
    tlc -config MCPds.cfg                MCPds.tla
    tlc -config MCPlc.cfg                MCPlc.tla
    tlc -config MCAccounts.cfg           MCAccounts.tla
    tlc -config MCOAuthGrants.cfg        MCOAuthGrants.tla
    tlc -config MCOAuthAuthorization.cfg MCOAuthAuthorization.tla
    tlc -config MCRepoRecords.cfg        MCRepoRecords.tla
    tlc -config MCTown.cfg               MCTown.tla
    tlapm FirehoseProofs.tla
    tlapm BlockReclaimProofs.tla
    tlapm ProvisioningProofs.tla
    tlapm PlcProofs.tla
    tlapm AccountsProofs.tla
    tlapm GrantProofs.tla
    tlapm AuthorizationProofs.tla
    tlapm PdsProofs.tla

`PROJECT.json` lists the components, the runs, the lines of source each
definition models, the hazards of the code and the properties that cover them,
and for each property a faulty variant of the model (a definition marked
`Fault:`) that violates it.

## 1. The system

| Part | State it keeps | Operations | Talks to |
|---|---|---|---|
| **RepoDO** (`packages/repo-do`), one Durable Object per DID | repository root and rev, blocks, removed blocks, blobs and their references, event outbox, one alarm, a write queue in memory | `reserveRepo`, `rpcApplyWrites`, `rpcAnnounceAccount`, `rpcRegisterBlob`, `alarm`, reads and streamed exports | SequencerDO by RPC |
| **SequencerDO** (`packages/pds-sequencer-do`), one for the PDS | last seq, retained frames, last accepted outbox id per DID, prune point, one alarm, WebSockets | `rpcSequence`, `fetch` (subscribe, with replay), `alarm` (prune) | subscribers by WebSocket |
| **PDS** (`apps/pds`) | accounts, refresh tokens, key reservations, invite codes, DPoP state, preferences (D1) | XRPC: account creation, key reservation, record writes and reads, blobs, preferences, service proxy | RepoDO, SequencerDO, directory, Accounts |
| **Accounts** (`apps/accounts/worker`) | users' AT Protocol accounts and their PLC material, app passwords and refresh tokens, OAuth signing keys, verification records (D1) | account creation and its status, PLC update, app passwords and their sessions, OAuth endpoints, email login | PDS, directory |
| **OAuth provider** (`packages/atproto-oauth-provider`) | one-time records: pushed requests, interactions, consents, codes, sessions, refresh tokens, used refresh tokens | PAR, authorize, token, revoke | Accounts' verification table |
| **PLC directory** (`apps/directory`) | operation log per DID, with nullified operations (D1) | submit an operation, read log, state, last operation | none |
| **Town** (`examples/town`) | one pending post in browser storage | publish, check, list posts, edit the profile | PDS |
| **Accounts SPA** (`apps/accounts/src`) | the cache of its query client, open dialogs | settings: birth date, app passwords | Accounts, PDS |
| Scripts, migrations | none | | |

How the parts interact: Accounts creates an identity by reserving a signing key
at the PDS, storing PLC material, and calling the PDS, which initialises RepoDO,
submits the operation to the directory, commits its own row and makes RepoDO
announce the account. Every record write goes from the PDS to RepoDO's write
queue, which commits, queues the event and delivers the outbox to SequencerDO.
Subscribers and relays read the stream from SequencerDO.

What is hard, and what makes each part correct:

- *Event path.* A commit and a seq cannot share a transaction. Calls may be
  lost before or after they are executed, or executed late; both objects may be
  lost at any point; RepoDO has one alarm for two purposes, and operations that
  set and delete it interleave with one that has already fired. Correct:
  exactly once, in commit order, nothing lost, always something armed, and
  eventually everything delivered.
- *Subscriptions.* Replay, broadcast, pruning and reconnection interleave.
  Correct: no gap the consumer is not told of, order, retention.
- *Blocks.* Streamed reads of an old root against later commits and
  reclamation; blocks removed and made reachable again. Correct: the current
  tree is always stored, garbage is always a candidate, reads within the grace
  period succeed, partial exports are complete.
- *Account creation.* Three services without a common transaction, concurrent
  requests, unknown outcomes. Correct: one identity per user and username, an
  active account exists everywhere and has been announced (section 4 shows how
  the announcement can be lost).
- *PLC operations.* Concurrent and recovery operations; a directory that reads,
  validates and stores in separate steps. Correct: one canonical chain; an update
  by Accounts never overrides a competing operation, and its outcome is what the
  user was told.
- *Reserved keys.* Requests for one DID race, and createAccount may be cut off
  anywhere. Correct: a key that a DID relies on stays its own, so that the request
  can be repeated.
- *Sessions and tokens.* Concurrent refreshes, replays, revocation, keys made by
  several first requests. Correct: one successor, a replay revokes, nothing
  survives revocation.
- *OAuth authorization.* A request travels through one-time records while users
  sign in and out. Correct: one code per request, for the user and account that
  were shown, sent to a page of the client.
- *Records and blobs.* Batches whose writes undo one another, references that move
  between records, bytes stored before they are registered, lists read page by page.
  Correct: references, events and lists are exact.
- *Town's publisher.* Uncertain writes and reloads. Correct: one draft, at most
  one record, no edit of what was not seen.
- *Settings.* Answers in any order to a page that caches. Correct: it shows what
  was stored, and what it told.

## 2. Plan

| Order | Modules | Contents | State |
|---|---|---|---|
| 1 | `Repositories`, `RepoOutbox`, `Sequencer`, `EventLog`, `Firehose`, `FirehoseProofs` | the event path, its abstract log, proofs | done |
| 2 | `BlockReclaim`, `BlockReclaimProofs` | commits, removal candidates, reclamation, streamed reads with time; proofs | done |
| 3 | `IdentityRegistry`, `Provisioning`, `ProvisioningRetry`, `ProvisioningProofs` | accounts created across four services; the abstract promise of ADR 0004; proofs of its safety and of the refinement | done |
| 4 | `PlcRules`, `PlcLog`, `PlcDirectory`, `PlcUpdate`, `PlcProofs` | the operation log under concurrent submissions; Accounts' update over it; proofs, and that the directory implements the log | done |
| 5 | `KeyReservations`, `PdsProofs` | signing keys reserved, claimed and used by concurrent requests; proof | done |
| 6 | `AppPasswordSessions`, `AppPasswordPage`, `AccountsProofs` | rotation with a grace period, signing keys; the page that lists app passwords; proofs about both | done |
| 7 | `OAuthGrants`, `ClientMetadata`, `OAuthAuthorization`, `GrantProofs`, `AuthorizationProofs` | codes, refresh rotation, replay, revocation, DPoP at the PDS; what a client is; PAR to code; proofs | done |
| 8 | `RepoRecords`, `Listings`, `PdsProofs` | batches, blob registration, references, expiry, `reserveRepo`; lists read page by page; proofs about both | done |
| 9 | `Town`, `Preferences`, proofs in `PdsProofs` and `AccountsProofs` | uncertain writes under one record key; preferences and the birth date; proofs about both | done |

## 3. The modules

**`Repositories`** declares what the two services have in common: the DIDs and
the bound on outbox ids.

**`RepoOutbox`** is RepoDO as its event outbox sees it. `pc[d]` is the control
point of the operation that holds the write queue (`serializeWrite`); the queue
itself is the fact that an operation starts only when `pc[d]` is `idle`.

| Action | Code |
|---|---|
| `ApplyWrites`, `AnnounceAccount` | commit or announcement with its events, and the `setAlarm` of `deliverEvents` |
| `FireAlarm`, `RunAlarm` | the runtime invokes `alarm()`, which waits in the queue and then starts to deliver |
| `SendBatch`, `Acknowledge` | one round of `flushOutbox`: the call leaves; its result deletes rows |
| `FinishDelivery`, `FailDelivery` | the two ends of `deliverEvents` |
| `FinishAlarm` | `reclaimBlocks` and the last `scheduleAlarm` |
| `Crash`, `Restart` | the instance is lost; the constructor |

A commit, its outbox row and the `setAlarm` that follows are one action: between
the transaction and `setAlarm` the code awaits nothing but settled promises
(`repo-do.ts` 186-194, with the comment at 193), and the runtime writes storage
operations of one turn together. An alarm's time is left out: an armed alarm may
fire at any moment, which allows every behaviour the times allow. While an alarm
is being handled the runtime reports no alarm unless one was set meanwhile, and
runs a lost invocation again. `deleteAlarm` during that time may cancel the
repetition; the model lets it, because the documentation of the runtime does
not exclude it.

**`Sequencer`** is SequencerDO. Time is a counter and `Date.now()` is assumed
monotone (with a clock that goes back, `lte(seq, prunedThrough)` could delete an
event younger than the window). `published` is a history variable: every row
`events` ever held. Each handler is one action, since none awaits before its
last storage call; `RpcSequenceCrash` is the case where the instance is lost at
the one `await` that matters. A connection that is refused (`FutureCursor`) is
`closing` from the start. `received` collects all the frames sent on a
connection. `SeqSpec` lets callers send exactly the batches that
`RequestsContiguous` of `Firehose` shows RepoDO sends, in any interleaving.

**`Firehose`** composes the two. `requests` and `replies` are the RPCs between
them. A request may be lost, or executed although its caller is gone; the answer
may be lost. `Sequence` is `rpcSequence` with its answer, `SequenceCrash`
without.

**`EventLog`** is what ADR 0012 promises: each repository commits events; the
stream carries each exactly once and in commit order per DID. `Log` in
`Firehose` is the refinement mapping: `committed` is `lastId`, and position *n*
of the stream is the row with seq *n*.

**`BlockReclaim`** is RepoDO as its block tables see it: `blocks` and `removed`
are the tables `blocks` and `removed_blocks`, `roots` is the history of the
repository's root, whose last element is the metadata row.

| Action | Code |
|---|---|
| `Commit` | `rpcApplyWrites` with a commit: `applyCommit`'s upserts into both tables, the event, and the `setAlarm` of `deliverEvents` |
| `Announce` | `rpcAnnounceAccount`, which matters here because it fills the outbox and sets the alarm |
| `DeliverySucceeds`, `DeliveryFails` | the two ends of `deliverEvents`; how batches travel is in `RepoOutbox` |
| `FireAlarm`, `RunAlarm` | `alarm()` invoked, and started by the write queue |
| `Reclaim`, `ReclaimFails` | `reclaimBlocks` with the `scheduleAlarm` after it; the catch branch |
| `Tick` | time |
| `Crash`, `Restart` | the instance is lost with its streams; the constructor |
| `StartRead`, `ReadBlocks`, `EndRead` | `rpcExportRepo`; one `read` of `exportRepoCar`; the end or cancellation |
| `GetBlocks` | the answer of `rpcGetBlocks`, an operator since it changes nothing |

A tree is given by the constants: `Values` and `Subtrees` of each node, and
`Below`, the set of blocks a node reaches (`TreeAssumption` says what `Below`
has to satisfy, which a recursive function over a finite tree does). A commit
moves to any of `Roots`. What `applyCommit` is handed as `newBlocks` and
`removedCids` comes from `DataDiff` of `@atproto/repo`, which is external. It
reports the difference of the two trees, and, path by path, records that are
still in the tree: a record some path gained is new, one some path lost is
removed, one that moved is neither, and two that swapped their paths are both. `Shared` lets every choice of these
happen.

`Date.now()` is replaced by ages: `removed[b]` and the age of a stream count
ticks, up to the largest value the code compares with (`2 * GracePeriod` and
`GracePeriod`), so time itself needs no bound. `alarm` is `{}` or holds the
ticks that are left, and its guard `alarm = {0}` is when it may fire; it may fire
later, and a queued operation may take any time. As in `RepoOutbox` an instance
may be lost anywhere between steps. A stream is a stack of items: the commit, a
node, the records of a node. `ReadBlocks` treats the top item as `exportRepoCar`
does, and a stream may stop for any time between reads. The code yields some
blocks later than it has read them; `sent` has them when they are read. The
order of the blocks in the file is left out.

`findReachable` awaits between batches of nodes, but the write queue keeps
commits out, so `Reclaim` is one action; `Walkable` is the condition under
which it does not throw. `rpcGetBlocks` is not in the write queue: a walk of it
reads a part of what an export from the same root reads.

**`Provisioning`** is account creation across four services. A slot of
`Requests` is one request to Accounts, `req[r]`, with the call of the PDS's
createAccount it makes, `call[r]`, which goes on when nobody waits for its
answer; the slot is free again when both have ended. Each action goes from one
`await` to the next.

| Action | Code |
|---|---|
| `Start`, `Insert`, `Find` | `AccountService.createAccount`, `reserveAccount`, and what the row found decides |
| `ReserveKey`, `Save`, `Reread`, `Release` | key reservation and PLC material; `saveProvisioningIdentity`; the row that is then there; `releaseEmptyProvisioningAccount` of the catch branch |
| `RepoStatus`, `PlcState`, `Activate` | `getProvisioningStatus`, before and after the attempt, and `activateAccount` |
| `Invite`, `Create`, `Answered`, `AnswerLost` | `generateInviteCode`, the call of the PDS and its three ends |
| `ClaimInvite`, `ClaimKey`, `RepoReserved`, `Submitted`, `Commit`, `Announced` | the PDS's createAccount |
| `ExecReserveRepo`, `ExecSubmit`, `ExecAnnounce` | RepoDO and the directory execute a call of the PDS, perhaps after it was given up |
| `ReserveKeyFails`, `SaveFails`, `StatusFails`, `InviteFails`, `InviteExpired`, `CallFails`, `CallLost`, `SentLost`, `Abort` | error branches, lost calls, and a Worker that stops anywhere |

A DID is a hash of its genesis operation, which names the username and two fresh
keys; DIDs are numbered and `handles[d]` is the username in operation *d*. The
material of an account (DID, keys, operation) is one value, since the check
`atproto_account_identity_material_check` of the table keeps its columns
together; reading it back compares the handle (`UseStored`). An invitation is
known to the one call that carries it, so only whether it has expired is left of
it. What the directory holds is whether the genesis operation is stored:
updates, which need an active account, belong to `PlcUpdate`. In the answer of
the directory `ensureDirectoryOperation` tells an accepted operation and one
that is in the log already apart no more than the model does.

**`IdentityRegistry`** is the promise: a username is given one DID for ever, only
that DID has effects, and it has had some before the account is active.
`Registry` in `Provisioning` maps to it.

**`ProvisioningRetry`** adds the variable `calm`: failures stop at some moment,
in any state.

**`KeyReservations`** is the table of reserved signing keys with the requests that
use it. `Reserve` is `reserve()` without a DID; `ReserveFor`, `Find` and `Insert`
are `reserve(did)`, whose insert may find that another request was faster;
`CreateAccount`, `Claim`, `ReserveRepo`, `Commit` are the steps of createAccount
that touch keys, for any DID and any key that anybody was told of: nothing in the
code ties the two before `claim`. A call that RepoDO executes after its caller has
ended is in `Provisioning`; here a request may be cut off after each step.

**`PlcRules`** holds the rules of `@did-plc/lib` as the directory applies them: an
operation follows one of the log (`Base`), is signed by a rotation key of it, and
replaces what comes after it if its key outranks and is not too late
(`ValidNext`, `Nullify`). An operation is a number, in order of signing, that
stands for its CID; `made` says what it contains. **`PlcLog`** is the promise: operations
are added one at a time, each valid for the log it is added to. **`PlcDirectory`** is
the code: `Receive` fixes the time of the submission, `Read` reads and validates,
`Batch` stores what was decided, whose unique index and whose condition on the head refuse it
when another submission came first. **`PlcUpdate`** puts Accounts on
top: a PATCH reads the head (`SignUpdate`), submits, and decides what to tell the user by
one later read (`Observe`); `Hold` lets holders of other rotation keys sign and
submit what they like, tombstones and recoveries included.

**`AppPasswordSessions`** goes from query to query: `Login` and `CreateToken` are
createSession; `Refresh`, `Rotate`, `Reread` and `Successor` are refreshSession;
`ListKeys` and `InitializeKey` are the signing key that the first request makes.
`held` are the JWTs that clients have, which outlive their rows. Ids are fresh.
**`AppPasswordPage`** is the list of the Settings page: reads of the
query client (`Fetch`, `List`, `Fetched`), the dialogs, and the routes behind them.
That `invalidateQueries` cancels a read under way unless there is no data yet, which it then joins,
is TanStack Query's and external (`Invalidated`).

**`OAuthGrants`** is the token and revocation endpoints. A client message may be
delivered any number of times, a slot handles one delivery from query to query;
`consumeRecord` is atomic (`Takes`), since better-auth deletes a verification row once and
returns nothing for an expired one. `CheckProof`, `ClaimProof` and `CreateNonce` are
the PDS's side: an access token with a DPoP proof. `records` remembers whom each
session was made for. That the authorization server accepts a DPoP proof once is
better-auth's replay store (`FreshProof`, external); at the PDS it is the code's. `Tick`
may not pass while a claim is between check and insertion for the rest of its life: five minutes
between two statements of one request.

**`ClientMetadata`** is the validation of a client's document and of redirect
URIs, as operators on URLs as records. **`OAuthAuthorization`** follows a pushed request
through the records that each handler consumes and replaces; a browser may post a consent twice, and
its user or the user's account may change in between. Records may expire at any time.

**`RepoRecords`** is a repository as its records and blobs see it. `ApplyWrites`
is `prepareCommit` with `applyCommit` for a batch that the PDS made of one of the four write requests
(`Batches`, as far as the scope allows); a failed precondition refuses the
batch; `FinishWrite` is the rest of the operation, after which the cached repository is set
or was dropped. `Upload`, `PutBytes`, `RegisterBlob` are an upload, outside the write queue
until it registers; `ReadMetadata` and `InitializeRepo` are
`reserveRepo`, which does not wait in the queue. **`Listings`** has the four lists:
records by newest or oldest key, blobs since a revision, repositories. Each page is read
from one immutable tree, so `ApplyCommit` comes between pages; repositories that
cannot be read are left out of their page.

**`Town`** is one browser with one page: the composer with its pending post in
local storage, the list of recent posts, the profile form. What was sent is executed
at any later time or never, and the page may be reloaded at any moment. A TID is
unique. Two pages at once are left out (a publisher reads local storage when it
is constructed).

**`Preferences`** is the list of preferences with the derived age, the column of the birth
date, and the Settings page that changes it: the cached date, one read under way with its
retries, saves under way, the dialog that waits for one of them.

## 4. What the runs check

**`firehose`** (`MCFirehose.cfg`): 1 DID, 4 events (so that an announcement of
three and a commit both happen), batches of 2, no subscriber and no pruning
(they do not influence the outbox). An outbox of three takes two rounds, so that
a late first batch meets a retry and a second batch. Several repositories in one stream
are covered by the theorems of section 5.

- `EventuallyAcknowledged`: an event leaves the outbox.
- `ImplementsLog`: every behaviour is a behaviour of `EventLog`, ADR 0012.

Fairness (`Fairness` in `Firehose`): the runtime constructs an instance whose
alarm is due (weak fairness); it invokes alarms, resumes the queue and its
continuations, reports lost calls and executes live ones (strong fairness). Strong
fairness is needed because a crash disables these steps and may recur: it says
that the network and the objects do not fail *every* time, which is the
assumption behind any retry. Nothing is assumed of writes, crashes or late calls.

**`block_reclaim`** (`MCBlockReclaim.cfg`): one stream, a grace period of 2
ticks, a retry after 1, 3 revisions over two trees: `p` holds record `x` and a
subtree `l` with `x` and `y`; `q` holds `y`. A block (`x`) occurs on two paths,
a subtree leaves and comes back when `p`, `q`, `p` are committed, and the record
`y` is in both trees. Three revisions are what it takes to leave a tree and come back;
the stream may have any `since`. The initial states include the one right after
the migration that made every stored block a candidate.

- `CurrentStored`: reclamation deletes no block of the current tree.
- `ReadsWithinGrace`: a stream finds a block missing only after it has lasted
  the grace period.
- `ExportComplete`: a finished partial export and the client's tree make up the
  tree the export started from, although whole subtrees are skipped.

**`block_reclaim_fair`** (`MCBlockReclaimFair.cfg`): no stream, a grace period of
1 tick and reclamation batches of 2, smaller than what one commit removes.

- `GarbageEventuallyDeleted`: garbage is deleted, or current again, in the end.

Fairness (`Fairness` in `BlockReclaim`): time passes and an instance with a due
alarm is constructed (weak); alarms are invoked, the queue advances, deliveries
come to one of their ends, and reclamations succeed now and then (strong, for
the same reason as above). That deliveries succeed is *not* assumed: the alarm
that retries them reclaims too. `<>[][~Announce]_vars` says that announcements end, as
commits do with `MaxRev`: a repository that is written to for ever faster than
the retry interval while no delivery succeeds puts its one alarm off for ever.

The comment of `scheduleAlarm` (`repo-do.ts` 239-240) and ADR 0015 say that a
repository reclaims at most once per grace period. `alarm()` also reclaims when it runs as the
outbox retry, so that with failing deliveries it happens more often; nothing is deleted too early
(`ReadsWithinGrace`).

**`provisioning`** (`ProvisioningRetry.cfg`): one user and username, two requests
at a time, two keys. Every failure may happen at every point until failures end.
Several users who compete for usernames are covered by the theorems of section 5.

- `ActiveVerified`: an active account has its record at the PDS, its repository
  and its operation in the directory.
- `ImplementsRegistry`: every behaviour is one of `IdentityRegistry`.
- `RetriesActivate`: once an identity is stored the account becomes active, whatever
  has happened before.

Fairness: failures end, requests
and calls that were started go on and what was sent is executed (weak), and the
user repeats the request while the account is not active (strong, because the
slots may be busy in between); the code itself repeats nothing, it answers
`provisioning` and leaves the retry to its user.

**`active_announced`** (`ActiveAnnounced.cfg`) is a run that finds a violation.
The PDS's README says that a new account emits `#identity`, `#account` and
`#sync`. `createAccount` announces it after the batch that commits the account
and deletes the key reservation (`server.ts` 158-170). If the announcement
fails there, Accounts finds the account ready and activates it, and nothing
calls `rpcAnnounceAccount` again.

**`pds`** (`MCPds.cfg`) explores what the PDS keeps outside the repositories, one
independent part at a time: the stream for 2 DIDs, 2 subscribers, 2 events per DID, 3 ticks with a retention of 1
tick and pruning every tick; the preferences with 2 clients; the page, which shares only the birth date with them, with 2 saves,
each with 5 dates of which two are valid (the others are not a date, before 1900, or in the future),
over the days before and after a birthday on February 29; 3 signing keys, 2 DIDs, 2 requests.

- `SeqNeverReused`: a seq names one event for ever, also after pruning.
- `NoSilentGap`: a consumer without `OutdatedCursor` has every event after the
  position it asked for.
- `OneAge`: clients that put back what they read leave exactly one declared age, that of the stored
  date today.
- `ShownWasStored`: whatever overlaps or fails, the page shows a date that the PDS has had. It
  may be an older one: two saves can be executed in another order than
  they are answered, a late background read replaces a newer date, and an
  answer may be lost.
- `KeyForOneDid`: no two repositories have one key, and a key that was answered for a DID,
  or is in its repository, stays reserved for it until it has its account.

**`plc`** (`MCPlc.cfg`): the managed key and one other in both orders of
precedence, 3 operations, 3 endpoints, two submissions and two PATCHes at a
time, a recovery window that is over after one tick. Three operations are a genesis, an update
and what competes with it.

- `ImplementsLog`: the directory, which validates on what it read, is as good as one that does all at once.
- `OneUpdatePerHead`, `NoAccidentalRecovery`: of two updates of Accounts for one head one is
  stored; none takes an operation of somebody else out of the log.
- `ConflictIsFinal`: what was reported as a conflict is stored by then or never.

**`accounts`** (`MCAccounts.cfg`): sessions of 1 password with 2 requests, 3 refresh
tokens, 2 keys, a life of 3 ticks and a grace period of 2; the page with 2 names and 2 creations. Three
tokens are a login and two rotations, or two racing ones.

- `SameSuccessor`: the answers to one token name one successor.
- `RetryServed`: as long as a rotated token is valid so is its successor.
- `TokensVerifiable`: every JWT's key is published, however many first requests race.
- `RevocationEnds`: no row of a revoked password, not by a request that found it earlier either.
- `ToldIsListed`: what the user was told, after the list was loaded, is what it shows at
  rest. (A creation that ends before the first read has answered joins that read, which may be
  older; an answer that is lost tells nothing and refreshes nothing.)

**`oauth_grants`** (`MCOAuthGrants.cfg`): 2 holders of keys, 1 code, 2 requests at a
time, 3 messages each delivered any number of times, 2 token sets; lives of 0 to 2 ticks
in the order of the code's.

- `ExchangedOnce`, `ReplayRecognised`: one token set for each code and token; a replay is
  recognised while the session lasts. Between consuming a token and recording it as used a replay finds nothing and gets
  nothing.
- `ReplayNeedsTwo`: delivering one message twice takes no session from its client.
- `RevokedEnds`: no session after a revocation with a live token was answered to the session's holder. (A
  request that had read it before may still issue an access token, which lives five minutes.) The endpoint
  answers 200 for every token. `revoked` records what it answered, and whether the token was live when it was
  looked up: an access token that had not expired, a refresh token with a row among those to exchange or
  those that were used. The second lookup comes after the first (`revocation.ts` 33-47), so a token that is
  exchanged between them is found. What is *not* claimed, since the code does not do it: a refresh
  token that an exchange has consumed (`token.ts` 242) and not yet recorded as used (266) is in neither table; its
  revocation is answered and the session lives on with the new tokens. It stays so if the exchange
  is cut off there. Of an expired access token nothing is claimed either.
- `ProofServesOnce`, `HeldByOne`: the PDS serves a proof once; tokens are of use to the
  holder of the key only.

**`oauth_authorization`** (`MCOAuthAuthorization.cfg`): 2 pushes, 1 challenge and 1
state (so that they collide), 2 browsers, 2 users, 2 accounts, 4 records; clients are well-formed or differ from it in one respect.

- `InOnePlace`: a request is in one place, so it leads to one code.
- `ShownAndAllowed`: a code is for the user and account of the page that was shown.
- `SentToClient`: a code goes to a page that belongs to the client.

**`repo_records`** (`MCRepoRecords.cfg`): 2 paths, 2 records one of which mentions
a blob, batches of up to 2 writes, 3 revisions, 2 uploads and 2 reservations at a time; and, one list at a
time, keys 1 to 4, pages of up to 2, 3 commits. A batch of two is the smallest that moves a reference
from one record to another or undoes itself.

- `ReferencesExact`: the references are those of the records, and each of these blobs is served.
- `UploadUsable`: an uploaded blob can be referenced for a day. (An upload of a blob that is published
  registers nothing, so deleting its last reference ends it.)
- `CacheIsHead`: the next write builds on the head.
- `EventIsDifference`: a commit's event is the net change.
- `ListingComplete`: what was there all the time is listed once and in order.

**`town`** (`MCTown.cfg`): 3 texts, 3 keys, 3 sends of each post; and, while the posts are not used, 2 profiles and
3 edits by other clients. The two meet only in the composer, which cannot be used while the editor is open, and
in the reload, so that posts go through the same with the editor closed.

- `NoDuplicate`: one text is posted under one key.
- `ShownStays`: a post that was read back stays in the list.
- `EditReplacesSeen`: a save replaces the profile that was seen. (A post that is deleted
  elsewhere before it is read back leaves the composer at "Retry reading". The button of that name above
  the list of posts is not modelled: it reads the list as a publication does, under the same `readVersion`.)

Deadlock is not checked where the model really may stop, which is a bound of it and not of the code:
when the keys of `provisioning` are used up, or the tokens, messages,
revisions or sends of `accounts`, `oauth_grants`, `repo_records` and `town`.

Bounds are constants with `Max` in their name (outbox ids, ticks, revisions, keys,
tokens, messages, sends, records), and in `Preferences` the sequence `Days`; they are guards of the
actions that would exceed them. Symmetry is used only in runs without a liveness property.
`pds`, `accounts` and `repo_records` hold parts that share no state; a behaviour of the composition is an
interleaving of behaviours of the parts, so each invariant of one part is checked on all its behaviours.

## 5. What is proved

`FirehoseProofs` proves, for every set of repositories, every batch size and
every number of events, subscribers and ticks:

| Theorem | Property |
|---|---|
| `TypeCorrect` | `TypeOK` |
| `PublishedExactlyOnce` | `ExactlyOnce` |
| `PublishedInCommitOrder` | `CommitOrder` |
| `NoEventLost` | `NothingLost` |
| `OutboxStaysArmed` | `OutboxArmed` |
| `SubscribersMissNothing` | `NoSilentGap` |
| `SeqsNameOneEvent` | `SeqNeverReused` |
| `FirehoseImplementsLog` | `ImplementsLog` |

The assumptions are those on the constants: `BatchSize` and `PruneInterval` are
positive, the rest are naturals.

`ExactlyOnce` and `CommitOrder` are not inductive: they depend on which batches
may still be on their way. `IInv` adds that

- the outbox is a suffix of the committed ids, starting no later than after the
  last accepted one (`OutboxIsSuffix`): a retry may repeat accepted events and
  never skips one;
- every batch on its way, however old, is a run of committed ids without a gap
  after the accepted ones (`RequestsContiguous`); accepted ids only grow, so a
  late batch stays harmless;
- answers name accepted ids (`RepliesAccepted`), so acknowledging one keeps the
  outbox a suffix;
- the stream holds exactly the accepted ids, below `lastSeq` (`StreamIsAccepted`).

The proof has one lemma for each kind of step (`RepoInvStep`,
`SequenceInvStep`, `SkipInvStep`, `InternalInvStep`), over lemmas on `Batch`
(the first rows of an outbox without holes are a run) and on what `rpcSequence`
makes of such a run (`SequencedRun`). `OutboxArmed` is inductive given
`TypeOK`. `NoSilentGap` needs that the retained rows are exactly the published ones
above the prune point (`PrunedIsPrefix`): a replay from there then skips nothing, and
a cursor below it is told that it is outdated.

For the refinement, `Stream` of `Firehose` lists the published events by seq.
`EverySeqNamesAnEvent` makes it a sequence (`StreamFacts`), `StreamIsAccepted` says
how many events of each repository it holds (`DoneIsAccepted`, a bijection), and a
batch that stores anything appends the next events of its repository, in order
(`StoreExtends`), which is `EventLog`'s step. Commits are its other step; everything
else leaves it alone (`LogStep`).

`BlockReclaimProofs` proves, for every set of trees, every number of streams and
revisions, every grace period, retry interval and batch size:

| Theorem | Property |
|---|---|
| `ReclaimTypeCorrect` | `TypeOK` |
| `CurrentTreeStored` | `CurrentStored` |
| `GetBlocksCorrect` | `GetBlocksExact` |
| `CurrentSinceRevision` | `StoredSinceRevision` |
| `ReadsOutliveReclaim` | `ReadsWithinGrace` |
| `ExportsComplete` | `ExportComplete` |

The assumptions are `TreeAssumption` and `TimeAssumption`. `Below` is a constant
with its defining equation, rather than a recursive definition, so that no
induction over trees is needed: that the equation has the set of reachable
blocks for its solution is the tree's finiteness, which TLC evaluates on the
instance.

The inductive invariant `IInv` has four parts beside types:

- `CurrentStored`, and `GarbageListed`: a stored block outside the current tree
  is a candidate. Reclamation needs it to have anything to settle, and
  `rpcGetBlocks` to answer without a walk.
- `RevisionBacked`: a stored block that is in a tree at or after its revision
  has been in all the trees between. For the last tree it is
  `StoredSinceRevision`; for the earlier ones it lets an export of an old root
  conclude that what it skips is what the client holds.
- `StreamCovered`: the items a stream has left are of its tree, and while it is
  younger than the grace period every block of its tree is stored and is either
  current or was removed since the stream started. This is where reclamation's
  age limit, the new time of a block removed again, and the walk meet.
- `ReadsWithinGrace` itself.

`ExportComplete` needs one more, `StreamComplete`: each block of the stream's
tree is sent, held by the client, or below an item that is left
(`AfterReadComplete` for a read; `SubtreeHeld` for a subtree that is skipped).

`ProvisioningProofs` proves, for every number of users, usernames, concurrent
requests and keys:

| Theorem | Property |
|---|---|
| `ProvisioningTypeCorrect` | `TypeOK` |
| `UsernameHasOneIdentity` | `OneIdentityPerUsername` |
| `ActiveIsVerified` | `ActiveVerified` |
| `AnnouncedLast` | `AnnouncedAfterRecord` |
| `ProvisioningImplementsRegistry` | `ImplementsRegistry` |

The assumptions are that `NoUser` and `NoName` are no user and no username. The
inductive invariant `IInv` says of each row, request and call what it relies on:
a stored DID was made for the username of its row, and usernames are unique
(`RowsOK`); the DID a request is about to save was made for its username, and the
one it goes on with is stored (`RequestsOK`); a call is for a stored DID and has
done what comes before its control point (`CallsOK`); everything known outside
Accounts is stored, and an account's record comes after its repository and its
directory entry (`ServicesOK`). No stored DID is ever lost, since `Save` and
`Release` touch empty rows only, so what goes on after its request or its caller
has ended remains covered (`RowMonotone`, `RequestMonotone`, `CallMonotone`). The
refinement uses that a username's row decides its identity (`RowsRegister`):
`Save` is `Choose`, `Activate` is `Activate`, the effects at RepoDO and the
directory are `Produce`, and every other step leaves the abstract variables
alone.

`PdsProofs` proves `KeyTypeCorrect` and `KeyServesOneDid` (`KeyForOneDid`) for any number
of DIDs, keys and requests, assuming that `NoDid` and `NoKey` are no DID and no key.
`KeyForOneDid` says nothing of requests under way. `KeyInv` adds that the DIDs of rows
are unique; that a request which claimed a key has it reserved, or in its repository
(`RequestOK`): another request for the same DID may have committed and deleted the
row meanwhile; that a key in a repository is reserved for nobody else (`RepoKeysBound`); and that a key
about to be inserted is nowhere yet. `BindStep` covers the three actions that write a row.

`PlcProofs` proves, for every number of keys, submissions, updates, operations and
every window:

| Theorem | Property |
|---|---|
| `TypeCorrect` | `TypeOK` |
| `UpdatesOncePerHead` | `OneUpdatePerHead` |
| `ManagedNeverRecovers` | `NoAccidentalRecovery` |
| `ConflictStays` | `ConflictIsFinal` |
| `DirectoryImplementsLog` | `ImplementsLog` |

It assumes what the PLC specification requires of an operation, that its rotation keys
are distinct (`validator.ts` 103-117 does not check it). The inductive invariant says that
a log links each operation to an earlier one it supersedes (`Ordered`), that the
managed key is the last rotation key of the operation that Accounts builds on, so that what it signs outranks
nothing (`ManagedLast`), and of each submission that the history it read is an earlier state of the log
(`SnapshotOK`). The lemma behind `DirectoryImplementsLog` is that the conditions of the batch hold only if
nothing has been added since.

`AccountsProofs` proves, for every number of requests, keys, tokens and app passwords and
every grace period and lifetime:

| Theorem | Property |
|---|---|
| `SessionTypeCorrect` | `TypeOK` |
| `RetriesNameOneSuccessor` | `SameSuccessor` |
| `RetriesAreServed` | `RetryServed` |
| `TokensStayVerifiable` | `TokensVerifiable` |
| `RevokedHasNoSessions` | `RevocationEnds` |

`SameSuccessor` speaks of answers only. `IInv` extends it to what a request is about
to answer (`OneSuccessor`) and says that it is what the table holds while the row
exists (`ToldIsStored`). `RetryServed` needs that a successor outlives its
predecessor (`SuccessorOutlives`); a request that is about to rotate the successor
shortens its life, and keeps the order because it arrived after the first rotation
(`RotationsOrdered`). Only a logout removes a successor alone, and what was logged out has no row
again (`LogoutFinal`). `RowsOwned` makes `RevocationEnds` survive a login that verified the
password before.

`AccountsProofs` proves also, of the two dialogs of the Settings page, for every number of names, calls,
saves, clients, dates and days:

| Theorem | Property |
|---|---|
| `PageTypeCorrect` | `PageTypeOK` |
| `ToldListed` | `ToldIsListed` |
| `PrefTypeCorrect` | `PrefTypeOK` |
| `ToldOneAge` | `OneAge` |
| `ShowsStored` | `ShownWasStored` |

`ToldIsListed` speaks of a list at rest. `ToldTrue` says that the rows agree with what the user was told,
since an answer that is on its way is true (`AnswersTrue`) and a row that is gone does not come back (`IdsOnce`).
`FoundAgrees` says the same of what a read has found and not yet shown: being told something cancels such a read
(`TellKeeps`), unless the list was never loaded, when nothing counts as told; what rows do afterwards
leaves the agreement alone (`RowsKeep`).

`OneAge` compares the formula of `ageOf` with the number of birthdays that have come:
`BirthdaysAre` shows that their years are an interval, whose length the formula gives. That needs a
birth date that is not in the future, as it was when it was stored, and days only pass (`BornBefore`). Its other half is
that stored preferences are of the app.bsky namespace and not derived ones. `ShownWasStored` needs the same of whatever the
page may come to show (`WereStored`). `PrefAssumption` says that `Days` are dates in order, that users enter dates,
and that `Foreign`, `Personal` and the declared ages are preferences of their own.

`GrantProofs` proves, for every number of clients, codes, messages, requests, sessions
and tokens and for all lifetimes with `ProofLife < ClaimLife`:

| Theorem | Property |
|---|---|
| `GrantTypeCorrect` | `TypeOK` |
| `GrantsExchangedOnce` | `ExchangedOnce` |
| `ReplaysRecognised` | `ReplayRecognised` |
| `ReplayTakesTwo` | `ReplayNeedsTwo` |
| `RevokedSessionsEnd` | `RevokedEnds` |
| `ProofsServeOnce` | `ProofServesOnce` |
| `SessionsHeldByOne` | `HeldByOne` |

Records, tokens and messages are sequences that only grow (`Grows`), so what a request
found stays true of it. `Base` says which message a request handles at each step, and
for which session (`HandledBy`). Over it:

- `TakenOnce`: a code or refresh token is in its table, or held by one request
  between consuming it and issuing its successor, or the origin of one token; never
  two of these. `NewTokens` keeps a token unknown until its record is written.
- `Remembered`: an exchanged refresh token has its used record, with the expiry of the session,
  before the first token of the exchange exists.
- `GoneWasPresented` and `ReplayIsReal`: a refresh token that is gone was presented in
  a message that no request is still about to use for consuming it; whoever finds it gone
  handles another message.
- `RevocationSure`: a request to revoke with a live token that finds no session has none to find: a refresh
  token that is still there at its second lookup was too old at the first (`LooksOn`; `NotBack`: none comes
  back), a used one is remembered as long as its session (`UsedLast`), and so `LooksInVain`.
- `ClaimsKept` and `HeldToTheEnd`: a proof that served has its claim until the proof is too
  old, which is where `ProofLife < ClaimLife` is used; and the holder that was checked
  is the holder of the session.

`AuthorizationProofs` proves, for every number of pushed requests, browsers, users,
accounts and clients:

| Theorem | Property |
|---|---|
| `AuthorizationTypeCorrect` | `TypeOK` |
| `RequestsInOnePlace` | `InOnePlace` |
| `CodesAsShown` | `ShownAndAllowed` |
| `CodesSentToClient` | `SentToClient` |

It assumes that redirect URIs are URLs (`Url`). `InOnePlace` counts; `OnePlace` names the
place of a pushed request, which is nowhere until `CreatePar` and then in one record, handler or code.
Each action leaves the places alone (`PlacesShrink`) or moves one request from one place to another
(`PlacesMove`). `RowOK` says what a handler has read and compared so far, which is how
`CreateCode` knows that the user and the account are those of the consent. `PushesOK` says that the
redirect URI was matched against the client; since only a stored request is anywhere, that is
the URI of every code, and `DocumentPage` and `LoopbackPage` say what a match means for either kind of client.

`PdsProofs` proves also, for every number of paths, records, blobs, uploads and calls of
`reserveRepo`, and for batches of any length:

| Theorem | Property |
|---|---|
| `RecordsTypeCorrect` | `TypeOK` |
| `ReferencesStayExact` | `ReferencesExact` |
| `UploadsStayUsable` | `UploadUsable` |
| `CacheStaysHead` | `CacheIsHead` |
| `EventsTellTheDifference` | `EventIsDifference` |

What a batch makes of the repository is a recursive function (`Prepare`). That the function is
what its defining equation says (`PreparesExists`), and what all its values satisfy (`PrepareOK`),
is proved by taking the least write for which it fails: the natural numbers are well founded
(`LeastNumber`), which replaces induction. `PreparedOK` says that paths that are not touched keep their record and that
what the others mention is available. `ReferencesExact` then needs that what is registered has its
bytes in the bucket, also while an upload is between its two halves (`Objects`);
`UploadUsable`, that a promised blob has an unreferenced row that lives as long
(`PromisesKept`); `initializeRepo`, that what it replaces is empty (`NothingYet`).
`CacheIsHead` gives `EventIsDifference` the right base.

`PdsProofs` proves also, of a client that writes to its repository (`Town`), for every number of texts, profiles,
record keys, requests and edits by other clients:

| Theorem | Property |
|---|---|
| `TownTypeCorrect` | `TownTypeOK` |
| `TextsPostedOnce` | `NoDuplicate` |
| `PostsStayShown` | `ShownStays` |
| `EditsReplaceSeen` | `EditReplacesSeen` |

The inductive invariant `TownInv` says that the pending post of the publisher is the one in
local storage, also after a reload (`ComposerOK`); that each key was used for one text and each text for one key
(`BodiesOK`); and that neither the text area nor the draft holds what was sent, unless its post is pending
(`TextsOK`), so that a key is made up for a text that has none. `ShownOK` says that at most one list is awaited and that
it has what the page shows, because a post is shown only after the lists that might lack it are outdated. `PutsOK` says
that a request names the profile that the user saw. `TownAssumption` says that `NoText` is no text, and
that `NoProfile` and `"any"`, which stands for a request that names no profile, are no profiles.

And of clients that read lists page by page (`Listings`), for every number of records, blobs, accounts and
commits and pages of any length:

| Theorem | Property |
|---|---|
| `ListTypeCorrect` | `ListTypeOK` |
| `ListsComplete` | `ListingComplete` |

Three facts about the operators come first. Every finite set of numbers has its ascending sequence
(`AscendingIs`, again by taking the least size of a set that has none). The leaves that the loop of `rpcListRecords`
retains are the last ones that it saw (`RetainedIs`). So what is found for a page is all there is, or one
more than the page holds, and then whatever is not after the last item of the page is in it (`GoodPage`, by
`ForwardPage` and `BackwardPage`). The inductive invariant `ListInv` says that the client has
what was there all the time as far as the cursor (`ListedSoFar`), and that a blob that only older
records mention is in its copy (`CopyKnown`); `PageKeeps` shows that a good page extends that as far as the next cursor.
`ListAssumption` says that record keys and DIDs are finitely many, and that keys, CIDs and DIDs are
numbers other than `None`, which stands for no cursor.

Only model-checked: the three liveness properties (`EventuallyAcknowledged`,
`GarbageEventuallyDeleted`, `RetriesActivate`), which are beyond the prover.

## 6. What is not modelled

Event contents and frames; the encoding of RPCs and the parsing of HTTP, JWTs and
handles; the alarm's times in `RepoOutbox` (`BlockReclaim` has them); how writes become a tree; reads that
are not streamed from an old root; reserved usernames; rows that nothing reads (the PDS's `refresh_tokens`);
the case in which RepoDO replaces an incomplete initialisation, since
`initializeRepo` is one transaction, and
the load of the repository that follows it (`repo-do.ts` 106-108) is part of its step, as it
awaits local storage only; the bearer tokens of app
passwords at the PDS (`resource.ts` 111-131), which read the published keys and one account; retiring signing keys, which no code does.
Service JWTs, the service proxy, email login, the other pages, scripts and migrations
keep no state that several steps depend on. A prune alarm that is
not armed because the instance is lost right after a transaction
(`sequencer-do.ts` 99) is a behaviour of the model: pruning then waits for the
next event, which delays deletion and breaks no property.
