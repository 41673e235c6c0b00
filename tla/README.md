# A verification development for the IndustrialPlanner backend

This directory holds TLA+ models of the backend, the TLC configurations that
check them on small instances, and proofs of theorems about them for TLAPS. The
reference is the code under `packages/`; `PROJECT.json` maps every definition
that models code to the lines it stands for.

## 1. Inventory

| Component | State it keeps | Operations | Talks to | Modules |
|---|---|---|---|---|
| sync: uploads (`packages/sync`) | D1: spaces, upload batches, upload items, delete items, assets, operation guards. R2: two slot keys per asset, multipart uploads | prepare, PUT, commit, cancel, transaction abort, recovery by cron | D1, R2; clients through tokens; cron | `SpaceModel`, `SpaceStore`, `SpaceService`, `SpaceRevisions` |
| sync: downloads | the ticket a client holds | plan, download | D1, R2 | `SpaceReader` |
| sync: space expiry | lifecycle and clean-up lease of the space row | create space, claim and clean up in bounded runs | D1, R2; cron | `SpaceExpiry` |
| sync: scheduled maintenance | the order of batches and spaces | one unit of work per cron slot | the two above | `SpaceMaintenance`, `MaintenanceTurns` |
| sync: routes and access, gateway, identity's sessions | owners of spaces, sessions, settings of each worker | session check at the gateway and again in sync, access check, the space of an account | identity by a shared key | `SyncAccess` |
| oauth (`packages/oauth`) with identity (`packages/identity`) | D1: login transactions, provider mappings, callback codes; accounts | begin authorization, callback, exchange of the callback code; create account and session | login provider, identity | `OAuthLogin`, `LoginSessions` |
| telemetry (`packages/telemetry`) | D1: one row per install, day and trigger | upload | - | `TelemetryShadow` |
| shared (`packages/shared`) | none | JWT, CORS, errors, utilities | - | the decision of a JWT check, in `SyncAccess` |
| assets (`packages/assets`) | none | a stub | - | - |

**What is hard.** Everything runs in stateless workers: there is no lock but what
a D1 row says, every request interleaves with every other between any two
calls, and a worker may vanish between them.

* *sync* replaces the published state of a space while readers keep using it.
  D1 batches are atomic, R2 calls are not and cannot be part of them; a commit
  completes its R2 uploads first, publishes in D1, and deletes R2 objects after
  that. It is protected by a lock (`pending_upload_id`), a compare-and-swap on
  the revision, item leases, a persistent recover guard, and two fixed slot keys
  per asset of which uploads write the one readers do not use.
  Correct means: one upload at a time; a commit becomes visible entirely or not
  at all, and only forward; the slot readers use is never written; what is sealed
  is complete; whatever is begun is finished or rolled back; a download gives
  the bytes its ticket names or none; what expires disappears completely and
  takes nothing else with it; one failing unit of work does not stop the rest.
* *oauth* consumes single-use rows before calls that may fail, and two callbacks
  of a new user race to create its account. Correct means: a login and a code are
  used once, one subject has one account, and nothing is given for settings that
  no longer hold.
* *sync access*: the gateway and sync each decide which requests need a session,
  and the row that was checked may be gone when the handler runs. Correct means:
  a handler works on the requester's own space.
* *telemetry* keeps one upload of a key whatever races over midnight.

The hazards at their lines, with the properties that cover them or the reason why
none does, are in `PROJECT.json`.

## 2. Plan

1. **SpaceModel, SpaceStore, SpaceService, SpaceRevisions**: the upload
   transaction, the core of the system, with its abstract specification. Done;
   types, lock, revision, forward-only states, guard, contents of the rows, the
   objects behind them and the refinement are proved.
2. **SpaceReader**, **SpaceExpiry**, each composed with SpaceService, and
   **SpaceMaintenance** over several spaces with **MaintenanceTurns**, its history. Done;
   every safety property is proved, and one more, which needs the history.
3. **OAuthLogin** with identity and the abstract **LoginSessions**,
   **SyncAccess**, **TelemetryShadow**. Done; every safety property and the
   refinement are proved.
4. Left: whether the revisions of a space that expires still refine `SpaceRevisions`.

## 3. The modules

`SpaceModel` has the pure decisions of `space_model.ts` and their callers: backend
hysteresis, the target slot, reuse of a stored copy, and the asset upsert.
`SpaceStore` has the rows and objects of one space and one operator per repository
operation; a D1 `batch()` is a transaction, so each is one atomic step, written
as a condition (`Can...`, the guard's CHECK or the WHERE clause) and an effect.
`SpaceService` has the handlers. `SpaceRevisions` is the abstract specification.

| Code | Model |
|---|---|
| a request or cron invocation | a worker `w`, its locals in `req[w]`, the next call in `req[w].pc` |
| the request's `deps.now` | `req[w].now`, the clock when the request started |
| `prepareSpaceUpload` | `StartPrepare` or `RetryPrepare`, `ReadPending`, `ReadSpace`, `ReadAsset`, `Reserve` |
| `uploadSpaceObject` | `StartPut`, `Claim`, `Create`, `SetMultipart`, `UploadPartTo`, `MarkReady`, `Release` |
| `commitSpaceUpload` | `StartCommit`, `BeginCommitStep`, `RereadBatch`, then recovery |
| `recoverBatch` | `RecoverBatch` (dispatch), `AcquireGuard`, `Complete`, `CompleteFails`, `Finalize`, `DeleteAssetObjects`, `DeleteFails`, `MarkDeleted`, `ReleaseGuard` |
| `cancelSpaceUpload`, `abortSpaceTransaction`, `cancelInternal`, `forceCancelInternal` | `StartCancel`, `StartAbort`, `BeginCancelStep`, `BeginForceAbortStep`, `AbortMultiparts`, `FinishCancelStep` |
| `cleanupRecoverableBatches`, `runScheduledCleanup` | `StartCron` for one space, `SpaceMaintenance` for the choice among many: `IsNext`, `CronTurn`, `RecoverBatch`, `RecoveryFails`, `CleanSpace` |
| `planSpace`, `downloadSpaceObject` | `SpaceReader`: `PlanSpace`, `Download` (row and snapshot), `GetObject` (R2) |
| `createSpace`, `cleanupExpiredSpaces`, `claimExpiredSpace` | `SpaceExpiry`: `CreateSpace`, `ClaimExpired`, `ListRows`, `AbortListed`, `DeleteKeys`, `DeleteListed`, `FinishCleanup`, `ReleaseLease` |
| statements that require an active space | `SpaceGuarded`: `Step` goes on, `Refused` is the handler's answer to a statement that matches no row |
| `beginAuthorization`, `completeCallback`, `exchangeCallbackCode` | `OAuthLogin`: `Begin`; `StartCallback` to `InsertCode`; `StartExchange`, `ConsumeCode`, `CreateSession` |
| `OidcClient`, `OrangeAuthClient` | `Token`, `Userinfo`, `Revoke`; the provider's side in `grant` |
| `authorizeSyncRequest` (gateway), `authenticateRequest`, `assertSpaceAccess`, `getOrCreateAccountSpace` | `SyncAccess`: `Send` with `GatewayAdmits`, `Authenticate`, `Access`, `InsertMine`, `SelectMine` |
| `validateTelemetryV1`, `insertTelemetry` | `TelemetryShadow`: `Validate`, `Insert` |
| R2, D1, identity or the provider failing | the failing alternative of the call's action, `...Fails`, `D1Fails`, `End`, `Fail` |
| eviction of the worker, or an error no handler catches | `Crash`, `CleanerCrash` |

Abstractions:

* A payload (hash, size, encoding) is one value; `Size` gives its bytes.
* A batch is identified by its client batch id; it also names the target revision,
  whose digest covers that id, and the etag, version and uploadId metadata of the
  objects completed for it.
* Calls of one handler that nothing can come between to any effect are one step:
  the three parallel reads of a PUT, the HEAD and complete of one R2 item, the
  reads of items between acquiring the guard and completing (a committing
  batch's items change only in `finalizeCommit`), the multipart aborts of a cancel
  (any subset may fail), and the list read right after `finalizeCommit`.
* `completeR2Items` and `deleteR2Items` walk lists in some order; the model takes
  any order. The order of the rows a clean-up lists is left open too.
* Requests refused before their first write (tokens, sizes, hashes, a batch that
  is already closed) change nothing and are left out; their conditions are the
  guards of the `Start...` actions. The batch token expires with its batch, so
  `StartCommit` and `StartCancel` require an unexpired batch, and the
  410 branch of commit for an expired batch cannot be entered.
* In `SpaceService` and `SpaceReader` the space is an account's, which never
  expires; `SpaceExpiry` gives it a life.
* `SpaceMaintenance` takes a unit of work (a bounded run over a space, the recovery of
  a batch) as one step with its possible ends: inside, it is `SpaceExpiry` and
  `SpaceService`. The step stands at the start of the request or invocation, whose time
  `updated_at` gets. Batches with the same `updated_at` are not represented (the queue is
  a total order). `Account` stands for as many spaces as it has batches.
* In `OAuthLogin` a login stands for its state, PKCE verifier and nonce, and a
  subject for the pair (provider_key, subject). The ID token's signature and
  claims are checked by code that is not modelled: the provider is honest.
* In `SyncAccess` the settings of the three workers are chosen once, each on its
  own: a request reads each worker's settings once, so that what a deployment in the
  middle of a request can bring about is there as a pair of settings. The workers
  share one clock. An invalid `ALLOW_ANONYMOUS_SPACES` makes the gateway
  answer 500 to every request, and sync only to those without a session, which is
  why `GatewayAgrees` speaks of valid settings.
* `last_error` and the answers' texts are not modelled.

## 4. What the runs check

A run takes at most about three minutes with two TLC workers.

| Run | Instance | States | Shows |
|---|---|---|---|
| `race` | two workers, any request each, two uploads, failures, leases that run out at once and are overtaken, expiry | 766,000 | `TypeOK`, `LockInv`, `RevisionInv`, `GuardInv`, `NothingWrittenBeforeCommit`, `SealedInv`, `TargetSlotInv`, `ForwardOnly`, refinement of `SpaceRevisions` |
| `live` | client and cron, two uploads with deletions, expiry, R2 failures, one crash outside the guard | 31,000 | `LockReleased`, `DeletionsReclaimed` |
| `downloads` | one writer and one reader, three uploads, payloads at, between and above the two thresholds, deletions, one crash outside the guard | 729,000 | `PublishedRowInv`, `PublishedObjectInv`, `DownloadMatchesTicket`, `DownloadSurvivesPublish`, `StaleOnlyAfterPublish` |
| `expiry` | an anonymous space, one writer, two invocations of the clean-up, two uploads with deletions, one fault | 345,000 | `NothingLeft`, `ObjectsNamed`, `CleanupExcludesRecovery`, `LiveUploadKept`, `UploadsIntact`, `ExpiredReclaimed` |
| `maintenance` | three batches, one of them in an anonymous space; either a batch that R2 can never complete or one whose objects it can never delete; one failed commit a client may repeat; a guard that may be left behind in the anonymous space | 43,700 | `GuardedSpaceKept`, `OthersRecovered`, `SpacesReclaimed`, `DeletionsRetried` |
| `login` | two logins, two people, one with each provider, two requests, one deployment | 798,000 | `TypeOK`, `OwnAccount`, `AccountsSeparate`, `OneSessionPerLogin`, `CodeMatchesConfig`, refinement of `LoginSessions` |
| `access` | two accounts and nobody, two requests, four space ids, every pair of settings | 1,203,000 | `TypeOK`, `HandlerOwnsSpace`, `OneSpacePerAccount`, `MineIsThere`, `GatewayAgrees`, `AdmittedByBoth` |
| `telemetry` | two uploads, two installs, one spelled in two ways, two days | 120,000 | `OneRowPerDay`, `AcknowledgedKept` |
| `late_cleanup` | three uploads, one worker | | finding: a late clean-up removes a re-created asset's object |
| `wrong_part` | two workers, one upload | | finding: a batch seals without its part |
| `orphan` | crash inside the guard | | finding: the guard is left behind for ever |
| `cancel_puts` | two PUTs, one client | | finding: cancel does not wait for a PUT in progress |

**The refinements.** `ImplementsRevisions` maps the revision, the epoch, the hash
column of the asset rows, the lock and the plans of the batches to
`SpaceRevisions`, where an upload is begun, abandoned, sealed and published, and
publishing applies its plan in one step. All other steps of the handlers have to
stutter: nothing of an open upload shows, no late cancellation unlocks another
batch, no sealed one is abandoned, and a deletion is of something that is there.
`ImplementsLogin` maps the login rows, the provider's answers, the mapping table
and the sessions to `LoginSessions`: a login is opened, approved, spent, and
issues at most one session, for the account its person has. Accounts that are
created and lost a race, codes that nobody uses and answers that are
lost are stuttering steps.

**Findings.** Each `violation` run checks one promise quoted in `PROJECT.json`.
`PublishedObjectInv` says how far the first goes: a published slot never holds
other bytes than it was published with; it can only be empty, and only
after a deletion of that asset. `SealedInv` (every reserved item is staged as far as its
row can tell) holds; `SealedPartsInv` (R2 agrees with the row) does not.
`GuardInv` is proved with crashes (`GuardCorrect`); a begun commit is published (`LockReleased`: the
lock of a sealed batch is released only by publishing it) only while no worker
disappears with the guard, which is what `GuardCrashes` selects.

**Known limits of the code that the properties are stated around.**

* `OthersRecovered` excepts a guard left behind in a space that does not expire (`Blocked`).
  `recoverBatch` then answers 409 before it can record an error, so the batch stays the
  oldest, and every invocation's turn for batches ends at it (`RECOVERABLE_BATCHES_PER_CRON`
  is 1). In an anonymous space it lasts until the space expires; after that
  `claimExpiredSpace` never takes that space, which `SpacesReclaimed` excepts. Run `orphan`
  shows how a guard is left behind; no text says what the cron does then.
* `DeletionsRetried` excepts a recovery that fails for ever: pending deletions are
  looked at only by an invocation that finds no recoverable batch, and a
  committing batch that R2 cannot complete (run `wrong_part`) is recoverable every
  time and cannot be cancelled.
* `OneTurnEach` counts units of work that end or fail and are recorded. An invocation that is
  lost, or finds a PUT in progress in the batch it is to cancel, or a guard left behind,
  records nothing, and the same batch comes up again.
* `ObjectsNamed` and `NothingLeft` are about one life of a space (`MaxSpaces` = 1
  in the run). An invocation that outlives its lease goes on deleting the rows and
  objects of the list it has read; if another invocation has finished and the
  space is created again under the same id by then, it takes the new space's asset
  rows with it. `UploadsIntact` is about the first space of an id for the same reason: in a
  later one a request of the earlier life may still be running. Ids of anonymous spaces are chosen by clients and no text
  promises otherwise.
* Of two concurrent telemetry uploads of one key the one whose INSERT comes last
  stays, which need not be the one stamped last.
* Paths under `mine/` skip the access check; `HandlerOwnsSpace` holds because no
  route can create a space of that name.

**Bounds.** `MaxTime` bounds the clock, `LastPrepare` the time of the last new
batch (0 in the passing runs, so that every batch can expire by the end of time: an
expired upload is cancelled by cron and by the retry of its prepare; that a new prepare
finds one in its way and cancels it first is in `SpaceService`, not in these instances),
`MaxCrashes` the crashes, and in `SpaceExpiry` also the failing calls of the
clean-up, `LastCrash` the time of the last crash of a cleaner, after which its
lease still runs out, `Multiparts` the multipart uploads ever created,
`Uploads` the batches, `MaxRetries` the failing retries of a client. `MayBreak` lists
the batches and stages that may fail for ever together, one set per behaviour (a batch whose
assembly never completes, or one whose old object is never deleted), and `MayStick` the
batches of an anonymous space whose guard may be left behind. `MaxSpaces` is how often a space is created, `MaxDeploys` the
deployments. A lock hand-over and a race for it need two uploads; publish, delete
and re-create need three; a slot is written for the second time by the third upload.
The payloads of `downloads` are at the lower threshold, strictly between the two, and two
at the upper one: the one in between stays in D1 or in R2, wherever the asset is, and three that R2 keeps
write a slot twice. A crash inside the guard shows a reader no row and no object that it does
not see between two calls, so `GuardCrashes` is off there. That a plan read before another
upload's publication is not stored after it needs two writers: `race` checks `TargetSlotInv`.
Two workers give every race between a request and another one; two cleaners
with `MaxRun` above `CleanupLease` give the take-over of a lease whose owner still
works. `RowLimit` is 2, so that a run takes one table at a time; a table of this
instance never holds more. `LeaseTime` is 2 in `expiry`, so that a PUT's lease runs on past the
space's expiry, and 0 in `race`, where every lease can be overtaken at once.
`cancel_puts` has three workers so that two PUTs and a third request overlap.
Two logins are enough for two first callbacks of one person, or of two; an account is created
at most once per login. In `telemetry` a day is two units of four: midnight
passes once between any stamp and its INSERT. Time is taken at its interesting instants:
before, at and after a bound. `Duty` restricts what each worker may run where the
full product is not needed; `race` and `expiry` restrict nothing.

**Deadlock** is not checked where an instance with bounded uploads, time and crashes
stops when all is done; `maintenance`, whose cron fires for ever, checks it.

**Fairness.** A running request goes on (`WF` of `Advance`, of `Step` or
`Refused`): the runtime drives promises to completion; a request that is dropped is
a `Crash`. Cron fires every few minutes (`WF` of `StartCron`, of `CleanerStep`, which
begins with the claim, and of an invocation in `SpaceMaintenance`), time passes.
`Complete`, `DeleteAssetObjects`, `Finalize` and `MarkDeleted` are strongly fair: R2 and
D1 may fail any number of times, but not every time for ever; in `SpaceMaintenance` the
same is said of each unit of work, unless it is one of the `broken` ones, which fail
every time they come up. Clients retry what fails `MaxRetries` times: each retry is an attempt
at the recovery itself, and does not fail for ever either. Nothing is assumed of clients: they may stop at any point.

## 5. What is proved

All of it holds for every value of the constants that satisfies the named
assumptions of the modules.

`TypeCorrect`: `Spec => []TypeOK` under `ModelAssumption`, `StoreAssumption` and
`ServiceAssumption`. `TypeOK` is not
inductive: a step takes the batch it acts on out of the worker's record, where it
may be `None`. `TypeInv` adds `Coherent`: a worker in a PUT has a batch and an
asset, one in a commit, recovery or cancellation has a target batch, one in
prepare knows the batch it goes on with after recovering another.
`SpaceServiceProofs` has one lemma per repository operation (it preserves
`StoreTypeOK`), one per control operator (it builds coherent
records) and one per handler; `TypeInvariance` puts them together.

`LockCorrect`, `RevisionCorrect`, `ForwardCorrect`: `LockInv` and `RevisionInv`
are invariants of `Spec`, and `ForwardOnly` holds of its steps, under the same
assumptions. The inductive invariant `LockIInv` adds three things to them.

* `CancellingInv`: `finishCancel` clears the lock and cancels without checking that
  the batch has begun to cancel; a worker that arrives there has seen it do so,
  maybe long ago, and a cancelling batch can only have become cancelled since.
* `BaseInv`: prepare computes the epoch from the space row it read, and several
  calls later `Reserve` compares only the revision. As long as that is still the
  revision, the epoch still is the next one: publishing gives the space
  a batch that was never published before, so the revision cannot come back.
  This needs that the base prepare holds is itself a published batch.
* `DeletedInv`: only a published deletion is cleaned up, so that the rows a new
  or a cancelled batch overwrites are never cleaned-up ones.

The proof has two halves that share nothing but `TypeInv`: `LockStep` says what a
step may do to the space, batch and delete rows, `RequestStep` what it may do to
the record of the worker that takes it; each is established handler by handler
(`PrepareLockStep`, `PrepareRequestStep`, and so on), and `LockStepKeepsRows` and
`RequestsKept` conclude from them alone.

`GuardCorrect`: `GuardInv` is an invariant of `Spec`. It is not inductive, since
it says nothing of a worker that enters the guarded calls without the
guard and then releases another's; `HeldInv` adds that the calls from completing
to releasing are made by a worker that holds the guard, and that it is held only
there and in the clean-up that follows publishing. `GuardStep` says what a step
may do to the guard rows, again one lemma per handler.

`PublishedRowCorrect`, `SealedCorrect`, `TargetSlotCorrect`: the contents of the
rows, from `ContentInv` on top of `LockIInv` (`SpaceContentProofs`).

* `RowsInv`: the columns of a published row agree, and a D1 copy kept for reuse is
  what its hash column says; without the second half, an item that reuses the copy
  could publish a row that announces something else.
* `MutationsInv`: what the state of a batch says of its item and delete rows. Of a
  prepared batch only an item that says `ready` has its payload, of a committing one
  every item has; until the batch is closed, the slot of an R2 item is not the
  published one.
* `PlansInv`: the same of the items that prepare has built and not yet stored, as
  long as the revision it was based on is still the published one. prepare reads one
  row per call; that no publication fell in between is seen only when `Reserve`
  compares the revision, and a revision never comes back (`BaseInv`).

Again two halves: `ContentStep` says what a step may do to the rows, `PlanStep` what
it may do to the items in a worker's record, handler by handler.

`PublishedObjectCorrect`, `NothingWrittenCorrect`: the objects in R2 agree with the
rows, from `ObjectsInv` on top of the lock, guard and content invariants.

* `WorkInv`: a worker inside the guarded calls has a committing batch, and an item it
  no longer lists is already written, or deleted by a published deletion. A worker that
  deletes objects does so for a published deletion only.
* `SlotsInv`: the object of a recorded slot is intact, or was taken by a published
  deletion, or belongs to a slot the committing batch is about to write; that is
  never the published one (`MutationsInv`).
* `UnwrittenInv`: an object comes from a batch whose commit began.

A guard that any second worker could hold would let it publish with the list of
the first: `GuardInv` and the lock leave one worker that completes a batch
(`OneCompletes`). `WorkStep` says, handler by handler, what a step may do to the objects
and to the lists in the workers' records; `CommittedByFinalize` that only
`finalizeCommit` publishes a batch, and `RowsStandStill` that no other step changes
an asset's row except to record a deleted slot.

`RevisionsImplemented`: `Spec => ImplementsRevisions`. Under the refinement mapping
`Reserve` is `Begin`, `finishCancel` is `Abandon`, `beginCommit` is `Seal`,
`finalizeCommit` is `Publish`, and every other step stutters. That `Publish` puts
exactly the plan of the batch in place needs `SealedInv`'s strengthening: a reserved
item announces the blob of the plan, and no mutation of the batch is in another state.

`SpaceReaderProofs`: `ReaderTypeCorrect`, `DownloadCorrect`, `SurvivesCorrect` and
`StaleCorrect`, under `ReaderSpec` and `ReaderAssumption` as well. Readers change none of the
uploads' variables, so `ObjectsIInv` still holds; `TicketsInv` says what a reader knows.

* `TicketOK`: a ticket names a published revision, and while that is the revision
  the asset has the hash it had. The revision never comes back to it: what publishes is a
  batch that was never published (`LockIInv`).
* `FetchOK`: a download counts epochs as its ticket counts revisions. In its own epoch
  the row is the one it read; in the next the slot it read is still recorded,
  since an upload never goes to the published slot (`MutationsInv`), unless the asset
  was deleted.

`SlotsInv` then gives the object (`ObjectStays`), and with it both survival and that
"stale" has no other reason. `StandsOrPublishes` is all that is needed of the uploads' steps.

`SpaceExpiryProofs`: `ExpiryTypeCorrect`, `ExclusionCorrect`, `ObjectsNamedCorrect`,
`NothingLeftCorrect`, `LiveUploadKeptCorrect`, under `ExpiryAssumption` and `NoLateCleaner`:
either a space id is created only once, or no invocation of the cron outlives its lease. The
first is what random ids give, however slow an invocation; with neither, a late
invocation deletes what a new space of the same id has written, which section 4 describes.
`ExpiryIInv` has, besides types and guard:

* `CleanersInv` and `ExclusionInv`: while an invocation runs the space is not active, and a
  space that is not active has no recover guard. So no worker is inside the guarded calls,
  and a statement that requires the space is refused.
* `NamedInv`: the item row an object was written for is still there; it is stronger
  than `ObjectsNamed`, and `ChildrenInv` (a batch that is gone has no items) keeps a late request
  from undoing it.
* `ListingInv`: what an invocation has listed. Another may take the space over, and late requests
  go on, but listed rows can only disappear: their keys stay those to delete, none of them becomes
  an upload in progress, and a key whose object was deleted is not written again.
* `GoneInv`: when the space row is gone, so is every other row.

A worker's step is judged by two facts alone: `Keeping` (items stay, and objects appear only
where an item is) and, once the space is not active, `Settling` (nothing is added or claimed);
`WorkersMind` establishes both from the lemmas about SpaceService's handlers, `Refused` included.

`UploadsIntactCorrect` (`UploadsIntact`), without `NoLateCleaner`, carries the theorems about `Spec`
over to a space that expires. Until the first space of an id is marked deleting no clean-up is
running (`FirstInv`), so a step is one of SpaceService, one that only starts or ends an
invocation, or a statement refused at the expiry. The last two move nothing but a worker's record
(`OffRecord`), and are judged by the same `RequestStep`, `PlanStep` and `WorkStep` as the handlers.

`OAuthLoginProofs`: `LoginTypeCorrect`, `AccountsCorrect`, `OwnAccountCorrect`,
`OneSessionCorrect`, `MappingCorrect` under `LoginAssumption`, from one inductive
invariant. `RequestsOK` says what a request has established by the call it is at: from
the consumed login on nobody has made a code for that login, the subject is the one
that approved it, an account about to be mapped is nobody's, a code about to be
exchanged for a session has none. `RequestsApart` says what two requests never
share: a login after it was consumed, a new account, a consumed code.
`CodesOK` and `SessionsOK` say the same of the rows they leave behind. Without
`RequestsApart` two callbacks that race could each be right and map one account
to two people. `SessionTimeCorrect` proves `SessionInTime`, with the times of requests and
codes as a second invariant on top of that one. `ConfigCorrect` proves
`CodeMatchesConfig`: the person who approved a login is known to the provider it was
begun with, and a request that has consumed a login was configured for it, however
the configuration changed before or after (`ConfigInv`). `LoginImplemented` proves
the refinement of `LoginSessions`: the sessions of a login are the first sessions of
its exchanged codes, and every call is one abstract step or none.

`SyncAccessProofs`: `AccessTypeCorrect`, `AccessCorrect`, `OwnSpaceCorrect`
(`OneSpacePerAccount`), `MineCorrect`, `AdmissionCorrect` (`AdmittedByBoth`), `GatewayCorrect`, under
`AccessAssumption`. The invariant is about what stays true of a row between the
check and the handler: an owner, once set, never changes and its row never expires
(the schema's triggers, `LifecycleOK`), an anonymous space that is removed may
come back only as an anonymous one, and no row has the id `mine`. `AdmissionInv` follows a request
from worker to worker: one that has reached the sync worker satisfies the gateway's setting
or key (`Forwarded`), one past its check both (`LetIn`), and so does every row that a request has
written; sessions are never taken back and each setting is the one chosen at the start (section 3),
so nothing of this goes stale.

`TelemetryShadowProofs`: `TelemetryTypeCorrect`, `OneRowCorrect` (`OneRowPerDay`) and
`AcknowledgedCorrect` (`AcknowledgedKept`): stored hashes are in lower case, keys are unique
and every row lies on the day of its stamp.

`MaintenanceProofs`: `MaintenanceTypeCorrect` (`MaintenanceTypeOK` of `Spec`; no run
checks it: `updated_at` is one column of one row, so the code could not break the queue's shape), `GuardedSpaceCorrect` (`GuardedSpaceKept`: a
guard is taken in a space with all its rows, and a claim takes none from a space with a guard) and
`OneTurnCorrect` (`OneTurnEach` of `TurnsSpec`), under `MaintenanceAssumption`. `Requeued` is a
rotation of the queue: it keeps the order of the others and puts its batch behind them
(`RotatedOrder`). So a batch that was worked on while another waited stands behind that one
(`BehindInv`), and the cron takes only what no waiting batch of its list precedes
(`NextIsOldest`), until somebody works on the one that waits. `MaintenanceTurns` only adds the
history that counts the turns; no run checks it, since liveness with that history is too large.

Only model-checked: liveness under fairness (`LockReleased`, `DeletionsReclaimed`,
`ExpiredReclaimed`, `OthersRecovered`, `SpacesReclaimed`, `DeletionsRetried`), which the proof
system does not handle, and so would be `ENABLED`. No recursive definition is used.

## 6. What is not modelled

The wire formats of the login providers (discovery, token parsing, signatures),
the JWT and token cryptography, CORS, input validation and canonical JSON are pure functions of
one request: a request they refuse changes nothing. Migrations are used for what
the final schema enforces, not for the conversion of old rows; scripts and workflows
run outside the program. `R2` and `D1` themselves are external; `SpaceStore` has
what the code uses of them. Account spaces and anonymous spaces in one instance,
and several spaces call by call, are left to `SyncAccess` and `SpaceMaintenance`: the upload
path never reads another space's rows.
