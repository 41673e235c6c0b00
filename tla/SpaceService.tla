---------------------------- MODULE SpaceService ----------------------------
(***************************************************************************)
(* The handlers of the sync worker for one account space.  A worker is one *)
(* running request or cron invocation; it advances by one D1 or R2 call    *)
(* per step, so that the calls of concurrent requests interleave, and what *)
(* it read earlier stays in its record while the store moves on.           *)
(*                                                                         *)
(* A request takes its time once, when it starts (deps.now); clock is the  *)
(* time of day.  A worker may disappear at any step (isolate eviction, a   *)
(* deployment, the client's disconnect): nothing of it survives but what   *)
(* it has already written.                                                 *)
(***************************************************************************)
EXTENDS SpaceStore

CONSTANTS
    Workers,        \* concurrent requests
    Plans,          \* validated request contents of prepare
    Duty,           \* [Workers -> SUBSET Ops]: the requests a worker may run
    MaxTime,        \* bound of the clock
    LastPrepare,    \* bound: no new batch is begun after this time
    MaxCrashes,     \* bound of the crashes
    GuardCrashes    \* may a worker crash while it holds a recover guard?

Ops == {"prepare", "put", "commit", "cancel", "abort", "cron"}

NoPlan == [put |-> [a \in Assets |-> None], del |-> {}]

ASSUME ServiceAssumption ==
    /\ Plans \subseteq [put : [Assets -> BlobOrNone], del : SUBSET Assets]
    /\ NoPlan \notin Plans
    /\ \A p \in Plans : \A a \in p.del : p.put[a] = None
    /\ Duty \in [Workers -> SUBSET Ops]
    /\ MaxTime \in Nat
    /\ LastPrepare \in Nat
    /\ MaxCrashes \in Nat
    /\ GuardCrashes \in BOOLEAN

VARIABLES
    clock,
    crashes,
    req             \* what each worker is doing

vars == <<storeVars, clock, crashes, req>>

\* pc is the next call of the worker.
Pcs == {"idle", "readPending", "readSpace", "readAssets", "reserve",
        "claim", "create", "setMultipart", "uploadPart", "markReady", "releaseItem",
        "beginCommit", "rereadBatch", "acquireGuard", "complete", "finalize",
        "deleteObjects", "markDeleted", "releaseGuard",
        "beginCancel", "beginForceAbort", "abortMultiparts", "finishCancel"}

(***************************************************************************)
(* op: the request; u: its batch; t: the batch it is recovering, cancelling*)
(* or cleaning up; a: the asset in hand; now: deps.now; mp: the multipart  *)
(* of a PUT; base, plan, epoch, items: what prepare was given and has      *)
(* built; todo: rows it has listed and not yet handled; held: it holds the *)
(* recover guard of t; failed: it will throw once the guard is released.   *)
(***************************************************************************)
Request ==
    [pc : Pcs, op : Ops \cup {"none", "retry"}, u : UploadOrNone, t : UploadOrNone,
     a : Assets \cup {None}, now : Nat, mp : Multiparts \cup {None},
     base : UploadOrNone, plan : Plans \cup {NoPlan}, epoch : Nat,
     items : [Assets -> ItemRow], todo : SUBSET Assets,
     held : BOOLEAN, failed : BOOLEAN]

Idle ==
    [pc |-> "idle", op |-> "none", u |-> None, t |-> None, a |-> None, now |-> 0,
     mp |-> None, base |-> None, plan |-> NoPlan, epoch |-> 0,
     items |-> [a \in Assets |-> AbsentItem], todo |-> {},
     held |-> FALSE, failed |-> FALSE]

TypeOK ==
    /\ StoreTypeOK
    /\ clock \in Nat
    /\ crashes \in Nat
    /\ req \in [Workers -> Request]

Init ==
    /\ StoreInit
    /\ clock = 0
    /\ crashes = 0
    /\ req = [w \in Workers |-> Idle]

-----------------------------------------------------------------------------
(* Control flow of a worker *)

At(w, pc) == req[w].pc = pc
Continue(w, r) == req' = [req EXCEPT ![w] = r]
Goto(w, pc) == Continue(w, [req[w] EXCEPT !.pc = pc])
Finish(w) == Continue(w, Idle)

\* A new request of worker w, its first read already taken.
Start(w, op, r) ==
    /\ At(w, "idle")
    /\ op \in Duty[w]
    /\ Continue(w, r)
    /\ UNCHANGED <<clock, crashes>>

New(op, pc, u, t) ==
    [Idle EXCEPT !.op = op, !.pc = pc, !.u = u, !.t = t, !.now = clock]

LocalStep == UNCHANGED <<storeVars, clock, crashes>>
StoreStep == UNCHANGED <<clock, crashes>>

\* What is left to delete of batch t, as listDeleteItems returns it.
PendingDeletes(t) == {a \in Assets : del[t][a] = "committed"}

\* The request content a batch was reserved for (its descriptor_hash).
PlanOf(u) ==
    [put |-> [a \in Assets |-> item[u][a].blob],
     del |-> {a \in Assets : del[u][a] # "absent"}]

\* Only prepare goes on after recovering another batch; the rest answer.
AfterRecover(r) ==
    IF r.op = "prepare"
    THEN [r EXCEPT !.pc = "readSpace", !.t = None, !.todo = {}, !.held = FALSE]
    ELSE Idle

\* cleanupPublishedDeletions swallows errors: whatever is left waits for cron.
AfterCleanup(r) ==
    IF r.held THEN [r EXCEPT !.pc = "releaseGuard", !.todo = {}, !.a = None]
    ELSE AfterRecover([r EXCEPT !.a = None])

EnterCleanup(r, todo) ==
    IF todo = {} THEN AfterCleanup(r)
    ELSE [r EXCEPT !.pc = "deleteObjects", !.todo = todo]

\* recoverBatch(t) with the batch row r.t as it is read now.
RecoverBatch(r) ==
    CASE batch[r.t].state = "committed"  -> EnterCleanup(r, PendingDeletes(r.t))
      [] batch[r.t].state = "cancelling" -> [r EXCEPT !.pc = "beginCancel"]
      [] batch[r.t].state = "committing" -> [r EXCEPT !.pc = "acquireGuard"]
      [] batch[r.t].state = "prepared" /\ Expired(r.t, r.now)
                                         -> [r EXCEPT !.pc = "beginCancel"]
      [] OTHER                           -> AfterRecover(r)

-----------------------------------------------------------------------------
(* prepare *)

\* A client can name the revisions the service has issued so far.
KnownRevisions == {None} \cup {u \in Uploads : batch[u].state # "absent"}

\* A clientBatchId never seen before: recoverSpace follows.
StartPrepare(w, u, base, plan) ==
    /\ batch[u].state = "absent"
    /\ clock <= LastPrepare
    /\ Start(w, "prepare",
             [New("prepare", "readPending", u, None) EXCEPT !.base = base, !.plan = plan])
    /\ UNCHANGED storeVars

\* The same request again.  Only an expired or a committing batch makes the
\* handler act before it answers.
RetryPrepare(w, u, base, plan) ==
    /\ batch[u].base = base
    /\ PlanOf(u) = plan
    /\ "prepare" \in Duty[w]
    /\ At(w, "idle")
    /\ \/ /\ batch[u].state = "prepared" /\ Expired(u, clock)
          /\ Continue(w, New("retry", "beginCancel", u, u))
       \/ /\ batch[u].state = "committing"
          /\ Continue(w, New("retry", "acquireGuard", u, u))
    /\ LocalStep

ReadPending(w) ==
    /\ At(w, "readPending")
    /\ Continue(w, IF space.pending = None THEN AfterRecover(req[w])
                   ELSE RecoverBatch([req[w] EXCEPT !.t = space.pending]))
    /\ LocalStep

\* space_locked and revision_mismatch are answered here.
ReadSpace(w) ==
    /\ At(w, "readSpace")
    /\ IF space.pending # None \/ space.revision # req[w].base
       THEN Finish(w)
       ELSE Continue(w, [req[w] EXCEPT
                           !.pc = "readAssets", !.epoch = space.epoch + 1,
                           !.todo = {a \in Assets : req[w].plan.put[a] # None}
                                      \cup req[w].plan.del])
    /\ LocalStep

\* The upload item for blob, given the asset row read for it.
PlannedItem(row, blob) ==
    LET backend == SelectStorageBackend(row.backend, blob)
    IN  [AbsentItem EXCEPT
           !.state = IF ReusableCopy(row, backend, blob) THEN "ready" ELSE "issued",
           !.blob = blob,
           !.backend = backend,
           !.slot = IF backend = "r2" THEN TargetR2Slot(row, blob) ELSE "a"]

\* One getAsset per planned mutation; a deletion of a missing asset is a 404.
ReadAsset(w, a) ==
    /\ At(w, "readAssets")
    /\ a \in req[w].todo
    /\ LET rest == req[w].todo \ {a}
           r == [req[w] EXCEPT !.todo = rest,
                               !.pc = IF rest = {} THEN "reserve" ELSE "readAssets"]
       IN  IF a \in req[w].plan.del
           THEN IF asset[a].hash = None THEN Finish(w)
                ELSE Continue(w, r)
           ELSE Continue(w, [r EXCEPT !.items[a] = PlannedItem(asset[a], req[w].plan.put[a])])
    /\ LocalStep

Reserve(w) ==
    /\ At(w, "reserve")
    /\ IF CanReserve(req[w].u, req[w].base)
       THEN ReserveUpload(req[w].u, req[w].base, req[w].epoch, req[w].items,
                          req[w].plan.del, req[w].now)
       ELSE UNCHANGED storeVars
    /\ Finish(w)
    /\ StoreStep

-----------------------------------------------------------------------------
(* PUT of one object *)

\* The item row is read before the claim: its multipart id stays in req.
StartPut(w, u, a) ==
    /\ space.pending = u
    /\ batch[u].state = "prepared" /\ ~Expired(u, clock)
    /\ item[u][a].state \in {"issued", "uploading"}
    /\ Start(w, "put",
             [New("put", "claim", u, None) EXCEPT !.a = a, !.mp = item[u][a].mp])
    /\ UNCHANGED storeVars

Claim(w) ==
    /\ At(w, "claim")
    /\ LET u == req[w].u
           a == req[w].a
       IN  IF CanClaim(u, a, req[w].now)
           THEN /\ ClaimItem(u, a, req[w].now)
                /\ Goto(w, IF item[u][a].backend = "d1" THEN "markReady"
                           ELSE IF req[w].mp = None THEN "create" ELSE "uploadPart")
           ELSE Finish(w) /\ UNCHANGED storeVars
    /\ StoreStep

\* createMultipartUpload hands out an identifier nobody has.
Create(w) ==
    /\ At(w, "create")
    /\ \/ \E m \in Multiparts :
            /\ multipart[m].state = "free"
            /\ CreateMultipart(m, req[w].u, req[w].a)
            /\ Continue(w, [req[w] EXCEPT !.pc = "setMultipart", !.mp = m])
       \/ Goto(w, "releaseItem") /\ UNCHANGED storeVars
    /\ StoreStep

SetMultipart(w) ==
    /\ At(w, "setMultipart")
    /\ SetMultipartId(req[w].u, req[w].a, req[w].mp)
    /\ Goto(w, "uploadPart")
    /\ StoreStep

\* R2 may fail; it does when the multipart has been aborted or completed.
UploadPartTo(w) ==
    /\ At(w, "uploadPart")
    /\ \/ /\ multipart[req[w].mp].state = "open"
          /\ UploadPart(req[w].mp)
          /\ Goto(w, "markReady")
       \/ Goto(w, "releaseItem") /\ UNCHANGED storeVars
    /\ StoreStep

MarkReady(w) ==
    /\ At(w, "markReady")
    /\ IF CanMarkReady(req[w].u, req[w].a)
       THEN MarkItemReady(req[w].u, req[w].a) /\ Finish(w)
       ELSE Goto(w, "releaseItem") /\ UNCHANGED storeVars
    /\ StoreStep

Release(w) ==
    /\ At(w, "releaseItem")
    /\ ReleaseItem(req[w].u, req[w].a)
    /\ Finish(w)
    /\ StoreStep

-----------------------------------------------------------------------------
(* commit and the recovery of a committing batch *)

\* The commit token is good until the batch expires; the other states are
\* answered without a write.
StartCommit(w, u) ==
    /\ batch[u].state \in {"prepared", "committing", "committed"}
    /\ ~Expired(u, clock)
    /\ batch[u].state = "committed" => PendingDeletes(u) # {}
    /\ Start(w, "commit",
             IF batch[u].state = "prepared" THEN New("commit", "beginCommit", u, u)
             ELSE RecoverBatch(New("commit", "idle", u, u)))
    /\ UNCHANGED storeVars

BeginCommitStep(w) ==
    /\ At(w, "beginCommit")
    /\ IF CanBeginCommit(req[w].t, req[w].now)
       THEN BeginCommit(req[w].t) /\ Goto(w, "rereadBatch")
       ELSE UNCHANGED storeVars /\ Finish(w)
    /\ StoreStep

RereadBatch(w) ==
    /\ At(w, "rereadBatch")
    /\ Continue(w, RecoverBatch(req[w]))
    /\ LocalStep

\* Items whose multipart upload has to be completed.
MultipartItems(t) ==
    {a \in Assets : item[t][a].backend = "r2" /\ item[t][a].mp # None}

\* Without the guard: the result if it is there by now, else 409.
AcquireGuard(w) ==
    /\ At(w, "acquireGuard")
    /\ LET t == req[w].t
       IN  \/ /\ CanAcquireGuard(t)
              /\ AcquireRecoverGuard(t)
              /\ Continue(w, [req[w] EXCEPT
                                !.held = TRUE, !.todo = MultipartItems(t),
                                !.pc = IF MultipartItems(t) = {} THEN "finalize" ELSE "complete"])
           \/ /\ ~CanAcquireGuard(t)
              /\ Continue(w, IF batch[t].state = "committed" THEN AfterRecover(req[w]) ELSE Idle)
              /\ UNCHANGED storeVars
    /\ StoreStep

\* The error goes to last_error; the finally clause releases the guard.
FailRecovery(w) ==
    Continue(w, [req[w] EXCEPT !.pc = "releaseGuard", !.failed = TRUE, !.todo = {}])

CompletedItem(w, a) ==
    Continue(w, [req[w] EXCEPT !.todo = @ \ {a},
                               !.pc = IF req[w].todo = {a} THEN "finalize" ELSE "complete"])

\* An item without its part's etag, or not reserved, is refused.  HEAD shows
\* the object already there, or complete() creates it.
Complete(w, a) ==
    /\ At(w, "complete")
    /\ a \in req[w].todo
    /\ LET t == req[w].t
       IN  /\ item[t][a].part /\ item[t][a].state = "reserved"
           /\ \/ ObjectCompleted(t, a) /\ UNCHANGED storeVars
              \/ ~ObjectCompleted(t, a) /\ CanComplete(t, a) /\ CompleteMultipart(t, a)
    /\ CompletedItem(w, a)
    /\ StoreStep

\* R2 is unavailable, refuses the complete, or does not show the object.
CompleteFails(w, a) ==
    /\ At(w, "complete")
    /\ a \in req[w].todo
    /\ FailRecovery(w)
    /\ LocalStep

Finalize(w) ==
    /\ At(w, "finalize")
    /\ LET t == req[w].t
       IN  \/ /\ CanFinalize(t)
              /\ FinalizeCommit(t)
              /\ Continue(w, EnterCleanup(req[w], {a \in Assets : del[t][a] = "reserved"}))
           \/ ~CanFinalize(t) /\ FailRecovery(w) /\ UNCHANGED storeVars
    /\ StoreStep

\* R2 delete of both slot keys, from the list read when the cleanup began.
DeleteAssetObjects(w, a) ==
    /\ At(w, "deleteObjects")
    /\ a \in req[w].todo
    /\ DeleteObjects(a)
    /\ Continue(w, [req[w] EXCEPT !.pc = "markDeleted", !.a = a])
    /\ StoreStep

\* R2 is unavailable: the error is recorded and the rest is left to cron.
DeleteFails(w) ==
    /\ At(w, "deleteObjects")
    /\ Continue(w, AfterCleanup(req[w]))
    /\ LocalStep

MarkDeleted(w) ==
    /\ At(w, "markDeleted")
    /\ MarkDeleteItemDeleted(req[w].t, req[w].a)
    /\ Continue(w, EnterCleanup([req[w] EXCEPT !.a = None], req[w].todo \ {req[w].a}))
    /\ StoreStep

ReleaseGuard(w) ==
    /\ At(w, "releaseGuard")
    /\ ReleaseRecoverGuard(req[w].t)
    /\ Continue(w, IF req[w].failed THEN Idle ELSE AfterRecover(req[w]))
    /\ StoreStep

-----------------------------------------------------------------------------
(* cancel, abort and the cleanup cron *)

StartCancel(w, u) ==
    /\ batch[u].state \in {"prepared", "cancelling"}
    /\ ~Expired(u, clock)
    /\ Start(w, "cancel", New("cancel", "beginCancel", u, u))
    /\ UNCHANGED storeVars

\* DELETE of the pending transaction needs no batch token.
StartAbort(w) ==
    /\ space.pending # None
    /\ LET t == space.pending
       IN  /\ batch[t].state \in {"prepared", "cancelling"}
           /\ Start(w, "abort",
                    New("abort", IF batch[t].state = "prepared"
                                 THEN "beginForceAbort" ELSE "beginCancel", t, t))
    /\ UNCHANGED storeVars

\* A batch that cannot be cancelled is left as it is.
CancelStep(w, allowed) ==
    LET t == req[w].t
    IN  \/ /\ allowed
           /\ BeginCancel(t)
           /\ Goto(w, "abortMultiparts")
        \/ /\ batch[t].state = "cancelling"
           /\ UNCHANGED storeVars
           /\ Goto(w, "abortMultiparts")
        \/ /\ ~allowed /\ batch[t].state # "cancelling"
           /\ UNCHANGED storeVars
           /\ Continue(w, AfterRecover(req[w]))

BeginCancelStep(w) ==
    /\ At(w, "beginCancel")
    /\ CancelStep(w, CanBeginCancel(req[w].t, req[w].now))
    /\ StoreStep

BeginForceAbortStep(w) ==
    /\ At(w, "beginForceAbort")
    /\ CancelStep(w, CanForceAbort(req[w].t))
    /\ StoreStep

\* Each abort of a recorded multipart may fail and is not retried.
AbortMultiparts(w) ==
    /\ At(w, "abortMultiparts")
    /\ \E ms \in SUBSET {item[req[w].t][a].mp : a \in MultipartItems(req[w].t)} :
         AbortMultipartUploads(ms)
    /\ Goto(w, "finishCancel")
    /\ StoreStep

FinishCancelStep(w) ==
    /\ At(w, "finishCancel")
    /\ FinishCancel(req[w].t)
    /\ Continue(w, AfterRecover(req[w]))
    /\ StoreStep

\* Faulty variant: expired uploads are not picked up.
RecoverableIgnoringExpiry(u) ==
    space.pending = u /\ batch[u].state \in {"committing", "cancelling"}

\* listRecoverableBatches: the pending batch unless it is still being uploaded.
Recoverable(u) ==
    /\ space.pending = u
    /\ \/ batch[u].state \in {"committing", "cancelling"}
       \/ batch[u].state = "prepared" /\ Expired(u, clock)

\* Faulty variant: cron never returns to published deletions.
StartCronRecoverOnly(w) ==
    \E u \in Uploads :
      /\ Recoverable(u)
      /\ Start(w, "cron", RecoverBatch(New("cron", "idle", u, u)))
      /\ UNCHANGED storeVars

StartCron(w) ==
    \E u \in Uploads :
      /\ \/ Recoverable(u)
         \/ /\ \A v \in Uploads : ~Recoverable(v)
            /\ batch[u].state = "committed" /\ PendingDeletes(u) # {}
      /\ Start(w, "cron", RecoverBatch(New("cron", "idle", u, u)))
      /\ UNCHANGED storeVars

-----------------------------------------------------------------------------

\* D1 is unavailable at a call whose error the handler catches.  Elsewhere the
\* error ends the request, as a Crash does.
D1Fails(w) ==
    /\ \/ req[w].pc \in {"setMultipart", "markReady"} /\ Goto(w, "releaseItem")
       \/ At(w, "finalize") /\ FailRecovery(w)
       \/ At(w, "markDeleted") /\ Continue(w, AfterCleanup(req[w]))
    /\ LocalStep

Tick ==
    /\ clock < MaxTime
    /\ clock' = clock + 1
    /\ UNCHANGED <<storeVars, crashes, req>>

Crash(w) ==
    /\ ~At(w, "idle")
    /\ crashes < MaxCrashes
    /\ req[w].held => GuardCrashes
    /\ crashes' = crashes + 1
    /\ Finish(w)
    /\ UNCHANGED <<storeVars, clock>>

Arrive(w) ==
    \/ \E u \in Uploads, base \in KnownRevisions, plan \in Plans :
         StartPrepare(w, u, base, plan) \/ RetryPrepare(w, u, base, plan)
    \/ \E u \in Uploads, a \in Assets : StartPut(w, u, a)
    \/ \E u \in Uploads : StartCommit(w, u) \/ StartCancel(w, u)
    \/ StartAbort(w)
    \/ StartCron(w)

Advance(w) ==
    \/ ReadPending(w) \/ ReadSpace(w) \/ Reserve(w)
    \/ \E a \in Assets :
         ReadAsset(w, a) \/ Complete(w, a) \/ CompleteFails(w, a) \/ DeleteAssetObjects(w, a)
    \/ Claim(w) \/ Create(w) \/ SetMultipart(w) \/ UploadPartTo(w)
    \/ MarkReady(w) \/ Release(w)
    \/ BeginCommitStep(w) \/ RereadBatch(w) \/ AcquireGuard(w) \/ Finalize(w)
    \/ DeleteFails(w) \/ MarkDeleted(w) \/ ReleaseGuard(w)
    \/ BeginCancelStep(w) \/ BeginForceAbortStep(w)
    \/ AbortMultiparts(w) \/ FinishCancelStep(w)

Next ==
    \/ Tick
    \/ \E w \in Workers : Arrive(w) \/ Advance(w) \/ D1Fails(w) \/ Crash(w)

Spec == Init /\ [][Next]_vars

(***************************************************************************)
(* The runtime lets a request run on, time passes, cron fires every few    *)
(* minutes, and neither R2 nor D1 refuses for ever what it could do: a     *)
(* call that recovery tries again and again finally succeeds.              *)
(***************************************************************************)
Fairness ==
    /\ WF_vars(Tick)
    /\ \A w \in Workers : WF_vars(Advance(w)) /\ WF_vars(StartCron(w))
    /\ \A w \in Workers : SF_vars(Finalize(w)) /\ SF_vars(MarkDeleted(w))
    /\ \A w \in Workers, a \in Assets :
         SF_vars(Complete(w, a)) /\ SF_vars(DeleteAssetObjects(w, a))

FairSpec == Spec /\ Fairness

-----------------------------------------------------------------------------
(* Safety *)

\* The lock of the space is held by exactly the batch that is neither
\* published nor cancelled, so there is at most one: a crash between any two
\* calls leaves neither an orphaned lock nor an unlocked active batch.
LockInv ==
    \A u \in Uploads : space.pending = u <=> batch[u].state \in ActiveStates

\* The published revision is a committed batch's, and whatever prepare read
\* long before it reserved the lock, an active batch extends that revision.
RevisionInv ==
    /\ space.revision # None => batch[space.revision].state = "committed"
    /\ \A u \in Uploads : batch[u].state \in ActiveStates =>
          /\ batch[u].base = space.revision
          /\ batch[u].epoch = space.epoch + 1

\* An item without a payload of its own still finds, in the asset row its
\* batch will be published over, the copy prepare chose to reuse.
StagedOrReusable(u, a) ==
    LET i == item[u][a]
    IN  IF i.backend = "d1"
        THEN i.d1 = i.blob \/ ReusableCopy(asset[a], "d1", i.blob)
        ELSE \/ i.mp # None /\ i.part
             \/ i.mp = None /\ SlotMatchesObject(asset[a], i.slot, i.blob)

\* Once commit has begun every mutation of the batch is reserved and its
\* payload is staged; late, failing or repeated PUTs cannot undo it.
SealedInv ==
    \A u \in Uploads : batch[u].state = "committing" =>
      \A a \in Assets :
        /\ item[u][a].state \in {"absent", "reserved"}
        /\ del[u][a] \in {"absent", "reserved"}
        /\ item[u][a].state = "reserved" => StagedOrReusable(u, a)

\* The columns of a published asset row agree: the active backend has the
\* payload whose hash the row announces.
PublishedRowInv ==
    \A a \in Assets : asset[a].hash # None =>
      IF asset[a].backend = "d1"
      THEN asset[a].d1 = asset[a].hash
      ELSE asset[a].r2[asset[a].slot] = asset[a].hash

\* The slot an upload may write is never the one readers are served from,
\* however many revisions were published since prepare looked at the row.
TargetSlotInv ==
    \A u \in Uploads, a \in Assets :
      /\ batch[u].state \in ActiveStates
      /\ item[u][a].state # "absent" /\ item[u][a].backend = "r2"
      /\ asset[a].hash # None /\ asset[a].backend = "r2"
      => \/ item[u][a].slot # asset[a].slot
         \/ item[u][a].mp = None /\ item[u][a].blob = asset[a].hash

PublishedObject(a) == object[a][asset[a].slot]
PublishedInR2(a) == asset[a].hash # None /\ asset[a].backend = "r2"
ObjectIntact(a) ==
    PublishedObject(a) = [u |-> asset[a].etag[asset[a].slot], blob |-> asset[a].hash]

\* The object of a published slot is the one it was published with.  It is
\* missing only if a deletion of the asset has been published at some time.
PublishedObjectInv ==
    \A a \in Assets : PublishedInR2(a) =>
      \/ ObjectIntact(a)
      \/ /\ PublishedObject(a) = NoObject
         /\ \E u \in Uploads : del[u][a] \in {"committed", "deleted"}

\* The stronger promise: whatever is published in R2 can be read.
PublishedObjectReadable == \A a \in Assets : PublishedInR2(a) => ObjectIntact(a)

\* A batch that is not yet sealed, or was cancelled, has written no object.
NothingWrittenBeforeCommit ==
    \A u \in Uploads : batch[u].state \in {"prepared", "cancelling", "cancelled"} =>
      \A a \in Assets, s \in Slots : object[a][s].u # u

\* The recover guard admits one worker, and only it releases it.
GuardInv ==
    \A w \in Workers : req[w].held =>
      /\ req[w].t \in guard
      /\ \A v \in Workers : req[v].held /\ req[v].t = req[w].t => v = w

\* commit refuses a batch whose objects are not all uploaded: the multipart
\* recorded for an item that will be completed holds the uploaded part.
SealedPartsInv ==
    \A u \in Uploads, a \in Assets :
      /\ batch[u].state = "committing" /\ item[u][a].state = "reserved"
      /\ item[u][a].backend = "r2" /\ item[u][a].mp # None
      => multipart[item[u][a].mp].part

\* What a step may never do: leave a terminal state, cancel a batch whose
\* commit has begun, or bring a deleted row back to the cleanup queue.
ForwardOnly ==
    [][\A u \in Uploads :
         /\ batch[u].state \in {"committed", "cancelled"} => batch'[u].state = batch[u].state
         /\ batch[u].state = "committing" => batch'[u].state \in {"committing", "committed"}
         /\ \A a \in Assets : del[u][a] = "deleted" => del'[u][a] = "deleted"]_vars

\* cancel is refused while a PUT is in progress whose lease has not run out.
CancelWaitsForPuts ==
    [][\A v, w \in Workers :
         /\ At(v, "beginCancel") /\ req'[v].pc = "abortMultiparts"
         /\ batch[req[v].t].state = "prepared"
         /\ req[w].pc \in {"create", "setMultipart", "uploadPart", "markReady"}
         /\ req[w].u = req[v].t
         => req[w].now + LeaseTime <= req[v].now]_vars

-----------------------------------------------------------------------------
(* Liveness *)

\* The lock of the space is always released again: an upload is published,
\* cancelled, or rolled back by cron after it has expired.
LockReleased == \A u \in Uploads : space.pending = u ~> space.pending # u

\* A batch whose commit has begun is rolled forward until it is published.
RolledForward ==
    \A u \in Uploads : batch[u].state = "committing" ~> batch[u].state = "committed"

\* The objects of a published deletion are eventually reclaimed.
DeletionsReclaimed ==
    \A u \in Uploads, a \in Assets : del[u][a] = "committed" ~> del[u][a] = "deleted"

-----------------------------------------------------------------------------
(* What clients rely on: revisions are published one at a time, atomically. *)

Revisions == INSTANCE SpaceRevisions WITH
    revision <- space.revision,
    epoch <- space.epoch,
    contents <- [a \in Assets |-> asset[a].hash],
    lock <- space.pending,
    sealed <- \E u \in Uploads : batch[u].state = "committing",
    plan <- [u \in Uploads |-> PlanOf(u)]

ImplementsRevisions == Revisions!Spec
=============================================================================
