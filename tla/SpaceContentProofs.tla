------------------------- MODULE SpaceContentProofs -------------------------
(***************************************************************************)
(* What the rows of a space contain, for every value of the constants: a   *)
(* sealed batch has every payload it announces, a published row's columns  *)
(* agree, an upload never writes the slot readers are served from, the     *)
(* handlers together publish revisions as SpaceRevisions promises, and the *)
(* objects in R2 are those the rows record.                                *)
(***************************************************************************)
EXTENDS SpaceServiceProofs

-----------------------------------------------------------------------------
(* Rows and items *)

NoItems == [a \in Assets |-> AbsentItem]

\* StagedOrReusable of an item that is published over row.
Staged(row, i) ==
    IF i.backend = "d1"
    THEN i.d1 = i.blob \/ ReusableCopy(row, "d1", i.blob)
    ELSE \/ i.mp # None /\ i.part
         \/ i.mp = None /\ SlotMatchesObject(row, i.slot, i.blob)

\* TargetSlotInv of an item, strengthened: one that is still to be uploaded
\* is always directed to the other slot.
Apart(row, i) ==
    /\ row.hash # None /\ row.backend = "r2"
    /\ i.state # "absent" /\ i.backend = "r2"
    => \/ i.slot # row.slot
       \/ i.state \in {"ready", "reserved"} /\ i.mp = None /\ i.blob = row.hash

ItemOK(i) ==
    /\ i.state = "absent" <=> i.blob = None
    /\ i.d1 \in {None, i.blob}

\* PublishedRowInv of one row, and a D1 copy that is kept for reuse is what
\* its hash column says.
RowOK(row) ==
    /\ row.d1Hash # None => row.d1 = row.d1Hash
    /\ row.hash # None =>
         IF row.backend = "d1" THEN row.d1 = row.hash ELSE row.r2[row.slot] = row.hash

\* A row that does not exist satisfies every part of the invariant.
LEMMA AbsentOK ==
    /\ RowOK(AbsentAsset)
    /\ ItemOK(AbsentItem)
    /\ \A row : Apart(row, AbsentItem)
BY DEF RowOK, AbsentAsset, ItemOK, AbsentItem, Apart

\* prepare directs a payload to a copy that is there, or away from the
\* published slot.
LEMMA PlannedItemOK ==
    ASSUME NEW row \in AssetRow, RowOK(row), NEW blob \in Blobs
    PROVE  LET i == PlannedItem(row, blob)
           IN  /\ i.state \in {"issued", "ready"}
               /\ i.blob = blob
               /\ ItemOK(i)
               /\ i.state = "ready" => Staged(row, i)
               /\ Apart(row, i)
<1> DEFINE backend == SelectStorageBackend(row.backend, blob)
           target == TargetR2Slot(row, blob)
           state == IF ReusableCopy(row, backend, blob) THEN "ready" ELSE "issued"
           slot == IF backend = "r2" THEN target ELSE "a"
           i == PlannedItem(row, blob)
<1>1. backend \in {"d1", "r2"}
  BY DEF SelectStorageBackend
<1>2. blob # None
  BY ModelAssumption
<1>3. MatchingR2Slot(row, blob) # None => row.r2[target] = blob
  BY DEF TargetR2Slot, MatchingR2Slot, SlotMatchesObject
<1>4. row.hash # None /\ row.backend = "r2" =>
        \/ target # row.slot
        \/ MatchingR2Slot(row, blob) # None
  BY DEF TargetR2Slot, InactiveR2Slot, RowOK, AssetRow, Slots
<1> HIDE DEF backend, target
<1>5. /\ i.state = state /\ i.blob = blob /\ i.backend = backend /\ i.slot = slot
      /\ i.d1 = None /\ i.mp = None
  BY DEF PlannedItem, AbsentItem, backend, target
<1>6. state \in {"issued", "ready"} /\ (state = "ready" <=> ReusableCopy(row, backend, blob))
  OBVIOUS
<1> HIDE DEF i, state
<1>7. ItemOK(i)
  BY <1>2, <1>5, <1>6 DEF ItemOK
<1>8. i.state = "ready" => Staged(row, i)
  BY <1>1, <1>3, <1>5, <1>6 DEF Staged, ReusableCopy, SlotMatchesObject
<1>9. Apart(row, i)
  BY <1>3, <1>4, <1>5, <1>6 DEF Apart, ReusableCopy, RowOK
<1> QED BY <1>5, <1>6, <1>7, <1>8, <1>9 DEF i

\* Publishing a staged item makes a row whose columns agree.
LEMMA AssetUpsertOK ==
    ASSUME NEW row \in AssetRow, RowOK(row), NEW i \in ItemRow, NEW u,
           ItemOK(i), i.state # "absent", Staged(row, i)
    PROVE  RowOK(AssetUpsert(row, i, u))
<1> DEFINE newR2 == i.backend = "r2" /\ i.mp # None
           x == AssetUpsert(row, i, u)
<1>1. /\ x.hash = i.blob /\ x.backend = i.backend
      /\ x.d1 = UpsertedD1(row, i)
      /\ x.d1Hash = (IF i.backend = "d1" THEN i.blob ELSE row.d1Hash)
      /\ x.slot = (IF i.backend = "r2" THEN i.slot ELSE row.slot)
      /\ x.r2 = (IF newR2 THEN [row.r2 EXCEPT ![i.slot] = i.blob] ELSE row.r2)
  BY DEF AssetUpsert
<1> HIDE DEF x
<1>2. i.backend \in {"d1", "r2"} /\ i.slot \in Slots /\ row.r2 \in [Slots -> BlobOrNone]
  BY DEF ItemRow, AssetRow, Backends
<1>3. CASE i.backend = "d1"
  <2>1. x.d1 = i.blob
    BY <1>1, <1>3 DEF UpsertedD1, ItemOK, Staged, ReusableCopy, RowOK
  <2> QED BY <1>1, <1>3, <2>1 DEF RowOK, x
<1>4. CASE i.backend = "r2"
  <2>1. x.r2[i.slot] = i.blob
    BY <1>1, <1>2, <1>4 DEF Staged, SlotMatchesObject
  <2>2. x.d1 = row.d1 /\ x.d1Hash = row.d1Hash /\ x.slot = i.slot
    BY <1>1, <1>4 DEF UpsertedD1
  <2> QED BY <1>1, <1>4, <2>1, <2>2 DEF RowOK, x
<1> QED BY <1>2, <1>3, <1>4

-----------------------------------------------------------------------------
(* The inductive invariant *)

RowsInv == \A a \in Assets : RowOK(asset[a])

\* What the state of a batch says about one of its mutations.
MutationOK(u, a) ==
    /\ ItemOK(item[u][a])
    /\ batch[u].state = "absent" => item[u][a].state = "absent" /\ del[u][a] = "absent"
    /\ batch[u].state \in ActiveStates => Apart(asset[a], item[u][a])
    /\ batch[u].state = "prepared" =>
         /\ item[u][a].state \in {"absent", "issued", "uploading", "ready"}
         /\ del[u][a] \in {"absent", "issued"}
         /\ item[u][a].state = "ready" => Staged(asset[a], item[u][a])
    /\ batch[u].state = "committing" =>
         /\ item[u][a].state \in {"absent", "reserved"}
         /\ del[u][a] \in {"absent", "reserved"}
         /\ item[u][a].state = "reserved" => Staged(asset[a], item[u][a])

MutationsInv == \A u \in Uploads, a \in Assets : MutationOK(u, a)

\* A worker that is not reading assets for prepare has planned nothing yet.
Unplanned(r) ==
    /\ r.pc \notin BasePcs
    /\ r.items = NoItems
    /\ r.op = "prepare" => r.plan \in Plans

\* What prepare has planned for an asset it has read follows its request, and
\* fits the rows as long as the revision it checked is still the published one.
PlannedFor(r, a) ==
    /\ ItemOK(r.items[a])
    /\ r.items[a].state \in {"absent", "issued", "ready"}
    /\ a \in r.todo =>
         /\ r.items[a] = AbsentItem
         /\ a \in r.plan.del \/ r.plan.put[a] # None
    /\ a \notin r.todo => r.items[a].blob = r.plan.put[a]
    /\ r.base = space.revision =>
         /\ r.items[a].state = "ready" => Staged(asset[a], r.items[a])
         /\ Apart(asset[a], r.items[a])
         /\ a \in r.plan.del \ r.todo => asset[a].hash # None

Planned(r) ==
    /\ r.plan \in Plans
    /\ r.pc = "reserve" => r.todo = {}
    /\ \A a \in Assets : PlannedFor(r, a)

PlansInv ==
    \A w \in Workers : IF req[w].pc \in BasePcs THEN Planned(req[w]) ELSE Unplanned(req[w])

ContentInv == RowsInv /\ MutationsInv /\ PlansInv

-----------------------------------------------------------------------------
(* What a step does to the rows. *)

\* A PUT changes an item that is not uploaded yet, and what becomes ready has
\* its payload.
ItemMoves(i, j) ==
    /\ i.state \in {"issued", "uploading"}
    /\ j.state \in {"issued", "uploading", "ready"}
    /\ j.blob = i.blob /\ j.backend = i.backend /\ j.slot = i.slot
    /\ j.d1 \in {None, i.d1, i.blob}
    /\ j.state = "ready" => IF i.backend = "d1" THEN j.d1 = i.blob
                            ELSE j.mp # None /\ j.part

PutMoves(u, a) ==
    /\ \E j \in ItemRow : ItemMoves(item[u][a], j) /\ item' = [item EXCEPT ![u][a] = j]
    /\ UNCHANGED <<space, batch, del, asset>>

ContentStep ==
    \/ UNCHANGED <<space, batch, item, del, asset>>
    \/ \E w \in Workers :
         /\ At(w, "reserve")
         /\ CanReserve(req[w].u, req[w].base)
         /\ ReserveUpload(req[w].u, req[w].base, req[w].epoch, req[w].items,
                          req[w].plan.del, req[w].now)
    \/ \E w \in Workers : At(w, "finishCancel") /\ FinishCancel(req[w].t)
    \/ \E u \in Uploads, a \in Assets : PutMoves(u, a) \/ MarkDeleteItemDeleted(u, a)
    \/ \E u \in Uploads :
         \/ /\ batch[u].state = "prepared"
            /\ \A a \in Assets : item[u][a].state \in {"absent", "ready"}
            /\ BeginCommit(u)
         \/ batch[u].state = "prepared" /\ BeginCancel(u)
         \/ CanFinalize(u) /\ FinalizeCommit(u)

\* A step that touches no row.
LEMMA SameContentStep == UNCHANGED storeVars => ContentStep
BY DEF ContentStep, storeVars, d1Vars

\* The prepare handler changes content only by reserving.
LEMMA PrepareContentStep ==
    ASSUME NEW w \in Workers,
           \/ \E u \in Uploads, base \in KnownRevisions, plan \in Plans :
                StartPrepare(w, u, base, plan) \/ RetryPrepare(w, u, base, plan)
           \/ ReadPending(w) \/ ReadSpace(w) \/ Reserve(w)
           \/ \E a \in Assets : ReadAsset(w, a)
    PROVE  ContentStep
<1>1. CASE Reserve(w)
  BY <1>1, SameContentStep DEF Reserve, ContentStep
<1>2. CASE ~Reserve(w)
  BY <1>2, SameContentStep
     DEF StartPrepare, RetryPrepare, ReadPending, ReadSpace, ReadAsset, LocalStep
<1> QED BY <1>1, <1>2

\* The PUT handler changes content only by moving its own item.
LEMMA PutContentStep ==
    ASSUME TypeInv, NEW w \in Workers,
           \/ \E u \in Uploads, a \in Assets : StartPut(w, u, a)
           \/ Claim(w) \/ Create(w) \/ SetMultipart(w) \/ UploadPartTo(w)
           \/ MarkReady(w) \/ Release(w)
    PROVE  ContentStep
<1> DEFINE u == req[w].u
           a == req[w].a
           i == item[u][a]
<1>r. /\ req[w].pc \in PutPcs => u \in Uploads /\ a \in Assets
      /\ req[w].now \in Nat /\ req[w].mp \in Multiparts \cup {None}
  BY DEF TypeInv, CoherentRequest, Coherent, Request
<1>i. ASSUME u \in Uploads, a \in Assets PROVE i \in ItemRow
  BY <1>i DEF TypeInv, StoreTypeOK
<1> HIDE DEF u, a, i
<1>m. ASSUME NEW j \in ItemRow, u \in Uploads, a \in Assets, ItemMoves(i, j),
             item' = [item EXCEPT ![u][a] = j], UNCHANGED <<space, batch, del, asset>>
      PROVE  ContentStep
  BY <1>m DEF ContentStep, PutMoves, i
<1>1. CASE \E v \in Uploads, b \in Assets : StartPut(w, v, b)
  BY <1>1, SameContentStep DEF StartPut
<1>2. CASE Claim(w)
  <2>1. u \in Uploads /\ a \in Assets
    BY <1>2, <1>r DEF Claim, At, PutPcs
  <2>2. CASE UNCHANGED storeVars
    BY <2>2, SameContentStep
  <2>3. CASE CanClaim(u, a, req[w].now) /\ ClaimItem(u, a, req[w].now)
    <3> DEFINE n == req[w].now + LeaseTime
               j == [i EXCEPT !.state = "uploading", !.lease = n]
    <3>1. n \in Nat
      BY <1>r, StoreAssumption
    <3> HIDE DEF n
    <3>2. j \in ItemRow
      BY <1>i, <2>1, <3>1, ItemRowUpdates
    <3>3. ItemMoves(i, j)
      BY <1>i, <2>1, <2>3 DEF CanClaim, ItemMoves, ItemRow, i
    <3>4. item' = [item EXCEPT ![u][a] = j] /\ UNCHANGED <<space, batch, del, asset>>
      BY <2>3 DEF ClaimItem, n, i
    <3> HIDE DEF j
    <3> QED BY <1>m, <2>1, <3>2, <3>3, <3>4
  <2> QED BY <1>2, <2>2, <2>3 DEF Claim, u, a
<1>3. CASE Create(w)
  BY <1>3, SameContentStep DEF Create, CreateMultipart, d1Vars, ContentStep
<1>4. CASE SetMultipart(w)
  <2>1. u \in Uploads /\ a \in Assets /\ SetMultipartId(u, a, req[w].mp)
    BY <1>4, <1>r DEF SetMultipart, At, PutPcs, u, a
  <2> DEFINE j == [i EXCEPT !.mp = req[w].mp]
  <2>2. j \in ItemRow
    BY <1>i, <1>r, <2>1, ItemRowUpdates
  <2>3. i.state = "uploading" => ItemMoves(i, j)
    BY <1>i, <2>1 DEF ItemMoves, ItemRow
  <2>4. /\ \/ item' = item
           \/ i.state = "uploading" /\ item' = [item EXCEPT ![u][a] = j]
        /\ UNCHANGED <<space, batch, del, asset>>
    BY <2>1 DEF SetMultipartId, i
  <2> HIDE DEF j
  <2> QED BY <1>m, <2>1, <2>2, <2>3, <2>4 DEF ContentStep
<1>5. CASE UploadPartTo(w)
  BY <1>5, SameContentStep DEF UploadPartTo, UploadPart, d1Vars, ContentStep
<1>6. CASE MarkReady(w)
  <2>1. u \in Uploads /\ a \in Assets
    BY <1>6, <1>r DEF MarkReady, At, PutPcs
  <2>2. CASE UNCHANGED storeVars
    BY <2>2, SameContentStep
  <2>3. CASE CanMarkReady(u, a) /\ MarkItemReady(u, a)
    <3> DEFINE j == Uploaded(i)
    <3>1. j \in ItemRow
      BY <1>i, <2>1, ItemRowUpdates
    <3>2. ItemMoves(i, j)
      <4>1. /\ j.state = "ready" /\ j.blob = i.blob /\ j.backend = i.backend
            /\ j.slot = i.slot /\ j.mp = i.mp /\ j.part = (i.backend = "r2")
            /\ j.d1 = IF i.backend = "d1" THEN i.blob ELSE None
        BY <1>i, <2>1 DEF Uploaded, ItemRow
      <4>2. i.state = "uploading" /\ (i.backend = "r2" => i.mp # None)
        BY <2>3 DEF CanMarkReady, i
      <4>3. i.backend \in {"d1", "r2"}
        BY <1>i, <2>1 DEF ItemRow, Backends
      <4> HIDE DEF j
      <4> QED BY <4>1, <4>2, <4>3 DEF ItemMoves
    <3>3. item' = [item EXCEPT ![u][a] = j] /\ UNCHANGED <<space, batch, del, asset>>
      BY <2>3 DEF MarkItemReady, i
    <3> HIDE DEF j
    <3> QED BY <1>m, <2>1, <3>1, <3>2, <3>3
  <2> QED BY <1>6, <2>2, <2>3 DEF MarkReady, u, a
<1>7. CASE Release(w)
  <2>1. u \in Uploads /\ a \in Assets /\ ReleaseItem(u, a)
    BY <1>7, <1>r DEF Release, At, PutPcs, u, a
  <2> DEFINE j == IssuedAgain(i)
  <2>2. j \in ItemRow
    BY <1>i, <2>1, ItemRowUpdates
  <2>3. i.state = "uploading" => ItemMoves(i, j)
    BY <1>i, <2>1 DEF ItemMoves, ItemRow, IssuedAgain
  <2>4. /\ \/ item' = item
           \/ i.state = "uploading" /\ item' = [item EXCEPT ![u][a] = j]
        /\ UNCHANGED <<space, batch, del, asset>>
    BY <2>1 DEF ReleaseItem, i
  <2> HIDE DEF j
  <2> QED BY <1>m, <2>1, <2>2, <2>3, <2>4 DEF ContentStep
<1> QED BY <1>1, <1>2, <1>3, <1>4, <1>5, <1>6, <1>7

\* Commit and recovery seal, publish, and mark deletions, and nothing else.
LEMMA RecoveryContentStep ==
    ASSUME TypeInv, NEW w \in Workers,
           \/ \E u \in Uploads : StartCommit(w, u)
           \/ BeginCommitStep(w) \/ RereadBatch(w) \/ AcquireGuard(w) \/ Finalize(w)
           \/ \E a \in Assets :
                Complete(w, a) \/ CompleteFails(w, a) \/ DeleteAssetObjects(w, a)
           \/ DeleteFails(w) \/ MarkDeleted(w) \/ ReleaseGuard(w)
           \/ D1Fails(w)
    PROVE  ContentStep
<1>r. /\ req[w].pc \in BatchPcs => req[w].t \in Uploads
      /\ req[w].pc = "markDeleted" => req[w].a \in Assets
  BY DEF TypeInv, CoherentRequest, Coherent
<1>1. CASE BeginCommitStep(w)
  <2>1. req[w].t \in Uploads
    BY <1>1, <1>r DEF BeginCommitStep, At, BatchPcs
  <2> QED BY <1>1, <2>1, SameContentStep DEF BeginCommitStep, CanBeginCommit, ContentStep
<1>2. CASE AcquireGuard(w)
  BY <1>2, SameContentStep DEF AcquireGuard, AcquireRecoverGuard, ContentStep
<1>3. CASE Finalize(w)
  <2>1. req[w].t \in Uploads
    BY <1>3, <1>r DEF Finalize, At, BatchPcs
  <2> QED BY <1>3, <2>1, SameContentStep DEF Finalize, ContentStep
<1>4. ASSUME NEW a \in Assets, Complete(w, a) PROVE ContentStep
  <2>1. UNCHANGED storeVars \/ CompleteMultipart(req[w].t, a)
    BY <1>4 DEF Complete
  <2> QED BY <2>1, SameContentStep DEF CompleteMultipart, d1Vars, ContentStep
<1>5. ASSUME NEW a \in Assets, DeleteAssetObjects(w, a) PROVE ContentStep
  BY <1>5 DEF DeleteAssetObjects, DeleteObjects, d1Vars, ContentStep
<1>6. CASE MarkDeleted(w)
  <2>1. req[w].t \in Uploads /\ req[w].a \in Assets
    BY <1>6, <1>r DEF MarkDeleted, At, BatchPcs
  <2> QED BY <1>6, <2>1 DEF MarkDeleted, ContentStep
<1>7. CASE ReleaseGuard(w)
  BY <1>7 DEF ReleaseGuard, ReleaseRecoverGuard, ContentStep
<1>8. CASE \/ \E u \in Uploads : StartCommit(w, u)
           \/ \E a \in Assets : CompleteFails(w, a)
           \/ RereadBatch(w) \/ DeleteFails(w) \/ D1Fails(w)
  BY <1>8, SameContentStep
     DEF StartCommit, CompleteFails, RereadBatch, DeleteFails, D1Fails, LocalStep
<1> QED BY <1>1, <1>2, <1>3, <1>4, <1>5, <1>6, <1>7, <1>8

\* Cancellations begin and finish, and nothing else.
LEMMA CancelContentStep ==
    ASSUME TypeInv, NEW w \in Workers,
           \/ \E u \in Uploads : StartCancel(w, u)
           \/ StartAbort(w) \/ StartCron(w)
           \/ BeginCancelStep(w) \/ BeginForceAbortStep(w)
           \/ AbortMultiparts(w) \/ FinishCancelStep(w)
    PROVE  ContentStep
<1>r. req[w].pc \in BatchPcs => req[w].t \in Uploads
  BY DEF TypeInv, CoherentRequest, Coherent
<1>1. CASE BeginCancelStep(w) \/ BeginForceAbortStep(w)
  <2>1. req[w].t \in Uploads
    BY <1>1, <1>r DEF BeginCancelStep, BeginForceAbortStep, At, BatchPcs
  <2> QED BY <1>1, <2>1, SameContentStep
          DEF BeginCancelStep, BeginForceAbortStep, CancelStep, CanBeginCancel,
              CanForceAbort, ContentStep
<1>2. CASE AbortMultiparts(w)
  BY <1>2 DEF AbortMultiparts, AbortMultipartUploads, d1Vars, ContentStep
<1>3. CASE FinishCancelStep(w)
  BY <1>3 DEF FinishCancelStep, ContentStep
<1>4. CASE (\E u \in Uploads : StartCancel(w, u)) \/ StartAbort(w) \/ StartCron(w)
  BY <1>4, SameContentStep DEF StartCancel, StartAbort, StartCron
<1> QED BY <1>1, <1>2, <1>3, <1>4

\* Every step of the system is a ContentStep.
LEMMA ContentSteps ==
    ASSUME TypeInv, [Next]_vars
    PROVE  ContentStep
<1>1. CASE Tick \/ UNCHANGED vars
  BY <1>1, SameContentStep DEF Tick, vars
<1>2. ASSUME NEW w \in Workers, Arrive(w) PROVE ContentStep
  <2> USE <1>2 DEF Arrive
  <2> QED BY PrepareContentStep, PutContentStep, RecoveryContentStep, CancelContentStep
<1>3. ASSUME NEW w \in Workers, Advance(w) PROVE ContentStep
  BY <1>3, PrepareContentStep, PutContentStep, RecoveryContentStep, CancelContentStep
     DEF Advance
<1>4. ASSUME NEW w \in Workers, D1Fails(w) PROVE ContentStep
  BY <1>4, RecoveryContentStep
<1>5. ASSUME NEW w \in Workers, Crash(w) PROVE ContentStep
  BY <1>5, SameContentStep DEF Crash
<1> QED BY <1>1, <1>2, <1>3, <1>4, <1>5 DEF Next

-----------------------------------------------------------------------------
(* What a step does to the plans of the workers. *)

\* A worker without a request has no plan.
LEMMA IdleUnplanned == Unplanned(Idle)
BY DEF Unplanned, Idle, NoItems, BasePcs

\* Nor has one that starts a request other than prepare.
LEMMA NewUnplanned ==
    ASSUME NEW op, NEW pc, NEW u, NEW t, op # "prepare", pc \notin BasePcs
    PROVE  Unplanned(New(op, pc, u, t))
BY DEF Unplanned, New, Idle, NoItems

\* A change of the other fields of the record keeps it so.
LEMMA SameUnplanned ==
    ASSUME NEW r, NEW x, Unplanned(r),
           x.pc \notin BasePcs, x.items = r.items, x.op = r.op, x.plan = r.plan
    PROVE  Unplanned(x)
BY DEF Unplanned

\* After a recovery the record holds no more items than before.
LEMMA AfterRecoverUnplanned ==
    ASSUME NEW r \in Request, Unplanned(r)
    PROVE  Unplanned(AfterRecover(r))
<1> DEFINE x == [r EXCEPT !.pc = "readSpace", !.t = None, !.todo = {}, !.held = FALSE]
<1>1. x.pc = "readSpace" /\ x.items = r.items /\ x.op = r.op /\ x.plan = r.plan
  BY DEF Request
<1> HIDE DEF x
<1>2. Unplanned(x)
  BY <1>1, SameUnplanned DEF BasePcs
<1> QED BY <1>2, IdleUnplanned DEF AfterRecover, x

\* The same after a clean-up of deletions,
LEMMA AfterCleanupUnplanned ==
    ASSUME NEW r \in Request, Unplanned(r)
    PROVE  Unplanned(AfterCleanup(r))
<1> DEFINE x == [r EXCEPT !.pc = "releaseGuard", !.todo = {}, !.a = None]
           y == [r EXCEPT !.a = None]
<1>1. x.pc = "releaseGuard" /\ x.items = r.items /\ x.op = r.op /\ x.plan = r.plan
  BY DEF Request
<1>2. y \in Request /\ y.pc = r.pc /\ y.items = r.items /\ y.op = r.op /\ y.plan = r.plan
  BY DEF Request
<1> HIDE DEF x, y
<1>3. Unplanned(x)
  BY <1>1, SameUnplanned DEF BasePcs
<1>4. Unplanned(AfterRecover(y))
  BY <1>2, SameUnplanned, AfterRecoverUnplanned DEF Unplanned
<1> QED BY <1>3, <1>4 DEF AfterCleanup, x, y

\* on entering it,
LEMMA EnterCleanupUnplanned ==
    ASSUME NEW r \in Request, NEW todo \in SUBSET Assets, Unplanned(r)
    PROVE  Unplanned(EnterCleanup(r, todo))
<1> DEFINE x == [r EXCEPT !.pc = "deleteObjects", !.todo = todo]
<1>1. x.pc = "deleteObjects" /\ x.items = r.items /\ x.op = r.op /\ x.plan = r.plan
  BY DEF Request
<1> HIDE DEF x
<1>2. Unplanned(x)
  BY <1>1, SameUnplanned DEF BasePcs
<1> QED BY <1>2, AfterCleanupUnplanned DEF EnterCleanup, x

\* and when recoverBatch chooses its branch.
LEMMA RecoverBatchUnplanned ==
    ASSUME NEW r \in Request, Unplanned(r)
    PROVE  Unplanned(RecoverBatch(r))
<1> DEFINE s == batch[r.t].state
           x(pc) == [r EXCEPT !.pc = pc]
<1>1. PendingDeletes(r.t) \in SUBSET Assets
  BY DEF PendingDeletes
<1>2. ASSUME NEW pc \in {"beginCancel", "acquireGuard"} PROVE Unplanned(x(pc))
  <2>1. x(pc).pc = pc /\ x(pc).items = r.items /\ x(pc).op = r.op /\ x(pc).plan = r.plan
    BY DEF Request
  <2> HIDE DEF x
  <2> QED BY <2>1, SameUnplanned DEF BasePcs
<1>3. Unplanned(x("beginCancel")) /\ Unplanned(x("acquireGuard"))
  BY <1>2
<1>4. CASE s = "committed"
  BY <1>1, <1>4, EnterCleanupUnplanned DEF RecoverBatch
<1>5. CASE s = "cancelling"
  BY <1>3, <1>5 DEF RecoverBatch
<1>6. CASE s = "committing"
  BY <1>3, <1>6 DEF RecoverBatch
<1>7. CASE s \notin {"committed", "cancelling", "committing"}
  BY <1>3, <1>7, AfterRecoverUnplanned DEF RecoverBatch
<1> QED BY <1>4, <1>5, <1>6, <1>7

PlanStep(w) ==
    /\ \A v \in Workers \ {w} : req'[v] = req[v]
    /\ \/ Unplanned(req'[w])
       \/ UNCHANGED storeVars /\ req'[w].pc \in BasePcs /\ Planned(req'[w])

\* A request that goes on without a plan makes a PlanStep,
LEMMA UnplannedStep ==
    ASSUME TypeInv, NEW w \in Workers, NEW x, Continue(w, x), Unplanned(x)
    PROVE  PlanStep(w)
BY ContinueStep DEF PlanStep

\* as does one that ends,
LEMMA FinishUnplanned ==
    ASSUME TypeInv, NEW w \in Workers, Finish(w)
    PROVE  PlanStep(w)
BY UnplannedStep, IdleUnplanned DEF Finish

\* and one that only moves to another call.
LEMMA GotoUnplanned ==
    ASSUME TypeInv, PlansInv, NEW w \in Workers, NEW pc, Goto(w, pc),
           req[w].pc \notin BasePcs, pc \notin BasePcs
    PROVE  PlanStep(w)
<1> DEFINE x == [req[w] EXCEPT !.pc = pc]
<1>1. Unplanned(req[w])
  BY DEF PlansInv
<1>2. x.pc = pc /\ x.items = req[w].items /\ x.op = req[w].op /\ x.plan = req[w].plan
  BY DEF TypeInv, CoherentRequest, Request
<1>3. Continue(w, x)
  BY DEF Goto
<1> HIDE DEF x
<1> QED BY <1>1, <1>2, <1>3, SameUnplanned, UnplannedStep

\* The first read of prepare: its request, and nothing read yet.
LEMMA ReadSpacePlanStep ==
    ASSUME TypeInv, PlansInv, NEW w \in Workers, ReadSpace(w)
    PROVE  PlanStep(w)
<1> DEFINE todo == {a \in Assets : req[w].plan.put[a] # None} \cup req[w].plan.del
           x == [req[w] EXCEPT !.pc = "readAssets", !.epoch = space.epoch + 1, !.todo = todo]
<1>r. req[w] \in Request
  BY DEF TypeInv, CoherentRequest
<1>1. req[w].pc = "readSpace" /\ Unplanned(req[w])
  BY DEF ReadSpace, At, PlansInv, BasePcs
<1>2. req[w].op = "prepare" /\ req[w].plan \in Plans
  BY <1>1 DEF TypeInv, CoherentRequest, Coherent, PreparePcs, Unplanned
<1>3. CASE Finish(w)
  BY <1>3, FinishUnplanned
<1>4. CASE Continue(w, x) /\ UNCHANGED storeVars
  <2>1. /\ x.pc = "readAssets" /\ x.items = NoItems /\ x.plan = req[w].plan
        /\ x.todo = todo
    BY <1>r, <1>1 DEF Request, Unplanned
  <2> HIDE DEF x
  <2>2. ASSUME NEW a \in Assets PROVE PlannedFor(x, a)
    <3>1. x.items[a] = AbsentItem
      BY <2>1 DEF NoItems
    <3>2. AbsentItem.state = "absent" /\ AbsentItem.blob = None
      BY DEF AbsentItem
    <3> QED BY <2>1, <3>1, <3>2, AbsentOK DEF PlannedFor
  <2>3. Planned(x)
    BY <1>2, <2>1, <2>2 DEF Planned
  <2> QED BY <1>4, <2>1, <2>3, ContinueStep DEF PlanStep, BasePcs
<1> QED BY <1>3, <1>4 DEF ReadSpace, LocalStep

\* Reading one asset plans its mutation against the row.
LEMMA ReadAssetPlanStep ==
    ASSUME TypeInv, RowsInv, PlansInv, NEW w \in Workers, NEW a \in Assets, ReadAsset(w, a)
    PROVE  PlanStep(w)
<1> DEFINE rest == req[w].todo \ {a}
           pc == IF rest = {} THEN "reserve" ELSE "readAssets"
           r == [req[w] EXCEPT !.todo = rest, !.pc = pc]
           blob == req[w].plan.put[a]
           i == PlannedItem(asset[a], blob)
           x == [r EXCEPT !.items[a] = i]
<1>r. req[w] \in Request
  BY DEF TypeInv, CoherentRequest
<1>1. req[w].pc = "readAssets" /\ Planned(req[w]) /\ a \in req[w].todo /\ UNCHANGED storeVars
  BY DEF ReadAsset, At, PlansInv, BasePcs, LocalStep
<1>2. /\ req[w].plan \in Plans
      /\ \A b \in Assets : PlannedFor(req[w], b)
  BY <1>1 DEF Planned
<1>3. /\ req[w].plan.put \in [Assets -> BlobOrNone]
      /\ \A b \in req[w].plan.del : req[w].plan.put[b] = None
  BY <1>2, ServiceAssumption
<1>p. pc \in BasePcs /\ (pc = "reserve" => rest = {})
  BY DEF BasePcs
<1> HIDE DEF pc
<1>4. /\ r.todo = rest /\ r.pc = pc /\ r.items = req[w].items /\ r.plan = req[w].plan
      /\ r.base = req[w].base
  BY <1>r DEF Request
<1>5. /\ x.todo = rest /\ x.pc = pc /\ x.items = [req[w].items EXCEPT ![a] = i]
      /\ x.plan = req[w].plan /\ x.base = req[w].base
  BY <1>r DEF Request
<1>6. req[w].items \in [Assets -> ItemRow]
  BY <1>r DEF Request
<1> HIDE DEF r, x
<1>7. ASSUME a \in req[w].plan.del, asset[a].hash # None, Continue(w, r)
      PROVE  PlanStep(w)
  <2>1. ASSUME NEW b \in Assets PROVE PlannedFor(r, b)
    <3>1. CASE b # a
      BY <1>2, <1>4, <3>1 DEF PlannedFor
    <3>2. CASE b = a
      <4>1. req[w].items[a] = AbsentItem /\ req[w].plan.put[a] = None
        BY <1>1, <1>2, <1>3, <1>7 DEF PlannedFor
      <4>2. AbsentItem.state = "absent" /\ AbsentItem.blob = None
        BY DEF AbsentItem
      <4> QED BY <1>4, <1>7, <3>2, <4>1, <4>2, AbsentOK DEF PlannedFor
    <3> QED BY <3>1, <3>2
  <2>2. Planned(r)
    BY <1>2, <1>4, <1>p, <2>1 DEF Planned
  <2> QED BY <1>1, <1>4, <1>7, <1>p, <2>2, ContinueStep DEF PlanStep
<1>8. ASSUME a \notin req[w].plan.del, Continue(w, x)
      PROVE  PlanStep(w)
  <2>1. blob \in Blobs
    BY <1>1, <1>2, <1>3, <1>8 DEF PlannedFor, BlobOrNone
  <2>2. asset[a] \in AssetRow /\ RowOK(asset[a])
    BY DEF TypeInv, StoreTypeOK, RowsInv
  <2> HIDE DEF i, blob
  <2>3. /\ i.state \in {"issued", "ready"} /\ i.blob = blob /\ ItemOK(i)
        /\ i.state = "ready" => Staged(asset[a], i)
        /\ Apart(asset[a], i)
    BY <2>1, <2>2, PlannedItemOK DEF i
  <2>4. ASSUME NEW b \in Assets PROVE PlannedFor(x, b)
    <3>1. CASE b # a
      <4>1. x.items[b] = req[w].items[b]
        BY <1>5, <1>6, <3>1
      <4> QED BY <1>2, <1>5, <3>1, <4>1 DEF PlannedFor
    <3>2. CASE b = a
      <4>1. x.items[b] = i
        BY <1>5, <1>6, <3>2
      <4> QED BY <1>5, <1>8, <2>3, <3>2, <4>1 DEF PlannedFor, blob
    <3> QED BY <3>1, <3>2
  <2>5. Planned(x)
    BY <1>2, <1>5, <1>p, <2>4 DEF Planned
  <2> QED BY <1>1, <1>5, <1>8, <1>p, <2>5, ContinueStep DEF PlanStep
<1>9. \/ Finish(w)
      \/ a \in req[w].plan.del /\ asset[a].hash # None /\ Continue(w, r)
      \/ a \notin req[w].plan.del /\ Continue(w, x)
  BY DEF ReadAsset, r, x, pc
<1> QED BY <1>7, <1>8, <1>9, FinishUnplanned

\* prepare builds its items from the rows it has just read.
LEMMA PreparePlanStep ==
    ASSUME TypeInv, RowsInv, PlansInv, NEW w \in Workers,
           \/ \E u \in Uploads, base \in KnownRevisions, plan \in Plans :
                StartPrepare(w, u, base, plan) \/ RetryPrepare(w, u, base, plan)
           \/ ReadPending(w) \/ ReadSpace(w) \/ Reserve(w)
           \/ \E a \in Assets : ReadAsset(w, a)
    PROVE  PlanStep(w)
<1>r. req[w] \in Request
  BY DEF TypeInv, CoherentRequest
<1>1. ASSUME NEW u \in Uploads, NEW base \in KnownRevisions, NEW plan \in Plans,
             StartPrepare(w, u, base, plan)
      PROVE  PlanStep(w)
  <2> DEFINE x == [New("prepare", "readPending", u, None) EXCEPT !.base = base, !.plan = plan]
  <2>1. x.pc = "readPending" /\ x.items = NoItems /\ x.plan = plan
    BY DEF New, Idle, NoItems
  <2>2. Continue(w, x)
    BY <1>1 DEF StartPrepare, Start
  <2> HIDE DEF x
  <2> QED BY <2>1, <2>2, UnplannedStep DEF Unplanned, BasePcs
<1>2. ASSUME NEW u \in Uploads, NEW base \in KnownRevisions, NEW plan \in Plans,
             RetryPrepare(w, u, base, plan)
      PROVE  PlanStep(w)
  BY <1>2, NewUnplanned, UnplannedStep DEF RetryPrepare, BasePcs
<1>3. CASE ReadPending(w)
  <2> DEFINE x == [req[w] EXCEPT !.t = space.pending]
  <2>1. req[w].pc = "readPending" /\ Unplanned(req[w])
    BY <1>3 DEF ReadPending, At, PlansInv, BasePcs
  <2>2. space.pending # None =>
          x \in Request /\ x.pc = "readPending" /\ x.items = req[w].items
          /\ x.op = req[w].op /\ x.plan = req[w].plan
    BY <1>r, <2>1 DEF Request, TypeInv, StoreTypeOK, SpaceRow
  <2>3. Continue(w, IF space.pending = None THEN AfterRecover(req[w]) ELSE RecoverBatch(x))
    BY <1>3 DEF ReadPending
  <2> HIDE DEF x
  <2>4. space.pending # None => Unplanned(RecoverBatch(x))
    BY <2>1, <2>2, SameUnplanned, RecoverBatchUnplanned DEF BasePcs
  <2>5. Unplanned(AfterRecover(req[w]))
    BY <1>r, <2>1, AfterRecoverUnplanned
  <2> QED BY <2>3, <2>4, <2>5, UnplannedStep
<1>4. CASE ReadSpace(w)
  BY <1>4, ReadSpacePlanStep
<1>5. CASE Reserve(w)
  BY <1>5, FinishUnplanned DEF Reserve
<1>6. ASSUME NEW a \in Assets, ReadAsset(w, a) PROVE PlanStep(w)
  BY <1>6, ReadAssetPlanStep
<1> QED BY <1>1, <1>2, <1>3, <1>4, <1>5, <1>6

\* A PUT has no plan.
LEMMA PutPlanStep ==
    ASSUME TypeInv, PlansInv, NEW w \in Workers,
           \/ \E u \in Uploads, a \in Assets : StartPut(w, u, a)
           \/ Claim(w) \/ Create(w) \/ SetMultipart(w) \/ UploadPartTo(w)
           \/ MarkReady(w) \/ Release(w)
    PROVE  PlanStep(w)
<1> USE DEF BasePcs
<1>r. req[w] \in Request
  BY DEF TypeInv, CoherentRequest
<1>1. ASSUME NEW u \in Uploads, NEW a \in Assets, StartPut(w, u, a)
      PROVE  PlanStep(w)
  <2> DEFINE x == [New("put", "claim", u, None) EXCEPT !.a = a, !.mp = item[u][a].mp]
  <2>1. x.pc = "claim" /\ x.items = NoItems /\ x.op = "put"
    BY DEF New, Idle, NoItems
  <2>2. Continue(w, x)
    BY <1>1 DEF StartPut, Start
  <2> HIDE DEF x
  <2> QED BY <2>1, <2>2, UnplannedStep DEF Unplanned
<1>2. CASE Create(w)
  <2>1. req[w].pc = "create" /\ Unplanned(req[w])
    BY <1>2 DEF Create, At, PlansInv
  <2>2. CASE Goto(w, "releaseItem")
    BY <2>1, <2>2, GotoUnplanned
  <2>3. ASSUME NEW m \in Multiparts,
               Continue(w, [req[w] EXCEPT !.pc = "setMultipart", !.mp = m])
        PROVE  PlanStep(w)
    <3> DEFINE x == [req[w] EXCEPT !.pc = "setMultipart", !.mp = m]
    <3>1. /\ x.pc = "setMultipart" /\ x.items = req[w].items
          /\ x.op = req[w].op /\ x.plan = req[w].plan
      BY <1>r DEF Request
    <3>2. Continue(w, x)
      BY <2>3
    <3> HIDE DEF x
    <3> QED BY <2>1, <3>1, <3>2, SameUnplanned, UnplannedStep
  <2> QED BY <1>2, <2>2, <2>3 DEF Create
<1>3. CASE Claim(w) \/ SetMultipart(w) \/ UploadPartTo(w) \/ MarkReady(w) \/ Release(w)
  <2>1. req[w].pc \notin BasePcs
    BY <1>3 DEF Claim, SetMultipart, UploadPartTo, MarkReady, Release, At
  <2>2. \/ Finish(w)
        \/ \E pc \in {"markReady", "create", "uploadPart", "releaseItem"} : Goto(w, pc)
    BY <1>3 DEF Claim, SetMultipart, UploadPartTo, MarkReady, Release
  <2> QED BY <2>1, <2>2, FinishUnplanned, GotoUnplanned
<1> QED BY <1>1, <1>2, <1>3

\* A recovery that fails keeps the record free of a plan,
LEMMA FailRecoveryPlanStep ==
    ASSUME TypeInv, NEW w \in Workers, FailRecovery(w), Unplanned(req[w])
    PROVE  PlanStep(w)
<1> DEFINE x == [req[w] EXCEPT !.pc = "releaseGuard", !.failed = TRUE, !.todo = {}]
<1>1. req[w] \in Request
  BY DEF TypeInv, CoherentRequest
<1>2. /\ x.pc = "releaseGuard" /\ x.items = req[w].items
      /\ x.op = req[w].op /\ x.plan = req[w].plan
  BY <1>1 DEF Request
<1>3. Continue(w, x)
  BY DEF FailRecovery
<1> HIDE DEF x
<1> QED BY <1>2, <1>3, SameUnplanned, UnplannedStep DEF BasePcs

\* as commit and recovery do in each of their calls,
LEMMA RecoveryPlanStep ==
    ASSUME TypeInv, PlansInv, NEW w \in Workers,
           \/ \E u \in Uploads : StartCommit(w, u)
           \/ BeginCommitStep(w) \/ RereadBatch(w) \/ AcquireGuard(w) \/ Finalize(w)
           \/ \E a \in Assets : Complete(w, a) \/ CompleteFails(w, a)
           \/ ReleaseGuard(w)
    PROVE  PlanStep(w)
<1> USE DEF BasePcs
<1>r. req[w] \in Request
  BY DEF TypeInv, CoherentRequest
<1>u. req[w].pc \notin BasePcs => Unplanned(req[w])
  BY DEF PlansInv
<1>1. ASSUME NEW u \in Uploads, StartCommit(w, u)
      PROVE  PlanStep(w)
  <2> DEFINE x == New("commit", "beginCommit", u, u)
             y == New("commit", "idle", u, u)
  <2>1. Unplanned(x) /\ Unplanned(y)
    BY NewUnplanned
  <2>2. y \in Request
    BY NewCoherent DEF Ops, CoherentRequest
  <2>3. Continue(w, x) \/ Continue(w, RecoverBatch(y))
    BY <1>1 DEF StartCommit, Start
  <2> HIDE DEF x, y
  <2> QED BY <2>1, <2>2, <2>3, RecoverBatchUnplanned, UnplannedStep
<1>2. CASE BeginCommitStep(w)
  <2>1. (Goto(w, "rereadBatch") \/ Finish(w)) /\ req[w].pc = "beginCommit"
    BY <1>2 DEF BeginCommitStep, At
  <2> QED BY <2>1, GotoUnplanned, FinishUnplanned
<1>3. CASE RereadBatch(w)
  <2>1. Continue(w, RecoverBatch(req[w])) /\ Unplanned(req[w])
    BY <1>3, <1>u DEF RereadBatch, At
  <2> QED BY <1>r, <2>1, RecoverBatchUnplanned, UnplannedStep
<1>4. CASE AcquireGuard(w)
  <2> DEFINE t == req[w].t
             pc == IF MultipartItems(t) = {} THEN "finalize" ELSE "complete"
             x == [req[w] EXCEPT !.held = TRUE, !.todo = MultipartItems(t), !.pc = pc]
             y == IF batch[t].state = "committed" THEN AfterRecover(req[w]) ELSE Idle
  <2>1. Unplanned(req[w])
    BY <1>4, <1>u DEF AcquireGuard, At
  <2>2. Unplanned(y)
    BY <1>r, <2>1, AfterRecoverUnplanned, IdleUnplanned
  <2>3. pc \notin BasePcs
    OBVIOUS
  <2> HIDE DEF pc
  <2>4. x.pc = pc /\ x.items = req[w].items /\ x.op = req[w].op /\ x.plan = req[w].plan
    BY <1>r DEF Request
  <2>5. Continue(w, x) \/ Continue(w, y)
    BY <1>4 DEF AcquireGuard, pc
  <2> HIDE DEF x, y
  <2> QED BY <2>1, <2>2, <2>3, <2>4, <2>5, SameUnplanned, UnplannedStep
<1>5. CASE Finalize(w)
  <2> DEFINE dels == {a \in Assets : del[req[w].t][a] = "reserved"}
  <2>1. Unplanned(req[w])
    BY <1>5, <1>u DEF Finalize, At
  <2>2. Continue(w, EnterCleanup(req[w], dels)) \/ FailRecovery(w)
    BY <1>5 DEF Finalize
  <2>3. dels \in SUBSET Assets
    OBVIOUS
  <2> HIDE DEF dels
  <2> QED BY <1>r, <2>1, <2>2, <2>3, EnterCleanupUnplanned, UnplannedStep,
             FailRecoveryPlanStep
<1>6. ASSUME NEW a \in Assets, Complete(w, a)
      PROVE  PlanStep(w)
  <2> DEFINE pc == IF req[w].todo = {a} THEN "finalize" ELSE "complete"
             x == [req[w] EXCEPT !.todo = req[w].todo \ {a}, !.pc = pc]
  <2>1. pc \notin BasePcs
    OBVIOUS
  <2>2. Continue(w, x)
    BY <1>6, <1>r DEF Complete, CompletedItem, Continue, Request
  <2>3. Unplanned(req[w])
    BY <1>6, <1>u DEF Complete, At
  <2> HIDE DEF pc
  <2>4. x.pc = pc /\ x.items = req[w].items /\ x.op = req[w].op /\ x.plan = req[w].plan
    BY <1>r DEF Request
  <2> HIDE DEF x
  <2> QED BY <2>1, <2>2, <2>3, <2>4, SameUnplanned, UnplannedStep
<1>7. ASSUME NEW a \in Assets, CompleteFails(w, a)
      PROVE  PlanStep(w)
  BY <1>7, <1>u, FailRecoveryPlanStep DEF CompleteFails, At
<1>8. CASE ReleaseGuard(w)
  <2> DEFINE y == IF req[w].failed THEN Idle ELSE AfterRecover(req[w])
  <2>1. Unplanned(req[w])
    BY <1>8, <1>u DEF ReleaseGuard, At
  <2>2. Unplanned(y)
    BY <1>r, <2>1, AfterRecoverUnplanned, IdleUnplanned
  <2>3. Continue(w, y)
    BY <1>8 DEF ReleaseGuard
  <2> HIDE DEF y
  <2> QED BY <2>2, <2>3, UnplannedStep
<1> QED BY <1>1, <1>2, <1>3, <1>4, <1>5, <1>6, <1>7, <1>8

\* the clean-up of deletions,
LEMMA DeletePlanStep ==
    ASSUME TypeInv, PlansInv, NEW w \in Workers,
           \/ \E a \in Assets : DeleteAssetObjects(w, a)
           \/ DeleteFails(w) \/ MarkDeleted(w) \/ D1Fails(w)
    PROVE  PlanStep(w)
<1> USE DEF BasePcs
<1>r. req[w] \in Request
  BY DEF TypeInv, CoherentRequest
<1>u. /\ req[w].pc \notin BasePcs
      /\ Unplanned(req[w])
  BY DEF DeleteAssetObjects, DeleteFails, MarkDeleted, D1Fails, At, PlansInv
<1>a. Unplanned(AfterCleanup(req[w]))
  BY <1>r, <1>u, AfterCleanupUnplanned
<1>1. ASSUME NEW a \in Assets, DeleteAssetObjects(w, a)
      PROVE  PlanStep(w)
  <2> DEFINE x == [req[w] EXCEPT !.pc = "markDeleted", !.a = a]
  <2>1. /\ x.pc = "markDeleted" /\ x.items = req[w].items
        /\ x.op = req[w].op /\ x.plan = req[w].plan
    BY <1>r DEF Request
  <2>2. Continue(w, x)
    BY <1>1 DEF DeleteAssetObjects
  <2> HIDE DEF x
  <2> QED BY <1>u, <2>1, <2>2, SameUnplanned, UnplannedStep
<1>2. CASE DeleteFails(w)
  BY <1>2, <1>a, UnplannedStep DEF DeleteFails
<1>3. CASE MarkDeleted(w)
  <2> DEFINE x == [req[w] EXCEPT !.a = None]
             rest == req[w].todo \ {req[w].a}
  <2>1. /\ x \in Request /\ x.pc = req[w].pc /\ x.items = req[w].items
        /\ x.op = req[w].op /\ x.plan = req[w].plan
        /\ rest \in SUBSET Assets
    BY <1>r DEF Request
  <2>2. Continue(w, EnterCleanup(x, rest))
    BY <1>3 DEF MarkDeleted
  <2> HIDE DEF x, rest
  <2> QED BY <1>u, <2>1, <2>2, SameUnplanned, EnterCleanupUnplanned, UnplannedStep
<1>4. CASE D1Fails(w)
  <2>1. CASE Goto(w, "releaseItem")
    BY <1>u, <2>1, GotoUnplanned
  <2>2. CASE FailRecovery(w)
    BY <1>u, <2>2, FailRecoveryPlanStep
  <2>3. CASE Continue(w, AfterCleanup(req[w]))
    BY <1>a, <2>3, UnplannedStep
  <2> QED BY <1>4, <2>1, <2>2, <2>3 DEF D1Fails
<1> QED BY <1>1, <1>2, <1>3, <1>4

\* and the cancellations.
LEMMA CancelPlanStep ==
    ASSUME TypeInv, PlansInv, NEW w \in Workers,
           \/ \E u \in Uploads : StartCancel(w, u)
           \/ StartAbort(w) \/ StartCron(w)
           \/ BeginCancelStep(w) \/ BeginForceAbortStep(w)
           \/ AbortMultiparts(w) \/ FinishCancelStep(w)
    PROVE  PlanStep(w)
<1> USE DEF BasePcs
<1>r. req[w] \in Request
  BY DEF TypeInv, CoherentRequest
<1>a. req[w].pc \notin BasePcs => Unplanned(AfterRecover(req[w]))
  BY <1>r, AfterRecoverUnplanned DEF PlansInv
<1>1. ASSUME NEW u \in Uploads, StartCancel(w, u)
      PROVE  PlanStep(w)
  BY <1>1, NewUnplanned, UnplannedStep DEF StartCancel, Start
<1>2. CASE StartAbort(w)
  <2> DEFINE t == space.pending
             pc == IF batch[t].state = "prepared" THEN "beginForceAbort" ELSE "beginCancel"
  <2>1. pc \notin BasePcs
    OBVIOUS
  <2>2. Continue(w, New("abort", pc, t, t))
    BY <1>2 DEF StartAbort, Start
  <2> HIDE DEF pc, t
  <2> QED BY <2>1, <2>2, NewUnplanned, UnplannedStep
<1>3. CASE StartCron(w)
  <2>1. PICK u \in Uploads : Continue(w, RecoverBatch(New("cron", "idle", u, u)))
    BY <1>3 DEF StartCron, Start
  <2> DEFINE y == New("cron", "idle", u, u)
  <2>2. y \in Request /\ Unplanned(y)
    BY NewCoherent, NewUnplanned DEF Ops, CoherentRequest
  <2> HIDE DEF y
  <2>3. Continue(w, RecoverBatch(y))
    BY <2>1 DEF y
  <2> QED BY <2>2, <2>3, RecoverBatchUnplanned, UnplannedStep
<1>4. CASE BeginCancelStep(w) \/ BeginForceAbortStep(w)
  <2>1. req[w].pc \notin BasePcs
    BY <1>4 DEF BeginCancelStep, BeginForceAbortStep, At
  <2>2. Goto(w, "abortMultiparts") \/ Continue(w, AfterRecover(req[w]))
    BY <1>4 DEF BeginCancelStep, BeginForceAbortStep, CancelStep
  <2> QED BY <1>a, <2>1, <2>2, GotoUnplanned, UnplannedStep
<1>5. CASE AbortMultiparts(w)
  <2>1. Goto(w, "finishCancel") /\ req[w].pc \notin BasePcs
    BY <1>5 DEF AbortMultiparts, At
  <2> QED BY <2>1, GotoUnplanned
<1>6. CASE FinishCancelStep(w)
  <2>1. req[w].pc \notin BasePcs /\ Continue(w, AfterRecover(req[w]))
    BY <1>6 DEF FinishCancelStep, At
  <2> QED BY <1>a, <2>1, UnplannedStep
<1> QED BY <1>1, <1>2, <1>3, <1>4, <1>5, <1>6

\* Every step of a worker is a PlanStep of that worker.
LEMMA PlanSteps ==
    ASSUME TypeInv, RowsInv, PlansInv, NEW w \in Workers,
           Arrive(w) \/ Advance(w) \/ D1Fails(w) \/ Crash(w)
    PROVE  PlanStep(w)
<1>1. CASE Arrive(w)
  <2> USE <1>1 DEF Arrive
  <2> QED BY PreparePlanStep, PutPlanStep, RecoveryPlanStep, CancelPlanStep
<1>2. CASE Advance(w)
  BY <1>2, PreparePlanStep, PutPlanStep, RecoveryPlanStep, DeletePlanStep, CancelPlanStep
     DEF Advance
<1>3. CASE D1Fails(w)
  BY <1>3, DeletePlanStep
<1>4. CASE Crash(w)
  BY <1>4, FinishUnplanned DEF Crash
<1> QED BY <1>1, <1>2, <1>3, <1>4

-----------------------------------------------------------------------------
(* The rows and the plans keep their invariants. *)

\* Nothing that concerns one mutation changes.
LEMMA MutationKept ==
    ASSUME NEW u \in Uploads, NEW a \in Assets, MutationOK(u, a),
           item'[u][a] = item[u][a], del'[u][a] = del[u][a],
           batch'[u].state = batch[u].state,
           asset'[a] = asset[a] \/ batch[u].state \notin ActiveStates
    PROVE  MutationOK(u, a)'
BY DEF MutationOK, ItemOK, Apart, Staged, ReusableCopy, SlotMatchesObject, MatchingR2Slot,
       ActiveStates

\* Once a batch is neither absent nor active its mutations only stay well-formed.
LEMMA MutationSettled ==
    ASSUME NEW u \in Uploads, NEW a \in Assets, MutationOK(u, a),
           item[u][a] \in ItemRow,
           \/ item'[u][a] = item[u][a]
           \/ /\ item[u][a].state # "absent"
              /\ \E s \in {"committed", "cancelled"} : item'[u][a] = Closed(item[u][a], s),
           batch'[u].state \in {"committed", "cancelled"}
    PROVE  MutationOK(u, a)'
<1>1. ASSUME NEW s \in {"committed", "cancelled"}, item[u][a].state # "absent",
             item'[u][a] = Closed(item[u][a], s)
      PROVE  ItemOK(item[u][a])'
  <2>1. item'[u][a].state = s /\ item'[u][a].blob = item[u][a].blob /\ item'[u][a].d1 = None
    BY <1>1 DEF Closed, ItemRow
  <2> QED BY <1>1, <2>1 DEF MutationOK, ItemOK
<1>2. ItemOK(item[u][a])'
  BY <1>1 DEF MutationOK, ItemOK
<1> QED BY <1>2 DEF MutationOK, ActiveStates

\* reserveUpload stores a plan that fits the rows, since its base is the revision.
LEMMA ReserveKeepsRows ==
    ASSUME TypeInv, RowsInv, MutationsInv, PlansInv, NEW w \in Workers, At(w, "reserve"),
           CanReserve(req[w].u, req[w].base),
           ReserveUpload(req[w].u, req[w].base, req[w].epoch, req[w].items,
                         req[w].plan.del, req[w].now)
    PROVE  RowsInv' /\ MutationsInv'
<1>1. PICK u \in Uploads : u = req[w].u
  BY DEF TypeInv, CoherentRequest, Coherent, At, PreparePcs
<1>2. /\ asset' = asset
      /\ batch'[u].state = "prepared"
      /\ item'[u] = req[w].items
      /\ \A a \in Assets : del'[u][a] \in {"absent", "issued"}
      /\ \A v \in Uploads \ {u} :
           batch'[v] = batch[v] /\ item'[v] = item[v] /\ del'[v] = del[v]
  BY <1>1 DEF ReserveUpload, TypeInv, StoreTypeOK
<1>3. req[w].base = space.revision /\ Planned(req[w]) /\ req[w].pc = "reserve"
  BY DEF CanReserve, PlansInv, At, BasePcs
<1>4. ASSUME NEW a \in Assets PROVE MutationOK(u, a)'
  <2> DEFINE i == req[w].items[a]
  <2>1. /\ ItemOK(i) /\ i.state \in {"absent", "issued", "ready"}
        /\ i.state = "ready" => Staged(asset[a], i)
        /\ Apart(asset[a], i)
    BY <1>3 DEF Planned, PlannedFor
  <2>2. item'[u][a] = i
    BY <1>2
  <2> HIDE DEF i
  <2> QED BY <1>2, <2>1, <2>2
          DEF MutationOK, ItemOK, Apart, Staged, ReusableCopy, SlotMatchesObject,
              MatchingR2Slot
<1>5. ASSUME NEW v \in Uploads \ {u}, NEW a \in Assets PROVE MutationOK(v, a)'
  BY <1>2, MutationKept DEF MutationsInv
<1>6. RowsInv'
  BY <1>2 DEF RowsInv, RowOK
<1> QED BY <1>4, <1>5, <1>6 DEF MutationsInv

\* A PUT moves one item among the states of an open batch.
LEMMA PutKeepsRows ==
    ASSUME TypeInv, RowsInv, MutationsInv,
           NEW u \in Uploads, NEW a \in Assets, PutMoves(u, a)
    PROVE  RowsInv' /\ MutationsInv'
<1>1. PICK j \in ItemRow : ItemMoves(item[u][a], j) /\ item' = [item EXCEPT ![u][a] = j]
  BY DEF PutMoves
<1>2. batch' = batch /\ del' = del /\ asset' = asset
  BY DEF PutMoves
<1>3. /\ item'[u][a] = j
      /\ \A v \in Uploads, b \in Assets : <<v, b>> # <<u, a>> => item'[v][b] = item[v][b]
  BY <1>1 DEF TypeInv, StoreTypeOK
<1>4. MutationOK(u, a)'
  <2> DEFINE i == item[u][a]
  <2>1. MutationOK(u, a) /\ ItemMoves(i, j)
    BY <1>1 DEF MutationsInv
  <2>2. batch[u].state \notin {"absent", "committing"}
    BY <2>1 DEF MutationOK, ItemMoves
  <2>3. ItemOK(j)
    BY <2>1 DEF MutationOK, ItemMoves, ItemOK
  <2>4. batch[u].state \in ActiveStates => Apart(asset[a], j)
    BY <2>1 DEF MutationOK, ItemMoves, Apart
  <2>5. j.state = "ready" => Staged(asset[a], j)
    BY <2>1 DEF ItemMoves, Staged
  <2>6. j.state \in {"issued", "uploading", "ready"}
    BY <2>1 DEF ItemMoves
  <2>7. batch[u].state = "prepared" => del[u][a] \in {"absent", "issued"}
    BY <2>1 DEF MutationOK
  <2> HIDE DEF i
  <2> QED BY <1>2, <1>3, <2>2, <2>3, <2>4, <2>5, <2>6, <2>7
          DEF MutationOK, ItemOK, Apart, Staged, ReusableCopy, SlotMatchesObject,
              MatchingR2Slot
<1>5. ASSUME NEW v \in Uploads, NEW b \in Assets, <<v, b>> # <<u, a>>
      PROVE  MutationOK(v, b)'
  BY <1>2, <1>3, <1>5, MutationKept DEF MutationsInv
<1>6. RowsInv'
  BY <1>2 DEF RowsInv, RowOK
<1> QED BY <1>4, <1>5, <1>6 DEF MutationsInv

\* Sealing finds every item staged, and keeps its payload.
LEMMA BeginCommitKeepsRows ==
    ASSUME TypeInv, RowsInv, MutationsInv, NEW u \in Uploads,
           batch[u].state = "prepared",
           \A a \in Assets : item[u][a].state \in {"absent", "ready"},
           BeginCommit(u)
    PROVE  RowsInv' /\ MutationsInv'
<1>1. /\ batch'[u].state = "committing"
      /\ \A v \in Uploads : v # u => batch'[v].state = batch[v].state
  BY BatchStateChange DEF BeginCommit
<1>2. /\ asset' = asset
      /\ \A v \in Uploads \ {u} : item'[v] = item[v] /\ del'[v] = del[v]
      /\ \A a \in Assets :
           /\ item'[u][a] = IF item[u][a].state = "ready"
                            THEN [item[u][a] EXCEPT !.state = "reserved"] ELSE item[u][a]
           /\ del'[u][a] = IF del[u][a] = "issued" THEN "reserved" ELSE del[u][a]
  BY DEF BeginCommit, MoveItems, MoveDeletes, TypeInv, StoreTypeOK
<1>3. ASSUME NEW a \in Assets PROVE MutationOK(u, a)'
  <2> DEFINE i == item[u][a]
             j == item'[u][a]
  <2>1. i \in ItemRow /\ MutationOK(u, a) /\ i.state \in {"absent", "ready"}
    BY DEF TypeInv, StoreTypeOK, MutationsInv
  <2>2. /\ j.state = IF i.state = "ready" THEN "reserved" ELSE "absent"
        /\ j.blob = i.blob /\ j.backend = i.backend /\ j.slot = i.slot
        /\ j.mp = i.mp /\ j.part = i.part /\ j.d1 = i.d1
    BY <1>2, <2>1 DEF ItemRow
  <2>3. del'[u][a] \in {"absent", "reserved"}
    BY <1>2, <2>1 DEF MutationOK
  <2>4. /\ ItemOK(i) /\ Apart(asset[a], i)
        /\ i.state = "ready" => Staged(asset[a], i)
    BY <2>1 DEF MutationOK, ActiveStates
  <2> HIDE DEF i
  <2>5. asset'[a] = asset[a]
    BY <1>2
  <2> QED BY <1>1, <2>1, <2>2, <2>3, <2>4, <2>5
          DEF MutationOK, ItemOK, Apart, Staged, ReusableCopy, SlotMatchesObject,
              MatchingR2Slot
<1>4. ASSUME NEW v \in Uploads \ {u}, NEW a \in Assets PROVE MutationOK(v, a)'
  BY <1>1, <1>2, MutationKept DEF MutationsInv
<1>5. RowsInv'
  BY <1>2 DEF RowsInv, RowOK
<1> QED BY <1>3, <1>4, <1>5 DEF MutationsInv

\* A batch that begins to cancel keeps its items.
LEMMA BeginCancelKeepsRows ==
    ASSUME TypeInv, RowsInv, MutationsInv, NEW u \in Uploads,
           batch[u].state = "prepared", BeginCancel(u)
    PROVE  RowsInv' /\ MutationsInv'
<1>1. /\ batch'[u].state = "cancelling"
      /\ \A v \in Uploads : v # u => batch'[v].state = batch[v].state
  BY BatchStateChange DEF BeginCancel
<1>2. asset' = asset /\ item' = item /\ del' = del
  BY DEF BeginCancel
<1>3. ASSUME NEW a \in Assets PROVE MutationOK(u, a)'
  BY <1>1, <1>2 DEF MutationsInv, MutationOK, ItemOK, Apart, ActiveStates
<1>4. ASSUME NEW v \in Uploads \ {u}, NEW a \in Assets PROVE MutationOK(v, a)'
  BY <1>1, <1>2, MutationKept DEF MutationsInv
<1>5. RowsInv'
  BY <1>2 DEF RowsInv, RowOK
<1> QED BY <1>3, <1>4, <1>5 DEF MutationsInv

\* finishCancel closes what is not closed yet, and no published item.
LEMMA FinishCancelKeepsRows ==
    ASSUME TypeInv, CancellingInv, RowsInv, MutationsInv,
           NEW w \in Workers, At(w, "finishCancel"), FinishCancel(req[w].t)
    PROVE  RowsInv' /\ MutationsInv'
<1>1. PICK t \in Uploads : t = req[w].t /\ batch[t].state \in {"cancelling", "cancelled"}
  BY DEF TypeInv, CoherentRequest, Coherent, At, BatchPcs, CancellingInv, CancelPcs
<1>2. /\ asset' = asset
      /\ batch' = IF batch[t].state = "cancelling"
                  THEN [batch EXCEPT ![t].state = "cancelled"] ELSE batch
      /\ \A v \in Uploads \ {t} : item'[v] = item[v] /\ del'[v] = del[v]
      /\ \A a \in Assets :
           \/ item'[t][a] = item[t][a]
           \/ item[t][a].state # "absent" /\ item'[t][a] = Closed(item[t][a], "cancelled")
  BY <1>1 DEF FinishCancel, MoveDeletes, TypeInv, StoreTypeOK
<1>3. /\ batch'[t].state = "cancelled"
      /\ \A v \in Uploads : v # t => batch'[v].state = batch[v].state
  BY <1>1, <1>2, BatchStateChange
<1>4. ASSUME NEW a \in Assets PROVE MutationOK(t, a)'
  <2>1. MutationOK(t, a) /\ item[t][a] \in ItemRow
    BY DEF MutationsInv, TypeInv, StoreTypeOK
  <2>2. \/ item'[t][a] = item[t][a]
        \/ item[t][a].state # "absent" /\ item'[t][a] = Closed(item[t][a], "cancelled")
    BY <1>2
  <2> QED BY <1>3, <2>1, <2>2, MutationSettled
<1>5. ASSUME NEW v \in Uploads \ {t}, NEW a \in Assets PROVE MutationOK(v, a)'
  BY <1>2, <1>3, MutationKept DEF MutationsInv
<1>6. RowsInv'
  BY <1>2 DEF RowsInv, RowOK
<1> QED BY <1>1, <1>4, <1>5, <1>6 DEF MutationsInv

\* finalizeCommit leaves each asset's row as its batch planned it.
LEMMA FinalizeKeepsRows ==
    ASSUME TypeInv, LockInv, RowsInv, MutationsInv,
           NEW u \in Uploads, CanFinalize(u), FinalizeCommit(u)
    PROVE  RowsInv' /\ MutationsInv'
<1>1. /\ batch[u].state = "committing"
      /\ \A v \in Uploads \ {u} : batch[v].state \notin ActiveStates
  BY DEF CanFinalize, LockInv
<1>2. /\ batch'[u].state = "committed"
      /\ \A v \in Uploads : v # u => batch'[v].state = batch[v].state
  BY BatchStateChange DEF FinalizeCommit
<1>3. /\ asset' = PublishedAssets(u)
      /\ \A v \in Uploads \ {u} : item'[v] = item[v] /\ del'[v] = del[v]
      /\ \A a \in Assets :
           \/ item'[u][a] = item[u][a]
           \/ item[u][a].state # "absent" /\ item'[u][a] = Closed(item[u][a], "committed")
  BY DEF FinalizeCommit, MoveDeletes, TypeInv, StoreTypeOK
<1>4. ASSUME NEW a \in Assets PROVE MutationOK(u, a)'
  BY <1>2, <1>3, MutationSettled DEF MutationsInv, TypeInv, StoreTypeOK
<1>5. ASSUME NEW v \in Uploads \ {u}, NEW a \in Assets PROVE MutationOK(v, a)'
  BY <1>1, <1>2, <1>3, MutationKept DEF MutationsInv
<1>6. ASSUME NEW a \in Assets PROVE RowOK(asset'[a])
  <2> DEFINE i == item[u][a]
  <2>1. /\ asset[a] \in AssetRow /\ i \in ItemRow /\ RowOK(asset[a]) /\ ItemOK(i)
        /\ i.state # "absent" => Staged(asset[a], i)
    BY <1>1 DEF TypeInv, StoreTypeOK, RowsInv, MutationsInv, MutationOK
  <2>2. asset'[a] = IF del[u][a] # "absent" THEN AbsentAsset
                    ELSE IF i.state # "absent" THEN AssetUpsert(asset[a], i, u)
                    ELSE asset[a]
    BY <1>3 DEF PublishedAssets
  <2> HIDE DEF i
  <2> QED BY <2>1, <2>2, AbsentOK, AssetUpsertOK
<1>7. RowsInv'
  BY <1>6 DEF RowsInv, RowOK
<1> QED BY <1>4, <1>5, <1>7 DEF MutationsInv

\* The asset rows change only when the revision becomes another batch.
RowsMove ==
    \/ asset' = asset /\ space'.revision = space.revision
    \/ /\ space'.revision \in Uploads
       /\ batch[space'.revision].state = "committing"

\* The rows' half of the induction.
LEMMA ContentStepKeepsRows ==
    ASSUME TypeInv, LockInv, CancellingInv, ContentInv, ContentStep
    PROVE  RowsInv' /\ MutationsInv' /\ RowsMove
<1> USE DEF ContentInv
<1>s. space \in SpaceRow
  BY DEF TypeInv, StoreTypeOK
<1>1. CASE UNCHANGED <<space, batch, item, del, asset>>
  <2>1. RowsInv'
    BY <1>1 DEF RowsInv, RowOK
  <2>2. MutationsInv'
    BY <1>1, MutationKept DEF MutationsInv
  <2> QED BY <1>1, <2>1, <2>2 DEF RowsMove
<1>2. ASSUME NEW w \in Workers, At(w, "reserve"),
             CanReserve(req[w].u, req[w].base),
             ReserveUpload(req[w].u, req[w].base, req[w].epoch, req[w].items,
                           req[w].plan.del, req[w].now)
      PROVE  RowsInv' /\ MutationsInv' /\ RowsMove
  <2>1. asset' = asset /\ space'.revision = space.revision
    BY <1>2, <1>s DEF ReserveUpload, SpaceRow
  <2> QED BY <1>2, <2>1, ReserveKeepsRows DEF RowsMove
<1>3. ASSUME NEW w \in Workers, At(w, "finishCancel"), FinishCancel(req[w].t)
      PROVE  RowsInv' /\ MutationsInv' /\ RowsMove
  <2>1. asset' = asset /\ space'.revision = space.revision
    BY <1>3, <1>s DEF FinishCancel, UnlockedSpace, SpaceRow
  <2> QED BY <1>3, <2>1, FinishCancelKeepsRows DEF RowsMove
<1>4. ASSUME NEW u \in Uploads, NEW a \in Assets, PutMoves(u, a)
      PROVE  RowsInv' /\ MutationsInv' /\ RowsMove
  BY <1>4, PutKeepsRows DEF RowsMove, PutMoves
<1>5. ASSUME NEW u \in Uploads, NEW a \in Assets, MarkDeleteItemDeleted(u, a)
      PROVE  RowsInv' /\ MutationsInv' /\ RowsMove
  <2>1. UNCHANGED <<space, batch, item, asset>>
    BY <1>5 DEF MarkDeleteItemDeleted
  <2>2. ASSUME NEW v \in Uploads, NEW b \in Assets PROVE MutationOK(v, b)'
    <3>1. CASE v = u /\ batch[u].state = "committed"
      BY <2>1, <3>1, MutationSettled DEF MutationsInv, TypeInv, StoreTypeOK
    <3>2. CASE v # u \/ batch[u].state # "committed"
      <4>1. del'[v][b] = del[v][b]
        BY <1>5, <3>2 DEF MarkDeleteItemDeleted, TypeInv, StoreTypeOK
      <4> QED BY <2>1, <4>1, MutationKept DEF MutationsInv
    <3> QED BY <3>1, <3>2
  <2>3. RowsInv'
    BY <2>1 DEF RowsInv, RowOK
  <2> QED BY <2>1, <2>2, <2>3 DEF MutationsInv, RowsMove
<1>6. ASSUME NEW u \in Uploads, batch[u].state = "prepared",
             \A a \in Assets : item[u][a].state \in {"absent", "ready"}, BeginCommit(u)
      PROVE  RowsInv' /\ MutationsInv' /\ RowsMove
  BY <1>6, BeginCommitKeepsRows DEF BeginCommit, RowsMove
<1>7. ASSUME NEW u \in Uploads, batch[u].state = "prepared", BeginCancel(u)
      PROVE  RowsInv' /\ MutationsInv' /\ RowsMove
  BY <1>7, BeginCancelKeepsRows DEF BeginCancel, RowsMove
<1>8. ASSUME NEW u \in Uploads, CanFinalize(u), FinalizeCommit(u)
      PROVE  RowsInv' /\ MutationsInv' /\ RowsMove
  <2>1. space'.revision = u /\ batch[u].state = "committing"
    BY <1>8 DEF FinalizeCommit, CanFinalize
  <2> QED BY <1>8, <2>1, FinalizeKeepsRows DEF RowsMove
<1> QED BY <1>1, <1>2, <1>3, <1>4, <1>5, <1>6, <1>7, <1>8 DEF ContentStep

\* A plan that fits the rows goes on fitting them: when they change, the
\* revision it was checked against is gone for ever.
LEMMA PlannedKept ==
    ASSUME TypeInv, BaseInv, RowsMove, NEW v \in Workers, req'[v] = req[v],
           IF req[v].pc \in BasePcs THEN Planned(req[v]) ELSE Unplanned(req[v])
    PROVE  (IF req[v].pc \in BasePcs THEN Planned(req[v]) ELSE Unplanned(req[v]))'
<1>1. CASE req[v].pc \notin BasePcs
  BY <1>1 DEF Unplanned, NoItems
<1>2. CASE req[v].pc \in BasePcs
  <2>1. req[v].base = space'.revision => asset' = asset /\ req[v].base = space.revision
    BY <1>2, ModelAssumption DEF RowsMove, BaseInv
  <2>2. ASSUME NEW a \in Assets PROVE PlannedFor(req[v], a)'
    <3>1. PlannedFor(req[v], a)
      BY <1>2 DEF Planned
    <3> QED BY <2>1, <3>1
            DEF PlannedFor, ItemOK, Staged, Apart, ReusableCopy, SlotMatchesObject,
                MatchingR2Slot
  <2> QED BY <1>2, <2>2 DEF Planned
<1> QED BY <1>1, <1>2

\* The requests' half of the induction.
LEMMA PlansKept ==
    ASSUME TypeInv, BaseInv, RowsMove, PlansInv, NEW w \in Workers, PlanStep(w)
    PROVE  PlansInv'
<1>1. ASSUME NEW v \in Workers \ {w}
      PROVE  (IF req[v].pc \in BasePcs THEN Planned(req[v]) ELSE Unplanned(req[v]))'
  BY PlannedKept DEF PlanStep, PlansInv
<1>2. CASE Unplanned(req'[w])
  BY <1>1, <1>2 DEF PlansInv, Unplanned, NoItems
<1>3. CASE UNCHANGED storeVars /\ req'[w].pc \in BasePcs /\ Planned(req'[w])
  <2>1. space' = space /\ asset' = asset
    BY <1>3 DEF storeVars, d1Vars
  <2>2. ASSUME NEW a \in Assets PROVE PlannedFor(req[w], a)'
    <3>1. PlannedFor(req'[w], a)
      BY <1>3 DEF Planned
    <3> QED BY <2>1, <3>1
            DEF PlannedFor, ItemOK, Staged, Apart, ReusableCopy, SlotMatchesObject,
                MatchingR2Slot
  <2>3. Planned(req[w])'
    BY <1>3, <2>2 DEF Planned
  <2> QED BY <1>1, <1>3, <2>3 DEF PlansInv
<1> QED BY <1>2, <1>3 DEF PlanStep

\* ContentInv holds initially, is kept by every step, and so always holds.
LEMMA ContentInvInit == Init => ContentInv
<1> SUFFICES ASSUME Init PROVE ContentInv
  OBVIOUS
<1>1. RowsInv
  BY AbsentOK DEF Init, StoreInit, RowsInv
<1>2. MutationsInv
  <2>1. AbsentItem.state = "absent"
    BY DEF AbsentItem
  <2> QED BY <2>1, AbsentOK DEF Init, StoreInit, MutationsInv, MutationOK, ActiveStates
<1>3. PlansInv
  BY IdleUnplanned DEF Init, PlansInv, Unplanned
<1> QED BY <1>1, <1>2, <1>3 DEF ContentInv

LEMMA ContentInvNext == LockIInv /\ ContentInv /\ [Next]_vars => ContentInv'
<1> SUFFICES ASSUME LockIInv, ContentInv, [Next]_vars PROVE ContentInv'
  OBVIOUS
<1>1. TypeInv /\ LockInv /\ CancellingInv /\ BaseInv
  BY DEF LockIInv
<1>2. RowsInv' /\ MutationsInv' /\ RowsMove
  BY <1>1, ContentSteps, ContentStepKeepsRows
<1>3. CASE Tick \/ UNCHANGED vars
  <2>1. req' = req
    BY <1>3 DEF Tick, vars
  <2>2. PlansInv'
    BY <1>1, <1>2, <2>1, PlannedKept DEF ContentInv, PlansInv
  <2> QED BY <1>2, <2>2 DEF ContentInv
<1>4. ASSUME NEW w \in Workers, Arrive(w) \/ Advance(w) \/ D1Fails(w) \/ Crash(w)
      PROVE  ContentInv'
  BY <1>1, <1>2, <1>4, PlanSteps, PlansKept DEF ContentInv
<1> QED BY <1>3, <1>4 DEF Next

LEMMA ContentInvariance == Spec => [](LockIInv /\ ContentInv)
<1>1. Init => LockIInv /\ ContentInv
  BY LockIInvInit, ContentInvInit
<1>2. (LockIInv /\ ContentInv) /\ [Next]_vars => (LockIInv /\ ContentInv)'
  BY LockIInvNext, ContentInvNext
<1> QED BY <1>1, <1>2, PTL DEF Spec

\* What the properties say of the rows.
LEMMA ContentFollows == ContentInv => PublishedRowInv /\ SealedInv /\ TargetSlotInv
<1>1. ContentInv => PublishedRowInv
  BY DEF ContentInv, RowsInv, RowOK, PublishedRowInv
<1>2. ContentInv => SealedInv
  BY DEF ContentInv, MutationsInv, MutationOK, SealedInv, StagedOrReusable, Staged
<1>3. ContentInv => TargetSlotInv
  BY DEF ContentInv, MutationsInv, MutationOK, Apart, TargetSlotInv
<1> QED BY <1>1, <1>2, <1>3

(***************************************************************************)
(* finalizeCommit's upsert: whatever was uploaded, reused or moved between *)
(* the backends, the backend a published row names has the payload whose   *)
(* hash the row announces.                                                 *)
(***************************************************************************)
THEOREM PublishedRowCorrect == Spec => []PublishedRowInv
BY ContentFollows, ContentInvariance, PTL

(***************************************************************************)
(* beginCommit seals a batch: from then on, whatever late, repeated or     *)
(* failing PUTs still do, each of its items is reserved with its payload.  *)
(***************************************************************************)
THEOREM SealedCorrect == Spec => []SealedInv
BY ContentFollows, ContentInvariance, PTL

(***************************************************************************)
(* targetR2Slot: an open upload never writes the slot readers are served   *)
(* from, although the row it was chosen from was read before the lock.     *)
(***************************************************************************)
THEOREM TargetSlotCorrect == Spec => []TargetSlotInv
BY ContentFollows, ContentInvariance, PTL

-----------------------------------------------------------------------------
(* The handlers implement SpaceRevisions. *)

\* Some batch can no longer be abandoned; what the mapping calls sealed.
SomeCommitting == \E u \in Uploads : batch[u].state = "committing"

\* Whatever the mutations of a batch go through, what they are stays the same.
LEMMA SamePlans ==
    ASSUME \A u \in Uploads, a \in Assets :
             /\ item'[u][a].blob = item[u][a].blob
             /\ del'[u][a] = "absent" <=> del[u][a] = "absent"
    PROVE  [u \in Uploads |-> PlanOf(u)]' = [u \in Uploads |-> PlanOf(u)]
<1>1. ASSUME NEW u \in Uploads PROVE PlanOf(u)' = PlanOf(u)
  BY DEF PlanOf
<1> QED BY <1>1

\* What a stuttering step of SpaceRevisions leaves alone.
LEMMA Stutters ==
    ASSUME space' = space, asset' = asset, SomeCommitting' = SomeCommitting,
           [u \in Uploads |-> PlanOf(u)]' = [u \in Uploads |-> PlanOf(u)]
    PROVE  UNCHANGED Revisions!revisionVars
BY DEF Revisions!revisionVars, SomeCommitting

\* reserveUpload is Begin: the item and delete rows it writes are the plan asked for.
LEMMA ReserveBegins ==
    ASSUME LockIInv, ContentInv, NEW w \in Workers, At(w, "reserve"),
           CanReserve(req[w].u, req[w].base),
           ReserveUpload(req[w].u, req[w].base, req[w].epoch, req[w].items,
                         req[w].plan.del, req[w].now)
    PROVE  Revisions!Next
<1>t. TypeInv
  BY DEF LockIInv
<1>1. PICK u \in Uploads : u = req[w].u
  BY <1>t DEF TypeInv, CoherentRequest, Coherent, At, PreparePcs
<1>2. PICK p \in Plans : p = req[w].plan
  BY DEF ContentInv, PlansInv, Planned, At, BasePcs
<1>3. /\ p \in [put : [Assets -> BlobOrNone], del : SUBSET Assets]
      /\ p # Revisions!EmptyPlan
  BY ServiceAssumption DEF NoPlan, Revisions!EmptyPlan
<1>4. /\ batch[u].state = "absent" /\ space.pending = None
      /\ space \in SpaceRow
  BY <1>1, <1>t DEF CanReserve, TypeInv, StoreTypeOK
<1>5. /\ asset' = asset
      /\ space'.pending = u /\ space'.revision = space.revision /\ space'.epoch = space.epoch
      /\ batch'[u].state = "prepared"
      /\ item'[u] = req[w].items
      /\ \A a \in Assets : del'[u][a] = IF a \in p.del THEN "issued" ELSE "absent"
      /\ \A v \in Uploads \ {u} :
           batch'[v] = batch[v] /\ item'[v] = item[v] /\ del'[v] = del[v]
  BY <1>1, <1>2, <1>4, <1>t DEF ReserveUpload, TypeInv, StoreTypeOK, SpaceRow
<1>6. \A a \in Assets : /\ req[w].items[a].blob = p.put[a]
                        /\ a \in p.del => asset[a].hash # None
  BY <1>2 DEF ContentInv, PlansInv, Planned, PlannedFor, CanReserve, At, BasePcs
<1>7. PlanOf(u) = Revisions!EmptyPlan
  <2>1. \A a \in Assets : item[u][a].blob = None /\ del[u][a] = "absent"
    BY <1>4 DEF ContentInv, MutationsInv, MutationOK, ItemOK
  <2> QED BY <2>1 DEF PlanOf, Revisions!EmptyPlan
<1>8. PlanOf(u)' = p
  <2>1. [a \in Assets |-> item'[u][a].blob] = p.put
    BY <1>3, <1>5, <1>6
  <2>2. {a \in Assets : del'[u][a] # "absent"} = p.del
    BY <1>3, <1>5
  <2> QED BY <1>3, <2>1, <2>2 DEF PlanOf
<1>9. \A v \in Uploads \ {u} : PlanOf(v)' = PlanOf(v)
  BY <1>5 DEF PlanOf
<1>10. [v \in Uploads |-> PlanOf(v)]' = [[v \in Uploads |-> PlanOf(v)] EXCEPT ![u] = p]
  BY <1>8, <1>9
<1>11. ~SomeCommitting /\ ~SomeCommitting'
  BY <1>4, <1>5, ModelAssumption DEF LockIInv, LockInv, ActiveStates, SomeCommitting
<1>12. [a \in Assets |-> asset[a].hash]' = [a \in Assets |-> asset[a].hash]
  BY <1>5
<1>13. Revisions!Begin(u, p)
  BY <1>3, <1>4, <1>5, <1>6, <1>7, <1>10, <1>11, <1>12
     DEF Revisions!Begin, SomeCommitting
<1> QED BY <1>3, <1>13 DEF Revisions!Next

\* Closing an item's row leaves its planned payload.
LEMMA ClosedKeepsBlob ==
    ASSUME NEW i \in ItemRow, NEW st PROVE Closed(i, st).blob = i.blob
BY DEF Closed, ItemRow

\* finishCancel is Abandon, or stutters when the lock is another's or nobody's.
LEMMA FinishCancelAbandons ==
    ASSUME LockIInv, ContentInv, NEW w \in Workers, At(w, "finishCancel"),
           FinishCancel(req[w].t)
    PROVE  Revisions!Next \/ UNCHANGED Revisions!revisionVars
<1>t. TypeInv
  BY DEF LockIInv
<1>1. PICK t \in Uploads : t = req[w].t /\ batch[t].state \in {"cancelling", "cancelled"}
  BY <1>t DEF TypeInv, CoherentRequest, Coherent, At, BatchPcs, LockIInv, CancellingInv,
              CancelPcs
<1>2. /\ asset' = asset /\ space' = UnlockedSpace(t)
      /\ batch' = IF batch[t].state = "cancelling"
                  THEN [batch EXCEPT ![t].state = "cancelled"] ELSE batch
      /\ \A v \in Uploads \ {t} : item'[v] = item[v] /\ del'[v] = del[v]
      /\ \A a \in Assets :
           /\ \/ item'[t][a] = item[t][a]
              \/ item'[t][a] = Closed(item[t][a], "cancelled")
           /\ del'[t][a] = "absent" <=> del[t][a] = "absent"
  BY <1>1, <1>t DEF FinishCancel, MoveDeletes, TypeInv, StoreTypeOK
<1>3. /\ batch'[t].state = "cancelled"
      /\ \A v \in Uploads : v # t => batch'[v].state = batch[v].state
  BY <1>1, <1>2, <1>t, BatchStateChange
<1>4. \A a \in Assets : item'[t][a].blob = item[t][a].blob
  <2> SUFFICES ASSUME NEW a \in Assets PROVE item'[t][a].blob = item[t][a].blob
    OBVIOUS
  <2>1. item[t][a] \in ItemRow
    BY <1>1, <1>t DEF TypeInv, StoreTypeOK
  <2>2. item'[t][a] = item[t][a] \/ item'[t][a] = Closed(item[t][a], "cancelled")
    BY <1>2
  <2> QED BY <2>1, <2>2, ClosedKeepsBlob
<1>5. [u \in Uploads |-> PlanOf(u)]' = [u \in Uploads |-> PlanOf(u)]
  BY <1>2, <1>4, SamePlans
<1>6. SomeCommitting' = SomeCommitting
  BY <1>1, <1>3 DEF SomeCommitting
<1>7. CASE space.pending = t
  <2>1. /\ space'.pending = None /\ space'.revision = space.revision
        /\ space'.epoch = space.epoch
    BY <1>2, <1>7, <1>t DEF UnlockedSpace, TypeInv, StoreTypeOK, SpaceRow
  <2>2. ~SomeCommitting
    BY <1>1, <1>7 DEF LockIInv, LockInv, ActiveStates, SomeCommitting
  <2>3. [a \in Assets |-> asset[a].hash]' = [a \in Assets |-> asset[a].hash]
    BY <1>2
  <2>4. Revisions!Abandon
    BY <1>1, <1>5, <1>6, <1>7, <2>1, <2>2, <2>3, ModelAssumption
       DEF Revisions!Abandon, SomeCommitting
  <2> QED BY <2>4 DEF Revisions!Next
<1>8. CASE space.pending # t
  BY <1>2, <1>5, <1>6, <1>8, Stutters DEF UnlockedSpace
<1> QED BY <1>7, <1>8

\* beginCommit is Seal.
LEMMA BeginCommitSeals ==
    ASSUME LockIInv, NEW u \in Uploads, batch[u].state = "prepared", BeginCommit(u)
    PROVE  Revisions!Next
<1>t. TypeInv
  BY DEF LockIInv
<1>1. /\ batch'[u].state = "committing"
      /\ \A v \in Uploads : v # u => batch'[v].state = batch[v].state
  BY <1>t, BatchStateChange DEF BeginCommit
<1>2. /\ asset' = asset /\ space' = space
      /\ \A v \in Uploads, a \in Assets :
           /\ item'[v][a].blob = item[v][a].blob
           /\ del'[v][a] = "absent" <=> del[v][a] = "absent"
  BY <1>t DEF BeginCommit, MoveItems, MoveDeletes, TypeInv, StoreTypeOK, ItemRow
<1>3. [v \in Uploads |-> PlanOf(v)]' = [v \in Uploads |-> PlanOf(v)]
  BY <1>2, SamePlans
<1>4. space.pending = u /\ ~SomeCommitting /\ SomeCommitting'
  BY <1>1 DEF LockIInv, LockInv, ActiveStates, SomeCommitting
<1>5. Revisions!Seal
  BY <1>2, <1>3, <1>4, ModelAssumption DEF Revisions!Seal, SomeCommitting
<1> QED BY <1>5 DEF Revisions!Next

\* finalizeCommit is Publish: it applies the whole plan to the asset rows at once.
LEMMA FinalizePublishes ==
    ASSUME LockIInv, ContentInv, NEW u \in Uploads, CanFinalize(u), FinalizeCommit(u)
    PROVE  Revisions!Next
<1>t. TypeInv
  BY DEF LockIInv
<1>1. space.pending = u /\ batch[u].state = "committing" /\ batch[u].epoch = space.epoch + 1
  BY DEF CanFinalize, LockIInv, RevisionInv, ActiveStates
<1>2. /\ batch'[u].state = "committed"
      /\ \A v \in Uploads : v # u => batch'[v].state = batch[v].state
  BY <1>t, BatchStateChange DEF FinalizeCommit
<1>3. space'.revision = u /\ space'.epoch = space.epoch + 1 /\ space'.pending = None
  BY <1>1 DEF FinalizeCommit
<1>4. SomeCommitting /\ ~SomeCommitting'
  BY <1>1, <1>2 DEF LockIInv, LockInv, ActiveStates, SomeCommitting
<1>5. \A v \in Uploads, a \in Assets :
        /\ item'[v][a].blob = item[v][a].blob
        /\ del'[v][a] = "absent" <=> del[v][a] = "absent"
  <2> SUFFICES ASSUME NEW v \in Uploads, NEW a \in Assets
               PROVE  /\ item'[v][a].blob = item[v][a].blob
                      /\ del'[v][a] = "absent" <=> del[v][a] = "absent"
    OBVIOUS
  <2>1. CASE v # u
    BY <2>1, <1>t DEF FinalizeCommit, TypeInv, StoreTypeOK
  <2>2. CASE v = u
    <3>1. item[u][a] \in ItemRow
      BY <1>t DEF TypeInv, StoreTypeOK
    <3>2. item'[u][a] = item[u][a] \/ item'[u][a] = Closed(item[u][a], "committed")
      BY <1>t DEF FinalizeCommit, TypeInv, StoreTypeOK
    <3>3. del'[u][a] = IF del[u][a] = "reserved" THEN "committed" ELSE del[u][a]
      BY <1>t DEF FinalizeCommit, MoveDeletes, TypeInv, StoreTypeOK
    <3> QED BY <2>2, <3>1, <3>2, <3>3, ClosedKeepsBlob
  <2> QED BY <2>1, <2>2
<1>6. [v \in Uploads |-> PlanOf(v)]' = [v \in Uploads |-> PlanOf(v)]
  BY <1>5, SamePlans
<1>7. ASSUME NEW a \in Assets
      PROVE  asset'[a].hash = IF a \in PlanOf(u).del THEN None
                              ELSE IF PlanOf(u).put[a] # None THEN PlanOf(u).put[a]
                              ELSE asset[a].hash
  <2>1. asset'[a] = IF del[u][a] # "absent" THEN AbsentAsset
                    ELSE IF item[u][a].state # "absent"
                         THEN AssetUpsert(asset[a], item[u][a], u) ELSE asset[a]
    BY DEF FinalizeCommit, PublishedAssets
  <2>2. /\ AbsentAsset.hash = None
        /\ AssetUpsert(asset[a], item[u][a], u).hash = item[u][a].blob
    BY DEF AbsentAsset, AssetUpsert
  <2>3. item[u][a].state = "absent" <=> item[u][a].blob = None
    BY DEF ContentInv, MutationsInv, MutationOK, ItemOK
  <2>4. /\ a \in PlanOf(u).del <=> del[u][a] # "absent"
        /\ PlanOf(u).put[a] = item[u][a].blob
    BY DEF PlanOf
  <2> QED BY <2>1, <2>2, <2>3, <2>4
<1>8. Revisions!Publish
  BY <1>1, <1>3, <1>4, <1>6, <1>7 DEF Revisions!Publish, SomeCommitting
<1> QED BY <1>8 DEF Revisions!Next

\* Every other step stutters.
LEMMA StepRefines ==
    ASSUME LockIInv, ContentInv, ContentStep
    PROVE  [Revisions!Next]_(Revisions!revisionVars)
<1>t. TypeInv
  BY DEF LockIInv
<1>1. CASE UNCHANGED <<space, batch, item, del, asset>>
  BY <1>1, SamePlans, Stutters DEF SomeCommitting
<1>2. ASSUME NEW u \in Uploads, NEW a \in Assets, PutMoves(u, a)
      PROVE  UNCHANGED Revisions!revisionVars
  <2>1. PICK j \in ItemRow : ItemMoves(item[u][a], j) /\ item' = [item EXCEPT ![u][a] = j]
    BY <1>2 DEF PutMoves
  <2>2. \A v \in Uploads, b \in Assets : item'[v][b].blob = item[v][b].blob
    BY <1>t, <2>1 DEF ItemMoves, TypeInv, StoreTypeOK
  <2> QED BY <1>2, <2>2, SamePlans, Stutters DEF PutMoves, SomeCommitting
<1>3. ASSUME NEW u \in Uploads, NEW a \in Assets, MarkDeleteItemDeleted(u, a)
      PROVE  UNCHANGED Revisions!revisionVars
  <2>1. UNCHANGED <<space, batch, item, asset>>
    BY <1>3 DEF MarkDeleteItemDeleted
  <2>2. \A v \in Uploads, b \in Assets : del'[v][b] = "absent" <=> del[v][b] = "absent"
    BY <1>3, <1>t DEF MarkDeleteItemDeleted, TypeInv, StoreTypeOK
  <2> QED BY <2>1, <2>2, SamePlans, Stutters DEF SomeCommitting
<1>4. ASSUME NEW u \in Uploads, batch[u].state = "prepared", BeginCancel(u)
      PROVE  UNCHANGED Revisions!revisionVars
  <2>1. /\ batch'[u].state = "cancelling"
        /\ \A v \in Uploads : v # u => batch'[v].state = batch[v].state
    BY <1>4, <1>t, BatchStateChange DEF BeginCancel
  <2>2. UNCHANGED <<space, item, del, asset>>
    BY <1>4 DEF BeginCancel
  <2> QED BY <1>4, <2>1, <2>2, SamePlans, Stutters DEF SomeCommitting
<1> QED BY <1>1, <1>2, <1>3, <1>4, ReserveBegins, FinishCancelAbandons, BeginCommitSeals,
           FinalizePublishes DEF ContentStep

\* An empty space is an initial state of SpaceRevisions.
LEMMA InitRefines == Init => Revisions!Init
<1> SUFFICES ASSUME Init PROVE Revisions!Init
  OBVIOUS
<1>1. ~SomeCommitting
  BY DEF Init, StoreInit, SomeCommitting
<1>2. ASSUME NEW u \in Uploads PROVE PlanOf(u) = Revisions!EmptyPlan
  BY DEF Init, StoreInit, PlanOf, AbsentItem, Revisions!EmptyPlan
<1>3. space.revision = None /\ space.epoch = 0 /\ space.pending = None
  BY DEF Init, StoreInit
<1>4. [a \in Assets |-> asset[a].hash] = [a \in Assets |-> None]
  BY DEF Init, StoreInit, AbsentAsset
<1> QED BY <1>1, <1>2, <1>3, <1>4 DEF Revisions!Init, SomeCommitting

(***************************************************************************)
(* prepare, commit, cancel, recovery and cron together: one upload at a    *)
(* time holds the space, nothing of it is visible before it is published,  *)
(* a sealed one is never abandoned, and publishing replaces the revision   *)
(* by exactly the mutations its prepare was asked for, in one step.        *)
(***************************************************************************)
THEOREM RevisionsImplemented == Spec => ImplementsRevisions
<1>1. (LockIInv /\ ContentInv) /\ [Next]_vars => [Revisions!Next]_(Revisions!revisionVars)
  <2> SUFFICES ASSUME LockIInv, ContentInv, [Next]_vars
               PROVE  [Revisions!Next]_(Revisions!revisionVars)
    OBVIOUS
  <2>1. ContentStep
    BY ContentSteps DEF LockIInv
  <2> QED BY <2>1, StepRefines
<1> QED BY <1>1, InitRefines, ContentInvariance, PTL DEF Spec, ImplementsRevisions, Revisions!Spec

-----------------------------------------------------------------------------
(* Which objects a step writes and deletes. *)

CommitPcs == {"complete", "finalize"}
CleanPcs == {"deleteObjects", "markDeleted"}

\* x neither completes objects nor deletes those of other assets than todo.
CleansOnly(x, t, todo) ==
    /\ x.pc \notin CommitPcs
    /\ x.pc \in CleanPcs => x.t = t /\ x.todo \subseteq todo

\* The step may begin a clean-up, of deletions that are published by now.
Lists(w) ==
    /\ UNCHANGED object
    /\ req'[w].pc \notin CommitPcs
    /\ req'[w].pc \in CleanPcs =>
         /\ req'[w].t \in Uploads
         /\ \A a \in req'[w].todo : del'[req'[w].t][a] = "committed"

\* The step goes on with a clean-up.
Cleans(w) ==
    /\ req[w].pc \in CleanPcs
    /\ CleansOnly(req'[w], req[w].t, req[w].todo)
    /\ \/ UNCHANGED object
       \/ \E a \in req[w].todo : DeleteObjects(a)

\* The step enters the guarded calls.
Enters(w) ==
    /\ CanAcquireGuard(req[w].t) /\ AcquireRecoverGuard(req[w].t)
    /\ req[w].t \in Uploads /\ req'[w].t = req[w].t
    /\ req'[w].todo = MultipartItems(req[w].t)
    /\ req'[w].pc \in CommitPcs
    /\ req'[w].pc = "finalize" => req'[w].todo = {}

\* Item a of batch t is in its slot, and nothing else has changed in R2.
Puts(t, a) ==
    /\ object'[a][item[t][a].slot] = [u |-> t, blob |-> item[t][a].blob]
    /\ \A b \in Assets, s \in Slots :
         <<b, s>> # <<a, item[t][a].slot>> => object'[b][s] = object[b][s]

\* The step completes one object.
Completes(w) ==
    /\ req[w].pc = "complete" /\ req'[w].pc \in CommitPcs /\ req'[w].t = req[w].t
    /\ UNCHANGED d1Vars
    /\ \E a \in req[w].todo :
         /\ item[req[w].t][a].state = "reserved"
         /\ Puts(req[w].t, a)
         /\ req'[w].todo = req[w].todo \ {a}
    /\ req'[w].pc = "finalize" => req'[w].todo = {}

WorkStep(w) ==
    /\ \A v \in Workers \ {w} : req'[v] = req[v]
    /\ Lists(w) \/ Cleans(w) \/ Enters(w) \/ Completes(w)

\* The end of a clean-up does neither,
LEMMA AfterCleanupCleans ==
    ASSUME NEW r \in Request, NEW t, NEW todo
    PROVE  CleansOnly(AfterCleanup(r), t, todo)
BY AfterCleanupPc DEF CleansOnly, CommitPcs, CleanPcs

\* and a new one concerns the listed assets only.
LEMMA EnterCleanupCleans ==
    ASSUME NEW r \in Request, NEW todo \in SUBSET Assets
    PROVE  CleansOnly(EnterCleanup(r, todo), r.t, todo)
<1> DEFINE x == [r EXCEPT !.pc = "deleteObjects", !.todo = todo]
<1>1. x.pc = "deleteObjects" /\ x.t = r.t /\ x.todo = todo
  BY DEF Request
<1> HIDE DEF x
<1>2. CleansOnly(x, r.t, todo)
  BY <1>1 DEF CleansOnly, CommitPcs
<1> QED BY <1>2, AfterCleanupCleans DEF EnterCleanup, x

\* recoverBatch lists what is left to delete, or does something else first.
LEMMA RecoverBatchCleans ==
    ASSUME NEW r \in Request
    PROVE  CleansOnly(RecoverBatch(r), r.t, PendingDeletes(r.t))
<1>1. CASE batch[r.t].state = "committed"
  <2>1. PendingDeletes(r.t) \in SUBSET Assets
    BY DEF PendingDeletes
  <2> QED BY <1>1, <2>1, EnterCleanupCleans DEF RecoverBatch
<1>2. CASE batch[r.t].state # "committed"
  <2>1. /\ [r EXCEPT !.pc = "beginCancel"].pc = "beginCancel"
        /\ [r EXCEPT !.pc = "acquireGuard"].pc = "acquireGuard"
    BY DEF Request
  <2>2. AfterRecover(r).pc \notin CommitPcs \cup CleanPcs
    BY AfterRecoverPc DEF CommitPcs, CleanPcs
  <2>3. RecoverBatch(r).pc \notin CommitPcs \cup CleanPcs
    BY <1>2, <2>1, <2>2 DEF RecoverBatch, CommitPcs, CleanPcs
  <2> QED BY <2>3 DEF CleansOnly
<1> QED BY <1>1, <1>2

\* A request that goes on to neither write nor delete makes a WorkStep,
LEMMA IdleWorkStep ==
    ASSUME NEW w \in Workers, \A v \in Workers \ {w} : req'[v] = req[v],
           req'[w].pc \notin CommitPcs \cup CleanPcs, UNCHANGED object
    PROVE  WorkStep(w)
BY DEF WorkStep, Lists

\* as does one that begins to recover a batch.
LEMMA RecoverWorkStep ==
    ASSUME TypeInv, NEW w \in Workers, NEW r \in Request, r.t \in Uploads,
           Continue(w, RecoverBatch(r)), UNCHANGED storeVars
    PROVE  WorkStep(w)
<1>1. /\ req'[w] = RecoverBatch(r)
      /\ \A v \in Workers \ {w} : req'[v] = req[v]
  BY ContinueStep
<1>2. CleansOnly(req'[w], r.t, PendingDeletes(r.t))
  BY <1>1, RecoverBatchCleans
<1>3. del' = del /\ object' = object
  BY DEF storeVars, d1Vars, r2Vars
<1> QED BY <1>1, <1>2, <1>3 DEF WorkStep, Lists, CleansOnly, PendingDeletes

\* prepare writes no object; recovering another batch it may clean up.
LEMMA PrepareWorkStep ==
    ASSUME TypeInv, NEW w \in Workers,
           \/ \E u \in Uploads, base \in KnownRevisions, plan \in Plans :
                StartPrepare(w, u, base, plan) \/ RetryPrepare(w, u, base, plan)
           \/ ReadPending(w) \/ ReadSpace(w) \/ Reserve(w)
           \/ \E a \in Assets : ReadAsset(w, a)
    PROVE  WorkStep(w)
<1> USE DEF CommitPcs, CleanPcs
<1>r. req[w] \in Request
  BY DEF TypeInv, CoherentRequest
<1>o. UNCHANGED object
  BY DEF StartPrepare, RetryPrepare, ReadPending, ReadSpace, Reserve, ReserveUpload, ReadAsset,
         LocalStep, storeVars, r2Vars
<1>1. ASSUME NEW u \in Uploads, NEW base \in KnownRevisions, NEW plan \in Plans,
             StartPrepare(w, u, base, plan)
      PROVE  WorkStep(w)
  <2> DEFINE x == [New("prepare", "readPending", u, None) EXCEPT !.base = base, !.plan = plan]
  <2>1. x.pc = "readPending"
    BY DEF New, Idle
  <2>2. Continue(w, x)
    BY <1>1 DEF StartPrepare, Start
  <2> HIDE DEF x
  <2> QED BY <1>o, <2>1, <2>2, ContinueStep, IdleWorkStep
<1>2. ASSUME NEW u \in Uploads, NEW base \in KnownRevisions, NEW plan \in Plans,
             RetryPrepare(w, u, base, plan)
      PROVE  WorkStep(w)
  BY <1>2, <1>o, NewFields, ContinueStep, IdleWorkStep DEF RetryPrepare
<1>3. CASE ReadPending(w)
  <2> DEFINE x == [req[w] EXCEPT !.t = space.pending]
  <2>1. space.pending # None => x \in Request /\ x.t \in Uploads
    BY <1>r DEF Request, TypeInv, StoreTypeOK, SpaceRow, UploadOrNone
  <2>2. AfterRecover(req[w]).pc \notin CommitPcs \cup CleanPcs
    BY <1>r, AfterRecoverPc
  <2>3. /\ Continue(w, IF space.pending = None THEN AfterRecover(req[w]) ELSE RecoverBatch(x))
        /\ UNCHANGED storeVars
    BY <1>3 DEF ReadPending, LocalStep
  <2> HIDE DEF x
  <2>4. CASE space.pending = None
    BY <1>o, <2>2, <2>3, <2>4, ContinueStep, IdleWorkStep
  <2>5. CASE space.pending # None
    BY <2>1, <2>3, <2>5, RecoverWorkStep
  <2> QED BY <2>4, <2>5
<1>4. CASE ReadSpace(w)
  <2> DEFINE todo == {a \in Assets : req[w].plan.put[a] # None} \cup req[w].plan.del
             x == [req[w] EXCEPT !.pc = "readAssets", !.epoch = space.epoch + 1, !.todo = todo]
  <2>1. x.pc = "readAssets"
    BY <1>r DEF Request
  <2>2. Finish(w) \/ Continue(w, x)
    BY <1>4 DEF ReadSpace
  <2> HIDE DEF x
  <2> QED BY <1>o, <2>1, <2>2, FinishStep, ContinueStep, IdleWorkStep
<1>5. CASE Reserve(w)
  BY <1>5, <1>o, FinishStep, IdleWorkStep DEF Reserve
<1>6. ASSUME NEW a \in Assets, ReadAsset(w, a)
      PROVE  WorkStep(w)
  <2> DEFINE rest == req[w].todo \ {a}
             pc == IF rest = {} THEN "reserve" ELSE "readAssets"
             r == [req[w] EXCEPT !.todo = rest, !.pc = pc]
             x == [r EXCEPT !.items[a] = PlannedItem(asset[a], req[w].plan.put[a])]
  <2>1. pc \notin CommitPcs \cup CleanPcs
    OBVIOUS
  <2> HIDE DEF pc
  <2>2. r.pc = pc
    BY <1>r DEF Request
  <2>3. x.pc = pc
    BY <1>r DEF Request
  <2>4. Finish(w) \/ Continue(w, r) \/ Continue(w, x)
    BY <1>6 DEF ReadAsset, pc
  <2> HIDE DEF r, x
  <2> QED BY <1>o, <2>1, <2>2, <2>3, <2>4, FinishStep, ContinueStep, IdleWorkStep
<1> QED BY <1>1, <1>2, <1>3, <1>4, <1>5, <1>6

\* A PUT only writes parts, which are no object yet.
LEMMA PutWorkStep ==
    ASSUME TypeInv, NEW w \in Workers,
           \/ \E u \in Uploads, a \in Assets : StartPut(w, u, a)
           \/ Claim(w) \/ Create(w) \/ SetMultipart(w) \/ UploadPartTo(w)
           \/ MarkReady(w) \/ Release(w)
    PROVE  WorkStep(w)
<1> USE DEF CommitPcs, CleanPcs
<1>r. req[w] \in Request
  BY DEF TypeInv, CoherentRequest
<1>o. UNCHANGED object
  BY DEF StartPut, Claim, ClaimItem, Create, CreateMultipart, SetMultipart, SetMultipartId,
         UploadPartTo, UploadPart, MarkReady, MarkItemReady, Release, ReleaseItem,
         storeVars, r2Vars
<1>1. ASSUME NEW u \in Uploads, NEW a \in Assets, StartPut(w, u, a)
      PROVE  WorkStep(w)
  <2> DEFINE x == [New("put", "claim", u, None) EXCEPT !.a = a, !.mp = item[u][a].mp]
  <2>1. x.pc = "claim"
    BY DEF New, Idle
  <2>2. Continue(w, x)
    BY <1>1 DEF StartPut, Start
  <2> HIDE DEF x
  <2> QED BY <1>o, <2>1, <2>2, ContinueStep, IdleWorkStep
<1>2. CASE Create(w)
  <2>1. CASE Goto(w, "releaseItem")
    BY <1>o, <2>1, GotoStep, IdleWorkStep
  <2>2. ASSUME NEW m \in Multiparts,
               Continue(w, [req[w] EXCEPT !.pc = "setMultipart", !.mp = m])
        PROVE  WorkStep(w)
    <3>1. [req[w] EXCEPT !.pc = "setMultipart", !.mp = m].pc = "setMultipart"
      BY <1>r DEF Request
    <3> QED BY <1>o, <2>2, <3>1, ContinueStep, IdleWorkStep
  <2> QED BY <1>2, <2>1, <2>2 DEF Create
<1>3. CASE Claim(w) \/ SetMultipart(w) \/ UploadPartTo(w) \/ MarkReady(w) \/ Release(w)
  <2>1. \/ Finish(w)
        \/ \E pc \in {"markReady", "create", "uploadPart", "releaseItem"} : Goto(w, pc)
    BY <1>3 DEF Claim, SetMultipart, UploadPartTo, MarkReady, Release
  <2> QED BY <1>o, <2>1, FinishStep, GotoStep, IdleWorkStep
<1> QED BY <1>1, <1>2, <1>3

\* A recovery that fails goes on to release its guard.
LEMMA FailRecoveryWorkStep ==
    ASSUME TypeInv, NEW w \in Workers, FailRecovery(w), UNCHANGED object
    PROVE  WorkStep(w)
<1> DEFINE x == [req[w] EXCEPT !.pc = "releaseGuard", !.failed = TRUE, !.todo = {}]
<1>1. x.pc = "releaseGuard"
  BY DEF TypeInv, CoherentRequest, Request
<1>2. Continue(w, x)
  BY DEF FailRecovery
<1> HIDE DEF x
<1> QED BY <1>1, <1>2, ContinueStep, IdleWorkStep DEF CommitPcs, CleanPcs

\* completeR2Item finds the object or creates it; either way it is there.
LEMMA CompleteWorkStep ==
    ASSUME TypeInv, NEW w \in Workers, NEW a \in Assets, Complete(w, a)
    PROVE  WorkStep(w)
<1> DEFINE t == req[w].t
           pc == IF req[w].todo = {a} THEN "finalize" ELSE "complete"
           x == [req[w] EXCEPT !.todo = req[w].todo \ {a}, !.pc = pc]
<1>1. req[w] \in Request /\ t \in Uploads /\ req[w].pc = "complete"
  BY DEF TypeInv, CoherentRequest, Coherent, Complete, At, BatchPcs
<1>2. Continue(w, x)
  BY <1>1 DEF Complete, CompletedItem, Continue, Request
<1>3. x.pc = pc /\ x.t = t /\ x.todo = req[w].todo \ {a}
  BY <1>1 DEF Request
<1>4. pc \in CommitPcs /\ (pc = "finalize" => req[w].todo \ {a} = {})
  BY DEF CommitPcs
<1>5. item[t][a].slot \in Slots /\ object \in [Assets -> [Slots -> ObjectRow]]
  BY <1>1 DEF TypeInv, StoreTypeOK, ItemRow
<1>6. \/ ObjectCompleted(t, a) /\ UNCHANGED storeVars
      \/ CompleteMultipart(t, a)
  BY Zenon DEF Complete
<1>7. ASSUME ObjectCompleted(t, a), UNCHANGED storeVars
      PROVE  Puts(t, a) /\ UNCHANGED d1Vars
  <2>1. object' = object /\ UNCHANGED d1Vars
    BY <1>7 DEF storeVars, r2Vars
  <2> QED BY <1>7, <2>1 DEF ObjectCompleted, Puts
<1>8. ASSUME CompleteMultipart(t, a)
      PROVE  Puts(t, a) /\ UNCHANGED d1Vars
  <2> DEFINE slot == item[t][a].slot
             o == [u |-> t, blob |-> item[t][a].blob]
  <2>1. object' = [object EXCEPT ![a][slot] = o] /\ UNCHANGED d1Vars
    BY <1>8, Zenon DEF CompleteMultipart
  <2>2. slot \in Slots
    BY <1>5
  <2> HIDE DEF slot, o
  <2>3. /\ object'[a][slot] = o
        /\ \A b \in Assets, s \in Slots : <<b, s>> # <<a, slot>> => object'[b][s] = object[b][s]
    BY <1>5, <2>1, <2>2
  <2> QED BY <2>1, <2>3 DEF Puts, slot, o
<1>9. a \in req[w].todo /\ item[t][a].state = "reserved"
  BY Zenon DEF Complete
<1> HIDE DEF x, pc
<1>10. req'[w] = x /\ \A v \in Workers \ {w} : req'[v] = req[v]
  BY <1>2, ContinueStep
<1>11. Puts(t, a) /\ UNCHANGED d1Vars
  BY <1>6, <1>7, <1>8
<1> QED BY <1>1, <1>3, <1>4, <1>9, <1>10, <1>11 DEF WorkStep, Completes

\* Commit and recovery up to the release of the guard.
LEMMA RecoveryWorkStep ==
    ASSUME TypeInv, NEW w \in Workers,
           \/ \E u \in Uploads : StartCommit(w, u)
           \/ BeginCommitStep(w) \/ RereadBatch(w) \/ AcquireGuard(w) \/ Finalize(w)
           \/ \E a \in Assets : Complete(w, a) \/ CompleteFails(w, a)
           \/ ReleaseGuard(w)
    PROVE  WorkStep(w)
<1> USE DEF CommitPcs, CleanPcs
<1>r. req[w] \in Request /\ (req[w].pc \in BatchPcs => req[w].t \in Uploads)
  BY DEF TypeInv, CoherentRequest, Coherent
<1>s. UNCHANGED storeVars => UNCHANGED object
  BY DEF storeVars, r2Vars
<1>1. ASSUME NEW u \in Uploads, StartCommit(w, u)
      PROVE  WorkStep(w)
  <2> DEFINE x == New("commit", "beginCommit", u, u)
             y == New("commit", "idle", u, u)
  <2>1. x.pc = "beginCommit" /\ y \in Request /\ y.t = u
    BY NewFields, NewCoherent DEF Ops, CoherentRequest
  <2>2. (Continue(w, x) \/ Continue(w, RecoverBatch(y))) /\ UNCHANGED storeVars
    BY <1>1 DEF StartCommit, Start
  <2> HIDE DEF x, y
  <2> QED BY <1>s, <2>1, <2>2, ContinueStep, IdleWorkStep, RecoverWorkStep
<1>2. CASE BeginCommitStep(w)
  <2>1. Goto(w, "rereadBatch") \/ Finish(w)
    BY <1>2 DEF BeginCommitStep
  <2>2. UNCHANGED object
    BY <1>2, <1>s DEF BeginCommitStep, BeginCommit, r2Vars
  <2> QED BY <2>1, <2>2, GotoStep, FinishStep, IdleWorkStep
<1>3. CASE RereadBatch(w)
  BY <1>3, <1>r, RecoverWorkStep DEF RereadBatch, LocalStep, At, BatchPcs
<1>4. CASE AcquireGuard(w)
  <2> DEFINE t == req[w].t
             todo == MultipartItems(t)
             pc == IF todo = {} THEN "finalize" ELSE "complete"
             x == [req[w] EXCEPT !.held = TRUE, !.todo = todo, !.pc = pc]
             y == IF batch[t].state = "committed" THEN AfterRecover(req[w]) ELSE Idle
  <2>1. \/ CanAcquireGuard(t) /\ AcquireRecoverGuard(t) /\ Continue(w, x)
        \/ Continue(w, y) /\ UNCHANGED storeVars
    BY <1>4 DEF AcquireGuard
  <2>2. y.pc \notin CommitPcs \cup CleanPcs
    BY <1>r, AfterRecoverPc DEF Idle
  <2>3. t \in Uploads
    BY <1>4, <1>r DEF AcquireGuard, At, BatchPcs
  <2>4. pc \in CommitPcs /\ (pc = "finalize" => todo = {})
    OBVIOUS
  <2> HIDE DEF pc, todo
  <2>5. x.pc = pc /\ x.t = t /\ x.todo = todo
    BY <1>r DEF Request
  <2> HIDE DEF x, y
  <2>6. CASE Continue(w, y) /\ UNCHANGED storeVars
    BY <1>s, <2>2, <2>6, ContinueStep, IdleWorkStep
  <2>7. CASE CanAcquireGuard(t) /\ AcquireRecoverGuard(t) /\ Continue(w, x)
    BY <2>3, <2>4, <2>5, <2>7, ContinueStep DEF WorkStep, Enters, todo
  <2> QED BY <2>1, <2>6, <2>7
<1>5. CASE Finalize(w)
  <2> DEFINE t == req[w].t
             dels == {a \in Assets : del[t][a] = "reserved"}
  <2>1. \/ FinalizeCommit(t) /\ Continue(w, EnterCleanup(req[w], dels))
        \/ FailRecovery(w) /\ UNCHANGED storeVars
    BY <1>5 DEF Finalize
  <2>2. t \in Uploads
    BY <1>5, <1>r DEF Finalize, At, BatchPcs
  <2>3. ASSUME FinalizeCommit(t), Continue(w, EnterCleanup(req[w], dels))
        PROVE  WorkStep(w)
    <3>1. /\ req'[w] = EnterCleanup(req[w], dels)
          /\ \A v \in Workers \ {w} : req'[v] = req[v]
      BY <2>3, ContinueStep
    <3>2. CleansOnly(req'[w], t, dels)
      BY <1>r, <3>1, EnterCleanupCleans
    <3>3. \A a \in dels : del'[t][a] = "committed"
      BY <2>2, <2>3 DEF FinalizeCommit, MoveDeletes, TypeInv, StoreTypeOK
    <3>4. UNCHANGED object
      BY <2>3 DEF FinalizeCommit, r2Vars
    <3> HIDE DEF dels, t
    <3> QED BY <2>2, <3>1, <3>2, <3>3, <3>4 DEF WorkStep, Lists, CleansOnly
  <2> HIDE DEF dels, t
  <2> QED BY <1>s, <2>1, <2>3, FailRecoveryWorkStep
<1>6. ASSUME NEW a \in Assets, CompleteFails(w, a)
      PROVE  WorkStep(w)
  BY <1>6, <1>s, FailRecoveryWorkStep DEF CompleteFails, LocalStep
<1>7. CASE ReleaseGuard(w)
  <2> DEFINE y == IF req[w].failed THEN Idle ELSE AfterRecover(req[w])
  <2>1. y.pc \notin CommitPcs \cup CleanPcs
    BY <1>r, AfterRecoverPc DEF Idle
  <2>2. Continue(w, y) /\ UNCHANGED object
    BY <1>7 DEF ReleaseGuard, ReleaseRecoverGuard, r2Vars
  <2> HIDE DEF y
  <2> QED BY <2>1, <2>2, ContinueStep, IdleWorkStep
<1> QED BY <1>1, <1>2, <1>3, <1>4, <1>5, <1>6, <1>7, CompleteWorkStep

\* The clean-up deletes the objects of the assets it has listed.
LEMMA DeleteWorkStep ==
    ASSUME TypeInv, NEW w \in Workers,
           \/ \E a \in Assets : DeleteAssetObjects(w, a)
           \/ DeleteFails(w) \/ MarkDeleted(w) \/ D1Fails(w)
    PROVE  WorkStep(w)
<1> USE DEF CommitPcs, CleanPcs
<1>r. req[w] \in Request
  BY DEF TypeInv, CoherentRequest
<1>s. UNCHANGED storeVars => UNCHANGED object
  BY DEF storeVars, r2Vars
<1>c. ASSUME Continue(w, AfterCleanup(req[w])), UNCHANGED object PROVE WorkStep(w)
  <2>1. AfterCleanup(req[w]).pc \notin CommitPcs \cup CleanPcs
    BY <1>r, AfterCleanupPc
  <2> QED BY <1>c, <2>1, ContinueStep, IdleWorkStep
<1>1. ASSUME NEW a \in Assets, DeleteAssetObjects(w, a)
      PROVE  WorkStep(w)
  <2> DEFINE x == [req[w] EXCEPT !.pc = "markDeleted", !.a = a]
  <2>1. x.pc = "markDeleted" /\ x.t = req[w].t /\ x.todo = req[w].todo
    BY <1>r DEF Request
  <2>2. /\ Continue(w, x) /\ a \in req[w].todo /\ DeleteObjects(a)
        /\ req[w].pc = "deleteObjects"
    BY <1>1 DEF DeleteAssetObjects, At
  <2> HIDE DEF x
  <2> QED BY <2>1, <2>2, ContinueStep DEF WorkStep, Cleans, CleansOnly
<1>2. CASE DeleteFails(w)
  BY <1>2, <1>c, <1>s DEF DeleteFails, LocalStep
<1>3. CASE MarkDeleted(w)
  <2> DEFINE x == [req[w] EXCEPT !.a = None]
             rest == req[w].todo \ {req[w].a}
  <2>1. x \in Request /\ x.t = req[w].t /\ rest \in SUBSET Assets
    BY <1>r DEF Request
  <2>2. Continue(w, EnterCleanup(x, rest)) /\ UNCHANGED object /\ req[w].pc = "markDeleted"
    BY <1>3 DEF MarkDeleted, MarkDeleteItemDeleted, r2Vars, At
  <2>3. rest \subseteq req[w].todo
    OBVIOUS
  <2> HIDE DEF x, rest
  <2>4. CleansOnly(EnterCleanup(x, rest), req[w].t, rest)
    BY <2>1, EnterCleanupCleans
  <2> QED BY <2>2, <2>3, <2>4, ContinueStep DEF WorkStep, Cleans, CleansOnly
<1>4. CASE D1Fails(w)
  <2>1. CASE req[w].pc \in {"setMultipart", "markReady"} /\ Goto(w, "releaseItem")
    BY <1>4, <1>s, <2>1, GotoStep, IdleWorkStep DEF D1Fails, LocalStep
  <2>2. CASE At(w, "finalize") /\ FailRecovery(w)
    BY <1>4, <1>s, <2>2, FailRecoveryWorkStep DEF D1Fails, LocalStep
  <2>3. CASE At(w, "markDeleted") /\ Continue(w, AfterCleanup(req[w]))
    BY <1>4, <1>c, <1>s, <2>3 DEF D1Fails, LocalStep
  <2> QED BY <1>4, <2>1, <2>2, <2>3 DEF D1Fails
<1> QED BY <1>1, <1>2, <1>3, <1>4

\* A cancellation aborts uploads, which are no objects; cron may clean up.
LEMMA CancelWorkStep ==
    ASSUME TypeInv, NEW w \in Workers,
           \/ \E u \in Uploads : StartCancel(w, u)
           \/ StartAbort(w) \/ StartCron(w)
           \/ BeginCancelStep(w) \/ BeginForceAbortStep(w)
           \/ AbortMultiparts(w) \/ FinishCancelStep(w)
    PROVE  WorkStep(w)
<1> USE DEF CommitPcs, CleanPcs
<1>r. req[w] \in Request
  BY DEF TypeInv, CoherentRequest
<1>o. UNCHANGED object
  BY DEF StartCancel, StartAbort, StartCron, BeginCancelStep, BeginForceAbortStep, CancelStep,
         BeginCancel, AbortMultiparts, AbortMultipartUploads, FinishCancelStep, FinishCancel,
         storeVars, r2Vars
<1>a. AfterRecover(req[w]).pc \notin CommitPcs \cup CleanPcs
  BY <1>r, AfterRecoverPc
<1>1. ASSUME NEW u \in Uploads, StartCancel(w, u)
      PROVE  WorkStep(w)
  BY <1>1, <1>o, NewFields, ContinueStep, IdleWorkStep DEF StartCancel, Start
<1>2. CASE StartAbort(w)
  <2> DEFINE t == space.pending
             pc == IF batch[t].state = "prepared" THEN "beginForceAbort" ELSE "beginCancel"
  <2>1. pc \notin CommitPcs \cup CleanPcs
    OBVIOUS
  <2>2. Continue(w, New("abort", pc, t, t))
    BY <1>2 DEF StartAbort, Start
  <2> HIDE DEF pc, t
  <2> QED BY <1>o, <2>1, <2>2, NewFields, ContinueStep, IdleWorkStep
<1>3. CASE StartCron(w)
  <2>1. PICK u \in Uploads :
          Continue(w, RecoverBatch(New("cron", "idle", u, u))) /\ UNCHANGED storeVars
    BY <1>3 DEF StartCron, Start
  <2> DEFINE y == New("cron", "idle", u, u)
  <2>2. y \in Request /\ y.t \in Uploads
    BY NewCoherent, NewFields DEF Ops, CoherentRequest
  <2> HIDE DEF y
  <2>3. Continue(w, RecoverBatch(y))
    BY <2>1 DEF y
  <2> QED BY <2>1, <2>2, <2>3, RecoverWorkStep
<1>4. CASE BeginCancelStep(w) \/ BeginForceAbortStep(w)
  <2>1. Goto(w, "abortMultiparts") \/ Continue(w, AfterRecover(req[w]))
    BY <1>4 DEF BeginCancelStep, BeginForceAbortStep, CancelStep
  <2> QED BY <1>a, <1>o, <2>1, GotoStep, ContinueStep, IdleWorkStep
<1>5. CASE AbortMultiparts(w)
  BY <1>5, <1>o, GotoStep, IdleWorkStep DEF AbortMultiparts
<1>6. CASE FinishCancelStep(w)
  BY <1>6, <1>a, <1>o, ContinueStep, IdleWorkStep DEF FinishCancelStep
<1> QED BY <1>1, <1>2, <1>3, <1>4, <1>5, <1>6

\* Every step of a worker is a WorkStep.
LEMMA WorkSteps ==
    ASSUME TypeInv, NEW w \in Workers,
           Arrive(w) \/ Advance(w) \/ D1Fails(w) \/ Crash(w)
    PROVE  WorkStep(w)
<1>1. CASE Arrive(w)
  <2> USE <1>1 DEF Arrive
  <2> QED BY PrepareWorkStep, PutWorkStep, RecoveryWorkStep, CancelWorkStep
<1>2. CASE Advance(w)
  BY <1>2, PrepareWorkStep, PutWorkStep, RecoveryWorkStep, DeleteWorkStep, CancelWorkStep
     DEF Advance
<1>3. CASE D1Fails(w)
  BY <1>3, DeleteWorkStep
<1>4. CASE Crash(w)
  BY <1>4, FinishStep, IdleWorkStep DEF Crash, storeVars, r2Vars, CommitPcs, CleanPcs
<1> QED BY <1>1, <1>2, <1>3, <1>4

-----------------------------------------------------------------------------
(* The objects agree with the rows. *)

\* A deletion of the asset has been published at some time.
DeletedOnce(a) == \E u \in Uploads : del[u][a] \in {"committed", "deleted"}

\* The object of an item that recovery has completed.
Written(t, a) ==
    \/ object[a][item[t][a].slot] = [u |-> t, blob |-> item[t][a].blob]
    \/ object[a][item[t][a].slot] = NoObject /\ DeletedOnce(a)

\* A sealed batch has an upload for the slot.
Overwrites(u, a, s) ==
    /\ batch[u].state = "committing"
    /\ a \in MultipartItems(u)
    /\ item[u][a].state = "reserved" /\ item[u][a].slot = s

\* What recovery no longer lists as to be completed is there.
CompletingOK(r) == r.pc \in CommitPcs =>
    /\ batch[r.t].state = "committing"
    /\ r.todo \subseteq MultipartItems(r.t)
    /\ \A a \in MultipartItems(r.t) \ r.todo : Written(r.t, a)
    /\ r.pc = "finalize" => r.todo = {}

\* Objects are only deleted for a deletion that is published.
CleaningOK(r) == r.pc \in CleanPcs => \A a \in r.todo : DeletedOnce(a)

WorkInv == \A w \in Workers : CompletingOK(req[w]) /\ CleaningOK(req[w])

\* The object a row records for a slot, published or kept for reuse.
SlotOK(a, s) == asset[a].r2[s] # None =>
    \/ object[a][s] = [u |-> asset[a].etag[s], blob |-> asset[a].r2[s]]
    \/ object[a][s] = NoObject /\ DeletedOnce(a)
    \/ \E u \in Uploads : Overwrites(u, a, s)

SlotsInv == \A a \in Assets, s \in Slots : SlotOK(a, s)

EarlyStates == {"absent", "prepared", "cancelling", "cancelled"}
UnwrittenInv ==
    \A u \in Uploads : batch[u].state \in EarlyStates =>
      \A a \in Assets, s \in Slots : object[a][s].u # u

ObjectsInv == WorkInv /\ SlotsInv /\ UnwrittenInv

ObjectsIInv == LockIInv /\ GuardIInv /\ ContentInv /\ ObjectsInv

\* A published deletion stays one, and the items of a sealed batch stand still.
RowsStand ==
    /\ \A a \in Assets : DeletedOnce(a) => DeletedOnce(a)'
    /\ \A u \in Uploads : batch[u].state = "committing" /\ batch'[u].state = "committing" =>
         item'[u] = item[u]
    /\ asset' = asset \/ \E u \in Uploads : CanFinalize(u) /\ FinalizeCommit(u)

\* No step takes a deletion back or changes a sealed item, and only finalizeCommit
\* touches the asset rows.
LEMMA RowsStandStill ==
    ASSUME LockIInv, ContentInv, [Next]_vars
    PROVE  RowsStand
<1>t. TypeInv /\ CancellingInv /\ DeletedInv /\ MutationsInv /\ ContentStep
  BY ContentSteps DEF LockIInv, ContentInv
<1>d. del \in [Uploads -> [Assets -> DeleteStates]]
  BY <1>t DEF TypeInv, StoreTypeOK
<1>i. item \in [Uploads -> [Assets -> ItemRow]]
  BY <1>t DEF TypeInv, StoreTypeOK
<1>1. ASSUME \A u \in Uploads, a \in Assets :
               del[u][a] \in {"committed", "deleted"} => del'[u][a] \in {"committed", "deleted"},
             \A u \in Uploads : batch[u].state = "committing" /\ batch'[u].state = "committing" =>
               item'[u] = item[u],
             asset' = asset \/ \E u \in Uploads : CanFinalize(u) /\ FinalizeCommit(u)
      PROVE  RowsStand
  BY <1>1 DEF RowsStand, DeletedOnce
<1>2. CASE UNCHANGED <<space, batch, item, del, asset>>
  BY <1>1, <1>2
<1>3. ASSUME NEW w \in Workers, At(w, "reserve"), CanReserve(req[w].u, req[w].base),
             ReserveUpload(req[w].u, req[w].base, req[w].epoch, req[w].items,
                           req[w].plan.del, req[w].now)
      PROVE  RowsStand
  <2>1. PICK u \in Uploads : u = req[w].u
    BY <1>t, <1>3 DEF TypeInv, CoherentRequest, Coherent, At, PreparePcs
  <2>2. /\ asset' = asset
        /\ \A v \in Uploads \ {u} : item'[v] = item[v] /\ del'[v] = del[v]
    BY <1>3, <1>d, <1>i, <2>1 DEF ReserveUpload
  <2>3. batch[u].state = "absent" /\ \A a \in Assets : del[u][a] = "absent"
    BY <1>3, <1>t, <2>1 DEF CanReserve, MutationsInv, MutationOK
  <2> QED BY <1>1, <2>2, <2>3
<1>4. ASSUME NEW w \in Workers, At(w, "finishCancel"), FinishCancel(req[w].t)
      PROVE  RowsStand
  <2>1. PICK u \in Uploads : u = req[w].t
    BY <1>t, <1>4 DEF TypeInv, CoherentRequest, Coherent, At, BatchPcs
  <2>2. batch[u].state \in {"cancelling", "cancelled"}
    BY <1>t, <1>4, <2>1 DEF CancellingInv, CancelPcs, At
  <2>3. \A a \in Assets : del[u][a] # "deleted"
    BY <1>t, <2>2 DEF DeletedInv
  <2>4. /\ asset' = asset
        /\ \A v \in Uploads \ {u} : item'[v] = item[v] /\ del'[v] = del[v]
        /\ \A a \in Assets : del[u][a] = "committed" => del'[u][a] = "committed"
    BY <1>4, <1>d, <1>i, <2>1 DEF FinishCancel, MoveDeletes
  <2> QED BY <1>1, <2>2, <2>3, <2>4
<1>5. ASSUME NEW u \in Uploads, NEW a \in Assets, PutMoves(u, a)
      PROVE  RowsStand
  <2>1. /\ asset' = asset /\ del' = del /\ batch' = batch
        /\ \A v \in Uploads \ {u} : item'[v] = item[v]
    BY <1>5, <1>i DEF PutMoves
  <2>2. batch[u].state # "committing"
    BY <1>5, <1>t DEF PutMoves, ItemMoves, MutationsInv, MutationOK
  <2> QED BY <1>1, <2>1, <2>2
<1>6. ASSUME NEW u \in Uploads, NEW a \in Assets, MarkDeleteItemDeleted(u, a)
      PROVE  RowsStand
  <2>1. asset' = asset /\ item' = item
    BY <1>6 DEF MarkDeleteItemDeleted
  <2>2. \A v \in Uploads, b \in Assets :
          del[v][b] \in {"committed", "deleted"} => del'[v][b] \in {"committed", "deleted"}
    BY <1>6, <1>d DEF MarkDeleteItemDeleted
  <2> QED BY <1>1, <2>1, <2>2
<1>7. ASSUME NEW u \in Uploads, batch[u].state = "prepared", BeginCommit(u)
      PROVE  RowsStand
  <2>1. /\ asset' = asset
        /\ \A v \in Uploads \ {u} : item'[v] = item[v] /\ del'[v] = del[v]
        /\ \A a \in Assets : del[u][a] # "issued" => del'[u][a] = del[u][a]
    BY <1>7, <1>d, <1>i DEF BeginCommit, MoveDeletes
  <2> QED BY <1>1, <1>7, <2>1
<1>8. ASSUME NEW u \in Uploads, BeginCancel(u)
      PROVE  RowsStand
  BY <1>1, <1>8 DEF BeginCancel
<1>9. ASSUME NEW u \in Uploads, CanFinalize(u), FinalizeCommit(u)
      PROVE  RowsStand
  <2>1. /\ \A v \in Uploads \ {u} : item'[v] = item[v] /\ del'[v] = del[v]
        /\ \A a \in Assets : del[u][a] # "reserved" => del'[u][a] = del[u][a]
    BY <1>9, <1>d, <1>i DEF FinalizeCommit, MoveDeletes
  <2>2. batch'[u].state = "committed"
    BY <1>9, <1>t, BatchStateChange DEF FinalizeCommit
  <2> QED BY <1>1, <1>9, <2>1, <2>2
<1> QED BY <1>t, <1>2, <1>3, <1>4, <1>5, <1>6, <1>7, <1>8, <1>9 DEF ContentStep

\* Only the worker at finalizeCommit ends a commit, and leaves the guarded calls.
LEMMA CommittedByFinalize ==
    ASSUME LockIInv, [Next]_vars, NEW u \in Uploads,
           batch[u].state = "committing", batch'[u].state # "committing"
    PROVE  \E w \in Workers :
             /\ req[w].pc = "finalize" /\ req[w].t = u
             /\ CanFinalize(u) /\ FinalizeCommit(u)
             /\ req'[w].pc \notin CommitPcs
<1>t. TypeInv /\ CancellingInv
  BY DEF LockIInv
<1>s. ~UNCHANGED batch /\ ~UNCHANGED storeVars
  BY DEF storeVars, d1Vars
<1>1. ~(Tick \/ UNCHANGED vars)
  BY <1>s DEF Tick, vars
<1>2. ASSUME NEW w \in Workers, Arrive(w) \/ D1Fails(w) \/ Crash(w) PROVE FALSE
  BY <1>2, <1>s DEF Arrive, StartPrepare, RetryPrepare, StartPut, StartCommit, StartCancel,
     StartAbort, StartCron, D1Fails, Crash, LocalStep
<1>3. ASSUME NEW w \in Workers,
             \/ ReadPending(w) \/ ReadSpace(w) \/ RereadBatch(w) \/ DeleteFails(w)
             \/ \E a \in Assets : \/ ReadAsset(w, a) \/ CompleteFails(w, a)
                                  \/ Complete(w, a) \/ DeleteAssetObjects(w, a)
      PROVE  FALSE
  BY <1>3, <1>s DEF ReadPending, ReadSpace, RereadBatch, DeleteFails, ReadAsset, CompleteFails,
     Complete, CompleteMultipart, DeleteAssetObjects, DeleteObjects, LocalStep, d1Vars
<1>4. ASSUME NEW w \in Workers,
             \/ Claim(w) \/ Create(w) \/ SetMultipart(w) \/ UploadPartTo(w)
             \/ MarkReady(w) \/ Release(w) \/ AcquireGuard(w) \/ MarkDeleted(w)
             \/ ReleaseGuard(w) \/ AbortMultiparts(w)
      PROVE  FALSE
  BY <1>4, <1>s DEF Claim, ClaimItem, Create, CreateMultipart, SetMultipart, SetMultipartId,
     UploadPartTo, UploadPart, MarkReady, MarkItemReady, Release, ReleaseItem, AcquireGuard,
     AcquireRecoverGuard, MarkDeleted, MarkDeleteItemDeleted, ReleaseGuard,
     ReleaseRecoverGuard, AbortMultiparts, AbortMultipartUploads, d1Vars
<1>5. ASSUME NEW w \in Workers, Reserve(w) PROVE FALSE
  <2>1. /\ CanReserve(req[w].u, req[w].base)
        /\ ReserveUpload(req[w].u, req[w].base, req[w].epoch, req[w].items,
                         req[w].plan.del, req[w].now)
    BY <1>5, <1>s DEF Reserve
  <2>2. u # req[w].u
    BY <2>1 DEF CanReserve
  <2> QED BY <1>t, <2>1, <2>2 DEF ReserveUpload, TypeInv, StoreTypeOK
<1>6. ASSUME NEW w \in Workers, BeginCommitStep(w) \/ BeginCancelStep(w) \/ BeginForceAbortStep(w)
      PROVE  FALSE
  <2>1. PICK t \in Uploads : t = req[w].t
    BY <1>t, <1>6 DEF TypeInv, CoherentRequest, Coherent, At, BatchPcs,
       BeginCommitStep, BeginCancelStep, BeginForceAbortStep
  <2>2. batch[t].state = "prepared" /\ (BeginCommit(t) \/ BeginCancel(t))
    BY <1>6, <1>s, <2>1
       DEF BeginCommitStep, BeginCancelStep, BeginForceAbortStep, CancelStep, CanBeginCommit,
           CanBeginCancel, CanForceAbort
  <2> QED BY <1>t, <2>2, BatchStateChange DEF BeginCommit, BeginCancel
<1>7. ASSUME NEW w \in Workers, FinishCancelStep(w) PROVE FALSE
  <2>1. PICK t \in Uploads : t = req[w].t
    BY <1>t, <1>7 DEF TypeInv, CoherentRequest, Coherent, At, BatchPcs, FinishCancelStep
  <2>2. batch[t].state \in {"cancelling", "cancelled"} /\ FinishCancel(t)
    BY <1>t, <1>7, <2>1 DEF CancellingInv, CancelPcs, At, FinishCancelStep
  <2> QED BY <1>s, <1>t, <2>2, BatchStateChange DEF FinishCancel
<1>8. ASSUME NEW w \in Workers, Finalize(w)
      PROVE  /\ req[w].pc = "finalize" /\ req[w].t = u
             /\ CanFinalize(u) /\ FinalizeCommit(u)
             /\ req'[w].pc \notin CommitPcs
  <2> DEFINE dels == {a \in Assets : del[req[w].t][a] = "reserved"}
  <2>1. PICK t \in Uploads : t = req[w].t
    BY <1>t, <1>8 DEF TypeInv, CoherentRequest, Coherent, At, BatchPcs, Finalize
  <2>2. /\ CanFinalize(t) /\ FinalizeCommit(t)
        /\ Continue(w, EnterCleanup(req[w], dels))
        /\ req[w].pc = "finalize"
    BY <1>8, <1>s, <2>1 DEF Finalize, At
  <2>3. t = u
    BY <1>t, <2>2, BatchStateChange DEF FinalizeCommit
  <2>4. EnterCleanup(req[w], dels).pc \notin CommitPcs
    BY <1>t, EnterCleanupPc DEF TypeInv, CoherentRequest, CommitPcs
  <2> HIDE DEF dels
  <2>5. req'[w].pc \notin CommitPcs
    BY <1>t, <2>2, <2>4, ContinueStep
  <2> QED BY <2>1, <2>2, <2>3, <2>5
<1>9. \E w \in Workers : Finalize(w)
  BY <1>1, <1>2, <1>3, <1>4, <1>5, <1>6, <1>7 DEF Next, Advance
<1> QED BY <1>8, <1>9

\* One worker at a time is inside the guarded calls of a batch being committed.
LEMMA OneCompletes ==
    ASSUME ObjectsIInv, NEW v \in Workers, NEW w \in Workers,
           req[v].pc \in CommitPcs, req[w].pc \in CommitPcs
    PROVE  v = w
<1>1. req[v].held /\ req[w].held
  BY DEF ObjectsIInv, GuardIInv, HeldInv, HeldOK, GuardedPcs, CommitPcs
<1>2. /\ req[v].t \in Uploads /\ batch[req[v].t].state = "committing"
      /\ req[w].t \in Uploads /\ batch[req[w].t].state = "committing"
  BY DEF ObjectsIInv, ObjectsInv, WorkInv, CompletingOK, LockIInv, TypeInv, CoherentRequest,
         Coherent, BatchPcs, CommitPcs
<1>3. req[v].t = req[w].t
  BY <1>2 DEF ObjectsIInv, LockIInv, LockInv, ActiveStates
<1> QED BY <1>1, <1>3 DEF ObjectsIInv, GuardIInv, GuardInv

\* A worker that stays inside the guarded calls still has its batch.
LEMMA StaysCommitting ==
    ASSUME ObjectsIInv, [Next]_vars, NEW v \in Workers,
           req[v].pc \in CommitPcs, req'[v].pc \in CommitPcs
    PROVE  batch'[req[v].t].state = "committing"
<1>1. req[v].t \in Uploads /\ batch[req[v].t].state = "committing"
  BY DEF ObjectsIInv, ObjectsInv, WorkInv, CompletingOK, LockIInv, TypeInv, CoherentRequest,
         Coherent, BatchPcs, CommitPcs
<1>2. SUFFICES ASSUME batch'[req[v].t].state # "committing" PROVE FALSE
  OBVIOUS
<1>3. PICK w \in Workers : req[w].pc = "finalize" /\ req'[w].pc \notin CommitPcs
  BY <1>1, <1>2, CommittedByFinalize DEF ObjectsIInv
<1>4. w = v
  BY <1>3, OneCompletes DEF CommitPcs
<1> QED BY <1>3, <1>4

\* What a step of worker w does to the objects.
LEMMA ObjectMoves ==
    ASSUME ObjectsIInv, NEW w \in Workers, WorkStep(w)
    PROVE  \/ UNCHANGED object
           \/ \E a \in Assets : DeletedOnce(a) /\ DeleteObjects(a)
           \/ Completes(w)
<1>1. req[w].todo \subseteq Assets
  BY DEF ObjectsIInv, LockIInv, TypeInv, CoherentRequest, Request
<1>2. CleaningOK(req[w])
  BY DEF ObjectsIInv, ObjectsInv, WorkInv
<1>3. Enters(w) => UNCHANGED object
  BY DEF Enters, AcquireRecoverGuard, r2Vars
<1> QED BY <1>1, <1>2, <1>3 DEF WorkStep, Lists, Cleans, CleaningOK

\* What a worker has completed stays written while others step.
LEMMA WrittenKept ==
    ASSUME ObjectsIInv, [Next]_vars, RowsStand, NEW v \in Workers,
           req[v].pc \in CommitPcs, req'[v] = req[v],
           \/ UNCHANGED object
           \/ \E a \in Assets : DeletedOnce(a) /\ DeleteObjects(a)
    PROVE  CompletingOK(req[v])'
<1> DEFINE t == req[v].t
<1>1. /\ t \in Uploads /\ batch[t].state = "committing"
      /\ req[v].todo \subseteq MultipartItems(t)
      /\ \A a \in MultipartItems(t) \ req[v].todo : Written(t, a)
      /\ req[v].pc = "finalize" => req[v].todo = {}
  BY DEF ObjectsIInv, ObjectsInv, WorkInv, CompletingOK, LockIInv, TypeInv, CoherentRequest,
         Coherent, BatchPcs, CommitPcs
<1>2. batch'[t].state = "committing"
  BY StaysCommitting
<1>3. item'[t] = item[t]
  BY <1>1, <1>2 DEF RowsStand
<1>4. MultipartItems(t) = {a \in Assets : item'[t][a].backend = "r2" /\ item'[t][a].mp # None}
  BY <1>3 DEF MultipartItems
<1>5. ASSUME NEW a \in MultipartItems(t), Written(t, a)
      PROVE  \/ object'[a][item'[t][a].slot] = [u |-> t, blob |-> item'[t][a].blob]
             \/ object'[a][item'[t][a].slot] = NoObject /\ DeletedOnce(a)'
  <2>1. /\ a \in Assets /\ item[t][a].slot \in Slots
        /\ object \in [Assets -> [Slots -> ObjectRow]]
    BY <1>1 DEF MultipartItems, ObjectsIInv, LockIInv, TypeInv, StoreTypeOK, ItemRow
  <2>2. DeletedOnce(a) => DeletedOnce(a)'
    BY <2>1 DEF RowsStand
  <2>3. CASE UNCHANGED object
    BY <1>3, <1>5, <2>2, <2>3 DEF Written
  <2>4. ASSUME NEW b \in Assets, DeletedOnce(b), DeleteObjects(b)
        PROVE  \/ object'[a][item'[t][a].slot] = [u |-> t, blob |-> item'[t][a].blob]
               \/ object'[a][item'[t][a].slot] = NoObject /\ DeletedOnce(a)'
    <3>1. object' = [object EXCEPT ![b] = [s \in Slots |-> NoObject]]
      BY <2>4 DEF DeleteObjects
    <3>2. CASE a = b
      <4>1. object'[a][item[t][a].slot] = NoObject
        BY <2>1, <3>1, <3>2
      <4> QED BY <1>3, <2>2, <2>4, <3>2, <4>1
    <3>3. CASE a # b
      <4>1. object'[a] = object[a]
        BY <2>1, <3>1, <3>3
      <4> QED BY <1>3, <1>5, <2>2, <4>1 DEF Written
    <3> QED BY <3>2, <3>3
  <2> QED BY <2>3, <2>4
<1>6. req[v]' = req[v]
  OBVIOUS
<1> HIDE DEF t
<1>7. \A a \in MultipartItems(t) \ req[v].todo :
         \/ object'[a][item'[t][a].slot] = [u |-> t, blob |-> item'[t][a].blob]
         \/ object'[a][item'[t][a].slot] = NoObject /\ DeletedOnce(a)'
  BY <1>1, <1>5
<1> QED BY <1>1, <1>2, <1>4, <1>6, <1>7 DEF CompletingOK, MultipartItems, Written, t

\* The worker that takes the step: it enters with everything still to do, or
\* has one object less to complete.
LEMMA WrittenStarts ==
    ASSUME ObjectsIInv, NEW w \in Workers, WorkStep(w)
    PROVE  CompletingOK(req[w])'
<1> DEFINE t == req[w].t
<1>1. CASE Lists(w) \/ Cleans(w)
  BY <1>1 DEF Lists, Cleans, CleansOnly, CompletingOK
<1>2. CASE Enters(w)
  <2>1. batch' = batch /\ item' = item /\ batch[t].state = "committing"
    BY <1>2 DEF Enters, CanAcquireGuard, AcquireRecoverGuard
  <2> QED BY <1>2, <2>1 DEF Enters, CompletingOK, MultipartItems
<1>3. CASE Completes(w)
  <2>1. batch' = batch /\ item' = item /\ del' = del
    BY <1>3 DEF Completes, d1Vars
  <2>2. PICK a \in req[w].todo : Puts(t, a) /\ req'[w].todo = req[w].todo \ {a}
    BY <1>3 DEF Completes
  <2>3. /\ req[w].pc = "complete" /\ req'[w].t = t
        /\ req'[w].pc = "finalize" => req'[w].todo = {}
    BY <1>3 DEF Completes
  <2>4. /\ t \in Uploads /\ batch[t].state = "committing"
        /\ req[w].todo \subseteq MultipartItems(t)
        /\ \A b \in MultipartItems(t) \ req[w].todo : Written(t, b)
    BY <2>3 DEF ObjectsIInv, ObjectsInv, WorkInv, CompletingOK, LockIInv, TypeInv,
       CoherentRequest, Coherent, BatchPcs, CommitPcs
  <2>5. ASSUME NEW b \in MultipartItems(t) \ req'[w].todo
        PROVE  \/ object'[b][item[t][b].slot] = [u |-> t, blob |-> item[t][b].blob]
               \/ object'[b][item[t][b].slot] = NoObject /\ DeletedOnce(b)
    <3>1. CASE b = a
      BY <2>2, <3>1 DEF Puts
    <3>2. CASE b # a
      <4>1. Written(t, b)
        BY <2>2, <2>4, <3>2
      <4>2. b \in Assets /\ item[t][b].slot \in Slots
        BY <2>4 DEF MultipartItems, ObjectsIInv, LockIInv, TypeInv, StoreTypeOK, ItemRow
      <4>3. object'[b][item[t][b].slot] = object[b][item[t][b].slot]
        BY <2>2, <3>2, <4>2 DEF Puts
      <4> QED BY <4>1, <4>3 DEF Written
    <3> QED BY <3>1, <3>2
  <2>6. req'[w].todo \subseteq MultipartItems(t)
    BY <2>2, <2>4
  <2> HIDE DEF t
  <2> QED BY <2>1, <2>3, <2>4, <2>5, <2>6 DEF CompletingOK, MultipartItems, Written, DeletedOnce
<1> QED BY <1>1, <1>2, <1>3 DEF WorkStep

\* The work of the workers goes on agreeing with rows and objects.
LEMMA WorkKept ==
    ASSUME ObjectsIInv, [Next]_vars, RowsStand, NEW w \in Workers, WorkStep(w)
    PROVE  WorkInv'
<1>1. ASSUME NEW v \in Workers \ {w} PROVE CompletingOK(req[v])'
  <2>1. req'[v] = req[v]
    BY DEF WorkStep
  <2>2. CASE req[v].pc \notin CommitPcs
    BY <2>1, <2>2 DEF CompletingOK
  <2>3. CASE req[v].pc \in CommitPcs
    <3>1. ~Completes(w)
      BY <2>3, OneCompletes DEF Completes, CommitPcs
    <3> QED BY <2>1, <2>3, <3>1, ObjectMoves, WrittenKept
  <2> QED BY <2>2, <2>3
<1>2. \A a \in Assets : DeletedOnce(a) => DeletedOnce(a)'
  BY DEF RowsStand
<1>3. \A v \in Workers : CleaningOK(req[v]) /\ req[v].todo \subseteq Assets
  BY DEF ObjectsIInv, ObjectsInv, WorkInv, LockIInv, TypeInv, CoherentRequest, Request
<1>4. ASSUME NEW v \in Workers \ {w} PROVE CleaningOK(req[v])'
  <2>1. req'[v] = req[v]
    BY DEF WorkStep
  <2> QED BY <1>2, <1>3, <2>1 DEF CleaningOK
<1>5. CleaningOK(req[w])'
  <2>1. CASE Lists(w)
    BY <2>1 DEF Lists, CleaningOK, DeletedOnce
  <2>2. CASE Cleans(w)
    BY <1>2, <1>3, <2>2 DEF Cleans, CleansOnly, CleaningOK
  <2>3. CASE Enters(w) \/ Completes(w)
    BY <2>3 DEF Enters, Completes, CleaningOK, CommitPcs, CleanPcs
  <2> QED BY <2>1, <2>2, <2>3 DEF WorkStep
<1> QED BY <1>1, <1>4, <1>5, WrittenStarts DEF WorkInv

\* finalizeCommit records for a slot what recovery has put there.
LEMMA PublishKeepsSlots ==
    ASSUME ObjectsIInv, RowsStand, NEW t \in Uploads, CanFinalize(t), FinalizeCommit(t),
           \A a \in MultipartItems(t) : Written(t, a)
    PROVE  SlotsInv'
<1>1. ASSUME NEW a \in Assets, NEW s \in Slots PROVE SlotOK(a, s)'
  <2> DEFINE i == item[t][a]
             row == asset[a]
             newR2 == i.backend = "r2" /\ i.mp # None
  <2>1. /\ row \in AssetRow /\ i \in ItemRow /\ i.slot \in Slots
        /\ row.r2 \in [Slots -> BlobOrNone] /\ row.etag \in [Slots -> UploadOrNone]
    BY DEF ObjectsIInv, LockIInv, TypeInv, StoreTypeOK, AssetRow, ItemRow
  <2>2. i.state \in {"absent", "reserved"}
    BY DEF ObjectsIInv, ContentInv, MutationsInv, MutationOK, CanFinalize
  <2>3. SlotOK(a, s) /\ (DeletedOnce(a) => DeletedOnce(a)')
    BY DEF ObjectsIInv, ObjectsInv, SlotsInv, RowsStand
  <2>4. object' = object
    BY DEF FinalizeCommit, r2Vars
  <2>5. ASSUME NEW u \in Uploads, Overwrites(u, a, s)
        PROVE  newR2 /\ i.state = "reserved" /\ i.slot = s
    <3>1. u = t
      BY <2>5 DEF Overwrites, CanFinalize, ObjectsIInv, LockIInv, LockInv, ActiveStates
    <3> QED BY <2>5, <3>1 DEF Overwrites, MultipartItems
  <2>6. asset'[a] = IF del[t][a] # "absent" THEN AbsentAsset
                    ELSE IF i.state # "absent" THEN AssetUpsert(row, i, t) ELSE row
    BY DEF FinalizeCommit, PublishedAssets
  <2> HIDE DEF newR2, i, row
  <2>7. CASE asset'[a] = AbsentAsset
    <3>1. asset'[a].r2[s] = None
      BY <2>7 DEF AbsentAsset
    <3> QED BY <3>1 DEF SlotOK
  <2>8. ASSUME asset'[a].r2[s] = row.r2[s], asset'[a].etag[s] = row.etag[s],
               ~(newR2 /\ i.state = "reserved" /\ i.slot = s)
        PROVE  SlotOK(a, s)'
    <3>1. \A u \in Uploads : ~Overwrites(u, a, s)
      BY <2>5, <2>8
    <3> QED BY <2>3, <2>4, <2>8, <3>1 DEF SlotOK, row
  <2>9. CASE i.state = "absent" /\ asset'[a] = row
    BY <2>8, <2>9
  <2>10. CASE i.state = "reserved" /\ asset'[a] = AssetUpsert(row, i, t)
    <3>1. /\ asset'[a].r2 = IF newR2 THEN [row.r2 EXCEPT ![i.slot] = i.blob] ELSE row.r2
          /\ asset'[a].etag = IF newR2 THEN [row.etag EXCEPT ![i.slot] = t] ELSE row.etag
      BY <2>10 DEF AssetUpsert, newR2
    <3>2. CASE newR2 /\ i.slot = s
      <4>1. asset'[a].r2[s] = i.blob /\ asset'[a].etag[s] = t
        BY <2>1, <3>1, <3>2
      <4>2. Written(t, a)
        BY <3>2 DEF MultipartItems, newR2, i
      <4> QED BY <2>3, <2>4, <3>2, <4>1, <4>2 DEF SlotOK, Written, i
    <3>3. CASE ~(newR2 /\ i.slot = s)
      BY <2>1, <2>8, <3>1, <3>3
    <3> QED BY <3>2, <3>3
  <2> QED BY <2>2, <2>6, <2>7, <2>9, <2>10
<1> QED BY <1>1 DEF SlotsInv

\* Any other step leaves the rows and what sealed batches will overwrite.
LEMMA StepKeepsSlots ==
    ASSUME ObjectsIInv, RowsStand, asset' = asset,
           \A u \in Uploads : batch[u].state = "committing" => batch'[u].state = "committing",
           \/ UNCHANGED object
           \/ \E a \in Assets : DeletedOnce(a) /\ DeleteObjects(a)
           \/ \E w \in Workers : Completes(w)
    PROVE  SlotsInv'
<1>o. object \in [Assets -> [Slots -> ObjectRow]]
  BY DEF ObjectsIInv, LockIInv, TypeInv, StoreTypeOK
<1>1. ASSUME NEW a \in Assets, NEW s \in Slots PROVE SlotOK(a, s)'
  <2>1. SlotOK(a, s) /\ (DeletedOnce(a) => DeletedOnce(a)')
    BY DEF ObjectsIInv, ObjectsInv, SlotsInv, RowsStand
  <2>2. ASSUME NEW u \in Uploads, Overwrites(u, a, s) PROVE Overwrites(u, a, s)'
    <3>1. batch'[u].state = "committing" /\ item'[u] = item[u]
      BY <2>2 DEF Overwrites, RowsStand
    <3> QED BY <2>2, <3>1 DEF Overwrites, MultipartItems
  <2>3. ASSUME object'[a][s] = object[a][s] PROVE SlotOK(a, s)'
    BY <2>1, <2>2, <2>3 DEF SlotOK
  <2>4. ASSUME NEW b \in Assets, DeletedOnce(b), DeleteObjects(b) PROVE SlotOK(a, s)'
    <3>1. object' = [object EXCEPT ![b] = [r \in Slots |-> NoObject]]
      BY <2>4 DEF DeleteObjects
    <3>2. CASE a = b
      <4>1. object'[a][s] = NoObject
        BY <1>o, <3>1, <3>2
      <4> QED BY <2>1, <2>4, <3>2, <4>1 DEF SlotOK
    <3>3. CASE a # b
      BY <1>o, <2>3, <3>1, <3>3
    <3> QED BY <3>2, <3>3
  <2>5. ASSUME NEW w \in Workers, Completes(w) PROVE SlotOK(a, s)'
    <3> DEFINE t == req[w].t
    <3>1. PICK b \in req[w].todo : item[t][b].state = "reserved" /\ Puts(t, b)
      BY <2>5 DEF Completes
    <3>2. /\ t \in Uploads /\ batch[t].state = "committing"
          /\ req[w].todo \subseteq MultipartItems(t)
      BY <2>5 DEF Completes, ObjectsIInv, ObjectsInv, WorkInv, CompletingOK, LockIInv, TypeInv,
         CoherentRequest, Coherent, BatchPcs, CommitPcs
    <3> HIDE DEF t
    <3>3. CASE a = b /\ s = item[t][b].slot
      <4>1. Overwrites(t, a, s)
        BY <3>1, <3>2, <3>3 DEF Overwrites
      <4> QED BY <2>2, <3>2, <4>1 DEF SlotOK
    <3>4. CASE ~(a = b /\ s = item[t][b].slot)
      BY <2>3, <3>1, <3>4 DEF Puts
    <3> QED BY <3>3, <3>4
  <2> QED BY <2>3, <2>4, <2>5
<1> QED BY <1>1 DEF SlotsInv

\* A step writes only for a batch that is being committed.
LEMMA StepKeepsUnwritten ==
    ASSUME ObjectsIInv, Progress, TypeInv',
           \/ UNCHANGED object
           \/ \E a \in Assets : DeletedOnce(a) /\ DeleteObjects(a)
           \/ \E w \in Workers : Completes(w)
    PROVE  UnwrittenInv'
<1>o. object \in [Assets -> [Slots -> ObjectRow]]
  BY DEF ObjectsIInv, LockIInv, TypeInv, StoreTypeOK
<1>1. ASSUME NEW u \in Uploads, batch'[u].state \in EarlyStates,
             NEW a \in Assets, NEW s \in Slots
      PROVE  object'[a][s].u # u
  <2>1. batch[u].state \notin {"committing", "committed"}
    BY <1>1 DEF Progress, EarlyStates
  <2>2. batch[u].state \in EarlyStates
    BY <2>1 DEF EarlyStates, ObjectsIInv, LockIInv, TypeInv, StoreTypeOK, BatchRow, BatchStates
  <2>3. object[a][s].u # u
    BY <2>2 DEF ObjectsIInv, ObjectsInv, UnwrittenInv
  <2>4. ASSUME NEW b \in Assets, DeleteObjects(b) PROVE object'[a][s].u # u
    <3>1. object'[a][s] \in {object[a][s], NoObject}
      BY <1>o, <2>4 DEF DeleteObjects
    <3> QED BY <2>3, <3>1, ModelAssumption DEF NoObject
  <2>5. ASSUME NEW w \in Workers, Completes(w) PROVE object'[a][s].u # u
    <3>1. PICK b \in req[w].todo : Puts(req[w].t, b)
      BY <2>5 DEF Completes
    <3>2. batch[req[w].t].state = "committing"
      BY <2>5 DEF Completes, ObjectsIInv, ObjectsInv, WorkInv, CompletingOK, CommitPcs
    <3>3. u # req[w].t
      BY <2>1, <3>2
    <3> QED BY <2>3, <3>1, <3>3 DEF Puts
  <2> QED BY <2>3, <2>4, <2>5
<1> QED BY <1>1 DEF UnwrittenInv

\* ObjectsInv holds initially,
LEMMA ObjectsInvInit == Init => ObjectsInv
<1> SUFFICES ASSUME Init PROVE ObjectsInv
  OBVIOUS
<1>1. \A w \in Workers : req[w].pc = "idle"
  BY DEF Init, Idle
<1>2. \A a \in Assets, s \in Slots : asset[a].r2[s] = None /\ object[a][s].u = None
  BY DEF Init, StoreInit, AbsentAsset, NoObject
<1>3. WorkInv
  BY <1>1 DEF WorkInv, CompletingOK, CleaningOK, CommitPcs, CleanPcs
<1>4. SlotsInv /\ UnwrittenInv
  BY <1>2, ModelAssumption DEF SlotsInv, SlotOK, UnwrittenInv
<1> QED BY <1>3, <1>4 DEF ObjectsInv

\* is kept by every step,
LEMMA ObjectsInvNext == ObjectsIInv /\ [Next]_vars => ObjectsInv'
<1> SUFFICES ASSUME ObjectsIInv, [Next]_vars PROVE ObjectsInv'
  OBVIOUS
<1>1. LockIInv' /\ Progress
  BY LockIInvNext DEF ObjectsIInv
<1>2. RowsStand
  BY RowsStandStill DEF ObjectsIInv
<1>3. TypeInv'
  BY <1>1 DEF LockIInv
<1>4. \/ Tick \/ UNCHANGED vars
      \/ \E w \in Workers : WorkStep(w)
  BY WorkSteps DEF Next, ObjectsIInv, LockIInv
<1>5. Tick \/ UNCHANGED vars => UNCHANGED <<object, req, batch, item, del, asset>>
  BY DEF Tick, vars, storeVars, d1Vars, r2Vars
<1>6. \/ UNCHANGED object
      \/ \E a \in Assets : DeletedOnce(a) /\ DeleteObjects(a)
      \/ \E w \in Workers : Completes(w)
  BY <1>4, <1>5, ObjectMoves
<1>7. WorkInv'
  <2>1. CASE Tick \/ UNCHANGED vars
    BY <1>5, <2>1 DEF ObjectsIInv, ObjectsInv, WorkInv, CompletingOK, CleaningOK,
       MultipartItems, Written, DeletedOnce
  <2> QED BY <1>2, <1>4, <2>1, WorkKept
<1>8. SlotsInv'
  <2>1. ASSUME NEW u \in Uploads, batch[u].state = "committing", batch'[u].state # "committing"
        PROVE  SlotsInv'
    <3>1. PICK w \in Workers : /\ req[w].pc = "finalize" /\ req[w].t = u
                               /\ CanFinalize(u) /\ FinalizeCommit(u)
      BY <2>1, CommittedByFinalize DEF ObjectsIInv
    <3>2. \A a \in MultipartItems(u) : Written(u, a)
      BY <3>1 DEF ObjectsIInv, ObjectsInv, WorkInv, CompletingOK, CommitPcs
    <3> QED BY <1>2, <3>1, <3>2, PublishKeepsSlots
  <2>2. ASSUME \A u \in Uploads :
                 batch[u].state = "committing" => batch'[u].state = "committing"
        PROVE  SlotsInv'
    <3>1. ASSUME NEW u \in Uploads, CanFinalize(u), FinalizeCommit(u) PROVE FALSE
      <4>1. batch[u].state = "committing" /\ batch'[u].state = "committed"
        BY <3>1, BatchStateChange DEF CanFinalize, FinalizeCommit, ObjectsIInv, LockIInv
      <4> QED BY <2>2, <4>1
    <3>2. asset' = asset
      BY <1>2, <3>1 DEF RowsStand
    <3> QED BY <1>2, <1>6, <2>2, <3>2, StepKeepsSlots
  <2> QED BY <2>1, <2>2
<1>9. UnwrittenInv'
  BY <1>1, <1>3, <1>6, StepKeepsUnwritten
<1> QED BY <1>7, <1>8, <1>9 DEF ObjectsInv

\* and so always holds, with the invariants it rests on.
LEMMA ObjectsInvariance == Spec => []ObjectsIInv
<1>1. Init => ObjectsIInv
  BY LockIInvInit, GuardIInvInit, ContentInvInit, ObjectsInvInit DEF ObjectsIInv
<1>2. ObjectsIInv /\ [Next]_vars => ObjectsIInv'
  BY LockIInvNext, GuardIInvNext, ContentInvNext, ObjectsInvNext DEF ObjectsIInv
<1> QED BY <1>1, <1>2, PTL DEF Spec

\* What the properties say of the objects.
LEMMA ObjectsFollow == ObjectsIInv => PublishedObjectInv /\ NothingWrittenBeforeCommit
<1>1. ObjectsIInv => PublishedObjectInv
  <2> SUFFICES ASSUME ObjectsIInv, NEW a \in Assets, PublishedInR2(a)
               PROVE  \/ ObjectIntact(a)
                      \/ PublishedObject(a) = NoObject /\ DeletedOnce(a)
    BY DEF PublishedObjectInv, DeletedOnce
  <2> DEFINE s == asset[a].slot
  <2>1. asset[a].hash # None /\ asset[a].backend = "r2" /\ s \in Slots
    BY DEF PublishedInR2, ObjectsIInv, LockIInv, TypeInv, StoreTypeOK, AssetRow
  <2>2. asset[a].r2[s] = asset[a].hash
    BY <2>1 DEF ObjectsIInv, ContentInv, RowsInv, RowOK
  <2>3. ASSUME NEW u \in Uploads, Overwrites(u, a, s) PROVE FALSE
    BY <2>1, <2>3 DEF Overwrites, MultipartItems, ObjectsIInv, ContentInv, MutationsInv,
       MutationOK, Apart, ActiveStates
  <2>4. SlotOK(a, s)
    BY <2>1 DEF ObjectsIInv, ObjectsInv, SlotsInv
  <2> QED BY <2>1, <2>2, <2>3, <2>4 DEF SlotOK, ObjectIntact, PublishedObject
<1>2. ObjectsIInv => NothingWrittenBeforeCommit
  BY DEF ObjectsIInv, ObjectsInv, UnwrittenInv, NothingWrittenBeforeCommit, EarlyStates
<1> QED BY <1>1, <1>2

(***************************************************************************)
(* completeR2Items and finalizeCommit against deletions and other uploads: *)
(* the object behind a published row is the one it was published with, or  *)
(* was deleted for a deletion of the asset that was published.             *)
(***************************************************************************)
THEOREM PublishedObjectCorrect == Spec => []PublishedObjectInv
BY ObjectsFollow, ObjectsInvariance, PTL

(***************************************************************************)
(* Only recovery of a sealed batch completes multipart uploads, so what is *)
(* cancelled, or may still be, has left no object.                         *)
(***************************************************************************)
THEOREM NothingWrittenCorrect == Spec => []NothingWrittenBeforeCommit
BY ObjectsFollow, ObjectsInvariance, PTL
=============================================================================
