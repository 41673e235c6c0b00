------------------------- MODULE SpaceServiceProofs -------------------------
(***************************************************************************)
(* Theorems about SpaceService that hold for every value of its constants: *)
(* its types; the lock of a space, its revision and the life cycle of its  *)
(* batches; and the recover guard of a batch.  The contents of the rows    *)
(* and objects are in SpaceContentProofs.                                  *)
(***************************************************************************)
EXTENDS SpaceService, TLAPS

-----------------------------------------------------------------------------
(* The operations of the repository and of the bucket keep the rows well-typed. *)

\* The updates of one item row keep it an item row.
LEMMA ItemRowUpdates ==
    ASSUME NEW i \in ItemRow
    PROVE  /\ IssuedAgain(i) \in ItemRow
           /\ Uploaded(i) \in ItemRow
           /\ \A s \in ItemStates : [i EXCEPT !.state = s] \in ItemRow
           /\ \A s \in ItemStates : Closed(i, s) \in ItemRow
           /\ \A m \in Multiparts \cup {None} : [i EXCEPT !.mp = m] \in ItemRow
           /\ \A n \in Nat : [i EXCEPT !.state = "uploading", !.lease = n] \in ItemRow
<1>1. None \in BlobOrNone
  BY DEF BlobOrNone
<1>2. {"issued", "ready", "uploading"} \subseteq ItemStates
  BY DEF ItemStates
<1>3. Uploaded(i) \in ItemRow
  BY <1>1, <1>2 DEF Uploaded, ItemRow
<1> QED BY <1>1, <1>2, <1>3 DEF IssuedAgain, Closed, ItemRow

\* Replacing one row of the item table.
LEMMA ItemReplaced ==
    ASSUME StoreTypeOK, NEW u \in Uploads, NEW a \in Assets, NEW i \in ItemRow,
           item' = [item EXCEPT ![u][a] = i]
    PROVE  item' \in [Uploads -> [Assets -> ItemRow]]
BY DEF StoreTypeOK

\* Moving the items of a batch from one state to another keeps them items.
LEMMA MoveItemsType ==
    ASSUME StoreTypeOK, NEW u \in Uploads, NEW from, NEW to \in ItemStates
    PROVE  MoveItems(u, from, to) \in [Assets -> ItemRow]
<1>1. \A a \in Assets : item[u][a] \in ItemRow
  BY DEF StoreTypeOK
<1>2. ASSUME NEW i \in ItemRow PROVE [i EXCEPT !.state = to] \in ItemRow
  BY ItemRowUpdates
<1>3. ASSUME NEW a \in Assets
      PROVE  (IF item[u][a].state \in from THEN [item[u][a] EXCEPT !.state = to]
              ELSE item[u][a]) \in ItemRow
  BY <1>1, <1>2
<1> QED BY <1>3, Zenon DEF MoveItems

\* The same for the deletions of a batch.
LEMMA MoveDeletesType ==
    ASSUME StoreTypeOK, NEW u \in Uploads, NEW from, NEW to \in DeleteStates
    PROVE  MoveDeletes(u, from, to) \in [Assets -> DeleteStates]
BY DEF MoveDeletes, StoreTypeOK

\* A row that an item is published into stays an asset row.
LEMMA AssetUpsertType ==
    ASSUME NEW row \in AssetRow, NEW i \in ItemRow, NEW u \in Uploads
    PROVE  AssetUpsert(row, i, u) \in AssetRow
<1> DEFINE newR2 == i.backend = "r2" /\ i.mp # None
<1>1. UpsertedD1(row, i) \in BlobOrNone
  BY DEF UpsertedD1, AssetRow, ItemRow
<1>2. (IF newR2 THEN [row.r2 EXCEPT ![i.slot] = i.blob] ELSE row.r2) \in [Slots -> BlobOrNone]
  BY DEF AssetRow, ItemRow
<1>3. (IF newR2 THEN [row.etag EXCEPT ![i.slot] = u] ELSE row.etag) \in [Slots -> UploadOrNone]
  BY DEF AssetRow, UploadOrNone
<1>4. /\ i.blob \in BlobOrNone /\ i.backend \in Backends
      /\ (IF i.backend = "d1" THEN i.blob ELSE row.d1Hash) \in BlobOrNone
      /\ (IF i.backend = "r2" THEN i.slot ELSE row.slot) \in Slots
  BY DEF AssetRow, ItemRow
<1> QED BY <1>1, <1>2, <1>3, <1>4 DEF AssetUpsert, AssetRow

\* There is no row before the first commit and after a deletion.
LEMMA AbsentAssetType == AbsentAsset \in AssetRow
BY DEF AbsentAsset, AssetRow, BlobOrNone, UploadOrNone, Backends, Slots

\* The rows a commit publishes are asset rows.
LEMMA PublishedAssetsType ==
    ASSUME StoreTypeOK, NEW u \in Uploads
    PROVE  PublishedAssets(u) \in [Assets -> AssetRow]
<1>1. ASSUME NEW a \in Assets PROVE AssetUpsert(asset[a], item[u][a], u) \in AssetRow
  BY AssetUpsertType DEF StoreTypeOK
<1> QED BY <1>1, AbsentAssetType DEF PublishedAssets, StoreTypeOK

LEMMA StoreInitType == StoreInit => StoreTypeOK
<1> SUFFICES ASSUME StoreInit PROVE StoreTypeOK
  OBVIOUS
<1>1. space \in SpaceRow
  BY DEF StoreInit, SpaceRow, UploadOrNone
<1>2. batch \in [Uploads -> BatchRow]
  BY DEF StoreInit, BatchRow, BatchStates, UploadOrNone
<1>3. AbsentItem \in ItemRow
  BY DEF AbsentItem, ItemRow, ItemStates, Backends, Slots, BlobOrNone
<1>4. item \in [Uploads -> [Assets -> ItemRow]]
  BY <1>3 DEF StoreInit
<1>5. del \in [Uploads -> [Assets -> DeleteStates]] /\ guard \subseteq Uploads
  BY DEF StoreInit, DeleteStates
<1>6. asset \in [Assets -> AssetRow]
  BY AbsentAssetType DEF StoreInit
<1>7. NoObject \in ObjectRow /\ FreeMultipart \in MultipartRow
  BY DEF NoObject, ObjectRow, FreeMultipart, MultipartRow, MultipartStates,
         UploadOrNone, BlobOrNone
<1>8. object \in [Assets -> [Slots -> ObjectRow]] /\ multipart \in [Multiparts -> MultipartRow]
  BY <1>7 DEF StoreInit
<1> QED BY <1>1, <1>2, <1>4, <1>5, <1>6, <1>8 DEF StoreTypeOK

-----------------------------------------------------------------------------
(* The operations of the repository *)

LEMMA ReserveUploadType ==
    ASSUME StoreTypeOK, NEW u \in Uploads, NEW base \in UploadOrNone, NEW epoch \in Nat,
           NEW items \in [Assets -> ItemRow], NEW dels \in SUBSET Assets, NEW now \in Nat,
           ReserveUpload(u, base, epoch, items, dels, now)
    PROVE  StoreTypeOK'
<1>1. space' \in SpaceRow
  BY DEF ReserveUpload, StoreTypeOK, SpaceRow, UploadOrNone
<1>2. now + UploadTtl \in Nat
  BY StoreAssumption
<1>3. batch' \in [Uploads -> BatchRow]
  BY <1>2 DEF ReserveUpload, StoreTypeOK, BatchRow, BatchStates
<1>4. item' \in [Uploads -> [Assets -> ItemRow]]
  BY DEF ReserveUpload, StoreTypeOK
<1>5. del' \in [Uploads -> [Assets -> DeleteStates]]
  BY DEF ReserveUpload, StoreTypeOK, DeleteStates
<1> QED BY <1>1, <1>3, <1>4, <1>5 DEF ReserveUpload, StoreTypeOK, r2Vars

LEMMA ClaimItemType ==
    ASSUME StoreTypeOK, NEW u \in Uploads, NEW a \in Assets, NEW now \in Nat,
           ClaimItem(u, a, now)
    PROVE  StoreTypeOK'
<1>1. now + LeaseTime \in Nat
  BY StoreAssumption
<1>2. item' \in [Uploads -> [Assets -> ItemRow]]
  BY <1>1, ItemRowUpdates, ItemReplaced DEF ClaimItem, StoreTypeOK
<1> QED BY <1>2 DEF ClaimItem, StoreTypeOK, r2Vars

LEMMA ReleaseItemType ==
    ASSUME StoreTypeOK, NEW u \in Uploads, NEW a \in Assets, ReleaseItem(u, a)
    PROVE  StoreTypeOK'
<1>1. item' \in [Uploads -> [Assets -> ItemRow]]
  BY ItemRowUpdates, ItemReplaced DEF ReleaseItem, StoreTypeOK
<1> QED BY <1>1 DEF ReleaseItem, StoreTypeOK, r2Vars

LEMMA SetMultipartIdType ==
    ASSUME StoreTypeOK, NEW u \in Uploads, NEW a \in Assets,
           NEW m \in Multiparts \cup {None}, SetMultipartId(u, a, m)
    PROVE  StoreTypeOK'
<1>1. item' \in [Uploads -> [Assets -> ItemRow]]
  BY ItemRowUpdates, ItemReplaced DEF SetMultipartId, StoreTypeOK
<1> QED BY <1>1 DEF SetMultipartId, StoreTypeOK, r2Vars

LEMMA MarkItemReadyType ==
    ASSUME StoreTypeOK, NEW u \in Uploads, NEW a \in Assets, MarkItemReady(u, a)
    PROVE  StoreTypeOK'
<1>1. item' \in [Uploads -> [Assets -> ItemRow]]
  BY ItemRowUpdates, ItemReplaced DEF MarkItemReady, StoreTypeOK
<1> QED BY <1>1 DEF MarkItemReady, StoreTypeOK, r2Vars

LEMMA BeginCommitType ==
    ASSUME StoreTypeOK, NEW u \in Uploads, BeginCommit(u)
    PROVE  StoreTypeOK'
<1>1. MoveItems(u, {"ready"}, "reserved") \in [Assets -> ItemRow]
  BY MoveItemsType DEF ItemStates
<1>2. MoveDeletes(u, {"issued"}, "reserved") \in [Assets -> DeleteStates]
  BY MoveDeletesType DEF DeleteStates
<1>3. batch' \in [Uploads -> BatchRow]
  BY DEF BeginCommit, StoreTypeOK, BatchRow, BatchStates
<1> QED BY <1>1, <1>2, <1>3 DEF BeginCommit, StoreTypeOK, r2Vars

LEMMA GuardType ==
    ASSUME StoreTypeOK, NEW u \in Uploads,
           AcquireRecoverGuard(u) \/ ReleaseRecoverGuard(u)
    PROVE  StoreTypeOK'
BY DEF AcquireRecoverGuard, ReleaseRecoverGuard, StoreTypeOK, r2Vars

LEMMA FinalizeCommitType ==
    ASSUME StoreTypeOK, NEW u \in Uploads, FinalizeCommit(u)
    PROVE  StoreTypeOK'
<1>1. asset' \in [Assets -> AssetRow]
  BY PublishedAssetsType DEF FinalizeCommit
<1>2. space' \in SpaceRow
  BY DEF FinalizeCommit, StoreTypeOK, SpaceRow, BatchRow, UploadOrNone
<1>3. MoveDeletes(u, {"reserved"}, "committed") \in [Assets -> DeleteStates]
  BY MoveDeletesType DEF DeleteStates
<1>4. item' \in [Uploads -> [Assets -> ItemRow]]
  <2>1. ASSUME NEW a \in Assets PROVE Closed(item[u][a], "committed") \in ItemRow
    BY ItemRowUpdates DEF StoreTypeOK, ItemStates
  <2> QED BY <2>1 DEF FinalizeCommit, StoreTypeOK
<1>5. batch' \in [Uploads -> BatchRow]
  BY DEF FinalizeCommit, StoreTypeOK, BatchRow, BatchStates
<1> QED BY <1>1, <1>2, <1>3, <1>4, <1>5 DEF FinalizeCommit, StoreTypeOK, r2Vars

LEMMA BeginCancelType ==
    ASSUME StoreTypeOK, NEW u \in Uploads, BeginCancel(u)
    PROVE  StoreTypeOK'
BY DEF BeginCancel, StoreTypeOK, BatchRow, BatchStates, r2Vars

LEMMA FinishCancelType ==
    ASSUME StoreTypeOK, NEW u \in Uploads, FinishCancel(u)
    PROVE  StoreTypeOK'
<1>1. space' \in SpaceRow
  BY DEF FinishCancel, UnlockedSpace, StoreTypeOK, SpaceRow, UploadOrNone
<1>2. batch' \in [Uploads -> BatchRow]
  BY DEF FinishCancel, StoreTypeOK, BatchRow, BatchStates
<1>3. item' \in [Uploads -> [Assets -> ItemRow]]
  <2>1. ASSUME NEW a \in Assets PROVE Closed(item[u][a], "cancelled") \in ItemRow
    BY ItemRowUpdates DEF StoreTypeOK, ItemStates
  <2> QED BY <2>1 DEF FinishCancel, StoreTypeOK
<1>4. del' \in [Uploads -> [Assets -> DeleteStates]]
  BY MoveDeletesType DEF FinishCancel, StoreTypeOK, DeleteStates
<1> QED BY <1>1, <1>2, <1>3, <1>4 DEF FinishCancel, StoreTypeOK, r2Vars

LEMMA MarkDeleteItemDeletedType ==
    ASSUME StoreTypeOK, NEW u \in Uploads, NEW a \in Assets, MarkDeleteItemDeleted(u, a)
    PROVE  StoreTypeOK'
<1>1. del' \in [Uploads -> [Assets -> DeleteStates]]
  BY DEF MarkDeleteItemDeleted, StoreTypeOK, DeleteStates
<1> QED BY <1>1 DEF MarkDeleteItemDeleted, StoreTypeOK, r2Vars

-----------------------------------------------------------------------------
(* The operations of the bucket *)

LEMMA MultipartType ==
    ASSUME StoreTypeOK, NEW u \in Uploads, NEW a \in Assets, NEW m,
           CreateMultipart(m, u, a) \/ UploadPart(m)
    PROVE  StoreTypeOK'
<1>1. [state |-> "open", u |-> u, a |-> a, part |-> FALSE] \in MultipartRow
  BY DEF MultipartRow, MultipartStates, UploadOrNone
<1>2. \A n \in Multiparts : [multipart[n] EXCEPT !.part = TRUE] \in MultipartRow
  BY DEF StoreTypeOK, MultipartRow
<1>3. multipart' \in [Multiparts -> MultipartRow]
  <2>1. CASE CreateMultipart(m, u, a)
    BY <1>1, <2>1 DEF CreateMultipart, StoreTypeOK
  <2>2. CASE UploadPart(m)
    BY <1>2, <2>2 DEF UploadPart, StoreTypeOK
  <2> QED BY <2>1, <2>2
<1> QED BY <1>3 DEF CreateMultipart, UploadPart, StoreTypeOK, d1Vars

LEMMA CompleteMultipartType ==
    ASSUME StoreTypeOK, NEW u \in Uploads, NEW a \in Assets, CompleteMultipart(u, a)
    PROVE  StoreTypeOK'
<1>1. multipart' \in [Multiparts -> MultipartRow]
  BY DEF CompleteMultipart, StoreTypeOK, MultipartRow, MultipartStates
<1>2. [u |-> u, blob |-> item[u][a].blob] \in ObjectRow /\ item[u][a].slot \in Slots
  BY DEF StoreTypeOK, ObjectRow, UploadOrNone, ItemRow
<1>3. object' \in [Assets -> [Slots -> ObjectRow]]
  BY <1>2 DEF CompleteMultipart, StoreTypeOK
<1> QED BY <1>1, <1>3 DEF CompleteMultipart, StoreTypeOK, d1Vars

LEMMA AbortMultipartUploadsType ==
    ASSUME StoreTypeOK, NEW ms, AbortMultipartUploads(ms)
    PROVE  StoreTypeOK'
<1>1. multipart' \in [Multiparts -> MultipartRow]
  BY DEF AbortMultipartUploads, StoreTypeOK, MultipartRow, MultipartStates
<1> QED BY <1>1 DEF AbortMultipartUploads, StoreTypeOK, d1Vars

LEMMA DeleteObjectsType ==
    ASSUME StoreTypeOK, NEW a \in Assets, DeleteObjects(a)
    PROVE  StoreTypeOK'
<1>1. NoObject \in ObjectRow
  BY DEF NoObject, ObjectRow, UploadOrNone, BlobOrNone
<1>2. object' \in [Assets -> [Slots -> ObjectRow]]
  BY <1>1 DEF DeleteObjects, StoreTypeOK
<1> QED BY <1>2 DEF DeleteObjects, StoreTypeOK, d1Vars

\* A step that leaves the store alone.
LEMMA StoreUnchangedType ==
    ASSUME StoreTypeOK, UNCHANGED storeVars
    PROVE  StoreTypeOK'
BY DEF StoreTypeOK, storeVars, d1Vars, r2Vars

-----------------------------------------------------------------------------
(* The service *)

PreparePcs == {"readPending", "readSpace", "readAssets", "reserve"}
PutPcs == {"claim", "create", "setMultipart", "uploadPart", "markReady", "releaseItem"}
BatchPcs ==
    {"beginCommit", "rereadBatch", "acquireGuard", "complete", "finalize",
     "deleteObjects", "markDeleted", "releaseGuard",
     "beginCancel", "beginForceAbort", "abortMultiparts", "finishCancel"}

(***************************************************************************)
(* What the program counter of a worker says about the rest of its record. *)
(***************************************************************************)
Coherent(r) ==
    /\ r.op = "prepare" => r.u \in Uploads
    /\ r.pc \in PreparePcs => r.op = "prepare"
    /\ r.pc \in PutPcs => r.u \in Uploads /\ r.a \in Assets
    /\ r.pc \in BatchPcs => r.t \in Uploads
    /\ r.pc = "markDeleted" => r.a \in Assets

CoherentRequest == {r \in Request : Coherent(r)}

TypeInv ==
    /\ StoreTypeOK
    /\ clock \in Nat
    /\ crashes \in Nat
    /\ req \in [Workers -> CoherentRequest]

-----------------------------------------------------------------------------
(* The control operators build coherent requests. *)

\* An idle worker is a coherent one.
LEMMA IdleCoherent == Idle \in CoherentRequest
BY ServiceAssumption, StoreAssumption, ModelAssumption
   DEF Idle, CoherentRequest, Coherent, Request, Pcs, AbsentItem, ItemRow, ItemStates,
       Backends, Slots, BlobOrNone, UploadOrNone, PreparePcs, PutPcs, BatchPcs

\* Whatever recovery, cleanup or cancellation a worker leaves, it goes on coherently.
LEMMA AfterRecoverCoherent ==
    ASSUME NEW r \in CoherentRequest
    PROVE  AfterRecover(r) \in CoherentRequest
<1> DEFINE x == [r EXCEPT !.pc = "readSpace", !.t = None, !.todo = {}, !.held = FALSE]
<1>1. ASSUME r.op = "prepare" PROVE x \in CoherentRequest
  <2>1. x \in Request
    BY DEF CoherentRequest, Request, Pcs, UploadOrNone
  <2>2. x.pc = "readSpace" /\ x.op = "prepare" /\ x.u = r.u /\ x.u \in Uploads
    BY <1>1 DEF CoherentRequest, Coherent, Request
  <2> QED BY <2>1, <2>2 DEF CoherentRequest, Coherent, PreparePcs, PutPcs, BatchPcs
<1> QED BY <1>1, IdleCoherent DEF AfterRecover

LEMMA AfterCleanupCoherent ==
    ASSUME NEW r \in CoherentRequest, r.t \in Uploads
    PROVE  AfterCleanup(r) \in CoherentRequest
<1>1. [r EXCEPT !.pc = "releaseGuard", !.todo = {}, !.a = None] \in CoherentRequest
  <2> DEFINE x == [r EXCEPT !.pc = "releaseGuard", !.todo = {}, !.a = None]
  <2>1. x \in Request
    BY DEF CoherentRequest, Request, Pcs
  <2>2. x.pc = "releaseGuard" /\ x.op = r.op /\ x.u = r.u /\ x.t = r.t
    BY DEF CoherentRequest, Request
  <2> QED BY <2>1, <2>2 DEF CoherentRequest, Coherent, PreparePcs, PutPcs, BatchPcs
<1>2. AfterRecover([r EXCEPT !.a = None]) \in CoherentRequest
  <2> DEFINE y == [r EXCEPT !.a = None]
             x == [y EXCEPT !.pc = "readSpace", !.t = None, !.todo = {}, !.held = FALSE]
  <2>1. ASSUME r.op = "prepare" PROVE x \in CoherentRequest
    <3>1. x \in Request
      BY DEF CoherentRequest, Request, Pcs, UploadOrNone
    <3>2. x.pc = "readSpace" /\ x.op = "prepare" /\ x.u = r.u /\ x.u \in Uploads
      BY <2>1 DEF CoherentRequest, Coherent, Request
    <3> QED BY <3>1, <3>2 DEF CoherentRequest, Coherent, PreparePcs, PutPcs, BatchPcs
  <2>2. y.op = r.op
    BY DEF CoherentRequest, Request
  <2> QED BY <2>1, <2>2, IdleCoherent DEF AfterRecover
<1> QED BY <1>1, <1>2 DEF AfterCleanup

LEMMA EnterCleanupCoherent ==
    ASSUME NEW r \in CoherentRequest, r.t \in Uploads, NEW todo \in SUBSET Assets
    PROVE  EnterCleanup(r, todo) \in CoherentRequest
<1>1. CASE todo = {}
  BY <1>1, AfterCleanupCoherent DEF EnterCleanup
<1>2. CASE todo # {}
  BY <1>2 DEF EnterCleanup, CoherentRequest, Coherent, Request, Pcs,
              PreparePcs, PutPcs, BatchPcs
<1> QED BY <1>1, <1>2

LEMMA RecoverBatchCoherent ==
    ASSUME NEW r \in CoherentRequest, r.t \in Uploads
    PROVE  RecoverBatch(r) \in CoherentRequest
<1> DEFINE s == batch[r.t].state
<1>1. PendingDeletes(r.t) \in SUBSET Assets
  BY DEF PendingDeletes
<1>2. [r EXCEPT !.pc = "beginCancel"] \in CoherentRequest
  BY DEF CoherentRequest, Coherent, Request, Pcs, PreparePcs, PutPcs, BatchPcs
<1>3. [r EXCEPT !.pc = "acquireGuard"] \in CoherentRequest
  BY DEF CoherentRequest, Coherent, Request, Pcs, PreparePcs, PutPcs, BatchPcs
<1>4. EnterCleanup(r, PendingDeletes(r.t)) \in CoherentRequest
  BY <1>1, EnterCleanupCoherent
<1>5. AfterRecover(r) \in CoherentRequest
  BY AfterRecoverCoherent
<1>6. CASE s = "committed"
  BY <1>6, <1>4 DEF RecoverBatch
<1>7. CASE s = "cancelling"
  BY <1>7, <1>2 DEF RecoverBatch
<1>8. CASE s = "committing"
  BY <1>8, <1>3 DEF RecoverBatch
<1>9. CASE s \notin {"committed", "cancelling", "committing"}
  BY <1>9, <1>2, <1>5 DEF RecoverBatch
<1> QED BY <1>6, <1>7, <1>8, <1>9

\* Going on within the same handler keeps a request coherent.
LEMMA SameHandlerCoherent ==
    ASSUME NEW r \in CoherentRequest, NEW x \in Request,
           x.op = r.op, x.u = r.u, x.t = r.t, x.a = r.a,
           \/ x.pc \in PreparePcs /\ r.pc \in PreparePcs
           \/ x.pc \in PutPcs /\ r.pc \in PutPcs
           \/ x.pc \in BatchPcs \ {"markDeleted"} /\ r.pc \in BatchPcs
    PROVE  x \in CoherentRequest
BY DEF CoherentRequest, Coherent, PreparePcs, PutPcs, BatchPcs

LEMMA GotoCoherent ==
    ASSUME NEW r \in CoherentRequest, NEW pc \in Pcs,
           \/ pc \in PreparePcs /\ r.pc \in PreparePcs
           \/ pc \in PutPcs /\ r.pc \in PutPcs
           \/ pc \in BatchPcs \ {"markDeleted"} /\ r.pc \in BatchPcs
    PROVE  [r EXCEPT !.pc = pc] \in CoherentRequest
<1> DEFINE x == [r EXCEPT !.pc = pc]
<1>1. x \in Request
  BY DEF CoherentRequest, Request
<1>2. x.op = r.op /\ x.u = r.u /\ x.t = r.t /\ x.a = r.a /\ x.pc = pc
  BY DEF CoherentRequest, Request
<1> HIDE DEF x
<1>3. x \in CoherentRequest
  BY <1>1, <1>2, SameHandlerCoherent
<1> QED BY <1>3 DEF x

\* The requests that act on one batch start coherently.
LEMMA NewCoherent ==
    ASSUME TypeInv, NEW op \in Ops \cup {"retry"}, op # "prepare", NEW u \in Uploads,
           NEW pc \in (BatchPcs \ {"markDeleted"}) \cup {"idle"}
    PROVE  New(op, pc, u, u) \in CoherentRequest
<1> DEFINE x == New(op, pc, u, u)
<1>1. pc \in Pcs
  BY DEF BatchPcs, Pcs
<1>2. x \in Request
  BY <1>1, IdleCoherent DEF New, TypeInv, CoherentRequest, Request, UploadOrNone
<1>3. x.op = op /\ x.u = u /\ x.t = u /\ x.pc = pc
  BY IdleCoherent DEF New, CoherentRequest, Request
<1> QED BY <1>2, <1>3 DEF CoherentRequest, Coherent, PreparePcs, PutPcs, BatchPcs

\* A worker that continues coherently leaves the table of requests coherent.
LEMMA ContinueCoherent ==
    ASSUME TypeInv, NEW w \in Workers, NEW r \in CoherentRequest, Continue(w, r)
    PROVE  req' \in [Workers -> CoherentRequest]
BY DEF TypeInv, Continue

LEMMA FinishCoherent ==
    ASSUME TypeInv, NEW w \in Workers, Finish(w)
    PROVE  req' \in [Workers -> CoherentRequest]
BY ContinueCoherent, IdleCoherent DEF Finish

LEMMA GotoKeepsCoherent ==
    ASSUME TypeInv, NEW w \in Workers, NEW pc \in Pcs, Goto(w, pc),
           \/ pc \in PreparePcs /\ req[w].pc \in PreparePcs
           \/ pc \in PutPcs /\ req[w].pc \in PutPcs
           \/ pc \in BatchPcs \ {"markDeleted"} /\ req[w].pc \in BatchPcs
    PROVE  req' \in [Workers -> CoherentRequest]
<1>1. req[w] \in CoherentRequest
  BY DEF TypeInv
<1> QED BY <1>1, GotoCoherent, ContinueCoherent DEF Goto

-----------------------------------------------------------------------------
(* TypeInv is inductive: one lemma per handler. *)

\* The upload item prepare builds for an asset is an item row.
LEMMA PlannedItemType ==
    ASSUME NEW row \in AssetRow, NEW blob \in BlobOrNone
    PROVE  PlannedItem(row, blob) \in ItemRow
<1> DEFINE backend == SelectStorageBackend(row.backend, blob)
<1>1. backend \in Backends
  BY DEF SelectStorageBackend, Backends
<1>2. MatchingR2Slot(row, blob) # None => MatchingR2Slot(row, blob) \in Slots
  BY DEF MatchingR2Slot, AssetRow, Slots
<1>3. TargetR2Slot(row, blob) \in Slots
  BY <1>2 DEF TargetR2Slot, InactiveR2Slot, AssetRow, Slots
<1>4. AbsentItem \in ItemRow
  BY StoreAssumption DEF AbsentItem, ItemRow, ItemStates, Backends, Slots, BlobOrNone
<1> HIDE DEF backend
<1>5. (IF ReusableCopy(row, backend, blob) THEN "ready" ELSE "issued") \in ItemStates
  BY DEF ItemStates
<1>6. (IF backend = "r2" THEN TargetR2Slot(row, blob) ELSE "a") \in Slots
  BY <1>3 DEF Slots
<1>7. [AbsentItem EXCEPT
         !.state = IF ReusableCopy(row, backend, blob) THEN "ready" ELSE "issued",
         !.blob = blob, !.backend = backend,
         !.slot = IF backend = "r2" THEN TargetR2Slot(row, blob) ELSE "a"] \in ItemRow
  BY <1>1, <1>4, <1>5, <1>6 DEF ItemRow
<1> QED BY <1>7 DEF PlannedItem, backend

LEMMA PrepareType ==
    ASSUME TypeInv, NEW w \in Workers,
           \/ \E u \in Uploads, base \in KnownRevisions, plan \in Plans :
                StartPrepare(w, u, base, plan) \/ RetryPrepare(w, u, base, plan)
           \/ ReadPending(w) \/ ReadSpace(w) \/ Reserve(w)
           \/ \E a \in Assets : ReadAsset(w, a)
    PROVE  TypeInv'
<1> USE DEF LocalStep, StoreStep
<1>r. req[w] \in CoherentRequest
  BY DEF TypeInv
<1>1. ASSUME NEW u \in Uploads, NEW base \in KnownRevisions, NEW plan \in Plans,
             StartPrepare(w, u, base, plan)
      PROVE  TypeInv'
  <2> DEFINE x == [New("prepare", "readPending", u, None) EXCEPT !.base = base, !.plan = plan]
  <2>1. base \in UploadOrNone
    BY DEF KnownRevisions, UploadOrNone
  <2>2. x \in Request
    BY <2>1, IdleCoherent DEF New, TypeInv, CoherentRequest, Request, UploadOrNone, Pcs, Ops
  <2>3. x.op = "prepare" /\ x.u = u /\ x.pc = "readPending"
    BY IdleCoherent DEF New, CoherentRequest, Request
  <2>4. x \in CoherentRequest
    BY <2>2, <2>3 DEF CoherentRequest, Coherent, PreparePcs, PutPcs, BatchPcs
  <2> HIDE DEF x
  <2>5. Continue(w, x)
    BY <1>1 DEF StartPrepare, Start, x
  <2> QED BY <1>1, <2>4, <2>5, ContinueCoherent, StoreUnchangedType
          DEF StartPrepare, Start, TypeInv
<1>2. ASSUME NEW u \in Uploads, NEW base \in KnownRevisions, NEW plan \in Plans,
             RetryPrepare(w, u, base, plan)
      PROVE  TypeInv'
  <2>1. /\ New("retry", "beginCancel", u, u) \in CoherentRequest
        /\ New("retry", "acquireGuard", u, u) \in CoherentRequest
    BY NewCoherent DEF BatchPcs, Ops
  <2> QED BY <1>2, <2>1, ContinueCoherent, StoreUnchangedType DEF RetryPrepare, TypeInv
<1>3. CASE ReadPending(w)
  <2> DEFINE x == [req[w] EXCEPT !.t = space.pending]
  <2>1. ASSUME space.pending # None PROVE x \in CoherentRequest /\ x.t \in Uploads
    <3>1. x \in Request /\ space.pending \in Uploads
      BY <1>r, <2>1 DEF CoherentRequest, Request, TypeInv, StoreTypeOK, SpaceRow, UploadOrNone
    <3>2. x.op = req[w].op /\ x.u = req[w].u /\ x.pc = "readPending" /\ x.t = space.pending
      BY <1>r, <1>3 DEF CoherentRequest, Request, ReadPending, At
    <3> QED BY <3>1, <3>2, <1>r, <1>3
            DEF CoherentRequest, Coherent, PreparePcs, PutPcs, BatchPcs, ReadPending, At
  <2> HIDE DEF x
  <2>2. space.pending # None => RecoverBatch(x) \in CoherentRequest
    BY <2>1, RecoverBatchCoherent
  <2>3. (IF space.pending = None THEN AfterRecover(req[w]) ELSE RecoverBatch(x))
           \in CoherentRequest
    BY <2>2, <1>r, AfterRecoverCoherent
  <2>4. Continue(w, IF space.pending = None THEN AfterRecover(req[w]) ELSE RecoverBatch(x))
    BY <1>3 DEF ReadPending, x
  <2> QED BY <1>3, <2>3, <2>4, ContinueCoherent, StoreUnchangedType DEF ReadPending, TypeInv
<1>4. CASE ReadSpace(w)
  <2> DEFINE todo == {a \in Assets : req[w].plan.put[a] # None} \cup req[w].plan.del
             x == [req[w] EXCEPT !.pc = "readAssets", !.epoch = space.epoch + 1, !.todo = todo]
  <2>1. req[w].plan.del \subseteq Assets
    BY <1>r, ServiceAssumption DEF CoherentRequest, Request, NoPlan
  <2>2. todo \in SUBSET Assets /\ space.epoch + 1 \in Nat
    BY <2>1 DEF TypeInv, StoreTypeOK, SpaceRow
  <2> HIDE DEF todo
  <2>3. x \in Request
    BY <1>r, <2>2 DEF CoherentRequest, Request, Pcs
  <2>4. x.op = req[w].op /\ x.u = req[w].u /\ x.t = req[w].t /\ x.a = req[w].a
        /\ x.pc = "readAssets" /\ req[w].pc = "readSpace"
    BY <1>r, <1>4 DEF CoherentRequest, Request, ReadSpace, At
  <2> HIDE DEF x
  <2>5. x \in CoherentRequest
    BY <1>r, <2>3, <2>4, SameHandlerCoherent DEF PreparePcs
  <2>6. Finish(w) \/ Continue(w, x)
    BY <1>4 DEF ReadSpace, x, todo
  <2> QED BY <1>4, <2>5, <2>6, FinishCoherent, ContinueCoherent, StoreUnchangedType
          DEF ReadSpace, TypeInv
<1>5. CASE Reserve(w)
  <2>1. /\ req[w].base \in UploadOrNone /\ req[w].epoch \in Nat /\ req[w].now \in Nat
        /\ req[w].items \in [Assets -> ItemRow] /\ req[w].plan.del \in SUBSET Assets
    BY <1>r, ServiceAssumption DEF CoherentRequest, Request, NoPlan
  <2>2. req[w].u \in Uploads
    BY <1>r, <1>5 DEF Reserve, At, CoherentRequest, Coherent, PreparePcs
  <2>3. StoreTypeOK'
    BY <1>5, <2>1, <2>2, ReserveUploadType, StoreUnchangedType DEF Reserve, TypeInv
  <2> QED BY <1>5, <2>3, FinishCoherent DEF Reserve, TypeInv
<1>6. ASSUME NEW a \in Assets, ReadAsset(w, a)
      PROVE  TypeInv'
  <2> DEFINE rest == req[w].todo \ {a}
             r == [req[w] EXCEPT !.todo = rest, !.pc = IF rest = {} THEN "reserve" ELSE "readAssets"]
             i == PlannedItem(asset[a], req[w].plan.put[a])
             x == [r EXCEPT !.items[a] = i]
  <2>1. rest \in SUBSET Assets /\ req[w].plan.put[a] \in BlobOrNone
    BY <1>r, ServiceAssumption DEF CoherentRequest, Request, NoPlan, BlobOrNone
  <2>2. i \in ItemRow
    BY <2>1, PlannedItemType DEF TypeInv, StoreTypeOK
  <2> HIDE DEF rest, i
  <2>3. /\ r \in Request /\ r.op = req[w].op /\ r.u = req[w].u /\ r.t = req[w].t
        /\ r.a = req[w].a /\ r.pc \in PreparePcs /\ req[w].pc \in PreparePcs
    BY <1>r, <1>6, <2>1 DEF CoherentRequest, Request, Pcs, ReadAsset, At, PreparePcs
  <2> HIDE DEF r
  <2>4. /\ x \in Request /\ x.op = req[w].op /\ x.u = req[w].u /\ x.t = req[w].t
        /\ x.a = req[w].a /\ x.pc \in PreparePcs
    BY <2>2, <2>3 DEF Request
  <2> HIDE DEF x
  <2>5. r \in CoherentRequest
    BY <1>r, <2>3, SameHandlerCoherent
  <2>6. x \in CoherentRequest
    BY <1>r, <2>3, <2>4, SameHandlerCoherent
  <2>7. Finish(w) \/ Continue(w, r) \/ Continue(w, x)
    BY <1>6 DEF ReadAsset, rest, i, r, x
  <2> QED BY <1>6, <2>5, <2>6, <2>7, FinishCoherent, ContinueCoherent, StoreUnchangedType
          DEF ReadAsset, TypeInv
<1> QED BY <1>1, <1>2, <1>3, <1>4, <1>5, <1>6

LEMMA PutType ==
    ASSUME TypeInv, NEW w \in Workers,
           \/ \E u \in Uploads, a \in Assets : StartPut(w, u, a)
           \/ Claim(w) \/ Create(w) \/ SetMultipart(w) \/ UploadPartTo(w)
           \/ MarkReady(w) \/ Release(w)
    PROVE  TypeInv'
<1> USE DEF StoreStep
<1>r. req[w] \in CoherentRequest /\ req[w] \in Request
  BY DEF TypeInv, CoherentRequest
<1>p. PutPcs \subseteq Pcs
  BY DEF PutPcs, Pcs
<1>u. req[w].pc \in PutPcs => req[w].u \in Uploads /\ req[w].a \in Assets
  BY <1>r DEF CoherentRequest, Coherent
<1>1. ASSUME NEW u \in Uploads, NEW a \in Assets, StartPut(w, u, a)
      PROVE  TypeInv'
  <2> DEFINE x == [New("put", "claim", u, None) EXCEPT !.a = a, !.mp = item[u][a].mp]
  <2>1. item[u][a].mp \in Multiparts \cup {None}
    BY DEF TypeInv, StoreTypeOK, ItemRow
  <2>2. x \in Request
    BY <2>1, IdleCoherent DEF New, TypeInv, CoherentRequest, Request, UploadOrNone, Pcs, Ops
  <2>3. x.op = "put" /\ x.u = u /\ x.a = a /\ x.pc = "claim"
    BY IdleCoherent DEF New, CoherentRequest, Request
  <2> HIDE DEF x
  <2>4. x \in CoherentRequest
    BY <2>2, <2>3 DEF CoherentRequest, Coherent, PreparePcs, PutPcs, BatchPcs
  <2>5. Continue(w, x)
    BY <1>1 DEF StartPut, Start, x
  <2> QED BY <1>1, <2>4, <2>5, ContinueCoherent, StoreUnchangedType DEF StartPut, Start, TypeInv
<1>2. CASE Claim(w)
  <2>1. /\ req[w].pc \in PutPcs /\ req[w].now \in Nat
        /\ {"markReady", "create", "uploadPart"} \subseteq PutPcs
    BY <1>r, <1>2 DEF Claim, At, PutPcs, Request
  <2>2. StoreTypeOK'
    BY <1>2, <1>u, <2>1, ClaimItemType, StoreUnchangedType DEF Claim, TypeInv
  <2>3. Finish(w) \/ \E pc \in {"markReady", "create", "uploadPart"} : Goto(w, pc)
    BY <1>2 DEF Claim
  <2>4. req' \in [Workers -> CoherentRequest]
    BY <1>p, <2>1, <2>3, FinishCoherent, GotoKeepsCoherent
  <2> QED BY <1>2, <2>2, <2>4 DEF Claim, TypeInv
<1>3. CASE Create(w)
  <2>1. req[w].pc \in PutPcs /\ "releaseItem" \in PutPcs
    BY <1>3 DEF Create, At, PutPcs
  <2>2. CASE Goto(w, "releaseItem") /\ UNCHANGED storeVars
    BY <1>3, <1>p, <2>1, <2>2, GotoKeepsCoherent, StoreUnchangedType DEF Create, TypeInv
  <2>3. ASSUME NEW m \in Multiparts, CreateMultipart(m, req[w].u, req[w].a),
               Continue(w, [req[w] EXCEPT !.pc = "setMultipart", !.mp = m])
        PROVE  TypeInv'
    <3> DEFINE x == [req[w] EXCEPT !.pc = "setMultipart", !.mp = m]
    <3>1. /\ x \in Request /\ x.op = req[w].op /\ x.u = req[w].u /\ x.t = req[w].t
          /\ x.a = req[w].a /\ x.pc \in PutPcs
      BY <1>r DEF Request, Pcs, PutPcs
    <3> HIDE DEF x
    <3>2. x \in CoherentRequest
      BY <1>r, <2>1, <3>1, SameHandlerCoherent
    <3>3. StoreTypeOK'
      BY <1>u, <2>1, <2>3, MultipartType DEF TypeInv
    <3>4. Continue(w, x)
      BY <2>3 DEF x
    <3> QED BY <1>3, <3>2, <3>3, <3>4, ContinueCoherent DEF Create, TypeInv
  <2> QED BY <1>3, <2>2, <2>3 DEF Create
<1>4. CASE SetMultipart(w)
  <2>1. /\ req[w].pc \in PutPcs /\ req[w].mp \in Multiparts \cup {None}
        /\ "uploadPart" \in PutPcs
    BY <1>r, <1>4 DEF SetMultipart, At, PutPcs, Request
  <2>2. StoreTypeOK'
    BY <1>4, <1>u, <2>1, SetMultipartIdType DEF SetMultipart, TypeInv
  <2> QED BY <1>4, <1>p, <2>1, <2>2, GotoKeepsCoherent DEF SetMultipart, TypeInv
<1>5. CASE UploadPartTo(w)
  <2>1. req[w].pc \in PutPcs /\ {"markReady", "releaseItem"} \subseteq PutPcs
    BY <1>5 DEF UploadPartTo, At, PutPcs
  <2>2. StoreTypeOK'
    BY <1>5, <1>u, <2>1, MultipartType, StoreUnchangedType DEF UploadPartTo, TypeInv
  <2>3. Goto(w, "markReady") \/ Goto(w, "releaseItem")
    BY <1>5 DEF UploadPartTo
  <2>4. req' \in [Workers -> CoherentRequest]
    BY <1>p, <2>1, <2>3, GotoKeepsCoherent
  <2> QED BY <1>5, <2>2, <2>4 DEF UploadPartTo, TypeInv
<1>6. CASE MarkReady(w)
  <2>1. req[w].pc \in PutPcs /\ "releaseItem" \in PutPcs
    BY <1>6 DEF MarkReady, At, PutPcs
  <2>2. StoreTypeOK'
    BY <1>6, <1>u, <2>1, MarkItemReadyType, StoreUnchangedType DEF MarkReady, TypeInv
  <2>3. Finish(w) \/ Goto(w, "releaseItem")
    BY <1>6 DEF MarkReady
  <2>4. req' \in [Workers -> CoherentRequest]
    BY <1>p, <2>1, <2>3, FinishCoherent, GotoKeepsCoherent
  <2> QED BY <1>6, <2>2, <2>4 DEF MarkReady, TypeInv
<1>7. CASE Release(w)
  <2>1. req[w].pc \in PutPcs
    BY <1>7 DEF Release, At, PutPcs
  <2>2. StoreTypeOK'
    BY <1>7, <1>u, <2>1, ReleaseItemType DEF Release, TypeInv
  <2> QED BY <1>7, <2>2, FinishCoherent DEF Release, TypeInv
<1> QED BY <1>1, <1>2, <1>3, <1>4, <1>5, <1>6, <1>7

LEMMA CommitType ==
    ASSUME TypeInv, NEW w \in Workers,
           \/ \E u \in Uploads : StartCommit(w, u)
           \/ BeginCommitStep(w) \/ RereadBatch(w) \/ AcquireGuard(w) \/ Finalize(w)
           \/ \E a \in Assets : Complete(w, a) \/ CompleteFails(w, a)
           \/ ReleaseGuard(w)
    PROVE  TypeInv'
<1> USE DEF StoreStep, LocalStep
<1>r. req[w] \in CoherentRequest /\ req[w] \in Request
  BY DEF TypeInv, CoherentRequest
<1>p. BatchPcs \subseteq Pcs
  BY DEF BatchPcs, Pcs
<1>t. req[w].pc \in BatchPcs => req[w].t \in Uploads
  BY <1>r DEF CoherentRequest, Coherent
<1>1. ASSUME NEW u \in Uploads, StartCommit(w, u)
      PROVE  TypeInv'
  <2> DEFINE x == New("commit", "beginCommit", u, u)
             y == New("commit", "idle", u, u)
  <2>1. x \in CoherentRequest /\ y \in CoherentRequest /\ y.t \in Uploads
    BY NewCoherent, IdleCoherent DEF BatchPcs, Ops, New, CoherentRequest, Request
  <2> HIDE DEF x, y
  <2>2. RecoverBatch(y) \in CoherentRequest
    BY <2>1, RecoverBatchCoherent
  <2>3. Continue(w, x) \/ Continue(w, RecoverBatch(y))
    BY <1>1 DEF StartCommit, Start, x, y
  <2> QED BY <1>1, <2>1, <2>2, <2>3, ContinueCoherent, StoreUnchangedType
          DEF StartCommit, Start, TypeInv
<1>2. CASE BeginCommitStep(w)
  <2>1. req[w].pc \in BatchPcs /\ "rereadBatch" \in BatchPcs \ {"markDeleted"}
    BY <1>2 DEF BeginCommitStep, At, BatchPcs
  <2>2. StoreTypeOK'
    BY <1>2, <1>t, <2>1, BeginCommitType, StoreUnchangedType DEF BeginCommitStep, TypeInv
  <2>3. Finish(w) \/ Goto(w, "rereadBatch")
    BY <1>2 DEF BeginCommitStep
  <2>4. req' \in [Workers -> CoherentRequest]
    BY <1>p, <2>1, <2>3, FinishCoherent, GotoKeepsCoherent
  <2> QED BY <1>2, <2>2, <2>4 DEF BeginCommitStep, TypeInv
<1>3. CASE RereadBatch(w)
  <2>1. req[w].pc \in BatchPcs
    BY <1>3 DEF RereadBatch, At, BatchPcs
  <2>2. RecoverBatch(req[w]) \in CoherentRequest
    BY <1>r, <1>t, <2>1, RecoverBatchCoherent
  <2> QED BY <1>3, <2>2, ContinueCoherent, StoreUnchangedType DEF RereadBatch, TypeInv
<1>4. CASE AcquireGuard(w)
  <2> DEFINE t == req[w].t
             pc == IF MultipartItems(t) = {} THEN "finalize" ELSE "complete"
             x == [req[w] EXCEPT !.held = TRUE, !.todo = MultipartItems(t), !.pc = pc]
  <2>1. req[w].pc \in BatchPcs
    BY <1>4 DEF AcquireGuard, At, BatchPcs
  <2>2. /\ pc \in Pcs /\ pc \in BatchPcs \ {"markDeleted"}
        /\ MultipartItems(t) \in SUBSET Assets
    BY DEF Pcs, BatchPcs, MultipartItems
  <2> HIDE DEF pc
  <2>3. /\ x \in Request /\ x.op = req[w].op /\ x.u = req[w].u /\ x.t = t
        /\ x.a = req[w].a /\ x.pc = pc
    BY <1>r, <2>2 DEF Request
  <2> HIDE DEF x
  <2>4. x \in CoherentRequest
    BY <1>r, <2>1, <2>2, <2>3, SameHandlerCoherent
  <2>5. StoreTypeOK'
    BY <1>4, <1>t, <2>1, GuardType, StoreUnchangedType DEF AcquireGuard, TypeInv
  <2>6. \/ Continue(w, x)
        \/ Continue(w, IF batch[t].state = "committed" THEN AfterRecover(req[w]) ELSE Idle)
    BY <1>4 DEF AcquireGuard, x, pc
  <2>7. (IF batch[t].state = "committed" THEN AfterRecover(req[w]) ELSE Idle) \in CoherentRequest
    BY <1>r, AfterRecoverCoherent, IdleCoherent
  <2> QED BY <1>4, <2>4, <2>5, <2>6, <2>7, ContinueCoherent DEF AcquireGuard, TypeInv
<1>f. ASSUME FailRecovery(w), req[w].pc \in BatchPcs
      PROVE  req' \in [Workers -> CoherentRequest]
  <2> DEFINE x == [req[w] EXCEPT !.pc = "releaseGuard", !.failed = TRUE, !.todo = {}]
  <2>1. /\ x \in Request /\ x.op = req[w].op /\ x.u = req[w].u /\ x.t = req[w].t
        /\ x.a = req[w].a /\ x.pc \in BatchPcs \ {"markDeleted"}
    BY <1>r DEF Request, Pcs, BatchPcs
  <2> HIDE DEF x
  <2>2. x \in CoherentRequest
    BY <1>f, <1>r, <2>1, SameHandlerCoherent
  <2>3. Continue(w, x)
    BY <1>f DEF FailRecovery, x
  <2> QED BY <2>2, <2>3, ContinueCoherent
<1>5. ASSUME NEW a \in Assets, Complete(w, a)
      PROVE  TypeInv'
  <2> DEFINE pc == IF req[w].todo = {a} THEN "finalize" ELSE "complete"
             x == [req[w] EXCEPT !.todo = req[w].todo \ {a}, !.pc = pc]
  <2>1. req[w].pc \in BatchPcs
    BY <1>5 DEF Complete, At, BatchPcs
  <2>2. pc \in Pcs /\ pc \in BatchPcs \ {"markDeleted"}
    BY DEF Pcs, BatchPcs
  <2> HIDE DEF pc
  <2>3. /\ x \in Request /\ x.op = req[w].op /\ x.u = req[w].u /\ x.t = req[w].t
        /\ x.a = req[w].a /\ x.pc = pc
    BY <1>r, <2>2 DEF Request
  <2> HIDE DEF x
  <2>4. x \in CoherentRequest
    BY <1>r, <2>1, <2>2, <2>3, SameHandlerCoherent
  <2>5. Continue(w, x)
    BY <1>5, <1>r DEF Complete, CompletedItem, Continue, x, pc, Request
  <2>6. StoreTypeOK'
    BY <1>5, <1>t, <2>1, CompleteMultipartType, StoreUnchangedType DEF Complete, TypeInv
  <2> QED BY <1>5, <2>4, <2>5, <2>6, ContinueCoherent DEF Complete, TypeInv
<1>6. ASSUME NEW a \in Assets, CompleteFails(w, a)
      PROVE  TypeInv'
  BY <1>6, <1>f, StoreUnchangedType DEF CompleteFails, At, BatchPcs, TypeInv
<1>7. CASE Finalize(w)
  <2> DEFINE dels == {a \in Assets : del[req[w].t][a] = "reserved"}
  <2>1. req[w].pc \in BatchPcs
    BY <1>7 DEF Finalize, At, BatchPcs
  <2>2. EnterCleanup(req[w], dels) \in CoherentRequest
    BY <1>r, <1>t, <2>1, EnterCleanupCoherent
  <2>3. StoreTypeOK'
    BY <1>7, <1>t, <2>1, FinalizeCommitType, StoreUnchangedType DEF Finalize, TypeInv
  <2>4. Continue(w, EnterCleanup(req[w], dels)) \/ FailRecovery(w)
    BY <1>7 DEF Finalize
  <2> QED BY <1>7, <1>f, <2>1, <2>2, <2>3, <2>4, ContinueCoherent DEF Finalize, TypeInv
<1>8. CASE ReleaseGuard(w)
  <2>1. req[w].pc \in BatchPcs
    BY <1>8 DEF ReleaseGuard, At, BatchPcs
  <2>2. StoreTypeOK'
    BY <1>8, <1>t, <2>1, GuardType DEF ReleaseGuard, TypeInv
  <2>3. (IF req[w].failed THEN Idle ELSE AfterRecover(req[w])) \in CoherentRequest
    BY <1>r, AfterRecoverCoherent, IdleCoherent
  <2> QED BY <1>8, <2>2, <2>3, ContinueCoherent DEF ReleaseGuard, TypeInv
<1> QED BY <1>1, <1>2, <1>3, <1>4, <1>5, <1>6, <1>7, <1>8

LEMMA CleanupType ==
    ASSUME TypeInv, NEW w \in Workers,
           \/ \E a \in Assets : DeleteAssetObjects(w, a)
           \/ DeleteFails(w) \/ MarkDeleted(w)
    PROVE  TypeInv'
<1> USE DEF StoreStep, LocalStep
<1>r. req[w] \in CoherentRequest /\ req[w] \in Request
  BY DEF TypeInv, CoherentRequest
<1>t. req[w].pc \in BatchPcs => req[w].t \in Uploads
  BY <1>r DEF CoherentRequest, Coherent
<1>1. ASSUME NEW a \in Assets, DeleteAssetObjects(w, a)
      PROVE  TypeInv'
  <2> DEFINE x == [req[w] EXCEPT !.pc = "markDeleted", !.a = a]
  <2>1. req[w].pc \in BatchPcs
    BY <1>1 DEF DeleteAssetObjects, At, BatchPcs
  <2>2. /\ x \in Request /\ x.op = req[w].op /\ x.u = req[w].u /\ x.t = req[w].t
        /\ x.a = a /\ x.pc = "markDeleted"
    BY <1>r DEF Request, Pcs
  <2> HIDE DEF x
  <2>3. x \in CoherentRequest
    BY <1>r, <1>t, <2>1, <2>2 DEF CoherentRequest, Coherent, PreparePcs, PutPcs, BatchPcs
  <2>4. Continue(w, x)
    BY <1>1 DEF DeleteAssetObjects, x
  <2>5. StoreTypeOK'
    BY <1>1, DeleteObjectsType DEF DeleteAssetObjects, TypeInv
  <2> QED BY <1>1, <2>3, <2>4, <2>5, ContinueCoherent DEF DeleteAssetObjects, TypeInv
<1>2. CASE DeleteFails(w)
  <2>1. req[w].pc \in BatchPcs
    BY <1>2 DEF DeleteFails, At, BatchPcs
  <2>2. AfterCleanup(req[w]) \in CoherentRequest
    BY <1>r, <1>t, <2>1, AfterCleanupCoherent
  <2> QED BY <1>2, <2>2, ContinueCoherent, StoreUnchangedType DEF DeleteFails, TypeInv
<1>3. CASE MarkDeleted(w)
  <2> DEFINE x == [req[w] EXCEPT !.a = None]
             y == [x EXCEPT !.pc = "deleteObjects"]
             rest == req[w].todo \ {req[w].a}
  <2>1. req[w].pc = "markDeleted" /\ req[w].t \in Uploads /\ req[w].a \in Assets
    BY <1>3, <1>r DEF MarkDeleted, At, CoherentRequest, Coherent, BatchPcs
  <2>2. rest \in SUBSET Assets
    BY <1>r DEF Request
  <2>3. StoreTypeOK'
    BY <1>3, <2>1, MarkDeleteItemDeletedType DEF MarkDeleted, TypeInv
  <2>4. EnterCleanup(x, rest) \in CoherentRequest
    <3> HIDE DEF rest
    <3>1. ASSUME NEW z \in Request, z.op = req[w].op, z.u = req[w].u, z.t = req[w].t,
                 z.a = None, z.pc \in {"deleteObjects", "releaseGuard", "readSpace"},
                 z.pc = "readSpace" => z.op = "prepare"
          PROVE  z \in CoherentRequest
      BY <3>1, <2>1, <1>r DEF CoherentRequest, Coherent, PreparePcs, PutPcs, BatchPcs
    <3>2. [x EXCEPT !.pc = "deleteObjects", !.todo = rest] \in CoherentRequest
      <4> DEFINE z == [x EXCEPT !.pc = "deleteObjects", !.todo = rest]
      <4>1. /\ z \in Request /\ z.op = req[w].op /\ z.u = req[w].u /\ z.t = req[w].t
            /\ z.a = None /\ z.pc = "deleteObjects"
        BY <1>r, <2>2 DEF Request, Pcs
      <4> HIDE DEF z
      <4>2. z \in CoherentRequest
        BY <3>1, <4>1
      <4> QED BY <4>2 DEF z
    <3>3. [x EXCEPT !.pc = "releaseGuard", !.todo = {}, !.a = None] \in CoherentRequest
      <4> DEFINE z == [x EXCEPT !.pc = "releaseGuard", !.todo = {}, !.a = None]
      <4>1. /\ z \in Request /\ z.op = req[w].op /\ z.u = req[w].u /\ z.t = req[w].t
            /\ z.a = None /\ z.pc = "releaseGuard"
        BY <1>r DEF Request, Pcs
      <4> HIDE DEF z
      <4>2. z \in CoherentRequest
        BY <3>1, <4>1
      <4> QED BY <4>2 DEF z
    <3>4. AfterRecover([x EXCEPT !.a = None]) \in CoherentRequest
      <4> DEFINE v == [x EXCEPT !.a = None]
                 z == [v EXCEPT !.pc = "readSpace", !.t = None, !.todo = {}, !.held = FALSE]
      <4>1. /\ z \in Request /\ z.op = req[w].op /\ z.u = req[w].u /\ z.t = None
            /\ z.a = None /\ z.pc = "readSpace" /\ v.op = req[w].op
        BY <1>r DEF Request, Pcs, UploadOrNone
      <4>2. req[w].op = "prepare" => req[w].u \in Uploads
        BY <1>r DEF CoherentRequest, Coherent
      <4> HIDE DEF z
      <4>3. v.op = "prepare" => z \in CoherentRequest
        BY <4>1, <4>2 DEF CoherentRequest, Coherent, PreparePcs, PutPcs, BatchPcs
      <4> HIDE DEF v
      <4> QED BY <4>3, IdleCoherent DEF AfterRecover, z, v
    <3> HIDE DEF x
    <3> QED BY <3>2, <3>3, <3>4 DEF EnterCleanup, AfterCleanup
  <2> HIDE DEF x, rest
  <2>5. Continue(w, EnterCleanup(x, rest))
    BY <1>3 DEF MarkDeleted, x, rest
  <2> QED BY <1>3, <2>3, <2>4, <2>5, ContinueCoherent DEF MarkDeleted, TypeInv
<1> QED BY <1>1, <1>2, <1>3

LEMMA CancelType ==
    ASSUME TypeInv, NEW w \in Workers,
           \/ \E u \in Uploads : StartCancel(w, u)
           \/ StartAbort(w) \/ StartCron(w)
           \/ BeginCancelStep(w) \/ BeginForceAbortStep(w)
           \/ AbortMultiparts(w) \/ FinishCancelStep(w)
    PROVE  TypeInv'
<1> USE DEF StoreStep, LocalStep
<1>r. req[w] \in CoherentRequest /\ req[w] \in Request
  BY DEF TypeInv, CoherentRequest
<1>p. BatchPcs \subseteq Pcs
  BY DEF BatchPcs, Pcs
<1>t. req[w].pc \in BatchPcs => req[w].t \in Uploads
  BY <1>r DEF CoherentRequest, Coherent
<1>1. ASSUME NEW u \in Uploads, StartCancel(w, u)
      PROVE  TypeInv'
  <2>1. New("cancel", "beginCancel", u, u) \in CoherentRequest
    BY NewCoherent DEF BatchPcs, Ops
  <2> QED BY <1>1, <2>1, ContinueCoherent, StoreUnchangedType DEF StartCancel, Start, TypeInv
<1>2. CASE StartAbort(w)
  <2> DEFINE t == space.pending
             pc == IF batch[t].state = "prepared" THEN "beginForceAbort" ELSE "beginCancel"
  <2>1. t \in Uploads
    BY <1>2 DEF StartAbort, TypeInv, StoreTypeOK, SpaceRow, UploadOrNone
  <2>2. pc \in BatchPcs \ {"markDeleted"}
    BY DEF BatchPcs
  <2> HIDE DEF pc, t
  <2>3. New("abort", pc, t, t) \in CoherentRequest
    BY <2>1, <2>2, NewCoherent DEF Ops
  <2>4. Continue(w, New("abort", pc, t, t)) /\ UNCHANGED <<clock, crashes>>
    BY <1>2 DEF StartAbort, Start, pc, t
  <2> QED BY <1>2, <2>3, <2>4, ContinueCoherent, StoreUnchangedType DEF StartAbort, TypeInv
<1>3. CASE StartCron(w)
  <2>1. PICK u \in Uploads :
          /\ Continue(w, RecoverBatch(New("cron", "idle", u, u)))
          /\ UNCHANGED storeVars /\ UNCHANGED <<clock, crashes>>
    BY <1>3 DEF StartCron, Start
  <2> DEFINE y == New("cron", "idle", u, u)
  <2>2. y \in CoherentRequest /\ y.t \in Uploads
    BY NewCoherent, IdleCoherent DEF Ops, New, CoherentRequest, Request
  <2> HIDE DEF y
  <2>3. RecoverBatch(y) \in CoherentRequest
    BY <2>2, RecoverBatchCoherent
  <2>4. Continue(w, RecoverBatch(y))
    BY <2>1 DEF y
  <2> QED BY <2>1, <2>3, <2>4, ContinueCoherent, StoreUnchangedType DEF TypeInv
<1>c. ASSUME NEW allowed, CancelStep(w, allowed), UNCHANGED <<clock, crashes>>,
             req[w].pc \in BatchPcs
      PROVE  TypeInv'
  <2>1. "abortMultiparts" \in BatchPcs \ {"markDeleted"}
    BY DEF BatchPcs
  <2>2. StoreTypeOK'
    BY <1>c, <1>t, BeginCancelType, StoreUnchangedType DEF CancelStep, TypeInv
  <2>3. Goto(w, "abortMultiparts") \/ Continue(w, AfterRecover(req[w]))
    BY <1>c DEF CancelStep
  <2>4. req' \in [Workers -> CoherentRequest]
    BY <1>r, <1>p, <1>c, <2>1, <2>3, AfterRecoverCoherent, ContinueCoherent, GotoKeepsCoherent
  <2> QED BY <1>c, <2>2, <2>4 DEF TypeInv
<1>4. CASE BeginCancelStep(w)
  BY <1>4, <1>c DEF BeginCancelStep, At, BatchPcs
<1>5. CASE BeginForceAbortStep(w)
  BY <1>5, <1>c DEF BeginForceAbortStep, At, BatchPcs
<1>6. CASE AbortMultiparts(w)
  <2>1. req[w].pc \in BatchPcs /\ "finishCancel" \in BatchPcs \ {"markDeleted"}
    BY <1>6 DEF AbortMultiparts, At, BatchPcs
  <2>2. StoreTypeOK'
    BY <1>6, AbortMultipartUploadsType DEF AbortMultiparts, TypeInv
  <2> QED BY <1>6, <1>p, <2>1, <2>2, GotoKeepsCoherent DEF AbortMultiparts, TypeInv
<1>7. CASE FinishCancelStep(w)
  <2>1. req[w].pc \in BatchPcs
    BY <1>7 DEF FinishCancelStep, At, BatchPcs
  <2>2. StoreTypeOK'
    BY <1>7, <1>t, <2>1, FinishCancelType DEF FinishCancelStep, TypeInv
  <2> QED BY <1>7, <1>r, <2>2, AfterRecoverCoherent, ContinueCoherent
          DEF FinishCancelStep, TypeInv
<1> QED BY <1>1, <1>2, <1>3, <1>4, <1>5, <1>6, <1>7

LEMMA D1FailsType ==
    ASSUME TypeInv, NEW w \in Workers, D1Fails(w)
    PROVE  TypeInv'
<1>r. req[w] \in CoherentRequest
  BY DEF TypeInv
<1>1. CASE req[w].pc \in {"setMultipart", "markReady"} /\ Goto(w, "releaseItem")
  <2>1. "releaseItem" \in Pcs \cap PutPcs /\ req[w].pc \in PutPcs
    BY <1>1 DEF PutPcs, Pcs
  <2>2. req' \in [Workers -> CoherentRequest]
    BY <1>1, <2>1, GotoKeepsCoherent
  <2> QED BY <2>2, StoreUnchangedType DEF D1Fails, LocalStep, TypeInv
<1>2. CASE At(w, "finalize") /\ FailRecovery(w)
  <2> DEFINE x == [req[w] EXCEPT !.pc = "releaseGuard", !.failed = TRUE, !.todo = {}]
  <2>1. /\ x \in Request /\ x.op = req[w].op /\ x.u = req[w].u /\ x.t = req[w].t
        /\ x.a = req[w].a /\ x.pc \in BatchPcs \ {"markDeleted"} /\ req[w].pc \in BatchPcs
    BY <1>r, <1>2 DEF CoherentRequest, Request, Pcs, BatchPcs, At
  <2>2. Continue(w, x)
    BY <1>2 DEF FailRecovery
  <2> HIDE DEF x
  <2>3. x \in CoherentRequest
    BY <1>r, <2>1, SameHandlerCoherent
  <2> QED BY <2>2, <2>3, ContinueCoherent, StoreUnchangedType DEF D1Fails, LocalStep, TypeInv
<1>3. CASE At(w, "markDeleted") /\ Continue(w, AfterCleanup(req[w]))
  <2>1. req[w].t \in Uploads
    BY <1>r, <1>3 DEF CoherentRequest, Coherent, At, BatchPcs
  <2>2. AfterCleanup(req[w]) \in CoherentRequest
    BY <1>r, <2>1, AfterCleanupCoherent
  <2> QED BY <1>3, <2>2, ContinueCoherent, StoreUnchangedType DEF D1Fails, LocalStep, TypeInv
<1> QED BY <1>1, <1>2, <1>3 DEF D1Fails

LEMMA TypeInvInit == Init => TypeInv
BY IdleCoherent, StoreInitType DEF Init, TypeInv

LEMMA TypeInvNext == TypeInv /\ [Next]_vars => TypeInv'
<1> SUFFICES ASSUME TypeInv, [Next]_vars PROVE TypeInv'
  OBVIOUS
<1>1. CASE Tick
  BY <1>1, StoreUnchangedType DEF Tick, TypeInv
<1>2. ASSUME NEW w \in Workers, Arrive(w) PROVE TypeInv'
  <2> USE <1>2 DEF Arrive
  <2> QED BY PrepareType, PutType, CommitType, CancelType
<1>3. ASSUME NEW w \in Workers, Advance(w) PROVE TypeInv'
  BY <1>3, PrepareType, PutType, CommitType, CleanupType, CancelType DEF Advance
<1>4. ASSUME NEW w \in Workers, Crash(w) PROVE TypeInv'
  BY <1>4, FinishCoherent, StoreUnchangedType DEF Crash, TypeInv
<1>5. ASSUME NEW w \in Workers, D1Fails(w) PROVE TypeInv'
  BY <1>5, D1FailsType
<1>6. CASE UNCHANGED vars
  BY <1>6, StoreUnchangedType DEF vars, TypeInv
<1> QED BY <1>1, <1>2, <1>3, <1>4, <1>5, <1>6 DEF Next

LEMMA TypeInvariance == Spec => []TypeInv
BY TypeInvInit, TypeInvNext, PTL DEF Spec

(***************************************************************************)
(* In every state the rows, the objects and the requests are well-typed:   *)
(* no interleaving of handlers and crashes makes one act on a missing row. *)
(***************************************************************************)
THEOREM TypeCorrect == Spec => []TypeOK
<1>1. TypeInv => TypeOK
  BY DEF TypeInv, TypeOK, CoherentRequest
<1> QED BY <1>1, TypeInvariance, PTL

-----------------------------------------------------------------------------
(***************************************************************************)
(* The lock, the revision and the states of the batches.  The argument has *)
(* two halves: what a step does to the space and batch rows (LockStep),    *)
(* and what it does to the records of the workers that rely on what they   *)
(* have read (RequestStep).  That for the guard follows at the end         *)
(* (GuardStep): it admits one worker to a committing batch, however many   *)
(* there are and whatever crashes leave behind.                            *)
(***************************************************************************)

CancelPcs == {"abortMultiparts", "finishCancel"}
BasePcs == {"readAssets", "reserve"}

\* A worker that goes on to abort multiparts and to finish a cancellation has
\* seen its batch begin to cancel, and cancelling is never left but to cancelled.
CancellingInv ==
    \A w \in Workers : req[w].pc \in CancelPcs =>
      batch[req[w].t].state \in {"cancelling", "cancelled"}

\* A prepare that is past its revision check holds a published base; as long
\* as that is still the revision, the epoch it computed is still the next one.
BaseInv ==
    \A w \in Workers : req[w].pc \in BasePcs =>
      /\ req[w].base # None => batch[req[w].base].state = "committed"
      /\ req[w].base = space.revision => req[w].epoch = space.epoch + 1

\* Only a published deletion is ever cleaned up.
DeletedInv ==
    \A u \in Uploads, a \in Assets : del[u][a] = "deleted" => batch[u].state = "committed"

LockIInv ==
    /\ TypeInv
    /\ LockInv
    /\ RevisionInv
    /\ CancellingInv
    /\ BaseInv
    /\ DeletedInv

-----------------------------------------------------------------------------
(* Where the control operators lead. *)

LEMMA AfterRecoverPc ==
    ASSUME NEW r \in Request
    PROVE  AfterRecover(r).pc \in {"readSpace", "idle"}
BY DEF AfterRecover, Request, Idle

LEMMA AfterCleanupPc ==
    ASSUME NEW r \in Request
    PROVE  AfterCleanup(r).pc \in {"releaseGuard", "readSpace", "idle"}
<1>1. [r EXCEPT !.a = None] \in Request
  BY DEF Request
<1>2. [r EXCEPT !.pc = "releaseGuard", !.todo = {}, !.a = None].pc = "releaseGuard"
  BY DEF Request
<1> QED BY <1>1, <1>2, AfterRecoverPc DEF AfterCleanup

LEMMA EnterCleanupPc ==
    ASSUME NEW r \in Request, NEW todo \in SUBSET Assets
    PROVE  EnterCleanup(r, todo).pc \in {"deleteObjects", "releaseGuard", "readSpace", "idle"}
<1>1. [r EXCEPT !.pc = "deleteObjects", !.todo = todo].pc = "deleteObjects"
  BY DEF Request
<1> QED BY <1>1, AfterCleanupPc DEF EnterCleanup

LEMMA RecoverBatchPc ==
    ASSUME NEW r \in Request
    PROVE  RecoverBatch(r).pc \in {"deleteObjects", "releaseGuard", "readSpace", "idle",
                                   "beginCancel", "acquireGuard"}
<1> DEFINE s == batch[r.t].state
<1>1. PendingDeletes(r.t) \in SUBSET Assets
  BY DEF PendingDeletes
<1>2. /\ [r EXCEPT !.pc = "beginCancel"].pc = "beginCancel"
      /\ [r EXCEPT !.pc = "acquireGuard"].pc = "acquireGuard"
  BY DEF Request
<1>3. CASE s = "committed"
  BY <1>1, <1>3, EnterCleanupPc DEF RecoverBatch
<1>4. CASE s = "cancelling"
  BY <1>2, <1>4 DEF RecoverBatch
<1>5. CASE s = "committing"
  BY <1>2, <1>5 DEF RecoverBatch
<1>6. CASE s \notin {"committed", "cancelling", "committing"}
  BY <1>2, <1>6, AfterRecoverPc DEF RecoverBatch
<1> QED BY <1>3, <1>4, <1>5, <1>6

LEMMA NewFields ==
    ASSUME NEW op, NEW pc, NEW u, NEW t
    PROVE  New(op, pc, u, t).pc = pc /\ New(op, pc, u, t).t = t
BY DEF New, Idle

LEMMA ContinueStep ==
    ASSUME TypeInv, NEW w \in Workers, NEW r, Continue(w, r)
    PROVE  /\ req'[w] = r
           /\ \A v \in Workers \ {w} : req'[v] = req[v]
BY DEF TypeInv, Continue

LEMMA GotoStep ==
    ASSUME TypeInv, NEW w \in Workers, NEW pc, Goto(w, pc)
    PROVE  /\ req'[w].pc = pc /\ req'[w].t = req[w].t
           /\ req'[w].base = req[w].base /\ req'[w].epoch = req[w].epoch
           /\ \A v \in Workers \ {w} : req'[v] = req[v]
<1>1. req[w] \in Request
  BY DEF TypeInv, CoherentRequest
<1> QED BY <1>1, ContinueStep DEF Goto, Request

LEMMA FinishStep ==
    ASSUME TypeInv, NEW w \in Workers, Finish(w)
    PROVE  /\ req'[w].pc = "idle"
           /\ \A v \in Workers \ {w} : req'[v] = req[v]
BY ContinueStep DEF Finish, Idle

-----------------------------------------------------------------------------
(* What a step of worker w does to the records of the workers. *)

RequestStep(w) ==
    /\ \A v \in Workers \ {w} : req'[v] = req[v]
    /\ req'[w].pc \in CancelPcs =>
         /\ req'[w].t = req[w].t
         /\ \/ req[w].pc \in CancelPcs
            \/ req[w].pc \in BatchPcs /\ batch'[req[w].t].state = "cancelling"
    /\ req'[w].pc \in BasePcs =>
         /\ UNCHANGED <<space, batch>>
         /\ req'[w].base = req[w].base
         /\ \/ req[w].pc \in BasePcs /\ req'[w].epoch = req[w].epoch
            \/ req[w].base = space.revision /\ req'[w].epoch = space.epoch + 1

LEMMA QuietStep ==
    ASSUME NEW w \in Workers, \A v \in Workers \ {w} : req'[v] = req[v],
           req'[w].pc \notin CancelPcs \cup BasePcs
    PROVE  RequestStep(w)
BY DEF RequestStep

LEMMA PrepareRequestStep ==
    ASSUME TypeInv, NEW w \in Workers,
           \/ \E u \in Uploads, base \in KnownRevisions, plan \in Plans :
                StartPrepare(w, u, base, plan) \/ RetryPrepare(w, u, base, plan)
           \/ ReadPending(w) \/ ReadSpace(w) \/ Reserve(w)
           \/ \E a \in Assets : ReadAsset(w, a)
    PROVE  RequestStep(w)
<1> USE DEF CancelPcs, BasePcs
<1>r. req[w] \in Request
  BY DEF TypeInv, CoherentRequest
<1>1. ASSUME NEW u \in Uploads, NEW base \in KnownRevisions, NEW plan \in Plans,
             StartPrepare(w, u, base, plan)
      PROVE  RequestStep(w)
  <2> DEFINE x == [New("prepare", "readPending", u, None) EXCEPT !.base = base, !.plan = plan]
  <2>1. x.pc = "readPending"
    BY DEF New, Idle
  <2>2. Continue(w, x)
    BY <1>1 DEF StartPrepare, Start
  <2> HIDE DEF x
  <2> QED BY <2>1, <2>2, ContinueStep, QuietStep
<1>2. ASSUME NEW u \in Uploads, NEW base \in KnownRevisions, NEW plan \in Plans,
             RetryPrepare(w, u, base, plan)
      PROVE  RequestStep(w)
  BY <1>2, NewFields, ContinueStep, QuietStep DEF RetryPrepare
<1>3. CASE ReadPending(w)
  <2> DEFINE x == [req[w] EXCEPT !.t = space.pending]
  <2>1. space.pending # None => x \in Request
    BY <1>r DEF Request, TypeInv, StoreTypeOK, SpaceRow
  <2>2. space.pending # None => RecoverBatch(x).pc \notin CancelPcs \cup BasePcs
    BY <2>1, RecoverBatchPc
  <2>3. AfterRecover(req[w]).pc \notin CancelPcs \cup BasePcs
    BY <1>r, AfterRecoverPc
  <2>4. Continue(w, IF space.pending = None THEN AfterRecover(req[w]) ELSE RecoverBatch(x))
    BY <1>3 DEF ReadPending
  <2> HIDE DEF x
  <2> QED BY <2>2, <2>3, <2>4, ContinueStep, QuietStep
<1>4. CASE ReadSpace(w)
  <2> DEFINE x == [req[w] EXCEPT
                     !.pc = "readAssets", !.epoch = space.epoch + 1,
                     !.todo = {a \in Assets : req[w].plan.put[a] # None}
                                \cup req[w].plan.del]
  <2>1. CASE Finish(w)
    BY <2>1, FinishStep, QuietStep
  <2>2. CASE space.revision = req[w].base /\ Continue(w, x)
    <3>1. x.pc = "readAssets" /\ x.base = req[w].base /\ x.epoch = space.epoch + 1
      BY <1>r DEF Request
    <3> HIDE DEF x
    <3>2. req'[w] = x /\ \A v \in Workers \ {w} : req'[v] = req[v]
      BY <2>2, ContinueStep
    <3>3. UNCHANGED <<space, batch>>
      BY <1>4 DEF ReadSpace, LocalStep, storeVars, d1Vars
    <3> QED BY <2>2, <3>1, <3>2, <3>3 DEF RequestStep
  <2> QED BY <1>4, <2>1, <2>2 DEF ReadSpace
<1>5. CASE Reserve(w)
  BY <1>5, FinishStep, QuietStep DEF Reserve
<1>6. ASSUME NEW a \in Assets, ReadAsset(w, a)
      PROVE  RequestStep(w)
  <2> DEFINE rest == req[w].todo \ {a}
             pc == IF rest = {} THEN "reserve" ELSE "readAssets"
             r == [req[w] EXCEPT !.todo = rest, !.pc = pc]
             x == [r EXCEPT !.items[a] = PlannedItem(asset[a], req[w].plan.put[a])]
  <2>1. CASE Finish(w)
    BY <2>1, FinishStep, QuietStep
  <2>2. ASSUME NEW y, y \in {r, x}, Continue(w, y) PROVE RequestStep(w)
    <3>1. pc \in BasePcs
      OBVIOUS
    <3> HIDE DEF pc
    <3>2. r.pc = pc /\ r.base = req[w].base /\ r.epoch = req[w].epoch
      BY <1>r DEF Request
    <3>3. x.pc = pc /\ x.base = req[w].base /\ x.epoch = req[w].epoch
      BY <1>r DEF Request
    <3> HIDE DEF r, x
    <3>4. y.pc = pc /\ y.base = req[w].base /\ y.epoch = req[w].epoch
      BY <2>2, <3>2, <3>3
    <3>5. req'[w] = y /\ \A v \in Workers \ {w} : req'[v] = req[v]
      BY <2>2, ContinueStep
    <3>6. UNCHANGED <<space, batch>> /\ req[w].pc = "readAssets"
      BY <1>6 DEF ReadAsset, LocalStep, storeVars, d1Vars, At
    <3> QED BY <3>1, <3>4, <3>5, <3>6 DEF RequestStep
  <2> QED BY <1>6, <2>1, <2>2 DEF ReadAsset
<1> QED BY <1>1, <1>2, <1>3, <1>4, <1>5, <1>6
LEMMA PutRequestStep ==
    ASSUME TypeInv, NEW w \in Workers,
           \/ \E u \in Uploads, a \in Assets : StartPut(w, u, a)
           \/ Claim(w) \/ Create(w) \/ SetMultipart(w) \/ UploadPartTo(w)
           \/ MarkReady(w) \/ Release(w)
    PROVE  RequestStep(w)
<1> USE DEF CancelPcs, BasePcs
<1>r. req[w] \in Request
  BY DEF TypeInv, CoherentRequest
<1>1. ASSUME NEW u \in Uploads, NEW a \in Assets, StartPut(w, u, a)
      PROVE  RequestStep(w)
  <2> DEFINE x == [New("put", "claim", u, None) EXCEPT !.a = a, !.mp = item[u][a].mp]
  <2>1. x.pc = "claim"
    BY DEF New, Idle
  <2>2. Continue(w, x)
    BY <1>1 DEF StartPut, Start
  <2> HIDE DEF x
  <2> QED BY <2>1, <2>2, ContinueStep, QuietStep
<1>2. CASE Claim(w)
  <2>1. \/ Finish(w)
        \/ \E pc \in {"markReady", "create", "uploadPart"} : Goto(w, pc)
    BY <1>2 DEF Claim
  <2> QED BY <2>1, FinishStep, GotoStep, QuietStep
<1>3. CASE Create(w)
  <2>1. CASE Goto(w, "releaseItem")
    BY <2>1, GotoStep, QuietStep
  <2>2. ASSUME NEW m \in Multiparts,
               Continue(w, [req[w] EXCEPT !.pc = "setMultipart", !.mp = m])
        PROVE  RequestStep(w)
    <3>1. [req[w] EXCEPT !.pc = "setMultipart", !.mp = m].pc = "setMultipart"
      BY <1>r DEF Request
    <3> QED BY <2>2, <3>1, ContinueStep, QuietStep
  <2> QED BY <1>3, <2>1, <2>2 DEF Create
<1>4. CASE SetMultipart(w)
  BY <1>4, GotoStep, QuietStep DEF SetMultipart
<1>5. CASE UploadPartTo(w)
  <2>1. Goto(w, "markReady") \/ Goto(w, "releaseItem")
    BY <1>5 DEF UploadPartTo
  <2> QED BY <2>1, GotoStep, QuietStep
<1>6. CASE MarkReady(w)
  <2>1. Finish(w) \/ Goto(w, "releaseItem")
    BY <1>6 DEF MarkReady
  <2> QED BY <2>1, FinishStep, GotoStep, QuietStep
<1>7. CASE Release(w)
  BY <1>7, FinishStep, QuietStep DEF Release
<1> QED BY <1>1, <1>2, <1>3, <1>4, <1>5, <1>6, <1>7

LEMMA FailRecoveryStep ==
    ASSUME TypeInv, NEW w \in Workers, FailRecovery(w)
    PROVE  RequestStep(w)
<1> DEFINE x == [req[w] EXCEPT !.pc = "releaseGuard", !.failed = TRUE, !.todo = {}]
<1>1. x.pc = "releaseGuard"
  BY DEF TypeInv, CoherentRequest, Request
<1>2. Continue(w, x)
  BY DEF FailRecovery
<1> HIDE DEF x
<1> QED BY <1>1, <1>2, ContinueStep, QuietStep DEF CancelPcs, BasePcs

LEMMA RecoveryRequestStep ==
    ASSUME TypeInv, NEW w \in Workers,
           \/ \E u \in Uploads : StartCommit(w, u)
           \/ BeginCommitStep(w) \/ RereadBatch(w) \/ AcquireGuard(w) \/ Finalize(w)
           \/ \E a \in Assets :
                Complete(w, a) \/ CompleteFails(w, a) \/ DeleteAssetObjects(w, a)
           \/ DeleteFails(w) \/ MarkDeleted(w) \/ ReleaseGuard(w)
           \/ D1Fails(w)
    PROVE  RequestStep(w)
<1> USE DEF CancelPcs, BasePcs
<1>r. req[w] \in Request
  BY DEF TypeInv, CoherentRequest
<1>1. ASSUME NEW u \in Uploads, StartCommit(w, u)
      PROVE  RequestStep(w)
  <2> DEFINE x == New("commit", "beginCommit", u, u)
             y == New("commit", "idle", u, u)
  <2>1. x.pc = "beginCommit" /\ y \in Request
    BY NewFields, NewCoherent DEF Ops, CoherentRequest
  <2> HIDE DEF x, y
  <2>2. RecoverBatch(y).pc \notin CancelPcs \cup BasePcs
    BY <2>1, RecoverBatchPc
  <2>3. Continue(w, x) \/ Continue(w, RecoverBatch(y))
    BY <1>1 DEF StartCommit, Start, x, y
  <2> QED BY <2>1, <2>2, <2>3, ContinueStep, QuietStep
<1>2. CASE BeginCommitStep(w)
  <2>1. Goto(w, "rereadBatch") \/ Finish(w)
    BY <1>2 DEF BeginCommitStep
  <2> QED BY <2>1, GotoStep, FinishStep, QuietStep
<1>3. CASE RereadBatch(w)
  <2>1. RecoverBatch(req[w]).pc \notin CancelPcs \cup BasePcs
    BY <1>r, RecoverBatchPc
  <2> QED BY <1>3, <2>1, ContinueStep, QuietStep DEF RereadBatch
<1>4. CASE AcquireGuard(w)
  <2> DEFINE t == req[w].t
             pc == IF MultipartItems(t) = {} THEN "finalize" ELSE "complete"
             x == [req[w] EXCEPT !.held = TRUE, !.todo = MultipartItems(t), !.pc = pc]
             y == IF batch[t].state = "committed" THEN AfterRecover(req[w]) ELSE Idle
  <2>1. Continue(w, x) \/ Continue(w, y)
    BY <1>4 DEF AcquireGuard
  <2>2. pc \notin CancelPcs \cup BasePcs
    OBVIOUS
  <2> HIDE DEF pc
  <2>3. x.pc = pc
    BY <1>r DEF Request
  <2>4. y.pc \notin CancelPcs \cup BasePcs
    BY <1>r, AfterRecoverPc DEF Idle
  <2> HIDE DEF x, y
  <2> QED BY <2>1, <2>2, <2>3, <2>4, ContinueStep, QuietStep
<1>5. CASE Finalize(w)
  <2> DEFINE dels == {a \in Assets : del[req[w].t][a] = "reserved"}
  <2>1. EnterCleanup(req[w], dels).pc \notin CancelPcs \cup BasePcs
    BY <1>r, EnterCleanupPc
  <2>2. Continue(w, EnterCleanup(req[w], dels)) \/ FailRecovery(w)
    BY <1>5 DEF Finalize
  <2> HIDE DEF dels
  <2> QED BY <2>1, <2>2, FailRecoveryStep, ContinueStep, QuietStep
<1>6. ASSUME NEW a \in Assets, Complete(w, a)
      PROVE  RequestStep(w)
  <2> DEFINE pc == IF req[w].todo = {a} THEN "finalize" ELSE "complete"
             x == [req[w] EXCEPT !.todo = req[w].todo \ {a}, !.pc = pc]
  <2>1. pc \notin CancelPcs \cup BasePcs
    OBVIOUS
  <2> HIDE DEF pc
  <2>2. x.pc = pc
    BY <1>r DEF Request
  <2>3. Continue(w, x)
    BY <1>6, <1>r DEF Complete, CompletedItem, Continue, pc, Request
  <2> HIDE DEF x
  <2> QED BY <2>1, <2>2, <2>3, ContinueStep, QuietStep
<1>7. ASSUME NEW a \in Assets, CompleteFails(w, a)
      PROVE  RequestStep(w)
  BY <1>7, FailRecoveryStep DEF CompleteFails
<1>8. ASSUME NEW a \in Assets, DeleteAssetObjects(w, a)
      PROVE  RequestStep(w)
  <2>1. [req[w] EXCEPT !.pc = "markDeleted", !.a = a].pc = "markDeleted"
    BY <1>r DEF Request
  <2> QED BY <1>8, <2>1, ContinueStep, QuietStep DEF DeleteAssetObjects
<1>c. ASSUME Continue(w, AfterCleanup(req[w]))
      PROVE  RequestStep(w)
  BY <1>c, <1>r, AfterCleanupPc, ContinueStep, QuietStep
<1>9. CASE DeleteFails(w)
  BY <1>9, <1>c DEF DeleteFails
<1>10. CASE MarkDeleted(w)
  <2> DEFINE x == [req[w] EXCEPT !.a = None]
             rest == req[w].todo \ {req[w].a}
  <2>1. x \in Request /\ rest \in SUBSET Assets
    BY <1>r DEF Request
  <2>2. Continue(w, EnterCleanup(x, rest))
    BY <1>10 DEF MarkDeleted
  <2> HIDE DEF x, rest
  <2> QED BY <2>1, <2>2, EnterCleanupPc, ContinueStep, QuietStep
<1>11. CASE ReleaseGuard(w)
  <2> DEFINE y == IF req[w].failed THEN Idle ELSE AfterRecover(req[w])
  <2>1. y.pc \notin CancelPcs \cup BasePcs
    BY <1>r, AfterRecoverPc DEF Idle
  <2>2. Continue(w, y)
    BY <1>11 DEF ReleaseGuard
  <2> HIDE DEF y
  <2> QED BY <2>1, <2>2, ContinueStep, QuietStep
<1>12. CASE D1Fails(w)
  <2>1. CASE Goto(w, "releaseItem")
    BY <2>1, GotoStep, QuietStep
  <2> QED BY <1>12, <1>c, <2>1, FailRecoveryStep DEF D1Fails
<1> QED BY <1>1, <1>2, <1>3, <1>4, <1>5, <1>6, <1>7, <1>8, <1>9, <1>10, <1>11, <1>12

LEMMA CancelRequestStep ==
    ASSUME TypeInv, NEW w \in Workers,
           \/ \E u \in Uploads : StartCancel(w, u)
           \/ StartAbort(w) \/ StartCron(w)
           \/ BeginCancelStep(w) \/ BeginForceAbortStep(w)
           \/ AbortMultiparts(w) \/ FinishCancelStep(w)
    PROVE  RequestStep(w)
<1> USE DEF CancelPcs, BasePcs
<1>r. req[w] \in Request /\ req[w] \in CoherentRequest
  BY DEF TypeInv, CoherentRequest
<1>1. ASSUME NEW u \in Uploads, StartCancel(w, u)
      PROVE  RequestStep(w)
  BY <1>1, NewFields, ContinueStep, QuietStep DEF StartCancel, Start
<1>2. CASE StartAbort(w)
  <2> DEFINE t == space.pending
             pc == IF batch[t].state = "prepared" THEN "beginForceAbort" ELSE "beginCancel"
  <2>1. New("abort", pc, t, t).pc \notin CancelPcs \cup BasePcs
    BY NewFields
  <2>2. Continue(w, New("abort", pc, t, t))
    BY <1>2 DEF StartAbort, Start
  <2> HIDE DEF pc, t
  <2> QED BY <2>1, <2>2, ContinueStep, QuietStep
<1>3. CASE StartCron(w)
  <2>1. PICK u \in Uploads : Continue(w, RecoverBatch(New("cron", "idle", u, u)))
    BY <1>3 DEF StartCron, Start
  <2> DEFINE y == New("cron", "idle", u, u)
  <2>2. y \in Request
    BY NewCoherent DEF Ops, CoherentRequest
  <2> HIDE DEF y
  <2>3. RecoverBatch(y).pc \notin CancelPcs \cup BasePcs
    BY <2>2, RecoverBatchPc
  <2>4. Continue(w, RecoverBatch(y))
    BY <2>1 DEF y
  <2> QED BY <2>3, <2>4, ContinueStep, QuietStep
<1>c. ASSUME NEW allowed, CancelStep(w, allowed), req[w].pc \in BatchPcs
      PROVE  RequestStep(w)
  <2>1. req[w].t \in Uploads
    BY <1>c, <1>r DEF CoherentRequest, Coherent
  <2>2. CASE Continue(w, AfterRecover(req[w]))
    BY <2>2, <1>r, AfterRecoverPc, ContinueStep, QuietStep
  <2>3. CASE Goto(w, "abortMultiparts") /\ batch'[req[w].t].state = "cancelling"
    BY <2>3, <1>c, GotoStep DEF RequestStep
  <2>4. BeginCancel(req[w].t) => batch'[req[w].t].state = "cancelling"
    BY <2>1 DEF BeginCancel, TypeInv, StoreTypeOK, BatchRow
  <2>5. UNCHANGED storeVars => batch' = batch
    BY DEF storeVars, d1Vars
  <2> QED BY <1>c, <2>2, <2>3, <2>4, <2>5 DEF CancelStep
<1>4. CASE BeginCancelStep(w)
  BY <1>4, <1>c DEF BeginCancelStep, At, BatchPcs
<1>5. CASE BeginForceAbortStep(w)
  BY <1>5, <1>c DEF BeginForceAbortStep, At, BatchPcs
<1>6. CASE AbortMultiparts(w)
  <2>1. req[w].pc = "abortMultiparts" /\ Goto(w, "finishCancel")
    BY <1>6 DEF AbortMultiparts, At
  <2> QED BY <2>1, GotoStep DEF RequestStep
<1>7. CASE FinishCancelStep(w)
  BY <1>7, <1>r, AfterRecoverPc, ContinueStep, QuietStep DEF FinishCancelStep
<1> QED BY <1>1, <1>2, <1>3, <1>4, <1>5, <1>6, <1>7

LEMMA RequestSteps ==
    ASSUME TypeInv, NEW w \in Workers, Arrive(w) \/ Advance(w) \/ D1Fails(w) \/ Crash(w)
    PROVE  RequestStep(w)
<1>1. CASE Arrive(w)
  <2> USE <1>1 DEF Arrive
  <2> QED BY PrepareRequestStep, PutRequestStep, RecoveryRequestStep, CancelRequestStep
<1>2. CASE Advance(w)
  BY <1>2, PrepareRequestStep, PutRequestStep, RecoveryRequestStep, CancelRequestStep
     DEF Advance
<1>3. CASE D1Fails(w)
  BY <1>3, RecoveryRequestStep
<1>4. CASE Crash(w)
  BY <1>4, FinishStep, QuietStep DEF Crash, CancelPcs, BasePcs
<1> QED BY <1>1, <1>2, <1>3, <1>4
-----------------------------------------------------------------------------
(* What a step does to the space, batch and delete rows. *)

LockStep ==
    \/ UNCHANGED <<space, batch, del>>
    \/ \E w \in Workers :
         /\ At(w, "reserve")
         /\ CanReserve(req[w].u, req[w].base)
         /\ ReserveUpload(req[w].u, req[w].base, req[w].epoch, req[w].items,
                          req[w].plan.del, req[w].now)
    \/ \E w \in Workers : At(w, "finishCancel") /\ FinishCancel(req[w].t)
    \/ \E u \in Uploads :
         \/ batch[u].state = "prepared" /\ (BeginCommit(u) \/ BeginCancel(u))
         \/ CanFinalize(u) /\ FinalizeCommit(u)
         \/ \E a \in Assets : MarkDeleteItemDeleted(u, a)

LEMMA StoreUnchangedStep == UNCHANGED storeVars => LockStep
BY DEF LockStep, storeVars, d1Vars

LEMMA PrepareLockStep ==
    ASSUME NEW w \in Workers,
           \/ \E u \in Uploads, base \in KnownRevisions, plan \in Plans :
                StartPrepare(w, u, base, plan) \/ RetryPrepare(w, u, base, plan)
           \/ ReadPending(w) \/ ReadSpace(w) \/ Reserve(w)
           \/ \E a \in Assets : ReadAsset(w, a)
    PROVE  LockStep
<1>1. CASE Reserve(w)
  BY <1>1, StoreUnchangedStep DEF Reserve, LockStep
<1>2. CASE ~Reserve(w)
  BY <1>2, StoreUnchangedStep
     DEF StartPrepare, RetryPrepare, ReadPending, ReadSpace, ReadAsset, LocalStep
<1> QED BY <1>1, <1>2

LEMMA PutLockStep ==
    ASSUME NEW w \in Workers,
           \/ \E u \in Uploads, a \in Assets : StartPut(w, u, a)
           \/ Claim(w) \/ Create(w) \/ SetMultipart(w) \/ UploadPartTo(w)
           \/ MarkReady(w) \/ Release(w)
    PROVE  LockStep
<1>1. CASE \E u \in Uploads, a \in Assets : StartPut(w, u, a)
  BY <1>1, StoreUnchangedStep DEF StartPut
<1>2. CASE Claim(w)
  BY <1>2, StoreUnchangedStep DEF Claim, ClaimItem, LockStep
<1>3. CASE Create(w)
  BY <1>3, StoreUnchangedStep DEF Create, CreateMultipart, d1Vars, LockStep
<1>4. CASE SetMultipart(w)
  BY <1>4 DEF SetMultipart, SetMultipartId, LockStep
<1>5. CASE UploadPartTo(w)
  BY <1>5, StoreUnchangedStep DEF UploadPartTo, UploadPart, d1Vars, LockStep
<1>6. CASE MarkReady(w)
  BY <1>6, StoreUnchangedStep DEF MarkReady, MarkItemReady, LockStep
<1>7. CASE Release(w)
  BY <1>7 DEF Release, ReleaseItem, LockStep
<1> QED BY <1>1, <1>2, <1>3, <1>4, <1>5, <1>6, <1>7

LEMMA RecoveryLockStep ==
    ASSUME TypeInv, NEW w \in Workers,
           \/ \E u \in Uploads : StartCommit(w, u)
           \/ BeginCommitStep(w) \/ RereadBatch(w) \/ AcquireGuard(w) \/ Finalize(w)
           \/ \E a \in Assets :
                Complete(w, a) \/ CompleteFails(w, a) \/ DeleteAssetObjects(w, a)
           \/ DeleteFails(w) \/ MarkDeleted(w) \/ ReleaseGuard(w)
           \/ D1Fails(w)
    PROVE  LockStep
<1>r. /\ req[w].pc \in BatchPcs => req[w].t \in Uploads
      /\ req[w].pc = "markDeleted" => req[w].a \in Assets
  BY DEF TypeInv, CoherentRequest, Coherent
<1>1. CASE BeginCommitStep(w)
  <2>1. req[w].t \in Uploads
    BY <1>1, <1>r DEF BeginCommitStep, At, BatchPcs
  <2> QED BY <1>1, <2>1, StoreUnchangedStep DEF BeginCommitStep, CanBeginCommit, LockStep
<1>2. CASE AcquireGuard(w)
  BY <1>2, StoreUnchangedStep DEF AcquireGuard, AcquireRecoverGuard, LockStep
<1>3. CASE Finalize(w)
  <2>1. req[w].t \in Uploads
    BY <1>3, <1>r DEF Finalize, At, BatchPcs
  <2> QED BY <1>3, <2>1, StoreUnchangedStep DEF Finalize, LockStep
<1>4. ASSUME NEW a \in Assets, Complete(w, a) PROVE LockStep
  <2>1. UNCHANGED storeVars \/ CompleteMultipart(req[w].t, a)
    BY <1>4 DEF Complete
  <2> QED BY <2>1, StoreUnchangedStep DEF CompleteMultipart, d1Vars, LockStep
<1>5. ASSUME NEW a \in Assets, DeleteAssetObjects(w, a) PROVE LockStep
  BY <1>5 DEF DeleteAssetObjects, DeleteObjects, d1Vars, LockStep
<1>6. CASE MarkDeleted(w)
  <2>1. req[w].t \in Uploads /\ req[w].a \in Assets
    BY <1>6, <1>r DEF MarkDeleted, At, BatchPcs
  <2> QED BY <1>6, <2>1 DEF MarkDeleted, LockStep
<1>7. CASE ReleaseGuard(w)
  BY <1>7 DEF ReleaseGuard, ReleaseRecoverGuard, LockStep
<1>8. CASE \/ \E u \in Uploads : StartCommit(w, u)
           \/ \E a \in Assets : CompleteFails(w, a)
           \/ RereadBatch(w) \/ DeleteFails(w) \/ D1Fails(w)
  BY <1>8, StoreUnchangedStep
     DEF StartCommit, CompleteFails, RereadBatch, DeleteFails, D1Fails, LocalStep
<1> QED BY <1>1, <1>2, <1>3, <1>4, <1>5, <1>6, <1>7, <1>8

LEMMA CancelLockStep ==
    ASSUME TypeInv, NEW w \in Workers,
           \/ \E u \in Uploads : StartCancel(w, u)
           \/ StartAbort(w) \/ StartCron(w)
           \/ BeginCancelStep(w) \/ BeginForceAbortStep(w)
           \/ AbortMultiparts(w) \/ FinishCancelStep(w)
    PROVE  LockStep
<1>r. req[w].pc \in BatchPcs => req[w].t \in Uploads
  BY DEF TypeInv, CoherentRequest, Coherent
<1>1. CASE BeginCancelStep(w) \/ BeginForceAbortStep(w)
  <2>1. req[w].t \in Uploads
    BY <1>1, <1>r DEF BeginCancelStep, BeginForceAbortStep, At, BatchPcs
  <2> QED BY <1>1, <2>1, StoreUnchangedStep
          DEF BeginCancelStep, BeginForceAbortStep, CancelStep, CanBeginCancel,
              CanForceAbort, LockStep
<1>2. CASE AbortMultiparts(w)
  BY <1>2 DEF AbortMultiparts, AbortMultipartUploads, d1Vars, LockStep
<1>3. CASE FinishCancelStep(w)
  BY <1>3 DEF FinishCancelStep, LockStep
<1>4. CASE (\E u \in Uploads : StartCancel(w, u)) \/ StartAbort(w) \/ StartCron(w)
  BY <1>4, StoreUnchangedStep DEF StartCancel, StartAbort, StartCron
<1> QED BY <1>1, <1>2, <1>3, <1>4

LEMMA LockSteps ==
    ASSUME TypeInv, [Next]_vars
    PROVE  LockStep
<1>1. CASE Tick \/ UNCHANGED vars
  BY <1>1, StoreUnchangedStep DEF Tick, vars
<1>2. ASSUME NEW w \in Workers, Arrive(w) PROVE LockStep
  <2> USE <1>2 DEF Arrive
  <2> QED BY PrepareLockStep, PutLockStep, RecoveryLockStep, CancelLockStep
<1>3. ASSUME NEW w \in Workers, Advance(w) PROVE LockStep
  BY <1>3, PrepareLockStep, PutLockStep, RecoveryLockStep, CancelLockStep DEF Advance
<1>4. ASSUME NEW w \in Workers, D1Fails(w) PROVE LockStep
  BY <1>4, RecoveryLockStep
<1>5. ASSUME NEW w \in Workers, Crash(w) PROVE LockStep
  BY <1>5, StoreUnchangedStep DEF Crash
<1> QED BY <1>1, <1>2, <1>3, <1>4, <1>5 DEF Next

-----------------------------------------------------------------------------
(* The rows keep their invariants. *)

\* One batch's row changes its state.
LEMMA BatchStateChange ==
    ASSUME TypeInv, NEW u \in Uploads, NEW s,
           batch' = [batch EXCEPT ![u].state = s]
    PROVE  /\ batch'[u].state = s
           /\ \A v \in Uploads : v # u => batch'[v].state = batch[v].state
           /\ \A v \in Uploads :
                batch'[v].base = batch[v].base /\ batch'[v].epoch = batch[v].epoch
BY DEF TypeInv, StoreTypeOK, BatchRow

RowInv == LockInv /\ RevisionInv /\ DeletedInv

\* What the states of a batch may become in a step.
Progress ==
    \A u \in Uploads :
      /\ batch[u].state \in {"committed", "cancelled"} => batch'[u].state = batch[u].state
      /\ batch[u].state = "committing" => batch'[u].state \in {"committing", "committed"}
      /\ batch[u].state = "cancelling" => batch'[u].state \in {"cancelling", "cancelled"}
      /\ \A a \in Assets : del[u][a] = "deleted" => del'[u][a] = "deleted"

\* The revision stands still, or it becomes a batch that was being committed.
RevisionMoves ==
    \/ space'.revision = space.revision /\ space'.epoch = space.epoch
    \/ /\ space'.revision \in Uploads
       /\ batch[space'.revision].state = "committing"

LEMMA LockStepKeepsRows ==
    ASSUME TypeInv, RowInv, CancellingInv, BaseInv, LockStep
    PROVE  RowInv' /\ Progress /\ RevisionMoves
<1> USE DEF RowInv, LockInv, RevisionInv, DeletedInv, ActiveStates
<1>s. /\ space.revision \in UploadOrNone /\ space.pending \in UploadOrNone
      /\ space \in SpaceRow /\ None \notin Uploads
  BY ModelAssumption DEF TypeInv, StoreTypeOK, SpaceRow
<1>d. del \in [Uploads -> [Assets -> DeleteStates]] /\ batch \in [Uploads -> BatchRow]
  BY DEF TypeInv, StoreTypeOK
<1>1. CASE UNCHANGED <<space, batch, del>>
  BY <1>1 DEF Progress, RevisionMoves
<1>2. ASSUME NEW w \in Workers, At(w, "reserve"),
             CanReserve(req[w].u, req[w].base),
             ReserveUpload(req[w].u, req[w].base, req[w].epoch, req[w].items,
                           req[w].plan.del, req[w].now)
      PROVE  RowInv' /\ Progress /\ RevisionMoves
  <2> DEFINE u == req[w].u
  <2>1. u \in Uploads
    BY <1>2 DEF TypeInv, CoherentRequest, Coherent, At, PreparePcs
  <2>2. req[w].base = space.revision /\ req[w].epoch = space.epoch + 1
    BY <1>2 DEF CanReserve, BaseInv, BasePcs, At
  <2>3. space.pending = None /\ batch[u].state = "absent"
    BY <1>2 DEF CanReserve
  <2>4. /\ batch'[u].state = "prepared" /\ batch'[u].base = req[w].base
        /\ batch'[u].epoch = req[w].epoch
        /\ \A v \in Uploads : v # u => batch'[v] = batch[v] /\ del'[v] = del[v]
        /\ space' = [space EXCEPT !.pending = u]
        /\ \A a \in Assets : del'[u][a] # "deleted"
    BY <1>2, <1>d, <2>1 DEF ReserveUpload
  <2> HIDE DEF u
  <2>5. space'.pending = u /\ space'.revision = space.revision /\ space'.epoch = space.epoch
    BY <1>s, <2>4 DEF SpaceRow
  <2>6. LockInv'
    BY <1>s, <2>1, <2>3, <2>4, <2>5
  <2>7. RevisionInv'
    BY <1>s, <2>1, <2>2, <2>3, <2>4, <2>5 DEF UploadOrNone
  <2>8. DeletedInv'
    BY <2>1, <2>4
  <2>9. \A a \in Assets : del[u][a] # "deleted"
    BY <2>1, <2>3
  <2>10. Progress /\ RevisionMoves
    BY <2>1, <2>3, <2>4, <2>5, <2>9 DEF Progress, RevisionMoves
  <2> QED BY <2>6, <2>7, <2>8, <2>10
<1>3. ASSUME NEW w \in Workers, At(w, "finishCancel"), FinishCancel(req[w].t)
      PROVE  RowInv' /\ Progress /\ RevisionMoves
  <2> DEFINE t == req[w].t
  <2>1. t \in Uploads
    BY <1>3 DEF TypeInv, CoherentRequest, Coherent, At, BatchPcs
  <2>2. batch[t].state \in {"cancelling", "cancelled"}
    BY <1>3 DEF CancellingInv, CancelPcs, At
  <2>3. /\ space' = UnlockedSpace(t)
        /\ batch' = IF batch[t].state = "cancelling"
                    THEN [batch EXCEPT ![t].state = "cancelled"] ELSE batch
        /\ \A v \in Uploads : v # t => del'[v] = del[v]
        /\ \A a \in Assets : del'[t][a] = "deleted" => del[t][a] = "deleted"
    BY <1>3, <1>d, <2>1 DEF FinishCancel, MoveDeletes
  <2> HIDE DEF t
  <2>4. /\ batch'[t].state = "cancelled"
        /\ \A v \in Uploads : v # t => batch'[v].state = batch[v].state
        /\ \A v \in Uploads :
             batch'[v].base = batch[v].base /\ batch'[v].epoch = batch[v].epoch
    BY <2>1, <2>2, <2>3, BatchStateChange
  <2>5. /\ space'.pending = IF space.pending = t THEN None ELSE space.pending
        /\ space'.revision = space.revision /\ space'.epoch = space.epoch
    BY <1>s, <2>3 DEF UnlockedSpace, SpaceRow
  <2>6. LockInv'
    BY <1>s, <2>1, <2>2, <2>4, <2>5
  <2>7. RevisionInv'
    BY <1>s, <2>1, <2>2, <2>4, <2>5 DEF UploadOrNone
  <2>8. \A a \in Assets : del[t][a] # "deleted"
    BY <2>1, <2>2
  <2>9. DeletedInv'
    BY <2>1, <2>3, <2>4, <2>8
  <2>10. Progress /\ RevisionMoves
    BY <2>1, <2>2, <2>3, <2>4, <2>5, <2>8 DEF Progress, RevisionMoves
  <2> QED BY <2>6, <2>7, <2>9, <2>10
<1>4. ASSUME NEW u \in Uploads, batch[u].state = "prepared", BeginCommit(u)
      PROVE  RowInv' /\ Progress /\ RevisionMoves
  <2>1. /\ batch'[u].state = "committing"
        /\ \A v \in Uploads : v # u => batch'[v].state = batch[v].state
        /\ \A v \in Uploads :
             batch'[v].base = batch[v].base /\ batch'[v].epoch = batch[v].epoch
    BY <1>4, BatchStateChange DEF BeginCommit
  <2>2. /\ space' = space
        /\ \A v \in Uploads : v # u => del'[v] = del[v]
        /\ \A a \in Assets : del'[u][a] = "deleted" => del[u][a] = "deleted"
    BY <1>4, <1>d DEF BeginCommit, MoveDeletes
  <2>3. \A a \in Assets : del[u][a] # "deleted"
    BY <1>4
  <2>4. LockInv' /\ RevisionInv'
    BY <1>4, <1>s, <2>1, <2>2 DEF UploadOrNone
  <2>5. DeletedInv' /\ Progress /\ RevisionMoves
    BY <1>4, <2>1, <2>2, <2>3 DEF Progress, RevisionMoves
  <2> QED BY <2>4, <2>5
<1>5. ASSUME NEW u \in Uploads, batch[u].state = "prepared", BeginCancel(u)
      PROVE  RowInv' /\ Progress /\ RevisionMoves
  <2>1. /\ batch'[u].state = "cancelling"
        /\ \A v \in Uploads : v # u => batch'[v].state = batch[v].state
        /\ \A v \in Uploads :
             batch'[v].base = batch[v].base /\ batch'[v].epoch = batch[v].epoch
    BY <1>5, BatchStateChange DEF BeginCancel
  <2>2. space' = space /\ del' = del
    BY <1>5 DEF BeginCancel
  <2>3. LockInv' /\ RevisionInv'
    BY <1>5, <1>s, <2>1, <2>2 DEF UploadOrNone
  <2>4. DeletedInv' /\ Progress /\ RevisionMoves
    BY <1>5, <2>1, <2>2 DEF Progress, RevisionMoves
  <2> QED BY <2>3, <2>4
<1>6. ASSUME NEW u \in Uploads, CanFinalize(u), FinalizeCommit(u)
      PROVE  RowInv' /\ Progress /\ RevisionMoves
  <2>1. space.pending = u /\ batch[u].state = "committing"
    BY <1>6 DEF CanFinalize
  <2>2. /\ batch'[u].state = "committed"
        /\ \A v \in Uploads : v # u => batch'[v].state = batch[v].state
    BY <1>6, BatchStateChange DEF FinalizeCommit
  <2>3. /\ space'.revision = u /\ space'.pending = None
        /\ \A v \in Uploads : v # u => del'[v] = del[v]
        /\ \A a \in Assets : del[u][a] = "deleted" => del'[u][a] = "deleted"
    BY <1>6, <1>d DEF FinalizeCommit, MoveDeletes
  <2>4. LockInv' /\ RevisionInv'
    BY <1>s, <2>1, <2>2, <2>3
  <2>5. DeletedInv' /\ Progress /\ RevisionMoves
    BY <2>1, <2>2, <2>3 DEF Progress, RevisionMoves
  <2> QED BY <2>4, <2>5
<1>7. ASSUME NEW u \in Uploads, NEW a \in Assets, MarkDeleteItemDeleted(u, a)
      PROVE  RowInv' /\ Progress /\ RevisionMoves
  <2>1. space' = space /\ batch' = batch
    BY <1>7 DEF MarkDeleteItemDeleted
  <2>2. \/ del' = del
        \/ batch[u].state = "committed" /\ del' = [del EXCEPT ![u][a] = "deleted"]
    BY <1>7 DEF MarkDeleteItemDeleted
  <2>3. ASSUME NEW v \in Uploads, NEW b \in Assets, del'[v][b] # del[v][b]
        PROVE  v = u /\ batch[u].state = "committed" /\ del'[v][b] = "deleted"
    <3>1. batch[u].state = "committed" /\ del' = [del EXCEPT ![u][a] = "deleted"]
      BY <2>2, <2>3
    <3>2. v # u => del'[v] = del[v]
      BY <1>d, <3>1
    <3>3. del'[u] = [del[u] EXCEPT ![a] = "deleted"] /\ del[u] \in [Assets -> DeleteStates]
      BY <1>d, <3>1
    <3>4. v = u /\ b = a
      BY <2>3, <3>2, <3>3
    <3>5. del'[u][a] = "deleted"
      BY <3>3
    <3> QED BY <3>1, <3>4, <3>5
  <2> QED BY <2>1, <2>3 DEF Progress, RevisionMoves
<1> QED BY <1>1, <1>2, <1>3, <1>4, <1>5, <1>6, <1>7 DEF LockStep
-----------------------------------------------------------------------------
(* The workers' records keep theirs. *)

LEMMA RequestsKept ==
    ASSUME TypeInv, TypeInv', CancellingInv, BaseInv, RowInv, Progress, RevisionMoves,
           NEW w \in Workers, RequestStep(w)
    PROVE  CancellingInv' /\ BaseInv'
<1>1. ASSUME NEW v \in Workers, req'[v].pc \in CancelPcs
      PROVE  batch'[req'[v].t].state \in {"cancelling", "cancelled"}
  <2>1. CASE req'[v].t = req[v].t /\ req[v].pc \in CancelPcs
    <3>1. req[v].t \in Uploads
      BY <2>1 DEF TypeInv, CoherentRequest, Coherent, CancelPcs, BatchPcs
    <3>2. batch[req[v].t].state \in {"cancelling", "cancelled"}
      BY <2>1 DEF CancellingInv
    <3> QED BY <2>1, <3>1, <3>2 DEF Progress
  <2>2. CASE v # w
    BY <1>1, <2>1, <2>2 DEF RequestStep
  <2>3. CASE v = w
    BY <1>1, <2>1, <2>3 DEF RequestStep
  <2> QED BY <2>2, <2>3
<1>2. ASSUME NEW v \in Workers, req'[v].pc \in BasePcs
      PROVE  /\ req'[v].base # None => batch'[req'[v].base].state = "committed"
             /\ req'[v].base = space'.revision => req'[v].epoch = space'.epoch + 1
  <2>1. ASSUME req[v].pc \in BasePcs, req'[v].base = req[v].base, req'[v].epoch = req[v].epoch
        PROVE  /\ req'[v].base # None => batch'[req'[v].base].state = "committed"
               /\ req'[v].base = space'.revision => req'[v].epoch = space'.epoch + 1
    <3>1. req[v].base \in UploadOrNone
      BY DEF TypeInv, CoherentRequest, Request
    <3>2. /\ req[v].base # None => batch[req[v].base].state = "committed"
          /\ req[v].base = space.revision => req[v].epoch = space.epoch + 1
      BY <2>1 DEF BaseInv
    <3>3. req[v].base # None => batch'[req[v].base].state = "committed"
      BY <3>1, <3>2 DEF Progress, UploadOrNone
    <3>4. req[v].base = space'.revision => req[v].epoch = space'.epoch + 1
      <4>1. CASE space'.revision = space.revision /\ space'.epoch = space.epoch
        BY <3>2, <4>1
      <4>2. CASE space'.revision \in Uploads /\ batch[space'.revision].state = "committing"
        BY <3>2, <4>2, ModelAssumption
      <4> QED BY <4>1, <4>2 DEF RevisionMoves
    <3> QED BY <2>1, <3>3, <3>4
  <2>2. CASE v # w
    BY <1>2, <2>1, <2>2 DEF RequestStep
  <2>3. CASE v = w
    <3>1. CASE req[w].pc \in BasePcs /\ req'[w].epoch = req[w].epoch
      BY <1>2, <2>1, <2>3, <3>1 DEF RequestStep
    <3>2. CASE req[w].base = space.revision /\ req'[w].epoch = space.epoch + 1
      BY <1>2, <2>3, <3>2 DEF RequestStep, RowInv, RevisionInv
    <3> QED BY <1>2, <2>3, <3>1, <3>2 DEF RequestStep
  <2> QED BY <2>2, <2>3
<1> QED BY <1>1, <1>2 DEF CancellingInv, BaseInv

LEMMA RequestsIdle ==
    ASSUME TypeInv, CancellingInv, BaseInv, Progress, UNCHANGED <<space, req>>
    PROVE  CancellingInv' /\ BaseInv'
<1>1. \A v \in Workers :
         /\ req[v].pc \in CancelPcs => req[v].t \in Uploads
         /\ req[v].base \in UploadOrNone
  BY DEF TypeInv, CoherentRequest, Coherent, Request, CancelPcs, BatchPcs
<1> QED BY <1>1 DEF CancellingInv, BaseInv, Progress, UploadOrNone

LEMMA LockIInvInit == Init => LockIInv
<1> SUFFICES ASSUME Init PROVE LockIInv
  OBVIOUS
<1>1. LockInv /\ RevisionInv /\ DeletedInv
  BY ModelAssumption
     DEF Init, StoreInit, LockInv, RevisionInv, DeletedInv, ActiveStates
<1>2. CancellingInv /\ BaseInv
  BY DEF Init, Idle, CancellingInv, BaseInv, CancelPcs, BasePcs
<1> QED BY <1>1, <1>2, TypeInvInit DEF LockIInv

LEMMA LockIInvNext == LockIInv /\ [Next]_vars => LockIInv' /\ Progress
<1> SUFFICES ASSUME LockIInv, [Next]_vars PROVE LockIInv' /\ Progress
  OBVIOUS
<1>1. TypeInv /\ TypeInv' /\ RowInv /\ CancellingInv /\ BaseInv
  BY TypeInvNext DEF LockIInv, RowInv
<1>2. RowInv' /\ Progress /\ RevisionMoves
  BY <1>1, LockSteps, LockStepKeepsRows
<1>3. CASE Tick \/ UNCHANGED vars
  <2>1. UNCHANGED <<space, req>>
    BY <1>3 DEF Tick, vars, storeVars, d1Vars
  <2> QED BY <1>1, <1>2, <2>1, RequestsIdle DEF LockIInv, RowInv
<1>4. ASSUME NEW w \in Workers, Arrive(w) \/ Advance(w) \/ D1Fails(w) \/ Crash(w)
      PROVE  LockIInv' /\ Progress
  BY <1>1, <1>2, <1>4, RequestSteps, RequestsKept DEF LockIInv, RowInv
<1> QED BY <1>3, <1>4 DEF Next

LEMMA LockInvariance == Spec => []LockIInv
BY LockIInvInit, LockIInvNext, PTL DEF Spec

(***************************************************************************)
(* reserveUpload, finalizeCommit and finishCancel hand the space over: in  *)
(* every state its lock names exactly the batch that is neither published  *)
(* nor cancelled, whichever requests raced, crashed or came too late.      *)
(***************************************************************************)
THEOREM LockCorrect == Spec => []LockInv
BY LockInvariance, PTL DEF LockIInv

(***************************************************************************)
(* The revision compare-and-swap: the published revision is a committed    *)
(* batch, and an open upload extends it by one epoch.                      *)
(***************************************************************************)
THEOREM RevisionCorrect == Spec => []RevisionInv
BY LockInvariance, PTL DEF LockIInv

(***************************************************************************)
(* A terminal batch stays terminal, a committing one is never cancelled,   *)
(* and a reclaimed deletion never returns to the clean-up queue.           *)
(***************************************************************************)
THEOREM ForwardCorrect == Spec => ForwardOnly
<1>1. LockIInv /\ [Next]_vars =>
        [\A u \in Uploads :
          /\ batch[u].state \in {"committed", "cancelled"} => batch'[u].state = batch[u].state
          /\ batch[u].state = "committing" => batch'[u].state \in {"committing", "committed"}
          /\ \A a \in Assets : del[u][a] = "deleted" => del'[u][a] = "deleted"]_vars
  BY LockIInvNext DEF Progress
<1> QED BY <1>1, LockInvariance, PTL DEF Spec, ForwardOnly

-----------------------------------------------------------------------------
(* The recover guard. *)


\* The calls that are only made with the guard, and those it may be held at.
GuardedPcs == {"complete", "finalize", "releaseGuard"}
HeldPcs == GuardedPcs \cup {"deleteObjects", "markDeleted"}

HeldOK(r) ==
    /\ r.pc \in GuardedPcs => r.held
    /\ r.held => r.pc \in HeldPcs

\* The try block of recoverBatch: the guard is held from acquire to finally.
HeldInv == \A w \in Workers : HeldOK(req[w])

GuardIInv ==
    /\ TypeInv
    /\ GuardInv
    /\ HeldInv

-----------------------------------------------------------------------------
(* The control operators and the guard. *)

\* x goes on without the guard, or with the one r holds.
Keeps(r, x) ==
    /\ HeldOK(x)
    /\ x.held => r.held /\ x.t = r.t

LEMMA AfterRecoverReleases ==
    ASSUME NEW r \in Request
    PROVE  /\ ~AfterRecover(r).held
           /\ HeldOK(AfterRecover(r))
<1> DEFINE x == [r EXCEPT !.pc = "readSpace", !.t = None, !.todo = {}, !.held = FALSE]
<1>1. x.held = FALSE /\ x.pc = "readSpace"
  BY DEF Request
<1>2. Idle.held = FALSE /\ Idle.pc = "idle"
  BY DEF Idle
<1> HIDE DEF x
<1>3. AfterRecover(r) \in {x, Idle}
  BY DEF AfterRecover, x
<1> QED BY <1>1, <1>2, <1>3 DEF HeldOK, GuardedPcs, HeldPcs

LEMMA AfterCleanupKeeps ==
    ASSUME NEW r \in Request
    PROVE  Keeps(r, AfterCleanup(r))
<1> DEFINE x == [r EXCEPT !.pc = "releaseGuard", !.todo = {}, !.a = None]
           y == [r EXCEPT !.a = None]
<1>1. x.pc = "releaseGuard" /\ x.held = r.held /\ x.t = r.t /\ y \in Request
  BY DEF Request
<1> HIDE DEF x, y
<1>2. CASE r.held
  BY <1>1, <1>2 DEF AfterCleanup, x, Keeps, HeldOK, GuardedPcs, HeldPcs
<1>3. CASE ~r.held
  BY <1>1, <1>3, AfterRecoverReleases DEF AfterCleanup, y, Keeps
<1> QED BY <1>2, <1>3

LEMMA EnterCleanupKeeps ==
    ASSUME NEW r \in Request, NEW todo \in SUBSET Assets
    PROVE  Keeps(r, EnterCleanup(r, todo))
<1> DEFINE x == [r EXCEPT !.pc = "deleteObjects", !.todo = todo]
<1>1. x.pc = "deleteObjects" /\ x.held = r.held /\ x.t = r.t
  BY DEF Request
<1> HIDE DEF x
<1>2. Keeps(r, x)
  BY <1>1 DEF Keeps, HeldOK, GuardedPcs, HeldPcs
<1> QED BY <1>2, AfterCleanupKeeps DEF EnterCleanup, x

LEMMA RecoverBatchKeeps ==
    ASSUME NEW r \in Request, ~r.held
    PROVE  Keeps(r, RecoverBatch(r))
<1> DEFINE s == batch[r.t].state
           x(pc) == [r EXCEPT !.pc = pc]
<1>1. PendingDeletes(r.t) \in SUBSET Assets
  BY DEF PendingDeletes
<1>2. \A pc \in {"beginCancel", "acquireGuard"} : Keeps(r, x(pc))
  BY DEF Keeps, HeldOK, GuardedPcs, HeldPcs, Request
<1>3. Keeps(r, AfterRecover(r))
  BY AfterRecoverReleases DEF Keeps
<1>4. CASE s = "committed"
  BY <1>1, <1>4, EnterCleanupKeeps DEF RecoverBatch
<1>5. CASE s = "cancelling"
  BY <1>2, <1>5 DEF RecoverBatch
<1>6. CASE s = "committing"
  BY <1>2, <1>6 DEF RecoverBatch
<1>7. CASE s \notin {"committed", "cancelling", "committing"}
  BY <1>2, <1>3, <1>7 DEF RecoverBatch
<1> QED BY <1>4, <1>5, <1>6, <1>7

LEMMA NewNotHeld ==
    ASSUME NEW op, NEW pc, NEW u, NEW t, pc \notin GuardedPcs
    PROVE  /\ ~New(op, pc, u, t).held
           /\ HeldOK(New(op, pc, u, t))
BY DEF New, Idle, HeldOK

-----------------------------------------------------------------------------
(* What a step of worker w does to the guards and to who holds them. *)

GuardStep(w) ==
    /\ \A v \in Workers \ {w} : req'[v] = req[v]
    /\ HeldOK(req'[w])
    /\ \/ guard' = guard /\ (req'[w].held => req[w].held /\ req'[w].t = req[w].t)
       \/ guard' = guard \ {req[w].t} /\ req[w].held /\ ~req'[w].held
       \/ guard' = guard \cup {req'[w].t} /\ req'[w].t \notin guard

LEMMA KeepsStep ==
    ASSUME TypeInv, NEW w \in Workers, NEW x, Continue(w, x), Keeps(req[w], x),
           UNCHANGED guard
    PROVE  GuardStep(w)
BY DEF TypeInv, Continue, Keeps, GuardStep

LEMMA NotHeldStep ==
    ASSUME TypeInv, NEW w \in Workers, NEW x, Continue(w, x), ~x.held, HeldOK(x),
           UNCHANGED guard
    PROVE  GuardStep(w)
BY KeepsStep DEF Keeps

LEMMA FinishNotHeld ==
    ASSUME TypeInv, NEW w \in Workers, Finish(w), UNCHANGED guard
    PROVE  GuardStep(w)
BY NotHeldStep DEF Finish, Idle, HeldOK, GuardedPcs

LEMMA GotoNotHeld ==
    ASSUME TypeInv, HeldInv, NEW w \in Workers, NEW pc, Goto(w, pc),
           req[w].pc \notin HeldPcs, pc \notin GuardedPcs, UNCHANGED guard
    PROVE  GuardStep(w)
<1> DEFINE x == [req[w] EXCEPT !.pc = pc]
<1>1. ~req[w].held
  BY DEF HeldInv, HeldOK
<1>2. x.pc = pc /\ x.held = req[w].held
  BY DEF TypeInv, CoherentRequest, Request
<1>3. Continue(w, x)
  BY DEF Goto
<1> HIDE DEF x
<1> QED BY <1>1, <1>2, <1>3, NotHeldStep DEF HeldOK

LEMMA PrepareGuardStep ==
    ASSUME TypeInv, HeldInv, NEW w \in Workers,
           \/ \E u \in Uploads, base \in KnownRevisions, plan \in Plans :
                StartPrepare(w, u, base, plan) \/ RetryPrepare(w, u, base, plan)
           \/ ReadPending(w) \/ ReadSpace(w) \/ Reserve(w)
           \/ \E a \in Assets : ReadAsset(w, a)
    PROVE  GuardStep(w)
<1> USE DEF GuardedPcs, HeldPcs
<1>r. req[w] \in Request
  BY DEF TypeInv, CoherentRequest
<1>h. req[w].pc \notin HeldPcs => ~req[w].held
  BY DEF HeldInv, HeldOK
<1>g. UNCHANGED guard
  BY DEF StartPrepare, RetryPrepare, ReadPending, ReadSpace, Reserve, ReadAsset,
         ReserveUpload, LocalStep, storeVars, d1Vars
<1>1. ASSUME NEW u \in Uploads, NEW base \in KnownRevisions, NEW plan \in Plans,
             StartPrepare(w, u, base, plan)
      PROVE  GuardStep(w)
  <2> DEFINE x == [New("prepare", "readPending", u, None) EXCEPT !.base = base, !.plan = plan]
  <2>1. x.pc = "readPending" /\ ~x.held
    BY DEF New, Idle
  <2>2. Continue(w, x)
    BY <1>1 DEF StartPrepare, Start
  <2> HIDE DEF x
  <2> QED BY <1>g, <2>1, <2>2, NotHeldStep DEF HeldOK
<1>2. ASSUME NEW u \in Uploads, NEW base \in KnownRevisions, NEW plan \in Plans,
             RetryPrepare(w, u, base, plan)
      PROVE  GuardStep(w)
  BY <1>2, <1>g, NewNotHeld, NotHeldStep DEF RetryPrepare
<1>3. CASE ReadPending(w)
  <2> DEFINE x == [req[w] EXCEPT !.t = space.pending]
  <2>1. ~req[w].held
    BY <1>3, <1>h DEF ReadPending, At
  <2>2. space.pending # None => x \in Request /\ ~x.held
    BY <1>r, <2>1 DEF Request, TypeInv, StoreTypeOK, SpaceRow
  <2> HIDE DEF x
  <2>3. space.pending # None => ~RecoverBatch(x).held /\ HeldOK(RecoverBatch(x))
    BY <2>2, RecoverBatchKeeps DEF Keeps
  <2>4. ~AfterRecover(req[w]).held /\ HeldOK(AfterRecover(req[w]))
    BY <1>r, AfterRecoverReleases
  <2>5. Continue(w, IF space.pending = None THEN AfterRecover(req[w]) ELSE RecoverBatch(x))
    BY <1>3 DEF ReadPending, x
  <2> QED BY <1>g, <2>3, <2>4, <2>5, NotHeldStep
<1>4. CASE ReadSpace(w)
  <2> DEFINE x == [req[w] EXCEPT
                     !.pc = "readAssets", !.epoch = space.epoch + 1,
                     !.todo = {a \in Assets : req[w].plan.put[a] # None}
                                \cup req[w].plan.del]
  <2>1. x.pc = "readAssets" /\ x.held = req[w].held /\ ~req[w].held
    BY <1>r, <1>h, <1>4 DEF Request, ReadSpace, At
  <2>2. Finish(w) \/ Continue(w, x)
    BY <1>4 DEF ReadSpace
  <2> HIDE DEF x
  <2> QED BY <1>g, <2>1, <2>2, FinishNotHeld, NotHeldStep DEF HeldOK
<1>5. CASE Reserve(w)
  BY <1>5, <1>g, FinishNotHeld DEF Reserve
<1>6. ASSUME NEW a \in Assets, ReadAsset(w, a)
      PROVE  GuardStep(w)
  <2> DEFINE rest == req[w].todo \ {a}
             pc == IF rest = {} THEN "reserve" ELSE "readAssets"
             r == [req[w] EXCEPT !.todo = rest, !.pc = pc]
             x == [r EXCEPT !.items[a] = PlannedItem(asset[a], req[w].plan.put[a])]
  <2>1. ~req[w].held
    BY <1>6, <1>h DEF ReadAsset, At
  <2>2. pc \notin GuardedPcs
    OBVIOUS
  <2> HIDE DEF pc
  <2>3. r.pc = pc /\ ~r.held
    BY <1>r, <2>1 DEF Request
  <2>4. x.pc = pc /\ ~x.held
    BY <1>r, <2>1 DEF Request
  <2>5. Finish(w) \/ Continue(w, r) \/ Continue(w, x)
    BY <1>6 DEF ReadAsset, pc
  <2> HIDE DEF r, x
  <2> QED BY <1>g, <2>2, <2>3, <2>4, <2>5, FinishNotHeld, NotHeldStep DEF HeldOK
<1> QED BY <1>1, <1>2, <1>3, <1>4, <1>5, <1>6

LEMMA PutGuardStep ==
    ASSUME TypeInv, HeldInv, NEW w \in Workers,
           \/ \E u \in Uploads, a \in Assets : StartPut(w, u, a)
           \/ Claim(w) \/ Create(w) \/ SetMultipart(w) \/ UploadPartTo(w)
           \/ MarkReady(w) \/ Release(w)
    PROVE  GuardStep(w)
<1> USE DEF GuardedPcs, HeldPcs
<1>r. req[w] \in Request
  BY DEF TypeInv, CoherentRequest
<1>g. UNCHANGED guard
  BY DEF StartPut, Claim, ClaimItem, Create, CreateMultipart, SetMultipart, SetMultipartId,
         UploadPartTo, UploadPart, MarkReady, MarkItemReady, Release, ReleaseItem,
         storeVars, d1Vars
<1>1. ASSUME NEW u \in Uploads, NEW a \in Assets, StartPut(w, u, a)
      PROVE  GuardStep(w)
  <2> DEFINE x == [New("put", "claim", u, None) EXCEPT !.a = a, !.mp = item[u][a].mp]
  <2>1. x.pc = "claim" /\ ~x.held
    BY DEF New, Idle
  <2>2. Continue(w, x)
    BY <1>1 DEF StartPut, Start
  <2> HIDE DEF x
  <2> QED BY <1>g, <2>1, <2>2, NotHeldStep DEF HeldOK
<1>2. CASE Create(w)
  <2>1. req[w].pc = "create" /\ ~req[w].held
    BY <1>2 DEF Create, At, HeldInv, HeldOK
  <2>2. CASE Goto(w, "releaseItem")
    BY <1>g, <2>1, <2>2, GotoNotHeld
  <2>3. ASSUME NEW m \in Multiparts,
               Continue(w, [req[w] EXCEPT !.pc = "setMultipart", !.mp = m])
        PROVE  GuardStep(w)
    <3> DEFINE x == [req[w] EXCEPT !.pc = "setMultipart", !.mp = m]
    <3>1. x.pc = "setMultipart" /\ ~x.held
      BY <1>r, <2>1 DEF Request
    <3>2. Continue(w, x)
      BY <2>3
    <3> HIDE DEF x
    <3> QED BY <1>g, <3>1, <3>2, NotHeldStep DEF HeldOK
  <2> QED BY <1>2, <2>2, <2>3 DEF Create
<1>3. CASE Claim(w) \/ SetMultipart(w) \/ UploadPartTo(w) \/ MarkReady(w) \/ Release(w)
  <2>1. req[w].pc \notin HeldPcs
    BY <1>3 DEF Claim, SetMultipart, UploadPartTo, MarkReady, Release, At
  <2>2. \/ Finish(w)
        \/ \E pc \in {"markReady", "create", "uploadPart", "releaseItem"} : Goto(w, pc)
    BY <1>3 DEF Claim, SetMultipart, UploadPartTo, MarkReady, Release
  <2> QED BY <1>g, <2>1, <2>2, FinishNotHeld, GotoNotHeld
<1> QED BY <1>1, <1>2, <1>3

LEMMA FailRecoveryGuardStep ==
    ASSUME TypeInv, HeldInv, NEW w \in Workers, FailRecovery(w), req[w].pc \in GuardedPcs,
           UNCHANGED guard
    PROVE  GuardStep(w)
<1> DEFINE x == [req[w] EXCEPT !.pc = "releaseGuard", !.failed = TRUE, !.todo = {}]
<1>1. req[w] \in Request /\ req[w].held
  BY DEF TypeInv, CoherentRequest, HeldInv, HeldOK
<1>2. x.pc = "releaseGuard" /\ x.held = req[w].held /\ x.t = req[w].t
  BY <1>1 DEF Request
<1>3. Continue(w, x)
  BY DEF FailRecovery
<1> HIDE DEF x
<1> QED BY <1>1, <1>2, <1>3, KeepsStep DEF Keeps, HeldOK, HeldPcs, GuardedPcs

LEMMA CleanupGuardStep ==
    ASSUME TypeInv, NEW w \in Workers, Continue(w, AfterCleanup(req[w])), UNCHANGED guard
    PROVE  GuardStep(w)
<1>1. req[w] \in Request
  BY DEF TypeInv, CoherentRequest
<1> QED BY <1>1, AfterCleanupKeeps, KeepsStep

LEMMA RecoveryGuardStep ==
    ASSUME TypeInv, HeldInv, NEW w \in Workers,
           \/ \E u \in Uploads : StartCommit(w, u)
           \/ BeginCommitStep(w) \/ RereadBatch(w) \/ AcquireGuard(w) \/ Finalize(w)
           \/ \E a \in Assets : Complete(w, a) \/ CompleteFails(w, a)
           \/ ReleaseGuard(w)
    PROVE  GuardStep(w)
<1> USE DEF GuardedPcs, HeldPcs
<1>r. req[w] \in Request
  BY DEF TypeInv, CoherentRequest
<1>h. /\ req[w].pc \notin HeldPcs => ~req[w].held
      /\ req[w].pc \in GuardedPcs => req[w].held
  BY DEF HeldInv, HeldOK
<1>s. UNCHANGED storeVars => UNCHANGED guard
  BY DEF storeVars, d1Vars
<1>1. ASSUME NEW u \in Uploads, StartCommit(w, u)
      PROVE  GuardStep(w)
  <2> DEFINE x == New("commit", "beginCommit", u, u)
             y == New("commit", "idle", u, u)
  <2>1. ~x.held /\ HeldOK(x) /\ ~y.held
    BY NewNotHeld
  <2>2. y \in Request
    BY NewCoherent DEF Ops, CoherentRequest
  <2>3. ~RecoverBatch(y).held /\ HeldOK(RecoverBatch(y))
    BY <2>1, <2>2, RecoverBatchKeeps DEF Keeps
  <2>4. Continue(w, x) \/ Continue(w, RecoverBatch(y))
    BY <1>1 DEF StartCommit, Start
  <2> HIDE DEF x, y
  <2> QED BY <1>1, <1>s, <2>1, <2>3, <2>4, NotHeldStep DEF StartCommit
<1>2. CASE BeginCommitStep(w)
  <2>1. (Goto(w, "rereadBatch") \/ Finish(w)) /\ req[w].pc \notin HeldPcs
    BY <1>2 DEF BeginCommitStep, At
  <2>2. UNCHANGED guard
    BY <1>2, <1>s DEF BeginCommitStep, BeginCommit
  <2> QED BY <2>1, <2>2, GotoNotHeld, FinishNotHeld
<1>3. CASE RereadBatch(w)
  <2>1. ~req[w].held
    BY <1>3, <1>h DEF RereadBatch, At
  <2>2. Keeps(req[w], RecoverBatch(req[w]))
    BY <1>r, <2>1, RecoverBatchKeeps
  <2> QED BY <1>3, <1>s, <2>2, KeepsStep DEF RereadBatch, LocalStep
<1>4. CASE AcquireGuard(w)
  <2> DEFINE t == req[w].t
             pc == IF MultipartItems(t) = {} THEN "finalize" ELSE "complete"
             x == [req[w] EXCEPT !.held = TRUE, !.todo = MultipartItems(t), !.pc = pc]
             y == IF batch[t].state = "committed" THEN AfterRecover(req[w]) ELSE Idle
  <2>1. ~y.held /\ HeldOK(y)
    BY <1>r, AfterRecoverReleases DEF Idle, HeldOK
  <2>2. pc \in GuardedPcs
    OBVIOUS
  <2> HIDE DEF pc
  <2>3. x.held = TRUE /\ x.pc = pc /\ x.t = t
    BY <1>r DEF Request
  <2>4. \/ CanAcquireGuard(t) /\ AcquireRecoverGuard(t) /\ Continue(w, x)
        \/ Continue(w, y) /\ UNCHANGED storeVars
    BY <1>4 DEF AcquireGuard, pc
  <2> HIDE DEF x, y, t
  <2>5. CASE CanAcquireGuard(t) /\ AcquireRecoverGuard(t) /\ Continue(w, x)
    <3>1. guard' = guard \cup {t} /\ t \notin guard
      BY <2>5 DEF CanAcquireGuard, AcquireRecoverGuard
    <3>2. req'[w] = x /\ \A v \in Workers \ {w} : req'[v] = req[v]
      BY <2>5 DEF TypeInv, Continue
    <3> QED BY <2>2, <2>3, <3>1, <3>2 DEF GuardStep, HeldOK
  <2>6. CASE Continue(w, y) /\ UNCHANGED storeVars
    BY <1>s, <2>1, <2>6, NotHeldStep
  <2> QED BY <2>4, <2>5, <2>6
<1>5. CASE Finalize(w)
  <2> DEFINE dels == {a \in Assets : del[req[w].t][a] = "reserved"}
  <2>1. Keeps(req[w], EnterCleanup(req[w], dels))
    BY <1>r, EnterCleanupKeeps
  <2>2. Continue(w, EnterCleanup(req[w], dels)) \/ FailRecovery(w)
    BY <1>5 DEF Finalize
  <2>3. UNCHANGED guard /\ req[w].pc = "finalize"
    BY <1>5, <1>s DEF Finalize, FinalizeCommit, At
  <2> HIDE DEF dels
  <2> QED BY <2>1, <2>2, <2>3, KeepsStep, FailRecoveryGuardStep
<1>6. ASSUME NEW a \in Assets, Complete(w, a)
      PROVE  GuardStep(w)
  <2> DEFINE pc == IF req[w].todo = {a} THEN "finalize" ELSE "complete"
             x == [req[w] EXCEPT !.todo = req[w].todo \ {a}, !.pc = pc]
  <2>1. pc \in GuardedPcs
    OBVIOUS
  <2>2. Continue(w, x)
    BY <1>6, <1>r DEF Complete, CompletedItem, Continue, Request
  <2> HIDE DEF pc
  <2>3. x.pc = pc /\ x.held = req[w].held /\ x.t = req[w].t
    BY <1>r DEF Request
  <2> HIDE DEF x
  <2>4. req[w].held
    BY <1>6, <1>h DEF Complete, At
  <2>5. UNCHANGED guard
    BY <1>6, <1>s DEF Complete, CompleteMultipart, d1Vars
  <2> QED BY <2>1, <2>2, <2>3, <2>4, <2>5, KeepsStep DEF Keeps, HeldOK
<1>7. ASSUME NEW a \in Assets, CompleteFails(w, a)
      PROVE  GuardStep(w)
  BY <1>7, <1>s, FailRecoveryGuardStep DEF CompleteFails, LocalStep, At
<1>8. CASE ReleaseGuard(w)
  <2> DEFINE y == IF req[w].failed THEN Idle ELSE AfterRecover(req[w])
  <2>1. ~y.held /\ HeldOK(y)
    BY <1>r, AfterRecoverReleases DEF Idle, HeldOK
  <2>2. Continue(w, y) /\ guard' = guard \ {req[w].t} /\ req[w].held
    BY <1>8, <1>h DEF ReleaseGuard, ReleaseRecoverGuard, At
  <2> HIDE DEF y
  <2>3. req'[w] = y /\ \A v \in Workers \ {w} : req'[v] = req[v]
    BY <2>2 DEF TypeInv, Continue
  <2> QED BY <2>1, <2>2, <2>3 DEF GuardStep
<1> QED BY <1>1, <1>2, <1>3, <1>4, <1>5, <1>6, <1>7, <1>8

LEMMA DeleteGuardStep ==
    ASSUME TypeInv, HeldInv, NEW w \in Workers,
           \/ \E a \in Assets : DeleteAssetObjects(w, a)
           \/ DeleteFails(w) \/ MarkDeleted(w) \/ D1Fails(w)
    PROVE  GuardStep(w)
<1> USE DEF GuardedPcs, HeldPcs
<1>r. req[w] \in Request
  BY DEF TypeInv, CoherentRequest
<1>g. UNCHANGED guard
  BY DEF DeleteAssetObjects, DeleteObjects, DeleteFails, MarkDeleted, MarkDeleteItemDeleted,
         D1Fails, LocalStep, storeVars, d1Vars
<1>1. ASSUME NEW a \in Assets, DeleteAssetObjects(w, a)
      PROVE  GuardStep(w)
  <2> DEFINE x == [req[w] EXCEPT !.pc = "markDeleted", !.a = a]
  <2>1. x.pc = "markDeleted" /\ x.held = req[w].held /\ x.t = req[w].t
    BY <1>r DEF Request
  <2>2. Continue(w, x)
    BY <1>1 DEF DeleteAssetObjects
  <2> HIDE DEF x
  <2> QED BY <1>g, <2>1, <2>2, KeepsStep DEF Keeps, HeldOK
<1>2. CASE DeleteFails(w)
  BY <1>2, <1>g, CleanupGuardStep DEF DeleteFails
<1>3. CASE MarkDeleted(w)
  <2> DEFINE x == [req[w] EXCEPT !.a = None]
             rest == req[w].todo \ {req[w].a}
  <2>1. /\ x \in Request /\ x.held = req[w].held /\ x.t = req[w].t
        /\ rest \in SUBSET Assets
    BY <1>r DEF Request
  <2>2. Continue(w, EnterCleanup(x, rest))
    BY <1>3 DEF MarkDeleted
  <2> HIDE DEF x, rest
  <2>3. Keeps(req[w], EnterCleanup(x, rest))
    BY <2>1, EnterCleanupKeeps DEF Keeps
  <2> QED BY <1>g, <2>2, <2>3, KeepsStep
<1>4. CASE D1Fails(w)
  <2>1. CASE req[w].pc \in {"setMultipart", "markReady"} /\ Goto(w, "releaseItem")
    BY <1>g, <2>1, GotoNotHeld
  <2>2. CASE At(w, "finalize") /\ FailRecovery(w)
    BY <1>g, <2>2, FailRecoveryGuardStep DEF At
  <2>3. CASE At(w, "markDeleted") /\ Continue(w, AfterCleanup(req[w]))
    BY <1>g, <2>3, CleanupGuardStep
  <2> QED BY <1>4, <2>1, <2>2, <2>3 DEF D1Fails
<1> QED BY <1>1, <1>2, <1>3, <1>4

LEMMA CancelGuardStep ==
    ASSUME TypeInv, HeldInv, NEW w \in Workers,
           \/ \E u \in Uploads : StartCancel(w, u)
           \/ StartAbort(w) \/ StartCron(w)
           \/ BeginCancelStep(w) \/ BeginForceAbortStep(w)
           \/ AbortMultiparts(w) \/ FinishCancelStep(w)
    PROVE  GuardStep(w)
<1> USE DEF GuardedPcs, HeldPcs
<1>r. req[w] \in Request
  BY DEF TypeInv, CoherentRequest
<1>g. UNCHANGED guard
  BY DEF StartCancel, StartAbort, StartCron, BeginCancelStep, BeginForceAbortStep, CancelStep,
         BeginCancel, AbortMultiparts, AbortMultipartUploads, FinishCancelStep, FinishCancel,
         storeVars, d1Vars
<1>1. ASSUME NEW u \in Uploads, StartCancel(w, u)
      PROVE  GuardStep(w)
  BY <1>1, <1>g, NewNotHeld, NotHeldStep DEF StartCancel, Start
<1>2. CASE StartAbort(w)
  <2> DEFINE t == space.pending
             pc == IF batch[t].state = "prepared" THEN "beginForceAbort" ELSE "beginCancel"
  <2>1. pc \notin GuardedPcs
    OBVIOUS
  <2>2. Continue(w, New("abort", pc, t, t))
    BY <1>2 DEF StartAbort, Start
  <2> HIDE DEF pc, t
  <2> QED BY <1>g, <2>1, <2>2, NewNotHeld, NotHeldStep
<1>3. CASE StartCron(w)
  <2>1. PICK u \in Uploads : Continue(w, RecoverBatch(New("cron", "idle", u, u)))
    BY <1>3 DEF StartCron, Start
  <2> DEFINE y == New("cron", "idle", u, u)
  <2>2. y \in Request /\ ~y.held
    BY NewCoherent, NewNotHeld DEF Ops, CoherentRequest
  <2>3. ~RecoverBatch(y).held /\ HeldOK(RecoverBatch(y))
    BY <2>2, RecoverBatchKeeps DEF Keeps
  <2> HIDE DEF y
  <2>4. Continue(w, RecoverBatch(y))
    BY <2>1 DEF y
  <2> QED BY <1>g, <2>3, <2>4, NotHeldStep
<1>a. ~AfterRecover(req[w]).held /\ HeldOK(AfterRecover(req[w]))
  BY <1>r, AfterRecoverReleases
<1>4. CASE BeginCancelStep(w) \/ BeginForceAbortStep(w)
  <2>1. req[w].pc \notin HeldPcs
    BY <1>4 DEF BeginCancelStep, BeginForceAbortStep, At
  <2>2. Goto(w, "abortMultiparts") \/ Continue(w, AfterRecover(req[w]))
    BY <1>4 DEF BeginCancelStep, BeginForceAbortStep, CancelStep
  <2> QED BY <1>a, <1>g, <2>1, <2>2, GotoNotHeld, NotHeldStep
<1>5. CASE AbortMultiparts(w)
  <2>1. Goto(w, "finishCancel") /\ req[w].pc \notin HeldPcs
    BY <1>5 DEF AbortMultiparts, At
  <2> QED BY <1>g, <2>1, GotoNotHeld
<1>6. CASE FinishCancelStep(w)
  BY <1>6, <1>a, <1>g, NotHeldStep DEF FinishCancelStep
<1> QED BY <1>1, <1>2, <1>3, <1>4, <1>5, <1>6

LEMMA GuardSteps ==
    ASSUME TypeInv, HeldInv, NEW w \in Workers,
           Arrive(w) \/ Advance(w) \/ D1Fails(w) \/ Crash(w)
    PROVE  GuardStep(w)
<1>1. CASE Arrive(w)
  <2> USE <1>1 DEF Arrive
  <2> QED BY PrepareGuardStep, PutGuardStep, RecoveryGuardStep, CancelGuardStep
<1>2. CASE Advance(w)
  BY <1>2, PrepareGuardStep, PutGuardStep, RecoveryGuardStep, DeleteGuardStep, CancelGuardStep
     DEF Advance
<1>3. CASE D1Fails(w)
  BY <1>3, DeleteGuardStep
<1>4. CASE Crash(w)
  BY <1>4, FinishNotHeld DEF Crash, storeVars, d1Vars
<1> QED BY <1>1, <1>2, <1>3, <1>4

-----------------------------------------------------------------------------
(* The invariant of the guard. *)

LEMMA GuardIInvInit == Init => GuardIInv
<1> SUFFICES ASSUME Init PROVE GuardIInv
  OBVIOUS
<1>1. TypeInv
  BY TypeInvInit
<1>2. \A w \in Workers : ~req[w].held /\ req[w].pc = "idle"
  BY DEF Init, Idle
<1> QED BY <1>1, <1>2 DEF GuardIInv, GuardInv, HeldInv, HeldOK, GuardedPcs

\* The guard table and the workers that believe to hold a guard go together.
LEMMA GuardStepKeeps ==
    ASSUME GuardInv, NEW w \in Workers, GuardStep(w), HeldInv
    PROVE  GuardInv' /\ HeldInv'
<1>1. \A v \in Workers \ {w} : req'[v] = req[v]
  BY DEF GuardStep
<1>2. HeldInv'
  BY <1>1 DEF GuardStep, HeldInv, HeldOK
<1>3. \A v \in Workers : req'[v].held => req'[v].t \in guard'
  BY <1>1 DEF GuardStep, GuardInv
<1>4. \A v \in Workers \ {w} : req'[v].held /\ req'[w].held => req'[v].t # req'[w].t
  BY <1>1 DEF GuardStep, GuardInv
<1> QED BY <1>1, <1>2, <1>3, <1>4 DEF GuardInv

LEMMA GuardIInvNext == GuardIInv /\ [Next]_vars => GuardIInv'
<1> SUFFICES ASSUME GuardIInv, [Next]_vars PROVE GuardIInv'
  OBVIOUS
<1> USE DEF GuardIInv
<1>1. TypeInv'
  BY TypeInvNext
<1>2. CASE Tick \/ UNCHANGED vars
  <2>1. UNCHANGED <<guard, req>>
    BY <1>2 DEF Tick, vars, storeVars, d1Vars
  <2> QED BY <1>1, <2>1 DEF GuardInv, HeldInv, HeldOK
<1> QED BY <1>1, <1>2, GuardSteps, GuardStepKeeps DEF Next

LEMMA GuardInvariance == Spec => []GuardIInv
BY GuardIInvInit, GuardIInvNext, PTL DEF Spec

\* The recover guard of recoverCommittingBatch: however many requests and cron
\* runs recover batches at once, and whatever a crash leaves behind, at most
\* one of them is inside the guarded section of a batch, and its guard row is
\* there until that one releases it.
THEOREM GuardCorrect == Spec => []GuardInv
BY GuardInvariance, PTL DEF GuardIInv
=============================================================================
