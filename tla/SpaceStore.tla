----------------------------- MODULE SpaceStore -----------------------------
(***************************************************************************)
(* The state one account space keeps in D1 (rows) and in the R2 bucket     *)
(* (objects and multipart uploads), and the operations of the repository   *)
(* on it.  A D1 batch() is a transaction, so each operation is one atomic  *)
(* action.  An operation with a precondition comes as a predicate Can...   *)
(* (the CHECK(ok=1) guard or the WHERE clause) and an effect.              *)
(***************************************************************************)
EXTENDS SpaceModel

CONSTANTS
    Multiparts,     \* identifiers of R2 multipart uploads (bounds their number)
    LeaseTime,      \* 60 s lease of a PUT, in clock units
    UploadTtl       \* UPLOAD_TTL_SECONDS, in clock units

ASSUME StoreAssumption ==
    /\ None \notin Multiparts
    /\ LeaseTime \in Nat
    /\ UploadTtl \in Nat

VARIABLES
    space,          \* sync_spaces row
    batch,          \* sync_upload_batches rows
    item,           \* sync_upload_items rows
    del,            \* sync_delete_items rows: their state
    asset,          \* sync_assets rows
    guard,          \* batches with a persistent "recover" operation guard
    object,         \* R2 objects by asset and slot key
    multipart       \* R2 multipart uploads

d1Vars == <<space, batch, item, del, asset, guard>>
r2Vars == <<object, multipart>>
storeVars == <<d1Vars, r2Vars>>

-----------------------------------------------------------------------------
(* Rows *)

BatchStates ==
    {"absent", "prepared", "committing", "committed", "cancelling", "cancelled"}
ActiveStates == {"prepared", "committing", "cancelling"}
ItemStates ==
    {"absent", "issued", "uploading", "ready", "reserved", "committed", "cancelled"}
DeleteStates ==
    {"absent", "issued", "reserved", "committed", "deleted", "cancelled"}
MultipartStates == {"free", "open", "completed", "aborted"}

SpaceRow == [revision : UploadOrNone, epoch : Nat, pending : UploadOrNone]

\* base is the revision the batch was prepared against.
BatchRow == [state : BatchStates, base : UploadOrNone, epoch : Nat, expires : Nat]

\* mp is r2_multipart_upload_id, part says that part_etag is set.
ItemRow ==
    [state : ItemStates, blob : BlobOrNone, backend : Backends, slot : Slots,
     mp : Multiparts \cup {None}, part : BOOLEAN, d1 : BlobOrNone, lease : Nat]

AbsentItem ==
    [state |-> "absent", blob |-> None, backend |-> "d1", slot |-> "a",
     mp |-> None, part |-> FALSE, d1 |-> None, lease |-> 0]

\* An R2 object is what the batch u completed; u stands for its etag, version
\* and uploadId metadata.  u = None: no object under the key.
ObjectRow == [u : UploadOrNone, blob : BlobOrNone]
NoObject == [u |-> None, blob |-> None]

\* part: part 1 of this multipart upload has been received by R2.
MultipartRow ==
    [state : MultipartStates, u : UploadOrNone, a : Assets \cup {None}, part : BOOLEAN]
FreeMultipart == [state |-> "free", u |-> None, a |-> None, part |-> FALSE]

StoreTypeOK ==
    /\ space \in SpaceRow
    /\ batch \in [Uploads -> BatchRow]
    /\ item \in [Uploads -> [Assets -> ItemRow]]
    /\ del \in [Uploads -> [Assets -> DeleteStates]]
    /\ asset \in [Assets -> AssetRow]
    /\ guard \subseteq Uploads
    /\ object \in [Assets -> [Slots -> ObjectRow]]
    /\ multipart \in [Multiparts -> MultipartRow]

StoreInit ==
    /\ space = [revision |-> None, epoch |-> 0, pending |-> None]
    /\ batch = [u \in Uploads |->
                  [state |-> "absent", base |-> None, epoch |-> 0, expires |-> 0]]
    /\ item = [u \in Uploads |-> [a \in Assets |-> AbsentItem]]
    /\ del = [u \in Uploads |-> [a \in Assets |-> "absent"]]
    /\ asset = [a \in Assets |-> AbsentAsset]
    /\ guard = {}
    /\ object = [a \in Assets |-> [s \in Slots |-> NoObject]]
    /\ multipart = [m \in Multiparts |-> FreeMultipart]

-----------------------------------------------------------------------------
(* D1: the upload transaction *)

Expired(u, now) == batch[u].expires <= now

\* Faulty variant: the lock is taken without comparing revisions.
CanReserveAnyRevision(u, base) ==
    space.pending = None /\ batch[u].state = "absent"

\* The space guard and the UNIQUE(space_id, client_batch_id) constraint.
CanReserve(u, base) ==
    /\ space.revision = base
    /\ space.pending = None
    /\ batch[u].state = "absent"

ReserveUpload(u, base, epoch, items, dels, now) ==
    /\ batch' = [batch EXCEPT ![u] =
                   [state |-> "prepared", base |-> base, epoch |-> epoch,
                    expires |-> now + UploadTtl]]
    /\ space' = [space EXCEPT !.pending = u]
    /\ item' = [item EXCEPT ![u] = items]
    /\ del' = [del EXCEPT ![u] =
                 [a \in Assets |-> IF a \in dels THEN "issued" ELSE "absent"]]
    /\ UNCHANGED <<asset, guard, r2Vars>>

CanClaim(u, a, now) ==
    /\ batch[u].state = "prepared" /\ ~Expired(u, now)
    /\ \/ item[u][a].state = "issued"
       \/ item[u][a].state = "uploading" /\ item[u][a].lease < now

ClaimItem(u, a, now) ==
    /\ item' = [item EXCEPT ![u][a] =
                  [@ EXCEPT !.state = "uploading", !.lease = now + LeaseTime]]
    /\ UNCHANGED <<space, batch, del, asset, guard, r2Vars>>

IssuedAgain(i) == [i EXCEPT !.state = "issued", !.lease = 0]

\* Faulty variant: the late release of a failed PUT ignores the item's state.
ReleaseItemAnyState(u, a) ==
    /\ item' = [item EXCEPT ![u][a] = IssuedAgain(@)]
    /\ UNCHANGED <<space, batch, del, asset, guard, r2Vars>>

\* Whoever claimed it: the WHERE clause names no owner.
ReleaseItem(u, a) ==
    /\ item' = IF item[u][a].state = "uploading"
               THEN [item EXCEPT ![u][a] = IssuedAgain(@)] ELSE item
    /\ UNCHANGED <<space, batch, del, asset, guard, r2Vars>>

\* Records m unless another multipart is recorded; the caller ignores which.
SetMultipartId(u, a, m) ==
    /\ item' = IF /\ item[u][a].state = "uploading"
                  /\ batch[u].state = "prepared"
                  /\ item[u][a].mp \in {None, m}
               THEN [item EXCEPT ![u][a] = [@ EXCEPT !.mp = m]]
               ELSE item
    /\ UNCHANGED <<space, batch, del, asset, guard, r2Vars>>

CanMarkReady(u, a) ==
    /\ item[u][a].state = "uploading"
    /\ batch[u].state = "prepared"
    /\ item[u][a].backend = "r2" => item[u][a].mp # None

\* A D1 payload is stored in the item row, for R2 only the part's etag is.
Uploaded(i) ==
    [i EXCEPT !.state = "ready", !.lease = 0, !.part = (i.backend = "r2"),
              !.d1 = IF i.backend = "d1" THEN i.blob ELSE None]

MarkItemReady(u, a) ==
    /\ item' = [item EXCEPT ![u][a] = Uploaded(@)]
    /\ UNCHANGED <<space, batch, del, asset, guard, r2Vars>>

\* UPDATE .. SET state = to WHERE upload_id = u AND state IN from
MoveItems(u, from, to) ==
    [a \in Assets |-> IF item[u][a].state \in from
                      THEN [item[u][a] EXCEPT !.state = to] ELSE item[u][a]]
MoveDeletes(u, from, to) ==
    [a \in Assets |-> IF del[u][a] \in from THEN to ELSE del[u][a]]

CanBeginCommit(u, now) ==
    /\ space.pending = u
    /\ batch[u].state = "prepared" /\ ~Expired(u, now)
    /\ space.revision = batch[u].base
    /\ \A a \in Assets : item[u][a].state \in {"absent", "ready"}

BeginCommit(u) ==
    /\ batch' = [batch EXCEPT ![u].state = "committing"]
    /\ item' = [item EXCEPT ![u] = MoveItems(u, {"ready"}, "reserved")]
    /\ del' = [del EXCEPT ![u] = MoveDeletes(u, {"issued"}, "reserved")]
    /\ UNCHANGED <<space, asset, guard, r2Vars>>

\* Faulty variant: the guard row has no primary key.
CanAcquireGuardShared(u) == batch[u].state = "committing"
CanAcquireGuard(u) == batch[u].state = "committing" /\ u \notin guard

AcquireRecoverGuard(u) ==
    /\ guard' = guard \cup {u}
    /\ UNCHANGED <<space, batch, item, del, asset, r2Vars>>

ReleaseRecoverGuard(u) ==
    /\ guard' = guard \ {u}
    /\ UNCHANGED <<space, batch, item, del, asset, r2Vars>>

CanFinalize(u) ==
    /\ space.pending = u
    /\ batch[u].state = "committing"
    /\ space.revision = batch[u].base

\* Faulty variant: the rows of deleted assets survive.
PublishedAssetsNoDelete(u) ==
    [a \in Assets |-> IF item[u][a].state # "absent"
                      THEN AssetUpsert(asset[a], item[u][a], u) ELSE asset[a]]

\* The asset rows of the revision batch u publishes.
PublishedAssets(u) ==
    [a \in Assets |->
       IF del[u][a] # "absent" THEN AbsentAsset
       ELSE IF item[u][a].state # "absent" THEN AssetUpsert(asset[a], item[u][a], u)
       ELSE asset[a]]

\* An item that is done gives up its D1 payload copy.
Closed(i, state) == [i EXCEPT !.state = state, !.d1 = None, !.lease = 0]

\* Publishes the revision: the asset rows, the space and the batch together.
FinalizeCommit(u) ==
    /\ asset' = PublishedAssets(u)
    /\ space' = [revision |-> u, epoch |-> batch[u].epoch, pending |-> None]
    /\ item' = [item EXCEPT ![u] =
                  [a \in Assets |-> IF item[u][a].state = "reserved"
                                    THEN Closed(item[u][a], "committed") ELSE item[u][a]]]
    /\ del' = [del EXCEPT ![u] = MoveDeletes(u, {"reserved"}, "committed")]
    /\ batch' = [batch EXCEPT ![u].state = "committed"]
    /\ UNCHANGED <<guard, r2Vars>>

\* An upload whose lease is over no longer holds back a cancellation.
LiveUpload(u, now) ==
    \E a \in Assets : item[u][a].state = "uploading" /\ item[u][a].lease > now

CanBeginCancel(u, now) == batch[u].state = "prepared" /\ ~LiveUpload(u, now)

\* Faulty variant, and the rule before 2026-08-24: committing may be dropped.
CanForceAbortCommitting(u) == batch[u].state \in {"prepared", "committing"}
CanForceAbort(u) == batch[u].state = "prepared"

BeginCancel(u) ==
    /\ batch' = [batch EXCEPT ![u].state = "cancelling"]
    /\ UNCHANGED <<space, item, del, asset, guard, r2Vars>>

\* Faulty variant: the space is unlocked whoever holds the lock by now.
UnlockedSpaceAnyHolder(u) == [space EXCEPT !.pending = None]
UnlockedSpace(u) ==
    IF space.pending = u THEN [space EXCEPT !.pending = None] ELSE space

\* Each UPDATE has its own WHERE clause; none of them requires the others.
FinishCancel(u) ==
    /\ space' = UnlockedSpace(u)
    /\ item' = [item EXCEPT ![u] =
                  [a \in Assets |->
                     IF item[u][a].state \in {"absent", "committed", "cancelled"}
                     THEN item[u][a]
                     ELSE Closed(item[u][a], "cancelled")]]
    /\ del' = [del EXCEPT ![u] =
                 MoveDeletes(u, DeleteStates \ {"absent", "committed", "cancelled"}, "cancelled")]
    /\ batch' = IF batch[u].state = "cancelling"
                THEN [batch EXCEPT ![u].state = "cancelled"] ELSE batch
    /\ UNCHANGED <<asset, guard, r2Vars>>

\* False in the code's result only when the row is neither committed nor deleted.
MarkDeleteItemDeleted(u, a) ==
    /\ del' = IF del[u][a] = "committed" /\ batch[u].state = "committed"
              THEN [del EXCEPT ![u][a] = "deleted"] ELSE del
    /\ UNCHANGED <<space, batch, item, asset, guard, r2Vars>>

-----------------------------------------------------------------------------
(* R2, as the service uses it *)

CreateMultipart(m, u, a) ==
    /\ multipart' = [multipart EXCEPT ![m] =
                       [state |-> "open", u |-> u, a |-> a, part |-> FALSE]]
    /\ UNCHANGED <<d1Vars, object>>

UploadPart(m) ==
    /\ multipart' = [multipart EXCEPT ![m].part = TRUE]
    /\ UNCHANGED <<d1Vars, object>>

\* HEAD shows the object this item was completed to.
ObjectCompleted(u, a) ==
    object[a][item[u][a].slot] = [u |-> u, blob |-> item[u][a].blob]

CanComplete(u, a) ==
    LET m == item[u][a].mp
    IN  m # None /\ multipart[m].state = "open" /\ multipart[m].part

CompleteMultipart(u, a) ==
    /\ object' = [object EXCEPT ![a][item[u][a].slot] =
                    [u |-> u, blob |-> item[u][a].blob]]
    /\ multipart' = [multipart EXCEPT ![item[u][a].mp].state = "completed"]
    /\ UNCHANGED d1Vars

AbortMultipartUploads(ms) ==
    /\ multipart' = [m \in Multiparts |->
                       IF m \in ms /\ multipart[m].state = "open"
                       THEN [multipart[m] EXCEPT !.state = "aborted"] ELSE multipart[m]]
    /\ UNCHANGED <<d1Vars, object>>

DeleteObjects(a) ==
    /\ object' = [object EXCEPT ![a] = [s \in Slots |-> NoObject]]
    /\ UNCHANGED <<d1Vars, multipart>>
=============================================================================
