----------------------------- MODULE SpaceModel -----------------------------
(***************************************************************************)
(* The pure decisions of the sync domain model: which backend a payload    *)
(* goes to, which of the two R2 slots an upload may write, when a stored   *)
(* copy can be reused, and what one committed upload item makes of the     *)
(* asset row it is published into.                                         *)
(*                                                                         *)
(* A payload is a member of Blobs: its SHA-256 identifies its bytes, its   *)
(* size (Size) and its encoding (only "identity" is accepted), so one      *)
(* value stands for the hash, the size and the encoding columns.           *)
(***************************************************************************)
EXTENDS Integers

CONSTANTS
    Uploads,            \* upload batches; a batch also names its revision
    Assets,             \* (asset_type, asset_id) pairs of the space
    Blobs,              \* payloads
    Size,               \* Blobs -> bytes
    R2EnterThreshold,   \* d1 payloads of at least this size move to R2
    D1ReturnThreshold,  \* R2 payloads of at most this size move back to D1
    None                \* SQL NULL, a missing row, the initial revision "0"

ASSUME ModelAssumption ==
    /\ None \notin Uploads
    /\ None \notin Assets
    /\ None \notin Blobs
    /\ Size \in [Blobs -> Nat]
    /\ R2EnterThreshold \in Nat
    /\ D1ReturnThreshold \in Nat

Backends == {"d1", "r2"}
Slots == {"a", "b"}

BlobOrNone == Blobs \cup {None}
UploadOrNone == Uploads \cup {None}

(***************************************************************************)
(* A row of sync_assets.  hash = None says that there is no such row.  d1  *)
(* and d1Hash are the D1 payload and its recorded hash, r2[s] the hash     *)
(* recorded for slot s (None: slot not present) and etag[s] the identity   *)
(* of the R2 object the slot was published with.                           *)
(***************************************************************************)
AssetRow ==
    [hash : BlobOrNone, backend : Backends, d1 : BlobOrNone,
     d1Hash : BlobOrNone, slot : Slots, r2 : [Slots -> BlobOrNone],
     etag : [Slots -> UploadOrNone]]

AbsentAsset ==
    [hash |-> None, backend |-> "d1", d1 |-> None, d1Hash |-> None,
     slot |-> "a", r2 |-> [s \in Slots |-> None],
     etag |-> [s \in Slots |-> None]]

InactiveR2Slot(s) == IF s = "a" THEN "b" ELSE "a"

\* Hysteresis between the two backends.
SelectStorageBackend(current, blob) ==
    IF current = "r2"
    THEN IF Size[blob] <= D1ReturnThreshold THEN "d1" ELSE "r2"
    ELSE IF Size[blob] < R2EnterThreshold THEN "d1" ELSE "r2"

SlotMatchesObject(row, s, blob) == row.r2[s] = blob

\* The slot that already stores blob, the published one first.
MatchingR2Slot(row, blob) ==
    IF row.backend = "r2" /\ SlotMatchesObject(row, row.slot, blob) THEN row.slot
    ELSE IF SlotMatchesObject(row, "a", blob) THEN "a"
    ELSE IF SlotMatchesObject(row, "b", blob) THEN "b"
    ELSE None

\* Faulty variants of TargetR2Slot: no fallback, and always the primary key.
TargetR2SlotMatchingOnly(row, blob) == MatchingR2Slot(row, blob)
TargetR2SlotPrimary(row, blob) ==
    IF MatchingR2Slot(row, blob) # None THEN MatchingR2Slot(row, blob) ELSE "a"

\* The slot an upload of blob is directed to.
TargetR2Slot(row, blob) ==
    IF MatchingR2Slot(row, blob) # None THEN MatchingR2Slot(row, blob)
    ELSE IF row.r2["a"] = None THEN "a"
    ELSE IF row.r2["b"] = None THEN "b"
    ELSE InactiveR2Slot(row.slot)

ReusableCopy(row, backend, blob) ==
    IF backend = "d1"
    THEN row.d1 # None /\ row.d1Hash = blob
    ELSE MatchingR2Slot(row, blob) # None

\* The D1 payload after an upsert: a reusing item has none of its own.
\* Faulty variant: the upsert lacks the "?14 IS NOT NULL" condition.
UpsertedD1Unconditional(row, i) == IF i.backend = "d1" THEN i.d1 ELSE row.d1
UpsertedD1(row, i) == IF i.backend = "d1" /\ i.d1 # None THEN i.d1 ELSE row.d1

(***************************************************************************)
(* The INSERT .. ON CONFLICT DO UPDATE of one committed item: i is the     *)
(* item and u the batch that completed its multipart upload.  An item      *)
(* without a multipart reuses a stored copy and leaves both slots alone.   *)
(***************************************************************************)
AssetUpsert(row, i, u) ==
    LET newR2 == i.backend = "r2" /\ i.mp # None
    IN  [hash |-> i.blob,
         backend |-> i.backend,
         d1 |-> UpsertedD1(row, i),
         d1Hash |-> IF i.backend = "d1" THEN i.blob ELSE row.d1Hash,
         slot |-> IF i.backend = "r2" THEN i.slot ELSE row.slot,
         r2 |-> IF newR2 THEN [row.r2 EXCEPT ![i.slot] = i.blob] ELSE row.r2,
         etag |-> IF newR2 THEN [row.etag EXCEPT ![i.slot] = u] ELSE row.etag]
=============================================================================
