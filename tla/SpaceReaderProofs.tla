------------------------- MODULE SpaceReaderProofs --------------------------
(***************************************************************************)
(* Downloads beside uploads, for every value of the constants: what a      *)
(* ticket and a download that has begun still know of the rows, and so of  *)
(* the objects (SpaceContentProofs), while revisions are published.        *)
(***************************************************************************)
EXTENDS SpaceReader, SpaceContentProofs

\* A ticket names a published revision, and as long as that is the revision
\* the asset is what it was.
TicketOK(t) == t.pc # "idle" =>
    /\ t.a \in Assets /\ t.hash # None
    /\ t.revision # None => batch[t.revision].state = "committed"
    /\ t.revision = space.revision => asset[t.a].hash = t.hash

\* The asset's row is the one the download has read.
SameRow(t, row) ==
    /\ row.hash = t.hash /\ row.backend = "r2" /\ row.slot = t.slot
    /\ row.r2[t.slot] = t.hash /\ row.etag[t.slot] = t.etag

\* A download counts epochs as its ticket counts revisions.  The row it has read
\* stays during its epoch, and the slot one epoch longer unless it is deleted.
FetchOK(t) == t.pc = "get" =>
    /\ t.epoch <= space.epoch
    /\ t.revision = space.revision <=> t.epoch = space.epoch
    /\ t.epoch = space.epoch => SameRow(t, asset[t.a])
    /\ t.epoch + 1 = space.epoch /\ ~DeletedOnce(t.a) =>
         asset[t.a].r2[t.slot] = t.hash /\ asset[t.a].etag[t.slot] = t.etag

AnswerOK(t) == t.answer = "body" => t.body = t.hash

TicketsInv ==
    \A r \in Readers : TicketOK(reader[r]) /\ FetchOK(reader[r]) /\ AnswerOK(reader[r])

ReaderIInv ==
    /\ ObjectsIInv
    /\ reader \in [Readers -> Reader]
    /\ TicketsInv

-----------------------------------------------------------------------------
(* The uploads' half of the induction. *)

\* The rows a reader looks at change only by publishing.
Stands == asset' = asset /\ space'.revision = space.revision /\ space'.epoch = space.epoch

\* A step publishes a revision, or leaves what readers look at.
LEMMA StandsOrPublishes ==
    ASSUME ObjectsIInv, [Next]_vars
    PROVE  Stands \/ \E u \in Uploads : CanFinalize(u) /\ FinalizeCommit(u)
<1>1. ContentStep
  BY ContentSteps DEF ObjectsIInv, LockIInv
<1>2. space \in SpaceRow
  BY DEF ObjectsIInv, LockIInv, TypeInv, StoreTypeOK
<1>3. CASE UNCHANGED <<space, batch, item, del, asset>>
  BY <1>3 DEF Stands
<1>4. ASSUME NEW w \in Workers,
             ReserveUpload(req[w].u, req[w].base, req[w].epoch, req[w].items,
                           req[w].plan.del, req[w].now)
      PROVE  Stands
  BY <1>2, <1>4 DEF ReserveUpload, Stands, SpaceRow
<1>5. ASSUME NEW w \in Workers, FinishCancel(req[w].t) PROVE Stands
  BY <1>2, <1>5 DEF FinishCancel, UnlockedSpace, Stands, SpaceRow
<1>6. ASSUME NEW u \in Uploads, NEW a \in Assets, PutMoves(u, a) \/ MarkDeleteItemDeleted(u, a)
      PROVE  Stands
  BY <1>6 DEF PutMoves, MarkDeleteItemDeleted, Stands
<1>7. ASSUME NEW u \in Uploads, BeginCommit(u) \/ BeginCancel(u) PROVE Stands
  BY <1>7 DEF BeginCommit, BeginCancel, Stands
<1> QED BY <1>1, <1>3, <1>4, <1>5, <1>6, <1>7 DEF ContentStep

\* Publishing over a row leaves the slot readers are served from, unless it
\* deletes the asset.
LEMMA PublishKeepsSlot ==
    ASSUME ObjectsIInv, NEW u \in Uploads, CanFinalize(u), FinalizeCommit(u),
           NEW a \in Assets, NEW s \in Slots,
           asset[a].hash # None, asset[a].backend = "r2", asset[a].slot = s,
           ~DeletedOnce(a)'
    PROVE  asset'[a].r2[s] = asset[a].r2[s] /\ asset'[a].etag[s] = asset[a].etag[s]
<1> DEFINE i == item[u][a]
           row == asset[a]
           newR2 == i.backend = "r2" /\ i.mp # None
<1>1. /\ row \in AssetRow /\ i \in ItemRow
      /\ row.r2 \in [Slots -> BlobOrNone] /\ row.etag \in [Slots -> UploadOrNone]
  BY DEF ObjectsIInv, LockIInv, TypeInv, StoreTypeOK, AssetRow, ItemRow
<1>2. /\ del[u][a] \in {"absent", "reserved"}
      /\ Apart(row, i)
  BY DEF ObjectsIInv, ContentInv, MutationsInv, MutationOK, CanFinalize, ActiveStates
<1>3. del[u][a] = "absent"
  <2>1. SUFFICES ASSUME del[u][a] = "reserved" PROVE FALSE
    BY <1>2
  <2>2. del \in [Uploads -> [Assets -> DeleteStates]]
    BY DEF ObjectsIInv, LockIInv, TypeInv, StoreTypeOK
  <2>3. del'[u][a] = "committed"
    BY <2>1, <2>2 DEF FinalizeCommit, MoveDeletes
  <2> QED BY <2>3 DEF DeletedOnce
<1>4. asset'[a] = IF i.state # "absent" THEN AssetUpsert(row, i, u) ELSE row
  BY <1>3 DEF FinalizeCommit, PublishedAssets
<1>5. i.state # "absent" /\ newR2 => i.slot # s
  BY <1>2 DEF Apart
<1> HIDE DEF newR2, i, row
<1>6. CASE i.state = "absent"
  BY <1>4, <1>6 DEF row
<1>7. CASE i.state # "absent"
  <2>1. /\ asset'[a].r2 = IF newR2 THEN [row.r2 EXCEPT ![i.slot] = i.blob] ELSE row.r2
        /\ asset'[a].etag = IF newR2 THEN [row.etag EXCEPT ![i.slot] = u] ELSE row.etag
    BY <1>4, <1>7 DEF AssetUpsert, newR2
  <2>2. asset'[a].r2[s] = row.r2[s] /\ asset'[a].etag[s] = row.etag[s]
    BY <1>1, <1>5, <1>7, <2>1
  <2> QED BY <2>2 DEF row
<1> QED BY <1>6, <1>7

\* What publishing does to the revision a ticket names and to its epoch.
LEMMA PublishMoves ==
    ASSUME ObjectsIInv, NEW u \in Uploads, CanFinalize(u), FinalizeCommit(u)
    PROVE  /\ batch[u].state = "committing"
           /\ space'.revision = u /\ space'.revision # space.revision
           /\ space'.epoch = space.epoch + 1
BY ModelAssumption
   DEF CanFinalize, FinalizeCommit, ObjectsIInv, LockIInv, RevisionInv, ActiveStates

\* A reader that does nothing keeps what it knows while uploads step.
LEMMA TicketKept ==
    ASSUME ObjectsIInv, [Next]_vars, NEW t \in Reader, TicketOK(t), FetchOK(t)
    PROVE  TicketOK(t)' /\ FetchOK(t)'
<1>1. t.pc \in {"idle", "ticket", "get"} /\ t.epoch \in Nat /\ t.slot \in Slots
      /\ t.revision \in UploadOrNone /\ space.epoch \in Nat
  BY DEF Reader, ObjectsIInv, LockIInv, TypeInv, StoreTypeOK, SpaceRow
<1>2. Progress /\ RowsStand
  BY LockIInvNext, RowsStandStill DEF ObjectsIInv
<1>3. SUFFICES ASSUME t.pc # "idle" PROVE TicketOK(t)' /\ FetchOK(t)'
  BY DEF TicketOK, FetchOK
<1>4. t.a \in Assets /\ t.hash # None
  BY <1>3 DEF TicketOK
<1>5. t.revision # None => batch[t.revision].state = "committed"
                           /\ batch'[t.revision].state = "committed"
  BY <1>1, <1>2, <1>3 DEF TicketOK, Progress, UploadOrNone
<1>6. DeletedOnce(t.a) => DeletedOnce(t.a)'
  BY <1>2, <1>4 DEF RowsStand
<1>7. CASE Stands
  <2>1. TicketOK(t)'
    BY <1>4, <1>5, <1>7, <1>3 DEF TicketOK, Stands
  <2>2. FetchOK(t)'
    BY <1>6, <1>7 DEF FetchOK, Stands, SameRow
  <2> QED BY <2>1, <2>2
<1>8. ASSUME NEW u \in Uploads, CanFinalize(u), FinalizeCommit(u)
      PROVE  TicketOK(t)' /\ FetchOK(t)'
  <2>1. /\ batch[u].state = "committing"
        /\ space'.revision = u /\ space'.revision # space.revision
        /\ space'.epoch = space.epoch + 1
    BY <1>8, PublishMoves
  <2>2. t.revision # space'.revision
    BY <1>5, <2>1, ModelAssumption
  <2>3. TicketOK(t)'
    BY <1>4, <1>5, <2>2 DEF TicketOK
  <2>4. ASSUME t.pc = "get" PROVE FetchOK(t)'
    <3>1. t.epoch <= space.epoch
      BY <2>4 DEF FetchOK
    <3>2. t.epoch <= space'.epoch /\ t.epoch # space'.epoch
      BY <1>1, <2>1, <3>1
    <3>3. ASSUME t.epoch + 1 = space'.epoch, ~DeletedOnce(t.a)'
          PROVE  asset'[t.a].r2[t.slot] = t.hash /\ asset'[t.a].etag[t.slot] = t.etag
      <4>1. t.epoch = space.epoch
        BY <1>1, <2>1, <3>3
      <4>2. SameRow(t, asset[t.a])
        BY <2>4, <4>1 DEF FetchOK
      <4>3. /\ asset'[t.a].r2[t.slot] = asset[t.a].r2[t.slot]
            /\ asset'[t.a].etag[t.slot] = asset[t.a].etag[t.slot]
        BY <1>1, <1>4, <1>8, <3>3, <4>2, PublishKeepsSlot DEF SameRow
      <4> QED BY <4>2, <4>3 DEF SameRow
    <3> QED BY <2>2, <3>2, <3>3 DEF FetchOK
  <2> QED BY <2>3, <2>4 DEF FetchOK
<1> QED BY <1>7, <1>8, StandsOrPublishes

-----------------------------------------------------------------------------
(* The readers' half. *)

\* The object behind a download is there for its epoch, and for the next one
\* until a commit begins.
LEMMA ObjectStays ==
    ASSUME ObjectsIInv, NEW t \in Reader, TicketOK(t), FetchOK(t), t.pc = "get",
           ~DeletedOnce(t.a),
           \/ space.epoch = t.epoch
           \/ /\ space.epoch = t.epoch + 1
              /\ \A u \in Uploads : batch[u].state # "committing"
    PROVE  TicketObject(t)
<1>1. t.a \in Assets /\ t.hash # None /\ t.slot \in Slots
  BY DEF TicketOK, Reader
<1>2. asset[t.a].r2[t.slot] = t.hash /\ asset[t.a].etag[t.slot] = t.etag
  BY DEF FetchOK, SameRow
<1>3. ASSUME NEW u \in Uploads, Overwrites(u, t.a, t.slot) PROVE FALSE
  <2>1. batch[u].state = "committing"
    BY <1>3 DEF Overwrites
  <2>2. SameRow(t, asset[t.a])
    BY <2>1 DEF FetchOK
  <2> QED BY <1>1, <1>3, <2>2 DEF SameRow, Overwrites, MultipartItems, ObjectsIInv, ContentInv,
             MutationsInv, MutationOK, Apart, ActiveStates
<1>4. object[t.a][t.slot] = [u |-> t.etag, blob |-> t.hash]
  BY <1>1, <1>2, <1>3 DEF ObjectsIInv, ObjectsInv, SlotsInv, SlotOK
<1> QED BY <1>1, <1>4 DEF TicketObject, NoObject

\* A reader that has no ticket yet.
LEMMA NoTicketOK == NoTicket \in Reader
BY DEF NoTicket, Reader, Answers, Slots, UploadOrNone, BlobOrNone

\* A query of the plan gives a ticket for what is published.
LEMMA PlanSpaceOK ==
    ASSUME ReaderIInv, NEW r \in Readers, NEW a \in Assets, PlanSpace(r, a)
    PROVE  /\ reader'[r] \in Reader
           /\ TicketOK(reader'[r]) /\ FetchOK(reader'[r]) /\ AnswerOK(reader'[r])
<1> DEFINE t == [NoTicket EXCEPT !.pc = "ticket", !.a = a, !.revision = space.revision,
                                 !.hash = asset[a].hash, !.expires = clock + TicketTtl]
<1>1. /\ space.revision \in UploadOrNone /\ asset[a].hash \in BlobOrNone /\ clock \in Nat
      /\ space.revision # None => batch[space.revision].state = "committed"
  BY DEF ReaderIInv, ObjectsIInv, LockIInv, TypeInv, StoreTypeOK, SpaceRow, AssetRow, RevisionInv
<1>2. t \in Reader
  <2>1. PICK v \in UploadOrNone, h \in BlobOrNone, n \in Nat :
          v = space.revision /\ h = asset[a].hash /\ n = clock + TicketTtl
    BY <1>1, ReaderAssumption
  <2>2. [NoTicket EXCEPT !.pc = "ticket", !.a = a, !.revision = v, !.hash = h,
                         !.expires = n] \in Reader
    BY NoTicketOK DEF Reader
  <2> QED BY <2>1, <2>2
<1>3. /\ t.pc = "ticket" /\ t.a = a /\ t.revision = space.revision /\ t.hash = asset[a].hash
      /\ t.answer = "none"
  BY DEF NoTicket
<1>4. reader'[r] = t /\ asset[a].hash # None
  BY DEF PlanSpace, Becomes, ReaderIInv, InSnapshot
<1> HIDE DEF t
<1> QED BY <1>1, <1>2, <1>3, <1>4 DEF TicketOK, FetchOK, AnswerOK

\* An answer leaves the ticket as it is.
LEMMA AnswerKeeps ==
    ASSUME ReaderIInv, NEW r \in Readers, reader[r].pc # "idle",
           NEW answer \in Answers, NEW body \in BlobOrNone, Answer(r, answer, body),
           answer = "body" => body = reader[r].hash
    PROVE  /\ reader'[r] \in Reader
           /\ TicketOK(reader'[r]) /\ FetchOK(reader'[r]) /\ AnswerOK(reader'[r])
<1> DEFINE t == [reader[r] EXCEPT !.pc = "ticket", !.epoch = 0, !.slot = "a",
                                  !.etag = None, !.answer = answer, !.body = body]
<1>1. reader[r] \in Reader /\ TicketOK(reader[r])
  BY DEF ReaderIInv, TicketsInv
<1>2. t \in Reader
  BY <1>1 DEF Reader, Slots, UploadOrNone
<1>3. /\ t.pc = "ticket" /\ t.a = reader[r].a /\ t.revision = reader[r].revision
      /\ t.hash = reader[r].hash /\ t.answer = answer /\ t.body = body
  BY <1>1 DEF Reader
<1>4. reader'[r] = t
  BY DEF Answer, Becomes, ReaderIInv
<1> HIDE DEF t
<1> QED BY <1>1, <1>2, <1>3, <1>4 DEF TicketOK, FetchOK, AnswerOK

\* A download that finds its ticket current and the payload in R2 has read the row.
LEMMA DownloadOK ==
    ASSUME ReaderIInv, NEW r \in Readers, Download(r)
    PROVE  /\ reader'[r] \in Reader
           /\ TicketOK(reader'[r]) /\ FetchOK(reader'[r]) /\ AnswerOK(reader'[r])
<1> DEFINE t == reader[r]
           row == asset[t.a]
           x == [t EXCEPT !.pc = "get", !.epoch = space.epoch, !.slot = row.slot,
                          !.etag = row.etag[row.slot], !.answer = "none", !.body = None]
<1>1. t \in Reader /\ TicketOK(t) /\ t.pc = "ticket"
  BY DEF ReaderIInv, TicketsInv, Download
<1>2. t.a \in Assets /\ t.hash # None
  BY <1>1 DEF TicketOK
<1>3. /\ row.slot \in Slots /\ row.d1 \in BlobOrNone
      /\ RowOK(row)
      /\ row.etag[row.slot] \in UploadOrNone /\ space.epoch \in Nat
  BY <1>2 DEF ReaderIInv, ObjectsIInv, LockIInv, TypeInv, StoreTypeOK, AssetRow, SpaceRow,
     ContentInv, RowsInv
<1> HIDE DEF t, row
<1>4. CASE \/ Answer(r, "expired", None) \/ Answer(r, "stale", None) \/ Answer(r, "error", None)
  BY <1>1, <1>4, AnswerKeeps DEF Answers, BlobOrNone, t
<1>5. CASE TicketCurrent(t) /\ row.backend = "d1"
           /\ Answer(r, IF row.d1 = None THEN "error" ELSE "body", row.d1)
  <2>1. row.d1 = t.hash
    BY <1>2, <1>3, <1>5 DEF RowOK, TicketCurrent, InSnapshot, row
  <2>2. Answer(r, "body", row.d1)
    BY <1>2, <1>5, <2>1
  <2> QED BY <1>1, <1>3, <2>1, <2>2, AnswerKeeps DEF Answers, t
<1>6. CASE /\ TicketCurrent(t) /\ row.backend = "r2" /\ ActiveSlotConsistent(row)
           /\ Becomes(r, x)
  <2>1. /\ t.revision = space.revision /\ row.hash = t.hash
        /\ row.r2[row.slot] = t.hash
    BY <1>6 DEF TicketCurrent, ActiveSlotConsistent, SlotMatchesObject, row
  <2>2. x \in Reader
    BY <1>1, <1>3 DEF Reader, Answers, BlobOrNone
  <2>3. /\ x.pc = "get" /\ x.a = t.a /\ x.revision = t.revision /\ x.hash = t.hash
        /\ x.epoch = space.epoch /\ x.slot = row.slot /\ x.etag = row.etag[row.slot]
        /\ x.answer = "none"
    BY <1>1 DEF Reader
  <2>4. reader'[r] = x
    BY <1>6 DEF Becomes, ReaderIInv
  <2> HIDE DEF x
  <2>5. TicketOK(x)
    BY <1>1, <2>3 DEF TicketOK
  <2>6. SameRow(x, asset[x.a])
    BY <1>6, <2>1, <2>3 DEF SameRow, row
  <2>7. FetchOK(x)
    BY <1>3, <2>1, <2>3, <2>6 DEF FetchOK
  <2> QED BY <2>2, <2>3, <2>4, <2>5, <2>7 DEF AnswerOK
<1> QED BY <1>4, <1>5, <1>6 DEF Download, t, row

\* The body that R2 returns is the one the ticket names.
LEMMA GetObjectOK ==
    ASSUME ReaderIInv, NEW r \in Readers, GetObject(r)
    PROVE  /\ reader'[r] \in Reader
           /\ TicketOK(reader'[r]) /\ FetchOK(reader'[r]) /\ AnswerOK(reader'[r])
<1> DEFINE t == reader[r]
<1>1. t \in Reader /\ t.pc = "get"
  BY DEF ReaderIInv, GetObject
<1>2. CASE TicketObject(t) /\ Answer(r, "body", object[t.a][t.slot].blob)
  <2>1. object[t.a][t.slot].blob = t.hash /\ t.hash \in BlobOrNone
    BY <1>1, <1>2 DEF TicketObject, Reader
  <2> QED BY <1>1, <1>2, <2>1, AnswerKeeps DEF Answers
<1>3. CASE Answer(r, "stale", None) \/ Answer(r, "unavailable", None)
  BY <1>1, <1>3, AnswerKeeps DEF Answers, BlobOrNone
<1> QED BY <1>2, <1>3 DEF GetObject

-----------------------------------------------------------------------------
(* The theorems *)

\* ReaderIInv holds initially,
LEMMA ReaderIInvInit == ReaderInit => ReaderIInv
<1> SUFFICES ASSUME ReaderInit PROVE ReaderIInv
  OBVIOUS
<1>1. ObjectsIInv
  BY LockIInvInit, GuardIInvInit, ContentInvInit, ObjectsInvInit DEF ObjectsIInv, ReaderInit
<1>2. NoTicket \in Reader
  BY NoTicketOK
<1>3. \A r \in Readers : reader[r] = NoTicket
  BY DEF ReaderInit
<1>4. NoTicket.pc = "idle" /\ NoTicket.answer = "none"
  BY DEF NoTicket
<1>5. TicketsInv
  BY <1>3, <1>4 DEF TicketsInv, TicketOK, FetchOK, AnswerOK
<1> QED BY <1>1, <1>2, <1>5 DEF ReaderIInv, ReaderInit

\* is kept by the uploads,
LEMMA UploadsKeepTickets ==
    ASSUME ReaderIInv, [Next]_vars, UNCHANGED reader
    PROVE  ReaderIInv'
<1>1. ObjectsIInv'
  BY LockIInvNext, GuardIInvNext, ContentInvNext, ObjectsInvNext DEF ObjectsIInv, ReaderIInv
<1>2. ASSUME NEW r \in Readers
      PROVE  (TicketOK(reader[r]) /\ FetchOK(reader[r]) /\ AnswerOK(reader[r]))'
  <2>1. PICK t \in Reader : t = reader[r]
    BY DEF ReaderIInv
  <2>2. TicketOK(t) /\ FetchOK(t) /\ AnswerOK(t)
    BY <2>1 DEF ReaderIInv, TicketsInv
  <2>3. TicketOK(t)' /\ FetchOK(t)'
    BY <2>2, TicketKept DEF ReaderIInv
  <2>4. reader'[r] = t
    BY <2>1
  <2> QED BY <2>2, <2>3, <2>4 DEF TicketOK, FetchOK, AnswerOK
<1> QED BY <1>1, <1>2 DEF ReaderIInv, TicketsInv

\* and by the readers,
LEMMA ReadersKeepTickets ==
    ASSUME ReaderIInv, NEW r \in Readers, Read(r)
    PROVE  ReaderIInv'
<1>1. UNCHANGED vars
  BY DEF Read, PlanSpace, Download, GetObject
<1>2. ObjectsIInv'
  BY <1>1, LockIInvNext, GuardIInvNext, ContentInvNext, ObjectsInvNext DEF ObjectsIInv, ReaderIInv
<1>3. \E x : reader' = [reader EXCEPT ![r] = x]
  BY DEF Read, PlanSpace, Download, GetObject, Answer, Becomes
<1>4. /\ reader'[r] \in Reader
      /\ TicketOK(reader'[r]) /\ FetchOK(reader'[r]) /\ AnswerOK(reader'[r])
  BY PlanSpaceOK, DownloadOK, GetObjectOK DEF Read
<1>5. \A v \in Readers \ {r} : reader'[v] = reader[v]
  BY <1>3 DEF ReaderIInv
<1>6. reader' \in [Readers -> Reader]
  BY <1>3, <1>4 DEF ReaderIInv
<1>7. ASSUME NEW v \in Readers
      PROVE  (TicketOK(reader[v]) /\ FetchOK(reader[v]) /\ AnswerOK(reader[v]))'
  <2>1. PICK t : t = reader'[v]
    OBVIOUS
  <2>2. TicketOK(t) /\ FetchOK(t) /\ AnswerOK(t)
    BY <1>4, <1>5, <2>1 DEF ReaderIInv, TicketsInv
  <2>3. UNCHANGED <<batch, space, asset, del>>
    BY <1>1 DEF vars, storeVars, d1Vars
  <2> QED BY <2>1, <2>2, <2>3 DEF TicketOK, FetchOK, AnswerOK, SameRow, DeletedOnce
<1> QED BY <1>2, <1>6, <1>7 DEF ReaderIInv, TicketsInv

\* and so always holds.
LEMMA ReaderIInvNext == ReaderIInv /\ [ReaderNext]_readerVars => ReaderIInv'
BY UploadsKeepTickets, ReadersKeepTickets DEF ReaderNext, readerVars

LEMMA ReaderInvariance == ReaderSpec => []ReaderIInv
BY ReaderIInvInit, ReaderIInvNext, PTL DEF ReaderSpec

(***************************************************************************)
(* Tickets, downloads and answers are well-typed beside every upload.      *)
(***************************************************************************)
THEOREM ReaderTypeCorrect == ReaderSpec => []ReaderTypeOK
<1>1. ReaderIInv => ReaderTypeOK
  BY DEF ReaderIInv, ObjectsIInv, LockIInv, ReaderTypeOK, TypeInv, TypeOK, CoherentRequest
<1> QED BY <1>1, ReaderInvariance, PTL

(***************************************************************************)
(* downloadBlob beside finalizeCommit: bytes are given out only under the  *)
(* hash their ticket announces.                                            *)
(***************************************************************************)
THEOREM DownloadCorrect == ReaderSpec => []DownloadMatchesTicket
<1>1. ReaderIInv => DownloadMatchesTicket
  BY DEF ReaderIInv, TicketsInv, AnswerOK, DownloadMatchesTicket
<1> QED BY <1>1, ReaderInvariance, PTL

(***************************************************************************)
(* The two slots of an asset: publishing the next revision leaves a        *)
(* download in progress its object.                                        *)
(***************************************************************************)
THEOREM SurvivesCorrect == ReaderSpec => []DownloadSurvivesPublish
<1>1. ReaderIInv => DownloadSurvivesPublish
  BY ObjectStays DEF ReaderIInv, TicketsInv, DownloadSurvivesPublish, DeletionPublished, DeletedOnce
<1> QED BY <1>1, ReaderInvariance, PTL

(***************************************************************************)
(* "stale" is answered for no other reason than a newer revision or a      *)
(* deletion.                                                               *)
(***************************************************************************)
THEOREM StaleCorrect == ReaderSpec => StaleOnlyAfterPublish
<1> DEFINE Right(r) ==
             reader[r].answer # "stale" /\ reader'[r].answer = "stale" =>
               space.revision # reader[r].revision \/ DeletionPublished(reader[r].a)
<1>1. ASSUME ReaderIInv, ReaderNext, NEW r \in Readers PROVE Right(r)
  <2> DEFINE t == reader[r]
  <2>1. SUFFICES ASSUME t.answer # "stale", reader'[r].answer = "stale",
                        space.revision = t.revision, ~DeletionPublished(t.a)
                 PROVE  FALSE
    OBVIOUS
  <2>2. t \in Reader /\ TicketOK(t) /\ FetchOK(t)
    BY <1>1 DEF ReaderIInv, TicketsInv
  <2>3. PICK v \in Readers : Read(v)
    BY <1>1, <2>1 DEF ReaderNext
  <2>4. v = r
    BY <1>1, <2>1, <2>3 DEF Read, PlanSpace, Download, GetObject, Answer, Becomes, ReaderIInv
  <2>5. ASSUME NEW answer, NEW body, Answer(r, answer, body) PROVE answer = "stale"
    BY <1>1, <2>1, <2>2, <2>5 DEF Answer, Becomes, ReaderIInv, Reader
  <2>6. ASSUME NEW a \in Assets, PlanSpace(r, a) PROVE FALSE
    BY <1>1, <2>1, <2>6 DEF PlanSpace, Becomes, NoTicket, ReaderIInv
  <2>7. ASSUME Download(r) PROVE FALSE
    <3>1. TicketCurrent(t)
      BY <2>1, <2>2, <2>7 DEF Download, TicketOK, TicketCurrent, InSnapshot
    <3>2. PICK answer \in {"expired", "error", "body"} : \E body : Answer(r, answer, body)
      BY <1>1, <2>1, <2>2, <2>7, <3>1 DEF Download, Becomes, ReaderIInv, Reader
    <3> QED BY <2>5, <3>2
  <2>8. ASSUME GetObject(r) PROVE FALSE
    <3>1. TicketObject(t)
      BY <1>1, <2>1, <2>2, <2>8, ObjectStays
         DEF GetObject, FetchOK, DeletionPublished, DeletedOnce, ReaderIInv
    <3> QED BY <2>5, <2>8, <3>1 DEF GetObject
  <2> QED BY <2>3, <2>4, <2>6, <2>7, <2>8 DEF Read
<1>2. ReaderIInv /\ [ReaderNext]_readerVars =>
        [\A r \in Readers : Right(r)]_readerVars
  BY <1>1
<1> QED BY <1>2, ReaderInvariance, PTL DEF ReaderSpec, StaleOnlyAfterPublish
=============================================================================
