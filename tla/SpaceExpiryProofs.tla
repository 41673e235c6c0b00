-------------------------- MODULE SpaceExpiryProofs -------------------------
(***************************************************************************)
(* The removal of an expired space beside uploads and recoveries, for      *)
(* every value of the constants: it excludes recovery, loses track of no   *)
(* object, and leaves nothing behind.                                      *)
(***************************************************************************)
EXTENDS SpaceExpiry, SpaceContentProofs

\* A slow invocation may outlive its lease, or an id may be created again
\* after its space is gone, but not both.
NoLateCleaner == MaxSpaces > 1 => MaxRun < CleanupLease

Running(c) == cleaner[c].pc # "idle"

\* Removal runs only on a space that is no longer active, and where the id
\* may come back, only the invocation that has the lease is running.
CleanersInv ==
    /\ life.state # "absent" => created >= 1
    /\ \A c \in Cleaners : Running(c) =>
         /\ life.state # "active" /\ created >= 1
         /\ clock <= cleaner[c].now + MaxRun
         /\ MaxSpaces > 1 =>
              /\ life.state = "deleting" /\ life.lease = cleaner[c].lease
              /\ cleaner[c].lease = cleaner[c].now + CleanupLease
              /\ \A d \in Cleaners : Running(d) => d = c

\* No recovery is in progress once removal may run.
ExclusionInv == life.state # "active" => guard = {}

\* Items and deletions are removed before their batch.
ChildrenInv ==
    \A u \in Uploads : batch[u].state = "absent" =>
      \A a \in Assets : item[u][a].state = "absent" /\ del[u][a] = "absent"

\* The row of the item it was written for names every object.
NamedInv ==
    \A a \in Assets, s \in Slots : object[a][s] # NoObject =>
      \E u \in Uploads : item[u][a].state # "absent" /\ item[u][a].slot = s

NoMutations == \A u \in Uploads, a \in Assets : item[u][a].state = "absent" /\ del[u][a] = "absent"

NoRows ==
    /\ NoMutations
    /\ \A a \in Assets : asset[a].hash = None
    /\ \A u \in Uploads : batch[u].state = "absent"

GoneInv == life.state = "absent" => NoRows /\ space.pending = None

\* What an invocation has listed is still what it was, or gone.
ListingOK(k) == k.pc \in {"abort", "objects", "rows"} =>
    /\ k.phase = "items" =>
         \A u \in Uploads, a \in Assets : <<u, a>> \in k.rows /\ item[u][a].state # "absent" =>
           <<a, item[u][a].slot>> \in k.keys /\ ~IsLive(<<u, a>>, k.now)
    /\ k.phase = "batches" => NoMutations /\ k.rows \subseteq Uploads
    /\ k.pc = "rows" => \A a \in Assets, s \in Slots : <<a, s>> \in k.keys => object[a][s] = NoObject

ListingInv == \A c \in Cleaners : ListingOK(cleaner[c])

ExpiryTypeInv ==
    /\ TypeInv
    /\ life \in Life
    /\ created \in 0 .. MaxSpaces
    /\ gone \subseteq Uploads
    /\ cleaner \in [Cleaners -> Cleaner]

ExpiryIInv ==
    /\ ExpiryTypeInv
    /\ GuardInv /\ HeldInv
    /\ CleanersInv /\ ExclusionInv
    /\ ChildrenInv /\ NamedInv /\ GoneInv /\ ListingInv

\* A space being removed has no worker inside the guarded calls.
LEMMA NoneHeld ==
    ASSUME ExpiryIInv, life.state # "active", NEW w \in Workers
    PROVE  ~req[w].held /\ req[w].pc \notin GuardedPcs
BY DEF ExpiryIInv, ExclusionInv, GuardInv, HeldInv, HeldOK

-----------------------------------------------------------------------------
(* What a step of the upload path may do to the rows of the space. *)

\* Items stay, and objects appear only where an item is.
Keeping ==
    /\ \A u \in Uploads, a \in Assets : item[u][a].state # "absent" =>
         item'[u][a].state # "absent" /\ item'[u][a].slot = item[u][a].slot
    /\ ChildrenInv'
    /\ \A a \in Assets, s \in Slots :
         \/ object'[a][s] \in {object[a][s], NoObject}
         \/ \E u \in Uploads : item[u][a].state # "absent" /\ item[u][a].slot = s

\* In a space that is not active nothing is added or claimed either.
Settling ==
    /\ \A u \in Uploads : batch[u].state = "absent" => batch'[u].state = "absent"
    /\ \A u \in Uploads, a \in Assets :
         /\ item[u][a].state = "absent" => item'[u][a].state = "absent"
         /\ item'[u][a].state = "uploading" =>
              item[u][a].state = "uploading" /\ item'[u][a].lease = item[u][a].lease
         /\ del[u][a] = "absent" => del'[u][a] = "absent"
    /\ asset' = asset
    /\ space'.pending \in {space.pending, None}
    /\ \A a \in Assets, s \in Slots : object'[a][s] \in {object[a][s], NoObject}

\* A step that changes no row and no object keeps and settles everything.
LEMMA SameRows ==
    ASSUME ChildrenInv, UNCHANGED storeVars
    PROVE  Keeping /\ Settling
BY DEF ChildrenInv, Keeping, Settling, storeVars, d1Vars, r2Vars

\* Every step of SpaceService keeps items and objects together.
LEMMA ServiceKeeps ==
    ASSUME TypeInv, ChildrenInv, NEW w \in Workers,
           Arrive(w) \/ Advance(w) \/ D1Fails(w) \/ Crash(w)
    PROVE  Keeping
<1>b. batch \in [Uploads -> BatchRow]
  BY DEF TypeInv, StoreTypeOK
<1>d. del \in [Uploads -> [Assets -> DeleteStates]]
  BY DEF TypeInv, StoreTypeOK
<1>i. item \in [Uploads -> [Assets -> ItemRow]]
  BY DEF TypeInv, StoreTypeOK
<1>o. object \in [Assets -> [Slots -> ObjectRow]]
  BY DEF TypeInv, StoreTypeOK
<1> DEFINE ItemsStay ==
             \A u \in Uploads, a \in Assets : item[u][a].state # "absent" =>
               item'[u][a].state # "absent" /\ item'[u][a].slot = item[u][a].slot
<1>1. ContentStep
  BY ContentSteps DEF Next
<1>2. ItemsStay /\ ChildrenInv'
  <2>1. CASE UNCHANGED <<space, batch, item, del, asset>>
    BY <2>1 DEF ChildrenInv
  <2>2. ASSUME NEW v \in Workers, At(v, "reserve"), CanReserve(req[v].u, req[v].base),
               ReserveUpload(req[v].u, req[v].base, req[v].epoch, req[v].items,
                             req[v].plan.del, req[v].now)
        PROVE  ItemsStay /\ ChildrenInv'
    <3>1. PICK u \in Uploads : u = req[v].u
      BY <2>2 DEF TypeInv, CoherentRequest, Coherent, At, PreparePcs
    <3>2. /\ batch[u].state = "absent" /\ batch'[u].state = "prepared"
          /\ \A x \in Uploads \ {u} :
               item'[x] = item[x] /\ del'[x] = del[x] /\ batch'[x] = batch[x]
      BY <1>b, <1>d, <1>i, <2>2, <3>1 DEF CanReserve, ReserveUpload
    <3> QED BY <3>2 DEF ChildrenInv
  <2>3. ASSUME NEW v \in Workers, At(v, "finishCancel"), FinishCancel(req[v].t)
        PROVE  ItemsStay /\ ChildrenInv'
    <3>1. PICK u \in Uploads : u = req[v].t
      BY <2>3 DEF TypeInv, CoherentRequest, Coherent, At, BatchPcs
    <3>2. \A x \in Uploads : batch'[x].state = "absent" => batch[x].state = "absent"
      BY <1>b, <2>3, <3>1, BatchStateChange DEF FinishCancel
    <3>3. \A x \in Uploads \ {u} : item'[x] = item[x] /\ del'[x] = del[x]
      BY <1>d, <1>i, <2>3, <3>1 DEF FinishCancel
    <3>4. \A a \in Assets : \/ item'[u][a] = item[u][a]
                            \/ /\ item[u][a].state # "absent"
                               /\ item'[u][a] = Closed(item[u][a], "cancelled")
      BY <1>i, <2>3, <3>1 DEF FinishCancel
    <3>5. \A a \in Assets : /\ item[u][a].slot = Closed(item[u][a], "cancelled").slot
                            /\ Closed(item[u][a], "cancelled").state = "cancelled"
      BY <1>i DEF Closed, ItemRow
    <3>6. \A a \in Assets : del[u][a] = "absent" => del'[u][a] = "absent"
      BY <1>d, <2>3, <3>1 DEF FinishCancel, MoveDeletes
    <3>7. ItemsStay
      BY <3>3, <3>4, <3>5
    <3> QED BY <3>2, <3>3, <3>4, <3>6, <3>7 DEF ChildrenInv
  <2>4. ASSUME NEW u \in Uploads, NEW a \in Assets, PutMoves(u, a)
        PROVE  ItemsStay /\ ChildrenInv'
    <3>1. PICK j \in ItemRow : ItemMoves(item[u][a], j) /\ item' = [item EXCEPT ![u][a] = j]
      BY <2>4 DEF PutMoves
    <3>2. /\ item'[u][a] = j
          /\ \A x \in Uploads, b \in Assets : <<x, b>> # <<u, a>> => item'[x][b] = item[x][b]
      BY <1>i, <3>1
    <3>3. batch' = batch /\ del' = del
      BY <2>4 DEF PutMoves
    <3> QED BY <3>1, <3>2, <3>3 DEF ItemMoves, ChildrenInv
  <2>5. ASSUME NEW u \in Uploads, NEW a \in Assets, MarkDeleteItemDeleted(u, a)
        PROVE  ItemsStay /\ ChildrenInv'
    <3>1. batch' = batch /\ item' = item
      BY <2>5 DEF MarkDeleteItemDeleted
    <3>2. \A x \in Uploads, b \in Assets : del[x][b] = "absent" => del'[x][b] = "absent"
      BY <1>d, <2>5 DEF MarkDeleteItemDeleted
    <3> QED BY <3>1, <3>2 DEF ChildrenInv
  <2>6. ASSUME NEW u \in Uploads, batch[u].state = "prepared", BeginCommit(u)
        PROVE  ItemsStay /\ ChildrenInv'
    <3>1. /\ \A x \in Uploads \ {u} :
               item'[x] = item[x] /\ del'[x] = del[x] /\ batch'[x] = batch[x]
          /\ batch'[u].state = "committing"
      BY <1>b, <1>d, <1>i, <2>6, BatchStateChange DEF BeginCommit
    <3>2. \A a \in Assets : item[u][a].state # "absent" =>
            item'[u][a].state # "absent" /\ item'[u][a].slot = item[u][a].slot
      BY <1>i, <2>6 DEF BeginCommit, MoveItems, ItemRow
    <3> QED BY <3>1, <3>2 DEF ChildrenInv
  <2>7. ASSUME NEW u \in Uploads, batch[u].state = "prepared", BeginCancel(u)
        PROVE  ItemsStay /\ ChildrenInv'
    <3>1. item' = item /\ del' = del
      BY <2>7 DEF BeginCancel
    <3>2. \A x \in Uploads : batch'[x].state = "absent" => batch[x].state = "absent"
      BY <1>b, <2>7 DEF BeginCancel
    <3> QED BY <3>1, <3>2 DEF ChildrenInv
  <2>8. ASSUME NEW u \in Uploads, CanFinalize(u), FinalizeCommit(u)
        PROVE  ItemsStay /\ ChildrenInv'
    <3>1. /\ \A x \in Uploads \ {u} :
               item'[x] = item[x] /\ del'[x] = del[x] /\ batch'[x] = batch[x]
          /\ batch'[u].state = "committed"
      BY <1>b, <1>d, <1>i, <2>8, BatchStateChange DEF FinalizeCommit
    <3>2. \A a \in Assets : \/ item'[u][a] = item[u][a]
                            \/ item'[u][a] = Closed(item[u][a], "committed")
      BY <1>i, <2>8 DEF FinalizeCommit
    <3>3. \A a \in Assets : /\ item[u][a].slot = Closed(item[u][a], "committed").slot
                            /\ Closed(item[u][a], "committed").state = "committed"
      BY <1>i DEF Closed, ItemRow
    <3> QED BY <3>1, <3>2, <3>3 DEF ChildrenInv
  <2> HIDE DEF ItemsStay
  <2> QED BY <1>1, <2>1, <2>2, <2>3, <2>4, <2>5, <2>6, <2>7, <2>8 DEF ContentStep
<1>3. ASSUME NEW a \in Assets, NEW s \in Slots
      PROVE  \/ object'[a][s] \in {object[a][s], NoObject}
             \/ \E u \in Uploads : item[u][a].state # "absent" /\ item[u][a].slot = s
  <2>1. ASSUME NEW b \in Assets, DeleteObjects(b) PROVE object'[a][s] \in {object[a][s], NoObject}
    BY <1>o, <2>1 DEF DeleteObjects
  <2>2. req[w].todo \subseteq Assets
    BY DEF TypeInv, CoherentRequest, Request
  <2>3. CASE Completes(w)
    <3>1. req[w].t \in Uploads
      BY <2>3 DEF Completes, TypeInv, CoherentRequest, Coherent, BatchPcs
    <3> QED BY <2>2, <2>3, <3>1 DEF Completes, Puts
  <2>4. CASE Enters(w)
    BY <2>4 DEF Enters, AcquireRecoverGuard, r2Vars
  <2> QED BY <2>1, <2>2, <2>3, <2>4, WorkSteps DEF WorkStep, Lists, Cleans
<1> QED BY <1>2, <1>3 DEF Keeping

\* The calls that do not ask for an active space only take away.
LEMMA ServiceSettles ==
    ASSUME TypeInv, ChildrenInv, NEW w \in Workers, req[w].pc \notin GuardedPcs,
           \/ req[w].pc \notin SpaceGuarded /\ (Advance(w) \/ D1Fails(w))
           \/ Crash(w)
    PROVE  Settling
<1>b. batch \in [Uploads -> BatchRow]
  BY DEF TypeInv, StoreTypeOK
<1>d. del \in [Uploads -> [Assets -> DeleteStates]]
  BY DEF TypeInv, StoreTypeOK
<1>i. item \in [Uploads -> [Assets -> ItemRow]]
  BY DEF TypeInv, StoreTypeOK
<1>o. object \in [Assets -> [Slots -> ObjectRow]]
  BY DEF TypeInv, StoreTypeOK
<1>s. space \in SpaceRow
  BY DEF TypeInv, StoreTypeOK
<1>1. CASE UNCHANGED storeVars
  BY <1>1, SameRows
\* One item changes, which is not claimed by it.
<1>2. ASSUME NEW u \in Uploads, NEW a \in Assets, NEW j \in ItemRow,
             item' = [item EXCEPT ![u][a] = j], UNCHANGED <<space, batch, del, asset, r2Vars>>,
             item[u][a].state # "absent",
             j.state = "uploading" =>
               item[u][a].state = "uploading" /\ j.lease = item[u][a].lease
      PROVE  Settling
  <2>1. /\ item'[u][a] = j
        /\ \A x \in Uploads, b \in Assets : <<x, b>> # <<u, a>> => item'[x][b] = item[x][b]
    BY <1>i, <1>2
  <2>2. object' = object
    BY <1>2 DEF r2Vars
  <2> QED BY <1>2, <2>1, <2>2 DEF Settling
<1>p. req[w].pc \in PutPcs => req[w].u \in Uploads /\ req[w].a \in Assets
  BY DEF TypeInv, CoherentRequest, Coherent
<1>t. req[w].pc \in BatchPcs => req[w].t \in Uploads
  BY DEF TypeInv, CoherentRequest, Coherent
<1>3. ASSUME NEW a \in Assets, DeleteObjects(a) PROVE Settling
  <2>1. UNCHANGED <<space, batch, item, del, asset>>
    BY <1>3 DEF DeleteObjects, d1Vars
  <2>2. \A b \in Assets, s \in Slots : object'[b][s] \in {object[b][s], NoObject}
    BY <1>3, <1>o DEF DeleteObjects
  <2> QED BY <2>1, <2>2 DEF Settling
<1>4. CASE \/ Create(w) \/ UploadPartTo(w) \/ AbortMultiparts(w)
  <2>1. UNCHANGED <<space, batch, item, del, asset, object>>
    BY <1>4 DEF Create, CreateMultipart, UploadPartTo, UploadPart, AbortMultiparts,
       AbortMultipartUploads, storeVars, d1Vars, r2Vars
  <2> QED BY <2>1 DEF Settling
<1>5. CASE SetMultipart(w) \/ MarkReady(w) \/ Release(w)
  <2>1. PICK u \in Uploads, a \in Assets : u = req[w].u /\ a = req[w].a
    BY <1>5, <1>p DEF PutPcs, SetMultipart, MarkReady, Release, At
  <2> DEFINE i == item[u][a]
  <2>2. i \in ItemRow
    BY <1>i
  <2>3. CASE SetMultipart(w)
    <3> DEFINE j == [i EXCEPT !.mp = req[w].mp]
    <3>1. req[w].mp \in Multiparts \cup {None}
      BY DEF TypeInv, CoherentRequest, Request
    <3>2. j \in ItemRow /\ j.state = i.state /\ j.lease = i.lease
      BY <2>2, <3>1 DEF ItemRow
    <3>3. /\ UNCHANGED <<space, batch, del, asset, r2Vars>>
          /\ \/ item' = item
             \/ i.state = "uploading" /\ item' = [item EXCEPT ![u][a] = j]
      BY <2>1, <2>3 DEF SetMultipart, SetMultipartId
    <3> HIDE DEF j
    <3> QED BY <1>2, <3>2, <3>3 DEF Settling, r2Vars
  <2>4. CASE MarkReady(w) /\ ~UNCHANGED storeVars
    <3>1. Uploaded(i) \in ItemRow /\ Uploaded(i).state = "ready"
      BY <2>2, ItemRowUpdates DEF Uploaded, ItemRow
    <3>2. /\ UNCHANGED <<space, batch, del, asset, r2Vars>>
          /\ i.state = "uploading" /\ item' = [item EXCEPT ![u][a] = Uploaded(i)]
      BY <2>1, <2>4 DEF MarkReady, MarkItemReady, CanMarkReady
    <3> QED BY <1>2, <3>1, <3>2
  <2>5. CASE Release(w)
    <3>1. IssuedAgain(i) \in ItemRow /\ IssuedAgain(i).state = "issued"
      BY <2>2, ItemRowUpdates DEF IssuedAgain, ItemRow
    <3>2. /\ UNCHANGED <<space, batch, del, asset, r2Vars>>
          /\ \/ item' = item
             \/ i.state = "uploading" /\ item' = [item EXCEPT ![u][a] = IssuedAgain(i)]
      BY <2>1, <2>5 DEF Release, ReleaseItem
    <3> QED BY <1>2, <3>1, <3>2 DEF Settling, r2Vars
  <2> QED BY <1>1, <1>5, <2>3, <2>4, <2>5
<1>6. CASE \E a \in Assets : DeleteAssetObjects(w, a)
  BY <1>3, <1>6 DEF DeleteAssetObjects
<1>7. CASE MarkDeleted(w)
  <2>1. UNCHANGED <<space, batch, item, asset, object>>
    BY <1>7 DEF MarkDeleted, MarkDeleteItemDeleted, r2Vars
  <2>2. \A u \in Uploads, a \in Assets : del[u][a] = "absent" => del'[u][a] = "absent"
    BY <1>7, <1>d DEF MarkDeleted, MarkDeleteItemDeleted
  <2> QED BY <2>1, <2>2 DEF Settling
<1>8. CASE BeginCancelStep(w) \/ BeginForceAbortStep(w)
  <2>1. PICK t \in Uploads : t = req[w].t
    BY <1>8, <1>t DEF BatchPcs, BeginCancelStep, BeginForceAbortStep, At
  <2>2. SUFFICES ASSUME ~UNCHANGED storeVars PROVE Settling
    BY <1>1
  <2>3. batch[t].state = "prepared" /\ BeginCancel(t)
    BY <1>8, <2>1, <2>2 DEF BeginCancelStep, BeginForceAbortStep, CancelStep, CanBeginCancel,
       CanForceAbort
  <2>4. \A x \in Uploads : batch[x].state = "absent" => batch'[x].state = "absent"
    BY <1>b, <2>3 DEF BeginCancel
  <2> QED BY <2>3, <2>4 DEF BeginCancel, r2Vars, Settling
<1>9. CASE FinishCancelStep(w)
  <2>1. PICK t \in Uploads : t = req[w].t
    BY <1>9, <1>t DEF BatchPcs, FinishCancelStep, At
  <2>2. FinishCancel(t)
    BY <1>9, <2>1 DEF FinishCancelStep
  <2>3. /\ asset' = asset /\ object' = object
        /\ space' = UnlockedSpace(t)
        /\ \A u \in Uploads \ {t} : item'[u] = item[u] /\ del'[u] = del[u]
    BY <1>d, <1>i, <2>2 DEF FinishCancel, r2Vars
  <2>4. space'.pending \in {space.pending, None}
    BY <1>s, <2>3 DEF UnlockedSpace, SpaceRow
  <2>5. \A x \in Uploads : batch[x].state = "absent" => batch'[x].state = "absent"
    BY <1>b, <2>2 DEF FinishCancel
  <2>6. \A a \in Assets : \/ item'[t][a] = item[t][a]
                          \/ /\ item[t][a].state # "absent"
                             /\ item'[t][a] = Closed(item[t][a], "cancelled")
    BY <1>i, <2>2 DEF FinishCancel
  <2>7. \A a \in Assets : Closed(item[t][a], "cancelled").state = "cancelled"
    BY <1>i DEF Closed, ItemRow
  <2>8. \A a \in Assets : del[t][a] = "absent" => del'[t][a] = "absent"
    BY <1>d, <2>2 DEF FinishCancel, MoveDeletes
  <2> QED BY <2>3, <2>4, <2>5, <2>6, <2>7, <2>8 DEF Settling
<1>10. CASE ReleaseGuard(w)
  BY <1>10 DEF ReleaseGuard, At, GuardedPcs
<1>11. CASE Crash(w) \/ D1Fails(w)
  BY <1>1, <1>11 DEF Crash, D1Fails, LocalStep
<1>12. CASE RereadBatch(w) \/ DeleteFails(w) \/ \E a \in Assets : ReadAsset(w, a)
  BY <1>1, <1>12 DEF RereadBatch, DeleteFails, ReadAsset, LocalStep
<1>13. ASSUME ~Crash(w) PROVE req[w].pc \notin SpaceGuarded \cup GuardedPcs
  BY <1>13
<1>14. CASE /\ ~Crash(w)
            /\ \/ ReadPending(w) \/ ReadSpace(w) \/ Reserve(w) \/ Claim(w) \/ BeginCommitStep(w)
               \/ AcquireGuard(w) \/ Finalize(w)
               \/ \E a \in Assets : Complete(w, a) \/ CompleteFails(w, a)
  BY <1>13, <1>14 DEF ReadPending, ReadSpace, Reserve, Claim, BeginCommitStep, AcquireGuard,
     Finalize, Complete, CompleteFails, At, SpaceGuarded, GuardedPcs
<1> QED BY <1>4, <1>5, <1>6, <1>7, <1>8, <1>9, <1>10, <1>11, <1>12, <1>14 DEF Advance

\* Nor do they acquire a recover guard.
LEMMA GuardStays ==
    ASSUME NEW w \in Workers, Advance(w) \/ D1Fails(w),
           req[w].pc \notin SpaceGuarded \cup GuardedPcs
    PROVE  guard' = guard
<1>1. CASE \/ Create(w) \/ UploadPartTo(w) \/ AbortMultiparts(w)
           \/ \E a \in Assets : DeleteAssetObjects(w, a)
  BY <1>1 DEF Create, CreateMultipart, UploadPartTo, UploadPart, AbortMultiparts,
     AbortMultipartUploads, DeleteAssetObjects, DeleteObjects, d1Vars, storeVars
<1>2. CASE SetMultipart(w) \/ MarkReady(w) \/ Release(w) \/ MarkDeleted(w)
  BY <1>2 DEF SetMultipart, SetMultipartId, MarkReady, MarkItemReady, Release, ReleaseItem,
     MarkDeleted, MarkDeleteItemDeleted, storeVars, d1Vars
<1>3. CASE BeginCancelStep(w) \/ BeginForceAbortStep(w) \/ FinishCancelStep(w)
  BY <1>3 DEF BeginCancelStep, BeginForceAbortStep, CancelStep, BeginCancel, FinishCancelStep,
     FinishCancel, storeVars, d1Vars
<1>4. CASE \/ RereadBatch(w) \/ DeleteFails(w) \/ D1Fails(w)
           \/ \E a \in Assets : ReadAsset(w, a)
  BY <1>4 DEF RereadBatch, DeleteFails, D1Fails, ReadAsset, LocalStep, storeVars, d1Vars
<1>5. CASE \/ ReadPending(w) \/ ReadSpace(w) \/ Reserve(w) \/ Claim(w) \/ BeginCommitStep(w)
           \/ AcquireGuard(w) \/ Finalize(w) \/ ReleaseGuard(w)
           \/ \E a \in Assets : Complete(w, a) \/ CompleteFails(w, a)
  BY <1>5 DEF ReadPending, ReadSpace, Reserve, Claim, BeginCommitStep, AcquireGuard,
     Finalize, Complete, CompleteFails, ReleaseGuard, At, SpaceGuarded, GuardedPcs
<1> QED BY <1>1, <1>2, <1>3, <1>4, <1>5 DEF Advance

-----------------------------------------------------------------------------
(* A step of a worker in a space that may expire. *)

WorkerStep(w) ==
    SpaceRequest(w) \/ RecoveryCron(w) \/ Refused(w) \/ Step(w) \/ WorkerCrash(w)

\* What the removal of the space needs to know of it.
Minding(w) ==
    /\ TypeInv'
    /\ GuardStep(w)
    /\ clock' = clock
    /\ UNCHANGED expiryVars
    /\ Keeping
    /\ life.state # "active" => Settling /\ guard' = guard

\* Time stands still in every handler.
LEMMA ClockStays ==
    ASSUME NEW w \in Workers, Arrive(w) \/ Advance(w) \/ D1Fails(w) \/ Crash(w)
    PROVE  clock' = clock
<1>1. CASE Arrive(w)
  <2>1. ASSUME NEW u \in Uploads, NEW base \in KnownRevisions, NEW plan \in Plans,
               StartPrepare(w, u, base, plan) \/ RetryPrepare(w, u, base, plan)
        PROVE  clock' = clock
    BY <2>1 DEF StartPrepare, RetryPrepare, Start, LocalStep
  <2>2. ASSUME NEW u \in Uploads, NEW a \in Assets, StartPut(w, u, a) PROVE clock' = clock
    BY <2>2 DEF StartPut, Start
  <2>3. ASSUME NEW u \in Uploads, StartCommit(w, u) \/ StartCancel(w, u) PROVE clock' = clock
    BY <2>3 DEF StartCommit, StartCancel, Start
  <2>4. CASE StartAbort(w)
    BY <2>4 DEF StartAbort, Start
  <2>5. CASE StartCron(w)
    BY <2>5 DEF StartCron, Start
  <2> QED BY <1>1, <2>1, <2>2, <2>3, <2>4, <2>5 DEF Arrive
<1>2. CASE Advance(w)
  <2>1. CASE \/ ReadPending(w) \/ ReadSpace(w) \/ Reserve(w) \/ Claim(w) \/ Create(w)
             \/ \E a \in Assets : ReadAsset(w, a) \/ Complete(w, a)
    BY <2>1 DEF ReadPending, ReadSpace, Reserve, Claim, Create, ReadAsset, Complete,
       StoreStep, LocalStep
  <2>2. CASE \/ SetMultipart(w) \/ UploadPartTo(w) \/ MarkReady(w) \/ Release(w)
             \/ BeginCommitStep(w) \/ RereadBatch(w) \/ AcquireGuard(w) \/ Finalize(w)
    BY <2>2 DEF SetMultipart, UploadPartTo, MarkReady, Release, BeginCommitStep, RereadBatch,
       AcquireGuard, Finalize, StoreStep, LocalStep
  <2>3. CASE \/ \E a \in Assets : CompleteFails(w, a) \/ DeleteAssetObjects(w, a)
             \/ DeleteFails(w) \/ MarkDeleted(w) \/ ReleaseGuard(w)
    BY <2>3 DEF CompleteFails, DeleteAssetObjects, DeleteFails, MarkDeleted, ReleaseGuard,
       StoreStep, LocalStep
  <2>4. CASE \/ BeginCancelStep(w) \/ BeginForceAbortStep(w)
             \/ AbortMultiparts(w) \/ FinishCancelStep(w)
    BY <2>4 DEF BeginCancelStep, BeginForceAbortStep, AbortMultiparts, FinishCancelStep,
       StoreStep, LocalStep
  <2> QED BY <1>2, <2>1, <2>2, <2>3, <2>4 DEF Advance
<1>3. CASE D1Fails(w) \/ Crash(w)
  BY <1>3 DEF D1Fails, Crash, LocalStep
<1> QED BY <1>1, <1>2, <1>3

\* Apart from the cron and from refusals a worker does what it does in SpaceService.
LEMMA ServiceStep ==
    ASSUME NEW w \in Workers, SpaceRequest(w) \/ Step(w) \/ WorkerCrash(w)
    PROVE  /\ Arrive(w) \/ Advance(w) \/ D1Fails(w) \/ Crash(w)
           /\ clock' = clock
           /\ UNCHANGED expiryVars
<1>1. BatchIds \subseteq Uploads
  BY DEF BatchIds, Unused
<1>2. CASE SpaceRequest(w)
  BY <1>1, <1>2, ClockStays DEF SpaceRequest, Arrive
<1>3. CASE Step(w) \/ WorkerCrash(w)
  BY <1>3, ClockStays DEF Step, WorkerCrash
<1> QED BY <1>2, <1>3

\* The steps of SpaceService, where the space allows them.
LEMMA ServiceMinds ==
    ASSUME ExpiryIInv, NEW w \in Workers, SpaceRequest(w) \/ Step(w) \/ WorkerCrash(w)
    PROVE  Minding(w)
<1>0. TypeInv /\ HeldInv /\ ChildrenInv
  BY DEF ExpiryIInv, ExpiryTypeInv
<1>1. Arrive(w) \/ Advance(w) \/ D1Fails(w) \/ Crash(w)
  BY ServiceStep
<1>2. TypeInv'
  BY <1>0, <1>1, TypeInvNext DEF Next
<1>3. GuardStep(w) /\ Keeping
  BY <1>0, <1>1, GuardSteps, ServiceKeeps
<1>4. clock' = clock /\ UNCHANGED expiryVars
  BY ServiceStep
<1>5. ASSUME life.state # "active" PROVE Settling /\ guard' = guard
  <2>1. req[w].pc \notin GuardedPcs
    BY <1>5, NoneHeld
  <2>2. CASE Step(w)
    BY <1>0, <1>5, <2>1, <2>2, ServiceSettles, GuardStays DEF Step, Available
  <2>3. CASE WorkerCrash(w)
    <3>1. Settling
      BY <1>0, <2>1, <2>3, ServiceSettles DEF WorkerCrash
    <3> QED BY <2>3, <3>1 DEF WorkerCrash, Crash, storeVars, d1Vars
  <2> QED BY <1>5, <2>2, <2>3 DEF SpaceRequest, Available
<1> QED BY <1>2, <1>3, <1>4, <1>5 DEF Minding

\* A step that moves only the record of worker w, and takes no guard.
OffRecord(w) ==
    /\ TypeInv'
    /\ GuardStep(w)
    /\ UNCHANGED <<storeVars, clock, crashes, expiryVars>>

\* The cron finds a batch to recover, or deletions to carry out.
LEMMA RecoveryCronStep ==
    ASSUME TypeInv, HeldInv, NEW w \in Workers, RecoveryCron(w)
    PROVE  OffRecord(w)
<1>1. PICK u \in Uploads : Continue(w, RecoverBatch(New("cron", "idle", u, u)))
  BY DEF RecoveryCron, Start
<1>2. UNCHANGED <<storeVars, clock, crashes, expiryVars>>
  BY DEF RecoveryCron, Start
<1> DEFINE y == New("cron", "idle", u, u)
<1>3. y \in CoherentRequest /\ y.t \in Uploads /\ ~y.held
  BY NewCoherent, NewFields, NewNotHeld DEF Ops, GuardedPcs
<1>r. y \in Request
  BY <1>3 DEF CoherentRequest
<1> HIDE DEF y
<1>4. RecoverBatch(y) \in CoherentRequest /\ ~RecoverBatch(y).held /\ HeldOK(RecoverBatch(y))
  BY <1>3, <1>r, RecoverBatchCoherent, RecoverBatchKeeps DEF Keeps
<1>5. Continue(w, RecoverBatch(y))
  BY <1>1 DEF y
<1>6. TypeInv'
  BY <1>2, <1>4, <1>5, ContinueCoherent, StoreUnchangedType DEF TypeInv
<1>7. UNCHANGED guard
  BY <1>2 DEF storeVars, d1Vars
<1>8. GuardStep(w)
  BY <1>4, <1>5, <1>7, NotHeldStep
<1> QED BY <1>2, <1>6, <1>8 DEF OffRecord

\* A refused statement ends the request, or its recovery.
LEMMA RefusedStep ==
    ASSUME TypeInv, HeldInv, NEW w \in Workers, Refused(w)
    PROVE  OffRecord(w)
<1>r. req[w] \in CoherentRequest /\ req[w] \in Request
  BY DEF TypeInv, CoherentRequest
<1>2. UNCHANGED <<storeVars, clock, crashes, expiryVars>>
  BY DEF Refused
<1>7. UNCHANGED guard
  BY <1>2 DEF storeVars, d1Vars
<1>3. CASE At(w, "finalize") /\ FailRecovery(w)
  <2> DEFINE x == [req[w] EXCEPT !.pc = "releaseGuard", !.failed = TRUE, !.todo = {}]
  <2>1. /\ x \in Request /\ x.op = req[w].op /\ x.u = req[w].u /\ x.t = req[w].t
        /\ x.a = req[w].a /\ x.pc \in BatchPcs \ {"markDeleted"} /\ req[w].pc \in BatchPcs
    BY <1>r, <1>3 DEF CoherentRequest, Request, Pcs, BatchPcs, At
  <2>2. Continue(w, x)
    BY <1>3 DEF FailRecovery
  <2> HIDE DEF x
  <2>3. x \in CoherentRequest
    BY <1>r, <2>1, SameHandlerCoherent
  <2>4. TypeInv'
    BY <1>2, <2>2, <2>3, ContinueCoherent, StoreUnchangedType DEF TypeInv
  <2>5. GuardStep(w)
    BY <1>3, <1>7, FailRecoveryGuardStep DEF At, GuardedPcs
  <2> QED BY <1>2, <2>4, <2>5 DEF OffRecord
<1>4. ASSUME NEW x, x \in {AfterRecover(req[w]), Idle}, Continue(w, x)
      PROVE  OffRecord(w)
  <2>1. x \in CoherentRequest /\ ~x.held /\ HeldOK(x)
    <3>1. CASE x = AfterRecover(req[w])
      BY <1>r, <3>1, AfterRecoverCoherent, AfterRecoverReleases
    <3>2. Idle \in CoherentRequest /\ ~Idle.held /\ HeldOK(Idle)
      BY IdleCoherent DEF Idle, HeldOK, GuardedPcs
    <3> QED BY <1>4, <3>1, <3>2
  <2>2. TypeInv'
    BY <1>2, <1>4, <2>1, ContinueCoherent, StoreUnchangedType DEF TypeInv
  <2>3. GuardStep(w)
    BY <1>4, <1>7, <2>1, NotHeldStep
  <2> QED BY <1>2, <2>2, <2>3 DEF OffRecord
<1>5. \/ At(w, "finalize") /\ FailRecovery(w)
      \/ Continue(w, AfterRecover(req[w])) \/ Continue(w, Idle)
  BY DEF Refused, Finish
<1> QED BY <1>3, <1>4, <1>5

\* Neither touches a row, so neither can disturb the removal.
LEMMA OffRecordMinds ==
    ASSUME ExpiryIInv, NEW w \in Workers, RecoveryCron(w) \/ Refused(w)
    PROVE  Minding(w)
<1>0. TypeInv /\ HeldInv /\ ChildrenInv
  BY DEF ExpiryIInv, ExpiryTypeInv
<1>1. OffRecord(w)
  BY <1>0, RecoveryCronStep, RefusedStep
<1>2. Keeping /\ Settling
  BY <1>0, <1>1, SameRows DEF OffRecord
<1> QED BY <1>1, <1>2 DEF OffRecord, Minding, storeVars, d1Vars

\* So every step of a worker minds it.
LEMMA WorkersMind ==
    ASSUME ExpiryIInv, NEW w \in Workers, WorkerStep(w)
    PROVE  Minding(w)
BY ServiceMinds, OffRecordMinds DEF WorkerStep

\* A worker's step preserves the invariant.
LEMMA WorkerKeepsIInv ==
    ASSUME ExpiryIInv, NEW w \in Workers, WorkerStep(w)
    PROVE  ExpiryIInv'
<1> USE DEF ExpiryIInv
<1>0. Minding(w)
  BY WorkersMind
<1>1. ExpiryTypeInv'
  BY <1>0 DEF Minding, ExpiryTypeInv, expiryVars
<1>2. \A v \in Workers \ {w} : req'[v] = req[v]
  BY <1>0 DEF Minding, GuardStep
<1>3. GuardInv' /\ HeldInv'
  BY <1>0, GuardStepKeeps DEF Minding
<1>5. life' = life /\ created' = created /\ cleaner' = cleaner /\ clock' = clock
  BY <1>0 DEF Minding, expiryVars
<1>6. CleanersInv'
  BY <1>5 DEF CleanersInv, Running
<1>7. ExclusionInv'
  BY <1>0, <1>5 DEF Minding, ExclusionInv
<1>8. ChildrenInv'
  BY <1>0 DEF Minding, Keeping
<1>9. NamedInv'
  BY <1>0 DEF Minding, Keeping, NamedInv
<1>10. ASSUME life.state # "active", NoMutations PROVE NoMutations'
  BY <1>0, <1>10 DEF Minding, Settling, NoMutations
<1>11. GoneInv'
  <2> SUFFICES ASSUME life.state = "absent" PROVE NoRows' /\ space'.pending = None
    BY <1>5 DEF GoneInv
  <2>1. NoRows /\ space.pending = None
    BY DEF GoneInv
  <2>2. NoMutations'
    BY <1>10, <2>1 DEF NoRows
  <2> QED BY <1>0, <2>1, <2>2 DEF Minding, Settling, NoRows
<1>12. ListingInv'
  <2> SUFFICES ASSUME NEW c \in Cleaners, cleaner[c].pc \in {"abort", "objects", "rows"}
               PROVE  ListingOK(cleaner[c])'
    BY <1>5 DEF ListingInv, ListingOK
  <2>1. ListingOK(cleaner[c]) /\ life.state # "active"
    BY DEF ListingInv, CleanersInv, Running
  <2>2. Keeping /\ Settling
    BY <1>0, <2>1 DEF Minding
  <2>3. NoMutations => NoMutations'
    BY <1>10, <2>1
  <2>4. ASSUME cleaner[c].phase = "items", NEW u \in Uploads, NEW a \in Assets,
               <<u, a>> \in cleaner[c].rows, item'[u][a].state # "absent"
        PROVE  <<a, item'[u][a].slot>> \in cleaner[c].keys /\ ~IsLive(<<u, a>>, cleaner[c].now)'
    <3>1. item[u][a].state # "absent" /\ item'[u][a].slot = item[u][a].slot
      BY <2>2, <2>4 DEF Keeping, Settling
    <3>2. <<a, item[u][a].slot>> \in cleaner[c].keys /\ ~IsLive(<<u, a>>, cleaner[c].now)
      BY <2>1, <2>4, <3>1 DEF ListingOK
    <3>3. item'[u][a].state = "uploading" =>
            item[u][a].state = "uploading" /\ item'[u][a].lease = item[u][a].lease
      BY <2>2 DEF Settling
    <3> QED BY <1>5, <3>1, <3>2, <3>3 DEF IsLive
  <2>5. \A a \in Assets, s \in Slots : object[a][s] = NoObject => object'[a][s] = NoObject
    BY <2>2 DEF Settling
  <2> QED BY <1>5, <2>1, <2>3, <2>4, <2>5 DEF ListingOK
<1> QED BY <1>1, <1>3, <1>6, <1>7, <1>8, <1>9, <1>11, <1>12

-----------------------------------------------------------------------------
(* Time, and a new space. *)

\* Time passes only while every invocation still has some of its own.
LEMMA PassKeepsIInv ==
    ASSUME ExpiryIInv, Pass
    PROVE  ExpiryIInv'
<1> USE DEF ExpiryIInv
<1>1. /\ clock' = clock + 1
      /\ UNCHANGED <<storeVars, crashes, req, expiryVars>>
  BY DEF Pass, Tick
<1>2. TypeInv' /\ ExpiryTypeInv'
  BY <1>1, StoreUnchangedType DEF ExpiryTypeInv, TypeInv, expiryVars
<1>3. /\ UNCHANGED <<space, batch, item, del, asset, guard, object>>
      /\ UNCHANGED <<life, created, cleaner, req>>
  BY <1>1 DEF storeVars, d1Vars, r2Vars, expiryVars
<1>4. \A c \in Cleaners : Running(c) => clock' <= cleaner[c].now + MaxRun
  <2> SUFFICES ASSUME NEW c \in Cleaners, Running(c) PROVE clock' <= cleaner[c].now + MaxRun
    OBVIOUS
  <2>1. clock < cleaner[c].now + MaxRun
    BY DEF Pass, Running
  <2>2. clock \in Nat /\ cleaner[c].now \in Nat /\ MaxRun \in Nat
    BY ExpiryAssumption DEF ExpiryTypeInv, TypeInv, Cleaner
  <2> QED BY <1>1, <2>1, <2>2
<1>5. CleanersInv'
  BY <1>3, <1>4 DEF CleanersInv, Running
<1>6. GuardInv' /\ HeldInv' /\ ExclusionInv' /\ ChildrenInv' /\ NamedInv' /\ GoneInv'
  BY <1>3 DEF GuardInv, HeldInv, HeldOK, ExclusionInv, ChildrenInv, NamedInv, GoneInv, NoRows,
     NoMutations
<1>7. ListingInv'
  BY <1>3 DEF ListingInv, ListingOK, NoMutations, IsLive
<1> QED BY <1>2, <1>5, <1>6, <1>7

\* No removal runs when the id is created.
LEMMA CreateKeepsIInv ==
    ASSUME ExpiryIInv, CreateSpace
    PROVE  ExpiryIInv'
<1> USE DEF ExpiryIInv
<1>1. UNCHANGED <<storeVars, clock, crashes, req, gone, cleaner>>
  BY DEF CreateSpace, vars
<1>2. life.state = "absent" /\ created < MaxSpaces /\ created' = created + 1
  BY DEF CreateSpace
<1>3. created \in Nat /\ MaxSpaces \in Nat /\ SpaceTtl \in Nat /\ clock \in Nat
  BY ExpiryAssumption DEF ExpiryTypeInv, TypeInv
<1>4. \A c \in Cleaners : ~Running(c)
  BY <1>2, <1>3 DEF CleanersInv
<1>5. /\ life' \in Life /\ life'.state = "active"
      /\ created' \in 0 .. MaxSpaces /\ created' >= 1
  BY <1>2, <1>3 DEF CreateSpace, Life, ExpiryTypeInv
<1>6. ExpiryTypeInv'
  BY <1>1, <1>5, StoreUnchangedType DEF ExpiryTypeInv, TypeInv
<1>7. CleanersInv' /\ ListingInv'
  BY <1>1, <1>4, <1>5 DEF CleanersInv, ListingInv, ListingOK, Running
<1>8. UNCHANGED <<batch, item, del, guard, object, req>>
  BY <1>1 DEF storeVars, d1Vars, r2Vars
<1> QED BY <1>5, <1>6, <1>7, <1>8
        DEF GuardInv, HeldInv, HeldOK, ExclusionInv, ChildrenInv, NamedInv, GoneInv

-----------------------------------------------------------------------------
(* The steps of a cleaner. *)

CleanerPcs == {"idle", "list", "abort", "objects", "rows", "finish", "release"}

\* The record of the invocation that moves, and those of the others.
LEMMA BecomesTyped ==
    ASSUME ExpiryTypeInv, NEW c \in Cleaners, NEW k \in Cleaner, Becomes(c, k)
    PROVE  /\ cleaner' \in [Cleaners -> Cleaner]
           /\ cleaner'[c] = k
           /\ \A d \in Cleaners \ {c} : cleaner'[d] = cleaner[d]
BY DEF ExpiryTypeInv, Becomes

\* Moving on changes the program counter only.
LEMMA MovesTyped ==
    ASSUME ExpiryTypeInv, NEW c \in Cleaners, NEW pc \in CleanerPcs, Moves(c, pc)
    PROVE  /\ cleaner' \in [Cleaners -> Cleaner]
           /\ cleaner'[c].pc = pc
           /\ cleaner'[c].now = cleaner[c].now /\ cleaner'[c].lease = cleaner[c].lease
           /\ cleaner'[c].phase = cleaner[c].phase
           /\ cleaner'[c].rows = cleaner[c].rows /\ cleaner'[c].keys = cleaner[c].keys
           /\ \A d \in Cleaners \ {c} : cleaner'[d] = cleaner[d]
<1> DEFINE k == [cleaner[c] EXCEPT !.pc = pc]
<1>1. cleaner[c] \in Cleaner
  BY DEF ExpiryTypeInv
<1>2. /\ k \in Cleaner /\ k.pc = pc /\ k.now = cleaner[c].now /\ k.lease = cleaner[c].lease
      /\ k.phase = cleaner[c].phase /\ k.rows = cleaner[c].rows /\ k.keys = cleaner[c].keys
  BY <1>1 DEF Cleaner, CleanerPcs
<1>3. Becomes(c, k)
  BY DEF Moves
<1> HIDE DEF k
<1> QED BY <1>2, <1>3, BecomesTyped

\* Only invocation c goes on.
Others(c) == \A d \in Cleaners \ {c} : cleaner'[d] = cleaner[d]

\* An invocation that goes on or stops, its space as it was.
LEMMA CleanersStay ==
    ASSUME CleanersInv, NEW c \in Cleaners, Running(c), UNCHANGED <<life, created, clock>>,
           Others(c),
           \/ cleaner'[c].pc = "idle"
           \/ cleaner'[c].now = cleaner[c].now /\ cleaner'[c].lease = cleaner[c].lease
    PROVE  CleanersInv'
BY DEF CleanersInv, Running, Others

\* A step that leaves the rows and the objects alone.
LEMMA RowsKept ==
    ASSUME ExpiryIInv, NEW c \in Cleaners, Others(c),
           UNCHANGED <<d1Vars, object, req, clock>>,
           life'.state = "active" => life.state = "active",
           life'.state = "absent" => life.state = "absent",
           guard = {} \/ life' = life,
           ExpiryTypeInv', CleanersInv', ListingOK(cleaner[c])'
    PROVE  ExpiryIInv'
<1> USE DEF ExpiryIInv
<1>1. UNCHANGED <<space, batch, item, del, asset, guard>>
  BY DEF d1Vars
<1>2. ASSUME NEW d \in Cleaners \ {c} PROVE ListingOK(cleaner[d])'
  BY <1>1, <1>2 DEF Others, ListingInv, ListingOK, NoMutations, IsLive
<1>3. ListingInv'
  BY <1>2 DEF ListingInv
<1>4. GuardInv' /\ HeldInv' /\ ChildrenInv' /\ NamedInv'
  BY <1>1 DEF GuardInv, HeldInv, HeldOK, ChildrenInv, NamedInv
<1>5. ExclusionInv' /\ GoneInv'
  BY <1>1 DEF ExclusionInv, GoneInv, NoRows, NoMutations
<1> QED BY <1>3, <1>4, <1>5

\* A claim excludes the invocation that may be running where the id returns.
LEMMA ClaimKeepsIInv ==
    ASSUME NoLateCleaner, ExpiryIInv, NEW c \in Cleaners, ClaimExpired(c)
    PROVE  ExpiryIInv'
<1> USE DEF ExpiryIInv
<1> DEFINE k == [NoCleaner EXCEPT !.pc = "list", !.now = clock, !.lease = clock + CleanupLease]
<1>n. clock \in Nat /\ CleanupLease \in Nat /\ MaxRun \in Nat /\ life \in Life
  BY ExpiryAssumption DEF ExpiryTypeInv, TypeInv
<1>0. ExpiryTypeInv
  OBVIOUS
<1>1. /\ k \in Cleaner /\ k.pc = "list"
      /\ k.now = clock /\ k.lease = clock + CleanupLease
  <2>1. NoCleaner \in Cleaner /\ clock + CleanupLease \in Nat
    BY <1>n DEF NoCleaner, Cleaner, Phases
  <2> QED BY <1>n, <2>1 DEF Cleaner
<1>2. Becomes(c, k) /\ UNCHANGED <<vars, created, gone>>
  BY DEF ClaimExpired
<1> HIDE DEF k
<1>3. cleaner' \in [Cleaners -> Cleaner] /\ cleaner'[c] = k /\ Others(c)
  BY <1>0, <1>1, <1>2, BecomesTyped DEF Others
<1>4. /\ life' \in Life /\ life'.state = "deleting" /\ life'.lease = k.lease
      /\ life.state # "absent" /\ guard = {}
      /\ life.state = "deleting" => life.lease <= clock
  <2>1. life' = [life EXCEPT !.state = "deleting", !.lease = clock + CleanupLease]
    BY DEF ClaimExpired
  <2>2. life' \in Life /\ life'.state = "deleting" /\ life'.lease = clock + CleanupLease
    <3>1. PICK lease \in Nat : lease = clock + CleanupLease
      BY <1>n
    <3>2. life' = [life EXCEPT !.state = "deleting", !.lease = lease]
      BY <2>1, <3>1
    <3> QED BY <1>n, <3>1, <3>2 DEF Life
  <2>3. /\ life.state # "absent" /\ guard = {}
        /\ life.state = "deleting" => life.lease <= clock
    BY DEF ClaimExpired, Claimable
  <2> QED BY <1>1, <2>2, <2>3
<1>5. UNCHANGED <<d1Vars, object, req, clock, storeVars, crashes>>
  BY <1>2 DEF vars, storeVars, r2Vars
<1>6. ExpiryTypeInv'
  BY <1>2, <1>3, <1>4, <1>5, StoreUnchangedType DEF ExpiryTypeInv, TypeInv
<1>7. ASSUME MaxSpaces > 1, NEW d \in Cleaners, Running(d) PROVE FALSE
  <2>1. /\ life.state = "deleting" /\ life.lease = cleaner[d].now + CleanupLease
        /\ clock <= cleaner[d].now + MaxRun
    BY <1>7 DEF CleanersInv
  <2>2. cleaner[d].now \in Nat
    BY DEF ExpiryTypeInv, Cleaner
  <2> QED BY <1>7, <1>n, <1>4, <2>1, <2>2 DEF NoLateCleaner
<1>8. created >= 1 /\ created' = created
  BY <1>2, <1>4 DEF CleanersInv
<1>9. clock' <= k.now + MaxRun
  BY <1>n, <1>1, <1>5
<1>10. CleanersInv'
  BY <1>1, <1>3, <1>4, <1>5, <1>7, <1>8, <1>9 DEF CleanersInv, Running, Others
<1>11. ListingOK(cleaner[c])'
  BY <1>1, <1>3 DEF ListingOK
<1> QED BY <1>3, <1>4, <1>5, <1>6, <1>10, <1>11, RowsKept

\* The listed rows are the current ones, none of them an upload in progress.
LEMMA ListKeepsIInv ==
    ASSUME ExpiryIInv, NEW c \in Cleaners, ListRows(c)
    PROVE  ExpiryIInv'
<1> USE DEF ExpiryIInv
<1>0. ExpiryTypeInv /\ Running(c) /\ cleaner[c] \in Cleaner
  BY DEF ListRows, InPhase, Running, ExpiryTypeInv
<1>1. UNCHANGED <<vars, life, created, gone>>
  BY DEF ListRows
<1>2. UNCHANGED <<d1Vars, object, req, clock, storeVars, crashes>>
  BY <1>1 DEF vars, storeVars, r2Vars
<1>3. ASSUME cleaner' \in [Cleaners -> Cleaner], Others(c), ListingOK(cleaner[c])',
             cleaner'[c].now = cleaner[c].now, cleaner'[c].lease = cleaner[c].lease
      PROVE  ExpiryIInv'
  <2>1. ExpiryTypeInv'
    BY <1>1, <1>2, <1>3, StoreUnchangedType DEF ExpiryTypeInv, TypeInv
  <2>2. CleanersInv'
    BY <1>0, <1>1, <1>2, <1>3, CleanersStay
  <2> QED BY <1>1, <1>2, <1>3, <2>1, <2>2, RowsKept
<1>4. ASSUME NEW pc \in {"finish", "release"}, Moves(c, pc) PROVE ExpiryIInv'
  <2>1. pc \in CleanerPcs
    BY DEF CleanerPcs
  <2>2. /\ cleaner' \in [Cleaners -> Cleaner] /\ Others(c) /\ cleaner'[c].pc = pc
        /\ cleaner'[c].now = cleaner[c].now /\ cleaner'[c].lease = cleaner[c].lease
    BY <1>0, <1>4, <2>1, MovesTyped DEF Others
  <2> QED BY <1>3, <2>2 DEF ListingOK
<1>5. PICK rows \in Listed(CurrentPhase) :
        \/ \E pc \in {"finish", "release"} : Moves(c, pc)
        \/ /\ ~(CurrentPhase = "items" /\ \E r \in rows : IsLive(r, cleaner[c].now))
           /\ Becomes(c, [cleaner[c] EXCEPT
                !.phase = CurrentPhase, !.rows = rows, !.keys = KeysOf(CurrentPhase, rows),
                !.mps = IF CurrentPhase = "items"
                        THEN {item[r[1]][r[2]].mp : r \in rows} \ {None} ELSE {},
                !.pc = CASE CurrentPhase = "items" -> "abort"
                         [] CurrentPhase = "batches" -> "rows" [] OTHER -> "objects"])
  BY DEF ListRows
<1> DEFINE phase == CurrentPhase
           keys == KeysOf(phase, rows)
           mps == IF phase = "items" THEN {item[r[1]][r[2]].mp : r \in rows} \ {None} ELSE {}
           pc == CASE phase = "items" -> "abort" [] phase = "batches" -> "rows"
                   [] OTHER -> "objects"
           k == [cleaner[c] EXCEPT !.phase = phase, !.rows = rows, !.keys = keys,
                                   !.mps = mps, !.pc = pc]
<1>6. phase \in Phases /\ pc \in {"abort", "rows", "objects"} /\ (pc = "rows" => phase = "batches")
  BY DEF CurrentPhase, Phases
<1>7. /\ phase = "items" => rows \subseteq ItemRows
      /\ phase = "dels" => rows \subseteq DeleteRows
      /\ phase = "assets" => rows \subseteq AssetRows
      /\ phase = "batches" => rows \subseteq BatchRows /\ ItemRows = {} /\ DeleteRows = {}
  BY <1>5 DEF Listed, CurrentPhase
<1>i. item \in [Uploads -> [Assets -> ItemRow]]
  BY DEF ExpiryTypeInv, TypeInv, StoreTypeOK
<1>8. rows \in SUBSET Rows
  BY <1>6, <1>7 DEF Phases, ItemRows, DeleteRows, AssetRows, BatchRows, Rows
<1>9. keys \in SUBSET (Assets \X Slots)
  <2>1. CASE phase = "items"
    <3>1. \A r \in rows : r[2] \in Assets /\ item[r[1]][r[2]].slot \in Slots
      BY <1>7, <1>i, <2>1 DEF ItemRows, ItemRow
    <3>2. keys = {<<r[2], item[r[1]][r[2]].slot>> : r \in rows}
      BY <2>1 DEF KeysOf
    <3> QED BY <3>1, <3>2
  <2>2. CASE phase = "dels"
    <3>1. \A r \in rows : r[2] \in Assets
      BY <1>7, <2>2 DEF DeleteRows
    <3>2. keys = {r[2] : r \in rows} \X Slots
      BY <2>2 DEF KeysOf
    <3> QED BY <3>1, <3>2
  <2>3. CASE phase = "assets"
    <3>1. rows \subseteq Assets
      BY <1>7, <2>3 DEF AssetRows
    <3>2. keys = rows \X Slots
      BY <2>3 DEF KeysOf
    <3> QED BY <3>1, <3>2
  <2>4. CASE phase = "batches"
    BY <2>4 DEF KeysOf
  <2> QED BY <1>6, <2>1, <2>2, <2>3, <2>4 DEF Phases
<1>10. mps \in SUBSET Multiparts
  <2>1. CASE phase = "items"
    <3>1. \A r \in rows : item[r[1]][r[2]].mp \in Multiparts \cup {None}
      BY <1>7, <1>i, <2>1 DEF ItemRows, ItemRow
    <3> QED BY <2>1, <3>1
  <2> QED BY <2>1
<1>11. phase = "items" =>
         \A u \in Uploads, a \in Assets : <<u, a>> \in rows => <<a, item[u][a].slot>> \in keys
  <2> SUFFICES ASSUME phase = "items", NEW u \in Uploads, NEW a \in Assets, <<u, a>> \in rows
               PROVE  <<a, item[u][a].slot>> \in keys
    OBVIOUS
  <2>1. keys = {<<r[2], item[r[1]][r[2]].slot>> : r \in rows}
    BY DEF KeysOf
  <2>2. <<a, item[u][a].slot>> = <<(<<u, a>>)[2], item[(<<u, a>>)[1]][(<<u, a>>)[2]].slot>>
    OBVIOUS
  <2> QED BY <2>1, <2>2
<1>12. phase = "batches" => keys = {} /\ NoMutations /\ rows \subseteq Uploads
  <2> SUFFICES ASSUME phase = "batches" PROVE keys = {} /\ NoMutations /\ rows \subseteq Uploads
    OBVIOUS
  <2>1. ItemRows = {} /\ DeleteRows = {}
    BY <1>7
  <2>2. ASSUME NEW u \in Uploads, NEW a \in Assets
        PROVE  item[u][a].state = "absent" /\ del[u][a] = "absent"
    <3>1. <<u, a>> \in Uploads \X Assets /\ (<<u, a>>)[1] = u /\ (<<u, a>>)[2] = a
      OBVIOUS
    <3> QED BY <2>1, <3>1 DEF ItemRows, DeleteRows
  <2> QED BY <1>7, <2>2 DEF KeysOf, NoMutations, BatchRows
<1> HIDE DEF phase, keys, mps, pc
<1>13. ASSUME Becomes(c, k), ~(phase = "items" /\ \E r \in rows : IsLive(r, cleaner[c].now))
       PROVE  ExpiryIInv'
  <2>1. /\ k \in Cleaner /\ k.phase = phase /\ k.rows = rows /\ k.keys = keys /\ k.pc = pc
        /\ k.now = cleaner[c].now /\ k.lease = cleaner[c].lease
    BY <1>0, <1>6, <1>8, <1>9, <1>10 DEF Cleaner
  <2> HIDE DEF k
  <2>2. cleaner' \in [Cleaners -> Cleaner] /\ cleaner'[c] = k /\ Others(c)
    BY <1>0, <1>13, <2>1, BecomesTyped DEF Others
  <2>3. \A r \in rows : phase = "items" => ~IsLive(r, cleaner[c].now)
    BY <1>13
  <2>4. UNCHANGED <<item, del, object>>
    BY <1>2 DEF d1Vars
  <2>5. ListingOK(cleaner[c])'
    BY <1>6, <1>11, <1>12, <2>1, <2>2, <2>3, <2>4 DEF ListingOK, IsLive, NoMutations
  <2> QED BY <1>3, <2>1, <2>2, <2>5
<1> QED BY <1>4, <1>5, <1>13 DEF k, phase, keys, mps, pc

\* Multipart uploads carry no invariant of the removal.
LEMMA AbortKeepsIInv ==
    ASSUME ExpiryIInv, NEW c \in Cleaners, AbortListed(c)
    PROVE  ExpiryIInv'
<1> USE DEF ExpiryIInv
<1>0. ExpiryTypeInv /\ Running(c) /\ "objects" \in CleanerPcs /\ cleaner[c].pc = "abort"
  BY DEF AbortListed, InPhase, Running, ExpiryTypeInv, CleanerPcs
<1>1. UNCHANGED <<d1Vars, object, clock, crashes, req, life, created, gone>>
  BY DEF AbortListed, AbortMultipartUploads
<1>2. StoreTypeOK'
  BY AbortMultipartUploadsType DEF AbortListed, ExpiryTypeInv, TypeInv
<1>3. /\ cleaner' \in [Cleaners -> Cleaner] /\ Others(c) /\ cleaner'[c].pc = "objects"
      /\ cleaner'[c].now = cleaner[c].now /\ cleaner'[c].lease = cleaner[c].lease
      /\ cleaner'[c].phase = cleaner[c].phase /\ cleaner'[c].rows = cleaner[c].rows
      /\ cleaner'[c].keys = cleaner[c].keys
  BY <1>0, MovesTyped DEF Others, AbortListed
<1>4. ExpiryTypeInv'
  BY <1>1, <1>2, <1>3 DEF ExpiryTypeInv, TypeInv
<1>5. CleanersInv'
  BY <1>0, <1>1, <1>3, CleanersStay
<1>6. UNCHANGED <<item, del, object>>
  BY <1>1 DEF d1Vars
<1>7. ListingOK(cleaner[c])'
  BY <1>0, <1>3, <1>6 DEF ListingInv, ListingOK, IsLive, NoMutations
<1> QED BY <1>1, <1>3, <1>4, <1>5, <1>7, RowsKept

\* An invocation ends, or gives up, with the rows as they are.
LEMMA ReleaseKeepsIInv ==
    ASSUME ExpiryIInv, NEW c \in Cleaners,
           ReleaseLease(c) \/ CleanupFails(c) \/ CleanerCrash(c)
    PROVE  ExpiryIInv'
<1> USE DEF ExpiryIInv
<1>0. ExpiryTypeInv /\ Running(c) /\ crashes \in Nat
  BY DEF ReleaseLease, CleanupFails, CleanerCrash, InPhase, Running, ExpiryTypeInv, TypeInv
<1>1. UNCHANGED <<storeVars, clock, req, created, gone>> /\ crashes' \in Nat
  BY <1>0 DEF ReleaseLease, CleanupFails, CleanerCrash, vars
<1>2. UNCHANGED <<d1Vars, object, item, del>>
  BY <1>1 DEF storeVars, d1Vars, r2Vars
<1>3. /\ cleaner' \in [Cleaners -> Cleaner] /\ Others(c)
      /\ \/ cleaner'[c].pc = "idle"
         \/ /\ cleaner'[c].pc = "release" /\ life' = life
            /\ cleaner'[c].now = cleaner[c].now /\ cleaner'[c].lease = cleaner[c].lease
  <2>1. CASE CleanupFails(c)
    BY <1>0, <2>1, MovesTyped DEF CleanupFails, CleanerPcs, Others
  <2>2. NoCleaner \in Cleaner /\ NoCleaner.pc = "idle"
    BY DEF NoCleaner, Cleaner, Phases
  <2>3. CASE ReleaseLease(c) \/ CleanerCrash(c)
    BY <1>0, <2>2, <2>3, BecomesTyped DEF ReleaseLease, CleanerCrash, Others
  <2> QED BY <2>1, <2>3
<1>4. /\ life' \in Life /\ life'.state = life.state
      /\ life' = life \/ (life.state = "deleting" /\ cleaner'[c].pc = "idle")
  <2>1. CASE ReleaseLease(c)
    <3>1. cleaner'[c] = NoCleaner
      BY <1>0, <2>1 DEF ReleaseLease, Becomes, ExpiryTypeInv
    <3>2. life \in Life
      BY <1>0 DEF ExpiryTypeInv
    <3> QED BY <2>1, <3>1, <3>2 DEF ReleaseLease, Life, NoCleaner
  <2>2. CASE CleanupFails(c) \/ CleanerCrash(c)
    BY <1>0, <2>2 DEF CleanupFails, CleanerCrash, ExpiryTypeInv
  <2> QED BY <2>1, <2>2
<1>5. ExpiryTypeInv'
  BY <1>1, <1>3, <1>4, StoreUnchangedType DEF ExpiryTypeInv, TypeInv
<1>6. CleanersInv'
  <2>1. CASE life' = life
    BY <1>0, <1>1, <1>3, <2>1, CleanersStay
  <2>2. CASE cleaner'[c].pc = "idle"
    <3>1. \A d \in Cleaners : Running(d)' => d # c /\ Running(d) /\ cleaner'[d] = cleaner[d]
      BY <1>3, <2>2 DEF Running, Others
    <3>2. MaxSpaces > 1 => \A d \in Cleaners : ~Running(d)'
      BY <1>0, <3>1 DEF CleanersInv
    <3> QED BY <1>1, <1>4, <3>1, <3>2 DEF CleanersInv, Running
  <2> QED BY <1>4, <2>1, <2>2
<1>7. ListingOK(cleaner[c])'
  BY <1>3 DEF ListingOK
<1>8. guard = {} \/ life' = life
  BY <1>4 DEF ExclusionInv
<1> QED BY <1>1, <1>2, <1>3, <1>4, <1>5, <1>6, <1>7, <1>8, RowsKept

\* The space row goes only when nothing of the space is left.
LEMMA FinishKeepsIInv ==
    ASSUME ExpiryIInv, NEW c \in Cleaners, FinishCleanup(c)
    PROVE  ExpiryIInv'
<1> USE DEF ExpiryIInv
<1>0. ExpiryTypeInv /\ Running(c) /\ "release" \in CleanerPcs
  BY DEF FinishCleanup, InPhase, Running, ExpiryTypeInv, CleanerPcs
<1>1. UNCHANGED <<batch, item, del, asset, guard, r2Vars, clock, crashes, req, created, gone>>
  BY DEF FinishCleanup
<1>2. UNCHANGED <<object, multipart>>
  BY <1>1 DEF r2Vars
<1>3. CASE ~CanFinish(c)
  <2>1. UNCHANGED <<life, space>> /\ Moves(c, "release")
    BY <1>3 DEF FinishCleanup
  <2>2. /\ cleaner' \in [Cleaners -> Cleaner] /\ Others(c) /\ cleaner'[c].pc = "release"
        /\ cleaner'[c].now = cleaner[c].now /\ cleaner'[c].lease = cleaner[c].lease
    BY <1>0, <2>1, MovesTyped DEF Others
  <2>3. UNCHANGED <<d1Vars, storeVars>>
    BY <1>1, <1>2, <2>1 DEF d1Vars, storeVars, r2Vars
  <2>4. ExpiryTypeInv'
    BY <1>1, <2>1, <2>2, <2>3, StoreUnchangedType DEF ExpiryTypeInv, TypeInv
  <2>5. CleanersInv'
    BY <1>0, <1>1, <2>1, <2>2, CleanersStay
  <2>6. ListingOK(cleaner[c])'
    BY <2>2 DEF ListingOK
  <2> QED BY <1>1, <1>2, <2>1, <2>2, <2>3, <2>4, <2>5, <2>6, RowsKept
<1>4. CASE CanFinish(c)
  <2>1. /\ life' = NoSpace /\ Becomes(c, NoCleaner)
        /\ space' = [revision |-> None, epoch |-> 0, pending |-> None]
    BY <1>4 DEF FinishCleanup
  <2>2. NoCleaner \in Cleaner /\ NoCleaner.pc = "idle"
    BY DEF NoCleaner, Cleaner, Phases
  <2>3. cleaner' \in [Cleaners -> Cleaner] /\ Others(c) /\ cleaner'[c].pc = "idle"
    BY <1>0, <2>1, <2>2, BecomesTyped DEF Others
  <2>4. life' \in Life /\ life'.state = "absent" /\ space' \in SpaceRow /\ space'.pending = None
    BY <2>1 DEF NoSpace, Life, SpaceRow, UploadOrNone
  <2>5. ExpiryTypeInv'
    BY <1>1, <1>2, <2>3, <2>4 DEF ExpiryTypeInv, TypeInv, StoreTypeOK
  <2>6. \A d \in Cleaners : Running(d)' => d # c /\ Running(d) /\ cleaner'[d] = cleaner[d]
    BY <2>3 DEF Running, Others
  <2>7. MaxSpaces > 1 => \A d \in Cleaners : ~Running(d)'
    BY <1>0, <2>6 DEF CleanersInv
  <2>8. CleanersInv'
    BY <1>1, <2>4, <2>6, <2>7 DEF CleanersInv, Running
  <2>9. guard = {} /\ ItemRows = {} /\ DeleteRows = {} /\ AssetRows = {} /\ BatchRows = {}
    BY <1>4 DEF CanFinish, ExclusionInv
  <2>10. ASSUME NEW u \in Uploads, NEW a \in Assets
         PROVE  item[u][a].state = "absent" /\ del[u][a] = "absent"
    <3>1. <<u, a>> \in Uploads \X Assets /\ (<<u, a>>)[1] = u /\ (<<u, a>>)[2] = a
      OBVIOUS
    <3> QED BY <2>9, <3>1 DEF ItemRows, DeleteRows
  <2>11. NoRows'
    BY <1>1, <2>9, <2>10 DEF NoRows, NoMutations, AssetRows, BatchRows
  <2>12. ExclusionInv' /\ GoneInv'
    BY <1>1, <2>4, <2>9, <2>11 DEF ExclusionInv, GoneInv
  <2>13. GuardInv' /\ HeldInv' /\ ChildrenInv' /\ NamedInv'
    BY <1>1, <1>2 DEF GuardInv, HeldInv, HeldOK, ChildrenInv, NamedInv
  <2>14. ListingInv'
    BY <1>1, <1>2, <2>3 DEF ListingInv, ListingOK, Others, IsLive, NoMutations
  <2> QED BY <2>5, <2>8, <2>12, <2>13, <2>14
<1> QED BY <1>3, <1>4

-----------------------------------------------------------------------------
(* The two deletions: first the objects, then the rows that name them. *)

\* What a deletion may do to the rows and objects of a space being removed.
Removing ==
    /\ \A u \in Uploads, a \in Assets :
         /\ item'[u][a] \in {item[u][a], AbsentItem}
         /\ del'[u][a] \in {del[u][a], "absent"}
    /\ \A a \in Assets : asset'[a] \in {asset[a], AbsentAsset}
    /\ \A u \in Uploads : batch'[u] \in {batch[u], NoBatch}
    /\ \A a \in Assets, s \in Slots : object'[a][s] \in {object[a][s], NoObject}

LEMMA RemovalKeepsIInv ==
    ASSUME ExpiryIInv, NEW c \in Cleaners, Running(c), Others(c), Removing,
           UNCHANGED <<space, req, clock, life, created>>,
           guard' \subseteq guard,
           cleaner'[c].now = cleaner[c].now, cleaner'[c].lease = cleaner[c].lease,
           ExpiryTypeInv', ChildrenInv', NamedInv', ListingOK(cleaner[c])'
    PROVE  ExpiryIInv'
<1> USE DEF ExpiryIInv
<1>1. AbsentItem.state = "absent" /\ NoBatch.state = "absent" /\ AbsentAsset.hash = None
  BY DEF AbsentItem, NoBatch, AbsentAsset
<1>2. guard = {} /\ guard' = {}
  BY DEF CleanersInv, ExclusionInv
<1>3. GuardInv' /\ HeldInv' /\ ExclusionInv'
  BY <1>2 DEF GuardInv, HeldInv, HeldOK, ExclusionInv
<1>4. CleanersInv'
  BY CleanersStay
<1>5. NoMutations => NoMutations'
  BY <1>1 DEF Removing, NoMutations
<1>6. GoneInv'
  BY <1>1, <1>5 DEF Removing, GoneInv, NoRows
<1>7. ASSUME NEW d \in Cleaners \ {c} PROVE ListingOK(cleaner[d])'
  <2>1. ListingOK(cleaner[d]) /\ cleaner'[d] = cleaner[d]
    BY <1>7 DEF ListingInv, Others
  <2>2. \A u \in Uploads, a \in Assets : item'[u][a].state # "absent" => item'[u][a] = item[u][a]
    BY <1>1 DEF Removing
  <2>3. \A a \in Assets, s \in Slots : object[a][s] = NoObject => object'[a][s] = NoObject
    BY DEF Removing
  <2> QED BY <1>5, <2>1, <2>2, <2>3 DEF ListingOK, IsLive
<1>8. ListingInv'
  BY <1>7 DEF ListingInv
<1> QED BY <1>3, <1>4, <1>6, <1>8

\* The listed objects go while their rows are still there.
LEMMA DeleteKeysKeepsIInv ==
    ASSUME ExpiryIInv, NEW c \in Cleaners, DeleteKeys(c)
    PROVE  ExpiryIInv'
<1> USE DEF ExpiryIInv
<1>0. ExpiryTypeInv /\ Running(c) /\ "rows" \in CleanerPcs /\ cleaner[c].pc = "objects"
  BY DEF DeleteKeys, InPhase, Running, ExpiryTypeInv, CleanerPcs
<1>1. UNCHANGED <<d1Vars, multipart, clock, crashes, req, life, created, gone>>
  BY DEF DeleteKeys
<1>2. UNCHANGED <<space, batch, item, del, asset, guard>>
  BY <1>1 DEF d1Vars
<1>3. /\ cleaner' \in [Cleaners -> Cleaner] /\ Others(c) /\ cleaner'[c].pc = "rows"
      /\ cleaner'[c].now = cleaner[c].now /\ cleaner'[c].lease = cleaner[c].lease
      /\ cleaner'[c].phase = cleaner[c].phase /\ cleaner'[c].rows = cleaner[c].rows
      /\ cleaner'[c].keys = cleaner[c].keys
  BY <1>0, MovesTyped DEF Others, DeleteKeys
<1>4. \A a \in Assets, s \in Slots :
        object'[a][s] = IF <<a, s>> \in cleaner[c].keys THEN NoObject ELSE object[a][s]
  BY DEF DeleteKeys
<1>5. object' \in [Assets -> [Slots -> ObjectRow]]
  <2>1. NoObject \in ObjectRow
    BY DEF NoObject, ObjectRow, UploadOrNone, BlobOrNone
  <2> QED BY <2>1 DEF DeleteKeys, ExpiryTypeInv, TypeInv, StoreTypeOK
<1>6. ExpiryTypeInv'
  BY <1>1, <1>2, <1>3, <1>5 DEF ExpiryTypeInv, TypeInv, StoreTypeOK
<1>7. Removing
  BY <1>2, <1>4 DEF Removing
<1>8. ChildrenInv' /\ NamedInv'
  <2>1. \A a \in Assets, s \in Slots : object'[a][s] # NoObject => object[a][s] # NoObject
    BY <1>4
  <2> QED BY <1>2, <2>1 DEF ChildrenInv, NamedInv
<1>9. ListingOK(cleaner[c])'
  <2>1. ListingOK(cleaner[c])
    BY DEF ListingInv
  <2>2. \A a \in Assets, s \in Slots : <<a, s>> \in cleaner[c].keys => object'[a][s] = NoObject
    BY <1>4
  <2> QED BY <1>0, <1>2, <1>3, <2>1, <2>2 DEF ListingOK, IsLive, NoMutations
<1> QED BY <1>0, <1>1, <1>2, <1>3, <1>6, <1>7, <1>8, <1>9, RemovalKeepsIInv

\* A row goes only when its objects are gone and no row depends on it.
LEMMA DeleteListedKeepsIInv ==
    ASSUME ExpiryIInv, NEW c \in Cleaners, DeleteListed(c)
    PROVE  ExpiryIInv'
<1> USE DEF ExpiryIInv
<1>0. ExpiryTypeInv /\ Running(c) /\ "release" \in CleanerPcs /\ cleaner[c].pc = "rows"
  BY DEF DeleteListed, InPhase, Running, ExpiryTypeInv, CleanerPcs
<1>1. UNCHANGED <<space, r2Vars, clock, crashes, req, life, created>>
  BY DEF DeleteListed
<1>2. UNCHANGED <<object, multipart>>
  BY <1>1 DEF r2Vars
<1>3. /\ cleaner' \in [Cleaners -> Cleaner] /\ Others(c) /\ cleaner'[c].pc = "release"
      /\ cleaner'[c].now = cleaner[c].now /\ cleaner'[c].lease = cleaner[c].lease
  BY <1>0, MovesTyped DEF Others, DeleteListed
<1> DEFINE rows == cleaner[c].rows
           phase == cleaner[c].phase
<1>t. /\ batch \in [Uploads -> BatchRow] /\ item \in [Uploads -> [Assets -> ItemRow]]
      /\ del \in [Uploads -> [Assets -> DeleteStates]] /\ asset \in [Assets -> AssetRow]
      /\ guard \subseteq Uploads /\ gone \subseteq Uploads
  BY DEF ExpiryTypeInv, TypeInv, StoreTypeOK
<1>l. ListingOK(cleaner[c])
  BY DEF ListingInv
<1>4. /\ item' = [u \in Uploads |-> [a \in Assets |->
                    IF phase = "items" /\ <<u, a>> \in rows THEN AbsentItem ELSE item[u][a]]]
      /\ del' = [u \in Uploads |-> [a \in Assets |->
                   IF phase = "dels" /\ <<u, a>> \in rows THEN "absent" ELSE del[u][a]]]
      /\ asset' = [a \in Assets |-> IF phase = "assets" /\ a \in rows THEN AbsentAsset ELSE asset[a]]
      /\ batch' = [u \in Uploads |-> IF phase = "batches" /\ u \in rows THEN NoBatch ELSE batch[u]]
      /\ guard' = (IF phase = "batches" THEN guard \ rows ELSE guard)
      /\ gone' = (IF phase = "batches" THEN gone \cup rows ELSE gone)
  BY DEF DeleteListed
<1>5. phase = "batches" => rows \subseteq Uploads
  BY <1>0, <1>l DEF ListingOK
<1> HIDE DEF rows, phase
<1>6. AbsentItem \in ItemRow /\ AbsentAsset \in AssetRow /\ NoBatch \in BatchRow
  <2>1. AbsentItem \in ItemRow
    BY IdleCoherent, StoreAssumption DEF AbsentItem, ItemRow, ItemStates, Backends, Slots, BlobOrNone
  <2>2. NoBatch \in BatchRow
    BY DEF NoBatch, BatchRow, BatchStates, UploadOrNone
  <2> QED BY <2>1, <2>2, AbsentAssetType
<1>7. "absent" \in DeleteStates
  BY DEF DeleteStates
<1>8. /\ item' \in [Uploads -> [Assets -> ItemRow]]
      /\ del' \in [Uploads -> [Assets -> DeleteStates]]
  BY <1>4, <1>6, <1>7, <1>t
<1>9. asset' \in [Assets -> AssetRow] /\ batch' \in [Uploads -> BatchRow]
  BY <1>4, <1>6, <1>t
<1>10. guard' \subseteq guard /\ gone' \subseteq Uploads
  BY <1>4, <1>5, <1>t
<1>11. ExpiryTypeInv'
  BY <1>1, <1>2, <1>3, <1>8, <1>9, <1>10 DEF ExpiryTypeInv, TypeInv, StoreTypeOK
<1>12. Removing
  BY <1>2, <1>4 DEF Removing
<1>13. ChildrenInv'
  <2> SUFFICES ASSUME NEW u \in Uploads, batch'[u].state = "absent", NEW a \in Assets
               PROVE  item'[u][a].state = "absent" /\ del'[u][a] = "absent"
    BY DEF ChildrenInv
  <2>1. AbsentItem.state = "absent"
    BY DEF AbsentItem
  <2>2. item[u][a].state = "absent" /\ del[u][a] = "absent"
    <3>1. CASE phase = "batches"
      BY <1>0, <1>l, <3>1 DEF ListingOK, NoMutations, phase
    <3>2. CASE phase # "batches"
      BY <1>4, <3>2 DEF ChildrenInv
    <3> QED BY <3>1, <3>2
  <2> QED BY <1>4, <2>1, <2>2
<1>14. NamedInv'
  <2> SUFFICES ASSUME NEW a \in Assets, NEW s \in Slots, object[a][s] # NoObject
               PROVE  \E u \in Uploads : item'[u][a].state # "absent" /\ item'[u][a].slot = s
    BY <1>2 DEF NamedInv
  <2>1. PICK u \in Uploads : item[u][a].state # "absent" /\ item[u][a].slot = s
    BY DEF NamedInv
  <2>2. ~(phase = "items" /\ <<u, a>> \in rows)
    BY <1>0, <1>l, <2>1 DEF ListingOK, phase, rows
  <2>3. item'[u][a] = item[u][a]
    BY <1>4, <2>2
  <2> QED BY <2>1, <2>3
<1>15. ListingOK(cleaner[c])'
  BY <1>3 DEF ListingOK
<1> QED BY <1>0, <1>1, <1>2, <1>3, <1>10, <1>11, <1>12, <1>13, <1>14, <1>15, RemovalKeepsIInv

\* Every step of a cleaner preserves the invariant.
LEMMA CleanerKeepsIInv ==
    ASSUME NoLateCleaner, ExpiryIInv, NEW c \in Cleaners,
           CleanerStep(c) \/ CleanupFails(c) \/ CleanerCrash(c)
    PROVE  ExpiryIInv'
BY ClaimKeepsIInv, ListKeepsIInv, AbortKeepsIInv, DeleteKeysKeepsIInv, DeleteListedKeepsIInv,
   FinishKeepsIInv, ReleaseKeepsIInv DEF CleanerStep

-----------------------------------------------------------------------------
(* The invariant, and what follows from it. *)

\* In the beginning there is no space.
LEMMA ExpiryIInvInit == ExpiryInit => ExpiryIInv
<1> SUFFICES ASSUME ExpiryInit PROVE ExpiryIInv
  OBVIOUS
<1>1. TypeInv /\ GuardInv /\ HeldInv
  BY GuardIInvInit DEF ExpiryInit, GuardIInv
<1>2. /\ life = NoSpace /\ created = 0 /\ gone = {}
      /\ cleaner = [c \in Cleaners |-> NoCleaner]
      /\ Init
  BY DEF ExpiryInit
<1>3. NoCleaner \in Cleaner /\ NoCleaner.pc = "idle"
  BY DEF NoCleaner, Cleaner, Phases
<1>4. NoSpace \in Life /\ NoSpace.state = "absent"
  BY DEF NoSpace, Life
<1>5. ExpiryTypeInv
  BY <1>1, <1>2, <1>3, <1>4, ExpiryAssumption DEF ExpiryTypeInv
<1>6. /\ guard = {} /\ space.pending = None
      /\ \A u \in Uploads : batch[u].state = "absent"
      /\ \A u \in Uploads, a \in Assets : item[u][a].state = "absent" /\ del[u][a] = "absent"
      /\ \A a \in Assets : asset[a].hash = None
      /\ \A a \in Assets, s \in Slots : object[a][s] = NoObject
  BY <1>2 DEF Init, StoreInit, AbsentItem, AbsentAsset
<1>7. NoRows
  BY <1>6 DEF NoRows, NoMutations
<1>8. \A c \in Cleaners : cleaner[c].pc = "idle"
  BY <1>2, <1>3
<1>9. CleanersInv /\ ListingInv
  BY <1>2, <1>4, <1>8 DEF CleanersInv, ListingInv, ListingOK, Running
<1>10. ExclusionInv /\ ChildrenInv /\ NamedInv /\ GoneInv
  BY <1>6, <1>7 DEF ExclusionInv, ChildrenInv, NamedInv, GoneInv
<1> QED BY <1>1, <1>5, <1>9, <1>10 DEF ExpiryIInv

\* A step is one of a worker, of a cleaner, or of neither.
LEMMA ExpiryIInvNext ==
    ASSUME NoLateCleaner, ExpiryIInv, [ExpiryNext]_allVars
    PROVE  ExpiryIInv'
<1>1. CASE Pass \/ CreateSpace
  BY <1>1, PassKeepsIInv, CreateKeepsIInv
<1>2. ASSUME NEW w \in Workers, WorkerStep(w) PROVE ExpiryIInv'
  BY <1>2, WorkerKeepsIInv
<1>3. ASSUME NEW c \in Cleaners, CleanerStep(c) \/ CleanupFails(c) \/ CleanerCrash(c)
      PROVE  ExpiryIInv'
  BY <1>3, CleanerKeepsIInv
<1>4. CASE UNCHANGED allVars
  <2> USE DEF ExpiryIInv
  <2>1. UNCHANGED <<storeVars, clock, crashes, req, life, created, gone, cleaner>>
    BY <1>4 DEF allVars, vars, expiryVars
  <2>2. UNCHANGED <<space, batch, item, del, asset, guard, object>>
    BY <2>1 DEF storeVars, d1Vars, r2Vars
  <2>3. ExpiryTypeInv'
    BY <2>1, StoreUnchangedType DEF ExpiryTypeInv, TypeInv
  <2>4. CleanersInv' /\ ExclusionInv' /\ ListingInv'
    BY <2>1, <2>2 DEF CleanersInv, ExclusionInv, ListingInv, ListingOK, Running, IsLive,
       NoMutations
  <2>5. GuardInv' /\ HeldInv' /\ ChildrenInv' /\ NamedInv' /\ GoneInv'
    BY <2>1, <2>2 DEF GuardInv, HeldInv, HeldOK, ChildrenInv, NamedInv, GoneInv, NoRows,
       NoMutations
  <2> QED BY <2>3, <2>4, <2>5
<1> QED BY <1>1, <1>2, <1>3, <1>4 DEF ExpiryNext, WorkerStep

\* In every state of an expiring space the invariant holds.
LEMMA ExpiryInvariance ==
    ASSUME NoLateCleaner
    PROVE  ExpirySpec => []ExpiryIInv
<1>1. ExpiryIInv /\ [ExpiryNext]_allVars => ExpiryIInv'
  BY ExpiryIInvNext
<1> QED BY <1>1, ExpiryIInvInit, PTL DEF ExpirySpec

\* The rows, the objects, the requests and the invocations of the cron stay
\* well-typed while an anonymous space is used, expires and is removed: no
\* handler acts on a row that the removal took from under it.
THEOREM ExpiryTypeCorrect ==
    ASSUME NoLateCleaner
    PROVE  ExpirySpec => []ExpiryTypeOK
<1>1. ExpiryIInv => ExpiryTypeOK
  BY DEF ExpiryIInv, ExpiryTypeInv, ExpiryTypeOK, TypeInv, TypeOK, CoherentRequest
<1> QED BY <1>1, ExpiryInvariance, PTL

\* claimExpiredSpace refuses a space in which a batch is being recovered, and
\* acquireRecoverGuard one that is being removed: for any number of requests
\* and of cron invocations, a recovery that completes objects and a removal
\* that deletes them never work on one space.
THEOREM ExclusionCorrect ==
    ASSUME NoLateCleaner
    PROVE  ExpirySpec => []CleanupExcludesRecovery
<1>1. ExpiryIInv => CleanupExcludesRecovery
  <2> SUFFICES ASSUME ExpiryIInv, life.state = "deleting" PROVE CleanupExcludesRecovery
    BY DEF CleanupExcludesRecovery
  <2> QED BY NoneHeld DEF ExpiryIInv, ExclusionInv, CleanupExcludesRecovery
<1> QED BY <1>1, ExpiryInvariance, PTL

\* cleanupExpiredSpaces deletes the objects before the rows that name them: at
\* whatever call a removal stops, each object that is left in the bucket is
\* still named by a row that the next one will list.
THEOREM ObjectsNamedCorrect ==
    ASSUME NoLateCleaner
    PROVE  ExpirySpec => []ObjectsNamed
<1>1. ExpiryIInv => ObjectsNamed
  BY DEF ExpiryIInv, NamedInv, ObjectsNamed
<1> QED BY <1>1, ExpiryInvariance, PTL

\* finishSpaceCleanup removes the space row only when the tables are
\* empty: a space that is gone has left nothing in D1 and nothing in R2, also
\* when a request that began before it expired is still running.
THEOREM NothingLeftCorrect ==
    ASSUME NoLateCleaner
    PROVE  ExpirySpec => []NothingLeft
<1>1. ASSUME ExpiryIInv, life.state = "absent" PROVE NothingLeft
  <2>1. NoRows /\ space.pending = None /\ guard = {}
    BY <1>1 DEF ExpiryIInv, GoneInv, ExclusionInv
  <2>2. \A r \in Uploads \X Assets : item[r[1]][r[2]].state = "absent" /\ del[r[1]][r[2]] = "absent"
    BY <2>1 DEF NoRows, NoMutations
  <2>3. ItemRows = {} /\ DeleteRows = {} /\ AssetRows = {} /\ BatchRows = {}
    BY <2>1, <2>2 DEF NoRows, ItemRows, DeleteRows, AssetRows, BatchRows
  <2>4. \A a \in Assets, s \in Slots : object[a][s] = NoObject
    BY <1>1, <2>1 DEF ExpiryIInv, NamedInv, NoRows, NoMutations
  <2> QED BY <2>1, <2>3, <2>4 DEF NothingLeft
<1>2. ExpiryIInv => NothingLeft
  BY <1>1 DEF NothingLeft
<1> QED BY <1>2, ExpiryInvariance, PTL

\* What was listed as no upload in progress is none when its row is removed:
\* claimItem needs an active space, so a PUT whose lease is running keeps its
\* item row for as long as the invocation goes by the time it began at.
THEOREM LiveUploadKeptCorrect ==
    ASSUME NoLateCleaner
    PROVE  ExpirySpec => LiveUploadKept
<1> DEFINE Kept ==
      \A c \in Cleaners, u \in Uploads, a \in Assets :
         /\ InPhase(c, "rows") /\ cleaner'[c] # cleaner[c]
         /\ item[u][a].state # "absent" /\ item'[u][a].state = "absent"
         => ~IsLive(<<u, a>>, cleaner[c].now)
<1>1. ASSUME ExpiryIInv, [ExpiryNext]_allVars, NEW c \in Cleaners, InPhase(c, "rows"),
             cleaner'[c] # cleaner[c], NEW u \in Uploads, NEW a \in Assets,
             item[u][a].state # "absent", item'[u][a].state = "absent"
      PROVE  ~IsLive(<<u, a>>, cleaner[c].now)
  <2>0. ExpiryTypeInv
    BY <1>1 DEF ExpiryIInv
  <2>1. CASE DeleteListed(c)
    <3>1. cleaner[c].phase = "items" /\ <<u, a>> \in cleaner[c].rows
      BY <1>1, <2>1 DEF DeleteListed
    <3> QED BY <1>1, <3>1 DEF ExpiryIInv, ListingInv, ListingOK, InPhase
  <2>2. ~UNCHANGED item /\ ~UNCHANGED cleaner
    BY <1>1
  <2>3. ASSUME Pass \/ CreateSpace \/ UNCHANGED allVars PROVE FALSE
    BY <2>2, <2>3 DEF Pass, CreateSpace, allVars, expiryVars
  <2>4. ASSUME NEW w \in Workers, WorkerStep(w) PROVE FALSE
    BY <1>1, <2>2, <2>4, WorkersMind DEF Minding, expiryVars
  <2>5. ASSUME NEW d \in Cleaners,
               \/ ClaimExpired(d) \/ ListRows(d) \/ AbortListed(d) \/ DeleteKeys(d)
               \/ FinishCleanup(d) \/ ReleaseLease(d) \/ CleanupFails(d) \/ CleanerCrash(d)
        PROVE  FALSE
    BY <2>2, <2>5 DEF ClaimExpired, ListRows, AbortListed, AbortMultipartUploads, DeleteKeys,
       FinishCleanup, ReleaseLease, CleanupFails, CleanerCrash, vars, storeVars, d1Vars
  <2>6. ASSUME NEW d \in Cleaners, DeleteListed(d) PROVE d = c
    <3>1. Moves(d, "release")
      BY <2>6 DEF DeleteListed
    <3> QED BY <1>1, <2>0, <3>1 DEF Moves, Becomes, ExpiryTypeInv
  <2>7. \E d \in Cleaners : DeleteListed(d)
    BY <1>1, <2>3, <2>4, <2>5 DEF ExpiryNext, WorkerStep, CleanerStep
  <2> QED BY <2>1, <2>6, <2>7
<1>2. ExpiryIInv /\ [ExpiryNext]_allVars => [Kept]_allVars
  BY <1>1
<1> QED BY <1>2, ExpiryInvariance, PTL DEF ExpirySpec, LiveUploadKept
-----------------------------------------------------------------------------
(* The uploads of a space until it is marked deleting. *)

\* No space of the id has been marked deleting yet.
FirstLife == created = 0 \/ (created = 1 /\ life.state = "active")

FirstInv ==
    /\ clock \in Nat /\ created \in Nat /\ life \in Life
    /\ created = 0 => life.state = "absent"
    /\ FirstLife => ObjectsIInv /\ \A c \in Cleaners : ~Running(c)

\* What a step off the record has to leave alone, for the uploads to go on.
LEMMA OffRecordKeeps ==
    ASSUME ObjectsIInv, NEW w \in Workers, OffRecord(w), RequestStep(w), PlanStep(w),
           WorkStep(w), req'[w].pc \notin CommitPcs
    PROVE  ObjectsIInv'
<1>0. /\ TypeInv /\ TypeInv' /\ RowInv /\ CancellingInv /\ BaseInv
      /\ GuardInv /\ HeldInv /\ ContentInv /\ ObjectsInv /\ LockInv
  BY DEF ObjectsIInv, LockIInv, GuardIInv, RowInv, OffRecord
<1>1. UNCHANGED storeVars
  BY DEF OffRecord
<1>2. RowInv' /\ Progress /\ RevisionMoves
  BY <1>0, <1>1, StoreUnchangedStep, LockStepKeepsRows
<1>3. LockIInv'
  BY <1>0, <1>2, RequestsKept DEF LockIInv, RowInv
<1>4. GuardIInv'
  BY <1>0, GuardStepKeeps DEF OffRecord, GuardIInv
<1>5. ContentInv'
  <2>1. RowsInv' /\ MutationsInv' /\ RowsMove
    BY <1>0, <1>1, SameContentStep, ContentStepKeepsRows
  <2> QED BY <1>0, <2>1, PlansKept DEF ContentInv
<1>6. ObjectsInv'
  <2>1. UNCHANGED <<batch, item, del, asset, object>>
    BY <1>1 DEF storeVars, d1Vars, r2Vars
  <2>2. SlotsInv' /\ UnwrittenInv'
    BY <1>0, <2>1 DEF ObjectsInv, SlotsInv, SlotOK, Overwrites, MultipartItems, DeletedOnce,
       UnwrittenInv
  <2>3. \A v \in Workers \ {w} : (CompletingOK(req[v]) /\ CleaningOK(req[v]))'
    BY <1>0, <2>1 DEF ObjectsInv, WorkInv, WorkStep, CompletingOK, CleaningOK,
       MultipartItems, Written, DeletedOnce
  <2>4. Lists(w) \/ Cleans(w)
    BY DEF WorkStep, Enters, Completes
  <2>5. CompletingOK(req[w])'
    BY DEF CompletingOK
  <2>6. CleaningOK(req[w])'
    BY <1>0, <2>1, <2>4 DEF Lists, Cleans, CleansOnly, CleaningOK, DeletedOnce, ObjectsInv,
       WorkInv
  <2> QED BY <2>2, <2>3, <2>5, <2>6 DEF ObjectsInv, WorkInv
<1> QED BY <1>3, <1>4, <1>5, <1>6 DEF ObjectsIInv

\* The cron recovers as ever, or returns to deletions although a batch waits.
LEMMA RecoveryCronKeeps ==
    ASSUME ObjectsIInv, NEW w \in Workers, RecoveryCron(w)
    PROVE  ObjectsIInv'
<1>0. TypeInv /\ HeldInv
  BY DEF ObjectsIInv, GuardIInv
<1>1. OffRecord(w)
  BY <1>0, RecoveryCronStep
<1>2. PICK u \in Uploads : Continue(w, RecoverBatch(New("cron", "idle", u, u)))
  BY DEF RecoveryCron, Start
<1> DEFINE y == New("cron", "idle", u, u)
<1>3. y \in CoherentRequest /\ y.t \in Uploads /\ Unplanned(y)
  BY <1>0, NewCoherent, NewFields, NewUnplanned DEF Ops, BasePcs
<1>4. y \in Request
  BY <1>3 DEF CoherentRequest
<1>5. Continue(w, RecoverBatch(y))
  BY <1>2
<1> HIDE DEF y
<1>6. /\ req'[w] = RecoverBatch(y)
      /\ \A v \in Workers \ {w} : req'[v] = req[v]
  BY <1>0, <1>5, ContinueStep
<1>7. req'[w].pc \notin CancelPcs \cup BasePcs \cup CommitPcs
  BY <1>4, <1>6, RecoverBatchPc DEF CancelPcs, BasePcs, CommitPcs
<1>8. RequestStep(w)
  BY <1>6, <1>7, QuietStep
<1>9. PlanStep(w)
  BY <1>0, <1>3, <1>4, <1>5, RecoverBatchUnplanned, UnplannedStep
<1>10. WorkStep(w)
  BY <1>0, <1>1, <1>3, <1>4, <1>5, RecoverWorkStep DEF OffRecord
<1> QED BY <1>1, <1>7, <1>8, <1>9, <1>10, OffRecordKeeps

\* A refusal abandons what the request was about to do.
LEMMA RefusedKeeps ==
    ASSUME ObjectsIInv, NEW w \in Workers, Refused(w)
    PROVE  ObjectsIInv'
<1>0. TypeInv /\ HeldInv /\ PlansInv
  BY DEF ObjectsIInv, GuardIInv, ContentInv
<1>1. OffRecord(w)
  BY <1>0, RefusedStep
<1>o. UNCHANGED object
  BY <1>1 DEF OffRecord, storeVars, r2Vars
<1>r. req[w] \in Request
  BY <1>0 DEF TypeInv, CoherentRequest
<1>2. ASSUME req'[w].pc \in {"releaseGuard", "readSpace", "idle"}, PlanStep(w)
      PROVE  ObjectsIInv'
  <2>1. \A v \in Workers \ {w} : req'[v] = req[v]
    BY <1>2 DEF PlanStep
  <2>2. req'[w].pc \notin CancelPcs \cup BasePcs \cup CommitPcs \cup CleanPcs
    BY <1>2 DEF CancelPcs, BasePcs, CommitPcs, CleanPcs
  <2>3. RequestStep(w)
    BY <2>1, <2>2, QuietStep
  <2>4. WorkStep(w)
    BY <1>o, <2>1, <2>2, IdleWorkStep
  <2> QED BY <1>1, <1>2, <2>2, <2>3, <2>4, OffRecordKeeps
<1>3. CASE At(w, "finalize") /\ FailRecovery(w)
  <2>1. Unplanned(req[w])
    BY <1>0, <1>3 DEF PlansInv, At, BasePcs
  <2>2. PlanStep(w)
    BY <1>0, <1>3, <2>1, FailRecoveryPlanStep
  <2> DEFINE x == [req[w] EXCEPT !.pc = "releaseGuard", !.failed = TRUE, !.todo = {}]
  <2>3. x.pc = "releaseGuard" /\ Continue(w, x)
    BY <1>3, <1>r DEF FailRecovery, Request
  <2> HIDE DEF x
  <2> QED BY <1>0, <1>2, <2>2, <2>3, ContinueStep
<1>4. CASE At(w, "acquireGuard") /\ Continue(w, AfterRecover(req[w]))
  <2>1. Unplanned(req[w])
    BY <1>0, <1>4 DEF PlansInv, At, BasePcs
  <2>2. PlanStep(w)
    BY <1>0, <1>4, <1>r, <2>1, AfterRecoverUnplanned, UnplannedStep
  <2>3. req'[w].pc \in {"readSpace", "idle"}
    BY <1>0, <1>4, <1>r, AfterRecoverPc, ContinueStep
  <2> QED BY <1>2, <2>2, <2>3
<1>5. CASE Finish(w)
  BY <1>0, <1>2, <1>5, FinishUnplanned, FinishStep
<1> QED BY <1>3, <1>4, <1>5 DEF Refused

\* In an active space every step of a worker keeps the uploads as they should be.
LEMMA WorkerKeepsUploads ==
    ASSUME ObjectsIInv, NEW w \in Workers, WorkerStep(w)
    PROVE  ObjectsIInv' /\ clock' = clock /\ UNCHANGED expiryVars
<1>1. CASE SpaceRequest(w) \/ Step(w) \/ WorkerCrash(w)
  <2>1. [Next]_vars
    BY <1>1, ServiceStep DEF Next
  <2> QED BY <1>1, <2>1, ServiceStep, LockIInvNext, GuardIInvNext, ContentInvNext,
             ObjectsInvNext DEF ObjectsIInv
<1>2. CASE RecoveryCron(w)
  <2>1. OffRecord(w)
    BY <1>2, RecoveryCronStep DEF ObjectsIInv, GuardIInv
  <2> QED BY <1>2, <2>1, RecoveryCronKeeps DEF OffRecord
<1>3. CASE Refused(w)
  <2>1. OffRecord(w)
    BY <1>3, RefusedStep DEF ObjectsIInv, GuardIInv
  <2> QED BY <1>3, <2>1, RefusedKeeps DEF OffRecord
<1> QED BY <1>1, <1>2, <1>3 DEF WorkerStep

\* Nothing of SpaceService changes when the space is created or claimed.
LEMMA ServiceStands ==
    ASSUME ObjectsIInv, Tick \/ UNCHANGED vars
    PROVE  ObjectsIInv'
<1>1. [Next]_vars
  BY DEF Next
<1> QED BY <1>1, LockIInvNext, GuardIInvNext, ContentInvNext, ObjectsInvNext DEF ObjectsIInv

\* Time goes on in any step by Pass only.
LEMMA ClockTyped ==
    ASSUME clock \in Nat, [ExpiryNext]_allVars
    PROVE  clock' \in Nat
<1>1. CASE UNCHANGED allVars
  BY <1>1 DEF allVars, vars
<1>2. CASE Pass \/ CreateSpace
  BY <1>2 DEF Pass, Tick, CreateSpace, vars
<1>3. ASSUME NEW w \in Workers,
             SpaceRequest(w) \/ RecoveryCron(w) \/ Refused(w) \/ Step(w) \/ WorkerCrash(w)
      PROVE  clock' \in Nat
  <2>1. CASE SpaceRequest(w) \/ Step(w) \/ WorkerCrash(w)
    BY <2>1, ServiceStep
  <2>2. CASE RecoveryCron(w)
    BY <2>2 DEF RecoveryCron, Start
  <2>3. CASE Refused(w)
    BY <2>3 DEF Refused
  <2> QED BY <1>3, <2>1, <2>2, <2>3
<1>4. ASSUME NEW c \in Cleaners, CleanerStep(c) \/ CleanupFails(c) \/ CleanerCrash(c)
      PROVE  clock' \in Nat
  <2>1. CASE UNCHANGED vars
    BY <2>1 DEF vars
  <2>4. ClaimExpired(c) => UNCHANGED vars
    BY DEF ClaimExpired
  <2>5. ListRows(c) => UNCHANGED vars
    BY DEF ListRows
  <2>6. ReleaseLease(c) => UNCHANGED vars
    BY DEF ReleaseLease
  <2>2. CASE AbortListed(c) \/ DeleteKeys(c) \/ DeleteListed(c) \/ FinishCleanup(c)
    BY <2>2 DEF AbortListed, DeleteKeys, DeleteListed, FinishCleanup
  <2>3. CASE CleanupFails(c) \/ CleanerCrash(c)
    BY <2>3 DEF CleanupFails, CleanerCrash
  <2> QED BY <1>4, <2>1, <2>2, <2>3, <2>4, <2>5, <2>6 DEF CleanerStep
<1> QED BY <1>1, <1>2, <1>3, <1>4 DEF ExpiryNext

\* Nothing of the space is there at first,
LEMMA FirstInvInit == ExpiryInit => FirstInv
<1> SUFFICES ASSUME ExpiryInit PROVE FirstInv
  OBVIOUS
<1>1. ObjectsIInv
  BY LockIInvInit, GuardIInvInit, ContentInvInit, ObjectsInvInit DEF ExpiryInit, ObjectsIInv
<1>2. \A c \in Cleaners : ~Running(c)
  BY DEF ExpiryInit, Running, NoCleaner
<1>3. clock \in Nat /\ created = 0 /\ life \in Life /\ life.state = "absent"
  BY DEF ExpiryInit, Init, NoSpace, Life
<1> QED BY <1>1, <1>2, <1>3 DEF FirstInv

\* and until it is marked deleting no step takes anything from its uploads.
LEMMA FirstInvNext ==
    ASSUME FirstInv, [ExpiryNext]_allVars
    PROVE  FirstInv'
<1>0. /\ clock \in Nat /\ clock' \in Nat /\ created \in Nat /\ life \in Life
      /\ SpaceTtl \in Nat /\ CleanupLease \in Nat
      /\ created = 0 => life.state = "absent"
  BY ExpiryAssumption, ClockTyped DEF FirstInv
\* The space does not become active, and neither does a cleaner unless it expires.
<1>1. ASSUME UNCHANGED <<life, created, cleaner>>,
             FirstLife => ObjectsIInv'
      PROVE  FirstInv'
  BY <1>0, <1>1 DEF FirstInv, FirstLife, Running
<1>2. ASSUME created' = created, life' \in Life, life'.state # "active",
             created # 0
      PROVE  FirstInv'
  BY <1>0, <1>2 DEF FirstInv, FirstLife
<1>3. CASE UNCHANGED allVars \/ Pass
  <2>1. UNCHANGED <<life, created, cleaner>> /\ (Tick \/ UNCHANGED vars)
    BY <1>3 DEF allVars, expiryVars, Pass
  <2> QED BY <1>1, <2>1, ServiceStands DEF FirstInv
<1>4. CASE CreateSpace
  <2>1. /\ life.state = "absent" /\ created' = created + 1 /\ life' \in Life
        /\ UNCHANGED vars /\ cleaner' = cleaner
    BY <1>0, <1>4 DEF CreateSpace, Life
  <2>2. FirstLife' => FirstLife
    BY <1>0, <2>1 DEF FirstLife
  <2>3. FirstLife' => ObjectsIInv' /\ \A c \in Cleaners : ~Running(c)'
    BY <2>1, <2>2, ServiceStands DEF FirstInv, Running
  <2>4. created' \in Nat /\ created' # 0
    BY <1>0, <2>1
  <2> QED BY <1>0, <2>1, <2>3, <2>4 DEF FirstInv
<1>5. ASSUME NEW w \in Workers, WorkerStep(w)
      PROVE  FirstInv'
  <2>1. FirstLife => ObjectsIInv'
    BY <1>5, WorkerKeepsUploads DEF FirstInv
  <2>2. UNCHANGED expiryVars
    <3>1. CASE SpaceRequest(w) \/ Step(w) \/ WorkerCrash(w)
      BY <3>1, ServiceStep
    <3> QED BY <1>5, <3>1 DEF WorkerStep, RecoveryCron, Refused
  <2> QED BY <1>1, <2>1, <2>2 DEF expiryVars
<1>6. ASSUME NEW c \in Cleaners, ClaimExpired(c)
      PROVE  FirstInv'
  <2>1. life.state \in {"active", "deleting"}
    BY <1>6 DEF ClaimExpired, Claimable
  <2> DEFINE x == [life EXCEPT !.state = "deleting", !.lease = clock + CleanupLease]
  <2>5. clock + CleanupLease \in Nat
    BY <1>0
  <2>2. x \in Life /\ x.state = "deleting"
    BY <1>0, <2>5 DEF Life
  <2>4. created' = created /\ life' = x
    BY <1>6 DEF ClaimExpired
  <2> HIDE DEF x
  <2>3. created # 0
    BY <1>0, <2>1
  <2> QED BY <1>2, <2>2, <2>3, <2>4
<1>7. ASSUME NEW c \in Cleaners, Running(c),
             created' = created, life' \in Life, life'.state \in {life.state, "absent"}
      PROVE  FirstInv'
  <2>1. ~FirstLife
    BY <1>7 DEF FirstInv
  <2>2. ~FirstLife'
    BY <1>7, <2>1 DEF FirstLife
  <2>3. created # 0
    BY <2>1 DEF FirstLife
  <2> QED BY <1>0, <1>7, <2>2, <2>3 DEF FirstInv
<1>8. ASSUME NEW c \in Cleaners,
             \/ ListRows(c) \/ AbortListed(c) \/ DeleteKeys(c) \/ DeleteListed(c)
             \/ FinishCleanup(c) \/ ReleaseLease(c) \/ CleanupFails(c) \/ CleanerCrash(c)
      PROVE  FirstInv'
  <2>1. CASE ListRows(c) \/ AbortListed(c) \/ DeleteKeys(c) \/ DeleteListed(c)
    <3>1. ListRows(c) => Running(c) /\ UNCHANGED <<life, created>>
      BY DEF ListRows, InPhase, Running
    <3>2. AbortListed(c) \/ DeleteKeys(c) => Running(c) /\ UNCHANGED <<life, created>>
      BY DEF AbortListed, DeleteKeys, InPhase, Running
    <3>3. DeleteListed(c) => Running(c) /\ UNCHANGED <<life, created>>
      BY DEF DeleteListed, InPhase, Running
    <3> QED BY <1>0, <1>7, <2>1, <3>1, <3>2, <3>3
  <2>2. CASE CleanupFails(c) \/ CleanerCrash(c)
    <3>1. Running(c) /\ UNCHANGED <<life, created>>
      BY <2>2 DEF CleanupFails, CleanerCrash, InPhase, Running
    <3> QED BY <1>0, <1>7, <3>1
  <2>3. CASE FinishCleanup(c)
    <3>1. Running(c) /\ created' = created /\ life' \in {life, NoSpace}
      BY <2>3 DEF FinishCleanup, InPhase, Running
    <3>2. NoSpace \in Life /\ NoSpace.state = "absent"
      BY DEF NoSpace, Life
    <3> QED BY <1>0, <1>7, <3>1, <3>2
  <2>4. CASE ReleaseLease(c)
    <3>1. Running(c) /\ created' = created /\ life' \in {life, [life EXCEPT !.lease = 0]}
      BY <2>4 DEF ReleaseLease, InPhase, Running
    <3>2. [life EXCEPT !.lease = 0] \in Life /\ [life EXCEPT !.lease = 0].state = life.state
      BY <1>0 DEF Life
    <3> QED BY <1>0, <1>7, <3>1, <3>2
  <2> QED BY <1>8, <2>1, <2>2, <2>3, <2>4
<1> QED BY <1>3, <1>4, <1>5, <1>6, <1>8 DEF ExpiryNext, WorkerStep, CleanerStep

(***************************************************************************)
(* The upload path in an anonymous space: statements refused at its expiry *)
(* in the middle of a request, the cron that stops recovering then, and    *)
(* the removal itself take nothing from what SpaceService promises, until  *)
(* the space is marked deleting.  Nothing is assumed of how long a         *)
(* clean-up may run.                                                       *)
(***************************************************************************)
THEOREM UploadsIntactCorrect == ExpirySpec => []UploadsIntact
<1>1. FirstInv => UploadsIntact
  <2>1. LockIInv => LockInv /\ RevisionInv
    BY DEF LockIInv
  <2>2. GuardIInv => GuardInv
    BY DEF GuardIInv
  <2> QED BY <2>1, <2>2, ContentFollows, ObjectsFollow
          DEF FirstInv, FirstLife, UploadsIntact, ObjectsIInv
<1>2. FirstInv /\ [ExpiryNext]_allVars => FirstInv'
  BY FirstInvNext
<1> QED BY <1>1, <1>2, FirstInvInit, PTL DEF ExpirySpec
=============================================================================
