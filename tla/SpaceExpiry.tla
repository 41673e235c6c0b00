----------------------------- MODULE SpaceExpiry -----------------------------
(***************************************************************************)
(* An anonymous space: SpaceService composed with the life of the space    *)
(* row and with the cron that removes an expired space from D1 and R2, a   *)
(* bounded number of rows at a time, under a lease.                        *)
(*                                                                         *)
(* A D1 statement of the upload path that requires an active, unexpired    *)
(* space is refused here when the space has been marked deleting since the *)
(* request began; the other steps of SpaceService are unchanged.           *)
(***************************************************************************)
EXTENDS SpaceService, FiniteSetsExt

CONSTANTS
    Cleaners,       \* concurrent invocations of the expiry cron
    SpaceTtl,       \* ANONYMOUS_SPACE_TTL_MS, in clock units
    CleanupLease,   \* SPACE_CLEANUP_LEASE_MS, in clock units
    RowLimit,       \* EXPIRED_SPACE_ROWS_PER_CRON
    MaxRun,         \* how long the runtime lets a cron invocation live
    MaxSpaces,      \* bound: how often the space id is created
    LastCrash       \* bound: no crash of a cleaner after this time

ASSUME ExpiryAssumption ==
    /\ SpaceTtl \in Nat /\ CleanupLease \in Nat /\ MaxRun \in Nat
    /\ RowLimit \in Nat \ {0}
    /\ MaxSpaces \in Nat /\ LastCrash \in Nat

VARIABLES
    life,           \* lifecycle columns of the sync_spaces row
    created,        \* how often the space id was created
    gone,           \* batches of spaces that were removed: their ids never return
    cleaner         \* what each cron invocation is doing

expiryVars == <<life, created, gone, cleaner>>
allVars == <<vars, expiryVars>>

\* lease = 0 stands for NULL: a lease is always in the future when taken.
Life == [state : {"absent", "active", "deleting"}, expires : Nat, lease : Nat]
NoSpace == [state |-> "absent", expires |-> 0, lease |-> 0]

Phases == {"items", "dels", "assets", "batches"}
Rows == Uploads \cup (Uploads \X Assets) \cup Assets
Cleaner ==
    [pc : {"idle", "list", "abort", "objects", "rows", "finish", "release"},
     now : Nat, lease : Nat, phase : Phases, rows : SUBSET Rows,
     keys : SUBSET (Assets \X Slots), mps : SUBSET Multiparts]
NoCleaner ==
    [pc |-> "idle", now |-> 0, lease |-> 0, phase |-> "items",
     rows |-> {}, keys |-> {}, mps |-> {}]

ExpiryTypeOK ==
    /\ TypeOK
    /\ life \in Life
    /\ created \in 0 .. MaxSpaces
    /\ gone \subseteq Uploads
    /\ cleaner \in [Cleaners -> Cleaner]

ExpiryInit ==
    /\ Init
    /\ life = NoSpace
    /\ created = 0
    /\ gone = {}
    /\ cleaner = [c \in Cleaners |-> NoCleaner]

Available(now) == life.state = "active" /\ life.expires > now

-----------------------------------------------------------------------------
(* The upload path in a space that may expire *)

\* POST /v1/sync/spaces; an existing row makes the INSERT OR IGNORE a 409.
CreateSpace ==
    /\ life.state = "absent"
    /\ created < MaxSpaces
    /\ life' = [state |-> "active", expires |-> clock + SpaceTtl, lease |-> 0]
    /\ created' = created + 1
    /\ UNCHANGED <<vars, gone, cleaner>>

\* A batch id is fresh; of those nobody has used any stands for the others.
Unused ==
    {u \in Uploads \ gone : batch[u].state = "absent" /\ \A w \in Workers : req[w].u # u}
BatchIds ==
    (Uploads \ (gone \cup Unused)) \cup {u \in Unused : u = CHOOSE v \in Unused : TRUE}

\* The middleware and every handler first refuse a space that is not available.
SpaceRequest(w) ==
    /\ Available(clock)
    /\ \/ \E u \in BatchIds, base \in KnownRevisions, plan \in Plans :
            StartPrepare(w, u, base, plan) \/ RetryPrepare(w, u, base, plan)
       \/ \E u \in Uploads, a \in Assets : StartPut(w, u, a)
       \/ \E u \in Uploads : StartCommit(w, u) \/ StartCancel(w, u)
       \/ StartAbort(w)
    /\ UNCHANGED expiryVars

\* Only listRecoverableBatches looks at the space; pending deletions do not.
RecoveryCron(w) ==
    /\ \E u \in Uploads :
         /\ \/ Recoverable(u) /\ Available(clock)
            \/ /\ ~\E v \in Uploads : Recoverable(v) /\ Available(clock)
               /\ batch[u].state = "committed" /\ PendingDeletes(u) # {}
         /\ Start(w, "cron", RecoverBatch(New("cron", "idle", u, u)))
    /\ UNCHANGED <<storeVars, expiryVars>>

\* Faulty variant: claimItem does not look at the space.
SpaceGuardedNoClaim ==
    {"readPending", "readSpace", "reserve", "beginCommit", "acquireGuard", "finalize"}

\* The calls whose statement, or the check before it, requires the space.
SpaceGuarded ==
    {"readPending", "readSpace", "reserve", "claim", "beginCommit",
     "acquireGuard", "finalize"}

\* The statement matches no row: what the handler does then.
Refused(w) ==
    /\ req[w].pc \in SpaceGuarded
    /\ ~Available(req[w].now)
    /\ IF At(w, "finalize") THEN FailRecovery(w)
       ELSE IF At(w, "acquireGuard") /\ batch[req[w].t].state = "committed"
       THEN Continue(w, AfterRecover(req[w]))
       ELSE Finish(w)
    /\ UNCHANGED <<storeVars, clock, crashes, expiryVars>>

Step(w) ==
    /\ req[w].pc \in SpaceGuarded => Available(req[w].now)
    /\ Advance(w) \/ D1Fails(w)
    /\ UNCHANGED expiryVars

WorkerCrash(w) == Crash(w) /\ UNCHANGED expiryVars

\* The runtime ends an invocation that has run for MaxRun.
Pass ==
    /\ \A c \in Cleaners : cleaner[c].pc # "idle" => clock < cleaner[c].now + MaxRun
    /\ Tick
    /\ UNCHANGED expiryVars

-----------------------------------------------------------------------------
(* cleanupExpiredSpaces *)

InPhase(c, pc) == cleaner[c].pc = pc
Becomes(c, r) == cleaner' = [cleaner EXCEPT ![c] = r]
Moves(c, pc) == Becomes(c, [cleaner[c] EXCEPT !.pc = pc])

\* Faulty variant: a batch that is being recovered does not hold it back.
ClaimableIgnoringRecovery(now) ==
    \/ life.state = "active" /\ life.expires <= now
    \/ life.state = "deleting" /\ life.lease <= now

\* Faulty variant: a lease that was never given back is never taken over.
ClaimableReleased(now) ==
    /\ \/ life.state = "active" /\ life.expires <= now
       \/ life.state = "deleting" /\ life.lease = 0
    /\ guard = {}

\* Guards of batches that are gone were deleted with them.
Claimable(now) ==
    /\ \/ life.state = "active" /\ life.expires <= now
       \/ life.state = "deleting" /\ life.lease <= now
    /\ guard = {}

\* Faulty variant: the lease is taken but the space stays active.
ClaimExpiredLeaseOnly(c) ==
    /\ InPhase(c, "idle")
    /\ Claimable(clock)
    /\ life' = [life EXCEPT !.lease = clock + CleanupLease]
    /\ Becomes(c, [NoCleaner EXCEPT !.pc = "list", !.now = clock,
                                    !.lease = clock + CleanupLease])
    /\ UNCHANGED <<vars, created, gone>>

ClaimExpired(c) ==
    /\ InPhase(c, "idle")
    /\ Claimable(clock)
    /\ life' = [life EXCEPT !.state = "deleting", !.lease = clock + CleanupLease]
    /\ Becomes(c, [NoCleaner EXCEPT !.pc = "list", !.now = clock,
                                    !.lease = clock + CleanupLease])
    /\ UNCHANGED <<vars, created, gone>>

ItemRows == {r \in Uploads \X Assets : item[r[1]][r[2]].state # "absent"}
DeleteRows == {r \in Uploads \X Assets : del[r[1]][r[2]] # "absent"}
AssetRows == {a \in Assets : asset[a].hash # None}
BatchRows == {u \in Uploads : batch[u].state # "absent"}

\* The rows of the first table that has any, RowLimit at most; the order of
\* the query is left open.
Listed(phase) ==
    LET rows == CASE phase = "items" -> ItemRows [] phase = "dels" -> DeleteRows
                  [] phase = "assets" -> AssetRows [] OTHER -> BatchRows
    IN  {s \in SUBSET rows : Cardinality(s) = Min({RowLimit, Cardinality(rows)})}
CurrentPhase ==
    IF ItemRows # {} THEN "items" ELSE IF DeleteRows # {} THEN "dels"
    ELSE IF AssetRows # {} THEN "assets" ELSE "batches"

\* Faulty variant: what a PUT has written but no commit has published stays.
KeysOfSettled(phase, rows) ==
    CASE phase = "dels"   -> {r[2] : r \in rows} \X Slots
      [] phase = "assets" -> rows \X Slots
      [] OTHER            -> {}

KeysOf(phase, rows) ==
    CASE phase = "items"  -> {<<r[2], item[r[1]][r[2]].slot>> : r \in rows}
      [] phase = "dels"   -> {r[2] : r \in rows} \X Slots
      [] phase = "assets" -> rows \X Slots
      [] OTHER            -> {}

IsLive(r, now) == item[r[1]][r[2]].state = "uploading" /\ item[r[1]][r[2]].lease > now

\* An upload in progress among the listed items ends the run.
ListRows(c) ==
    /\ InPhase(c, "list")
    /\ LET phase == CurrentPhase
       IN  \E rows \in Listed(phase) :
             IF rows = {} THEN Moves(c, "finish")
             ELSE IF phase = "items" /\ \E r \in rows : IsLive(r, cleaner[c].now)
             THEN Moves(c, "release")
             ELSE Becomes(c, [cleaner[c] EXCEPT
                                !.phase = phase, !.rows = rows, !.keys = KeysOf(phase, rows),
                                !.mps = IF phase = "items"
                                        THEN {item[r[1]][r[2]].mp : r \in rows} \ {None} ELSE {},
                                !.pc = CASE phase = "items" -> "abort"
                                         [] phase = "batches" -> "rows" [] OTHER -> "objects"])
    /\ UNCHANGED <<vars, life, created, gone>>

\* Each abort may fail, and is not retried.
AbortListed(c) ==
    /\ InPhase(c, "abort")
    /\ \E ms \in SUBSET cleaner[c].mps : AbortMultipartUploads(ms)
    /\ Moves(c, "objects")
    /\ UNCHANGED <<clock, crashes, req, life, created, gone>>

DeleteKeys(c) ==
    /\ InPhase(c, "objects")
    /\ object' = [a \in Assets |-> [s \in Slots |->
                    IF <<a, s>> \in cleaner[c].keys THEN NoObject ELSE object[a][s]]]
    /\ Moves(c, "rows")
    /\ UNCHANGED <<d1Vars, multipart, clock, crashes, req, life, created, gone>>

NoBatch == [state |-> "absent", base |-> None, epoch |-> 0, expires |-> 0]

\* One D1 batch; the guards of a batch go with it.
DeleteListed(c) ==
    /\ InPhase(c, "rows")
    /\ LET rows == cleaner[c].rows
           phase == cleaner[c].phase
       IN  /\ item' = [u \in Uploads |-> [a \in Assets |->
                         IF phase = "items" /\ <<u, a>> \in rows
                         THEN AbsentItem ELSE item[u][a]]]
           /\ del' = [u \in Uploads |-> [a \in Assets |->
                        IF phase = "dels" /\ <<u, a>> \in rows THEN "absent" ELSE del[u][a]]]
           /\ asset' = [a \in Assets |->
                          IF phase = "assets" /\ a \in rows THEN AbsentAsset ELSE asset[a]]
           /\ batch' = [u \in Uploads |->
                          IF phase = "batches" /\ u \in rows THEN NoBatch ELSE batch[u]]
           /\ guard' = IF phase = "batches" THEN guard \ rows ELSE guard
           /\ gone' = IF phase = "batches" THEN gone \cup rows ELSE gone
    /\ Moves(c, "release")
    /\ UNCHANGED <<space, r2Vars, clock, crashes, req, life, created>>

CanFinish(c) ==
    /\ life.state = "deleting" /\ life.lease = cleaner[c].lease
    /\ ItemRows = {} /\ DeleteRows = {} /\ AssetRows = {} /\ BatchRows = {}

\* DELETE of the space row: what it held besides its lifecycle is gone too.
FinishCleanup(c) ==
    /\ InPhase(c, "finish")
    /\ IF CanFinish(c)
       THEN /\ life' = NoSpace
            /\ space' = [revision |-> None, epoch |-> 0, pending |-> None]
            /\ Becomes(c, NoCleaner)
       ELSE UNCHANGED <<life, space>> /\ Moves(c, "release")
    /\ UNCHANGED <<batch, item, del, asset, guard, r2Vars, clock, crashes, req, created, gone>>

\* The finally clause gives back this invocation's lease only.
ReleaseLease(c) ==
    /\ InPhase(c, "release")
    /\ life' = IF life.state = "deleting" /\ life.lease = cleaner[c].lease
               THEN [life EXCEPT !.lease = 0] ELSE life
    /\ Becomes(c, NoCleaner)
    /\ UNCHANGED <<vars, created, gone>>

\* R2 or D1 is unavailable: the error is thrown through the finally clause.
\* MaxCrashes bounds these faults together with the crashes.
CleanupFails(c) ==
    /\ cleaner[c].pc \in {"list", "objects", "rows", "finish"}
    /\ crashes < MaxCrashes
    /\ crashes' = crashes + 1
    /\ Moves(c, "release")
    /\ UNCHANGED <<storeVars, clock, req, life, created, gone>>

\* The invocation disappears with its lease taken.
CleanerCrash(c) ==
    /\ ~InPhase(c, "idle")
    /\ crashes < MaxCrashes /\ clock <= LastCrash
    /\ crashes' = crashes + 1
    /\ Becomes(c, NoCleaner)
    /\ UNCHANGED <<storeVars, clock, req, life, created, gone>>

CleanerStep(c) ==
    ClaimExpired(c) \/ ListRows(c) \/ AbortListed(c) \/ DeleteKeys(c)
      \/ DeleteListed(c) \/ FinishCleanup(c) \/ ReleaseLease(c)

ExpiryNext ==
    \/ Pass \/ CreateSpace
    \/ \E w \in Workers :
         SpaceRequest(w) \/ RecoveryCron(w) \/ Refused(w) \/ Step(w) \/ WorkerCrash(w)
    \/ \E c \in Cleaners : CleanerStep(c) \/ CleanupFails(c) \/ CleanerCrash(c)

ExpirySpec == ExpiryInit /\ [][ExpiryNext]_allVars

\* Requests run on and the cron comes round.
ExpiryFairness ==
    /\ WF_allVars(Pass)
    /\ \A w \in Workers : WF_allVars(Step(w) \/ Refused(w))
    /\ \A c \in Cleaners : WF_allVars(CleanerStep(c))

FairExpirySpec == ExpirySpec /\ ExpiryFairness

-----------------------------------------------------------------------------
(* Properties *)

\* Recovery of a commit and removal of the space exclude each other: no
\* recover guard exists, and none is believed held, once removal has begun.
CleanupExcludesRecovery ==
    life.state = "deleting" => guard = {} /\ \A w \in Workers : ~req[w].held

\* Every object of the bucket is named by a row the clean-up has yet to visit,
\* so a run that stops between any two calls loses track of nothing.
ObjectsNamed ==
    \A a \in Assets, s \in Slots : object[a][s] # NoObject =>
      \/ asset[a].hash # None
      \/ \E u \in Uploads : del[u][a] # "absent"
      \/ \E u \in Uploads : item[u][a].state # "absent" /\ item[u][a].slot = s

\* When the space row is gone nothing of the space is left in D1 or R2.
NothingLeft ==
    life.state = "absent" =>
      /\ ItemRows = {} /\ DeleteRows = {} /\ AssetRows = {} /\ BatchRows = {}
      /\ guard = {} /\ space.pending = None
      /\ \A a \in Assets, s \in Slots : object[a][s] = NoObject

\* Expiry takes nothing from the promises of the upload path: until the first
\* space of an id is marked deleting, whatever statements were refused and
\* recoveries skipped at its expiry, lock, revision, rows and objects agree.
UploadsIntact ==
    life.state = "active" /\ created = 1 =>
      /\ LockInv /\ RevisionInv /\ GuardInv
      /\ SealedInv /\ PublishedRowInv /\ TargetSlotInv
      /\ PublishedObjectInv /\ NothingWrittenBeforeCommit

\* A clean-up never takes the item row from a PUT whose lease is running: no
\* PUT can claim an item between the listing and the deletion.
LiveUploadKept ==
    [][\A c \in Cleaners, u \in Uploads, a \in Assets :
         /\ InPhase(c, "rows") /\ cleaner'[c] # cleaner[c]
         /\ item[u][a].state # "absent" /\ item'[u][a].state = "absent"
         => ~IsLive(<<u, a>>, cleaner[c].now)]_allVars

\* An expired space is removed in the end, whatever fails on the way.
ExpiredReclaimed ==
    life.state = "active" /\ clock >= life.expires ~> life.state = "absent"
=============================================================================
