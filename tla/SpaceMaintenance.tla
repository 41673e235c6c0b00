-------------------------- MODULE SpaceMaintenance --------------------------
(***************************************************************************)
(* The scheduled maintenance of the sync worker over all spaces.  Every    *)
(* slot of five minutes runs one invocation, and one invocation handles    *)
(* one unit of work: RowLimit rows of an expired space, or one upload      *)
(* batch.  This module is about which unit that is; what happens inside a  *)
(* unit, call by call, is in SpaceService and SpaceExpiry.                 *)
(***************************************************************************)
EXTENDS Naturals, Sequences

CONSTANTS
    Spaces,         \* anonymous spaces
    Batches,        \* upload batches
    Account,        \* the home of batches in spaces that never expire
    Home,           \* [Batches -> Spaces \cup {Account}]
    Runs,           \* how many runs the rows of a space take
    MaxRetries,     \* how often clients retry what fails
    MayBreak,       \* the choice of what R2 fails to do for ever
    MayStick        \* batches whose recover guard may be left behind

ASSUME MaintenanceAssumption ==
    /\ Account \notin Spaces
    /\ Home \in [Batches -> Spaces \cup {Account}]
    /\ Runs \in Nat \ {0}
    /\ MaxRetries \in Nat
    /\ MayBreak \subseteq SUBSET (Batches \X {"committing", "committed"})
    /\ MayStick \subseteq Batches

VARIABLES
    slot,           \* parity of the current slot
    queue,          \* batches by updated_at, the oldest first
    work,           \* the state of a batch, as far as maintenance goes
    expired,        \* expired spaces by expires_at
    rows,           \* runs a space still needs before it is gone
    broken,         \* <<batch, state>>: objects R2 can never complete, or delete
    stuck,          \* committing batches whose recover guard was left behind
    retries         \* how often clients have retried what failed

vars == <<slot, queue, work, expired, rows, broken, stuck, retries>>

\* "expired" is a prepared batch past its expires_at, "committed" one with
\* published deletions to clean up; a batch that leaves nothing to do is "closed".
WorkStates ==
    {"none", "prepared", "expired", "cancelling", "committing", "committed", "closed"}

Elements(s) == {s[i] : i \in DOMAIN s}
Distinct(s) == \A i, j \in DOMAIN s : s[i] = s[j] => i = j

MaintenanceTypeOK ==
    /\ slot \in {"even", "odd"}
    /\ work \in [Batches -> WorkStates]
    /\ queue \in Seq(Batches) /\ Distinct(queue)
    /\ Elements(queue) = {b \in Batches : work[b] # "none"}
    /\ expired \in Seq(Spaces) /\ Distinct(expired)
    /\ rows \in [Spaces -> 0 .. Runs]
    /\ \A s \in Spaces \ Elements(expired) : rows[s] = Runs
    /\ broken \in MayBreak
    /\ stuck \subseteq MayStick
    /\ retries \in 0 .. MaxRetries

Init ==
    /\ slot = "even"
    /\ queue = <<>>
    /\ work = [b \in Batches |-> "none"]
    /\ expired = <<>>
    /\ rows = [s \in Spaces |-> Runs]
    /\ broken \in MayBreak
    /\ stuck = {}
    /\ retries = 0

Active(s) == s \notin Elements(expired)

-----------------------------------------------------------------------------
(* The order of the units of work *)

\* The first of the members of S by the order of q: ORDER BY ... LIMIT 1.
FirstOf(q, S, x) ==
    \E i \in DOMAIN q :
      /\ q[i] = x
      /\ x \in S
      /\ \A j \in 1 .. i - 1 : q[j] \notin S

\* Faulty variant: a recovery that fails leaves updated_at as it is.
RequeuedUnchanged(b) == queue

\* updated_at becomes the time of the unit of work: b is the youngest now.
Requeued(b) ==
    LET place == CHOOSE i \in DOMAIN queue : queue[i] = b
    IN  [j \in DOMAIN queue |->
           IF j < place THEN queue[j] ELSE IF j < Len(queue) THEN queue[j + 1] ELSE b]

-----------------------------------------------------------------------------
(* Work arrives *)

Open(b) == work[b] \in {"prepared", "expired", "cancelling", "committing"}

\* reserveUpload: a space has one open upload at a time.
Begin(b) ==
    /\ work[b] = "none"
    /\ Active(Home[b])
    /\ Home[b] # Account => \A c \in Batches : Home[c] = Home[b] => ~Open(c)
    /\ work' = [work EXCEPT ![b] = "prepared"]
    /\ queue' = Append(queue, b)
    /\ UNCHANGED <<slot, expired, rows, broken, stuck, retries>>

\* beginCommit, beginCancel; what follows may not.
BeginEnd(b, state) ==
    /\ work[b] = "prepared"
    /\ Active(Home[b])
    /\ work' = [work EXCEPT ![b] = state]
    /\ queue' = Requeued(b)
    /\ UNCHANGED <<slot, expired, rows, broken, stuck, retries>>

\* A prepared batch expires where it is in the queue.
ExpireBatch(b) ==
    /\ work[b] = "prepared"
    /\ work' = [work EXCEPT ![b] = "expired"]
    /\ UNCHANGED <<slot, queue, expired, rows, broken, stuck, retries>>

ExpireSpace(s) ==
    /\ Active(s)
    /\ expired' = Append(expired, s)
    /\ UNCHANGED <<slot, queue, work, rows, broken, stuck, retries>>

-----------------------------------------------------------------------------
(* One unit of work on a batch, of the cron or of a client *)

Recoverable ==
    {b \in Batches : /\ work[b] \in {"expired", "cancelling", "committing"}
                     /\ Active(Home[b])}
PendingDeletes == {b \in Batches : work[b] = "committed"}

\* recoverBatch answers 409 before it has done anything.
Refused(b) == b \in stuck /\ work[b] = "committing"

\* beginCancel may succeed and finishCancel not; finalizeCommit may succeed and
\* the clean-up of the deletions not.
Later ==
    [s \in WorkStates |->
       IF s = "expired" THEN {"cancelling", "closed"}
       ELSE IF s = "committing" THEN {"committed", "closed"}
       ELSE IF s \in {"cancelling", "committed"} THEN {"closed"} ELSE {}]

Advances(b) ==
    /\ <<b, work[b]>> \notin broken
    /\ \E s \in Later[work[b]] : work' = [work EXCEPT ![b] = s]
    /\ queue' = Requeued(b)

\* setBatchError.
Fails(b) ==
    /\ work[b] \in {"committing", "committed"}
    /\ queue' = Requeued(b)
    /\ UNCHANGED work

\* The retry of a commit or of its prepare, the prepare of the next upload, or an abort.
ClientRecovers(b) ==
    /\ b \in Recoverable \cup PendingDeletes
    /\ Active(Home[b])
    /\ ~Refused(b)
    /\ \/ Advances(b) /\ UNCHANGED retries
       \/ Fails(b) /\ retries < MaxRetries /\ retries' = retries + 1
    /\ UNCHANGED <<slot, expired, rows, broken, stuck>>

\* A client's request or an invocation disappears between acquireRecoverGuard and
\* releaseRecoverGuard, with its work on the batch done or not.
LeaveGuard(b) ==
    /\ work[b] = "committing"
    /\ Active(Home[b])
    /\ b \in MayStick \ stuck
    /\ stuck' = stuck \cup {b}
    /\ Advances(b) \/ UNCHANGED <<queue, work>>
    /\ UNCHANGED <<slot, expired, rows, broken, retries>>

-----------------------------------------------------------------------------
(* One scheduled invocation *)

NextSlot == slot' = IF slot = "even" THEN "odd" ELSE "even"

\* Faulty variant: recovery goes first in every slot.
ExpiredFirstNever == FALSE
ExpiredFirst == slot = "even"

\* Faulty variant: recover guards are not looked at.
ClaimableGuarded == {s \in Spaces : s \in Elements(expired) /\ rows[s] > 0}
\* claimExpiredSpace takes no space with a recover guard.
Claimable ==
    {s \in Spaces : /\ s \in Elements(expired)
                    /\ rows[s] > 0
                    /\ \A b \in stuck : Home[b] # s}

\* Published deletions are looked at only when no batch is recoverable.
IsNext(b) ==
    \/ FirstOf(queue, Recoverable, b)
    \/ Recoverable = {} /\ FirstOf(queue, PendingDeletes, b)

SpaceTurn == ExpiredFirst \/ Recoverable \cup PendingDeletes = {}
BatchTurn == ~ExpiredFirst \/ Claimable = {}

\* One run over the rows of the expired space; the last one removes the space,
\* and with it what its batches had left to do.
CleanSpace(s) ==
    /\ SpaceTurn
    /\ FirstOf(expired, Claimable, s)
    /\ rows' = [rows EXCEPT ![s] = @ - 1]
    /\ work' = [b \in Batches |->
                  IF rows[s] = 1 /\ Home[b] = s /\ work[b] # "none" THEN "closed" ELSE work[b]]
    /\ NextSlot
    /\ UNCHANGED <<queue, expired, broken, stuck, retries>>

CronTurn(b) == BatchTurn /\ IsNext(b) /\ ~Refused(b)

RecoverBatch(b) ==
    /\ NextSlot
    /\ CronTurn(b)
    /\ Advances(b)
    /\ UNCHANGED <<expired, rows, broken, stuck, retries>>

\* A failed recovery ends the invocation with an error.
RecoveryFails(b) ==
    /\ NextSlot
    /\ CronTurn(b)
    /\ Fails(b)
    /\ UNCHANGED <<expired, rows, broken, stuck, retries>>

\* The invocation is lost, throws before it has done anything, is refused a guard,
\* waits for a PUT in progress, or finds nothing to do.
NothingDone == NextSlot /\ UNCHANGED <<queue, work, expired, rows, broken, stuck, retries>>

-----------------------------------------------------------------------------
Arrival ==
    \/ \E b \in Batches : Begin(b) \/ ExpireBatch(b)
    \/ \E s \in Spaces : ExpireSpace(s)

Next ==
    \/ Arrival
    \/ \E b \in Batches :
         \/ \E state \in {"committing", "cancelling"} : BeginEnd(b, state)
         \/ ClientRecovers(b) \/ LeaveGuard(b)
         \/ RecoverBatch(b) \/ RecoveryFails(b)
    \/ \E s \in Spaces : CleanSpace(s)
    \/ NothingDone

Spec == Init /\ [][Next]_vars

\* Time passes, the cron fires for ever, and a unit of work that comes up again and again
\* is not lost for ever, and does not fail for ever unless R2 cannot do it.
Fairness ==
    /\ WF_slot(NextSlot)
    /\ \A s \in Spaces : WF_expired(ExpireSpace(s)) /\ SF_rows(CleanSpace(s))
    /\ \A b \in Batches :
         SF_slot(RecoverBatch(b) \/ (RecoveryFails(b) /\ <<b, work[b]>> \in broken))

FairSpec == Spec /\ Fairness

-----------------------------------------------------------------------------
(* Properties *)

\* A recovery whose guard was left behind may still be at work: the space it works in
\* keeps every row, although it expires with the batch half done and comes up in every
\* invocation, and no guard is taken in a space that has begun to go.
GuardedSpaceKept == \A b \in stuck : Home[b] # Account => rows[Home[b]] = Runs

\* A guard left behind in a space that does not expire: nobody gets past it.
Blocked == \E b \in Batches : Refused(b) /\ Home[b] = Account

\* Batches whose recovery fails every time do not hold up those of others,
\* and neither does a backlog of expired spaces.  A guard left behind does.
OthersRecovered ==
    \A b \in Batches :
      b \in Recoverable /\ <<b, "committing">> \notin broken
        ~> b \notin Recoverable \/ Blocked

\* An expired space is removed, however many batches fail before or after it in
\* every invocation, unless a guard was left behind in it.
SpacesReclaimed ==
    \A s \in Spaces : s \in Elements(expired) ~> rows[s] = 0 \/ \E b \in stuck : Home[b] = s

BrokenRecovery ==
    \E b \in Batches :
      Home[b] = Account /\ work[b] = "committing" /\ <<b, "committing">> \in broken

\* A published deletion is retried until it is done, other deletions that fail
\* for ever notwithstanding, as long as no recovery fails for ever: a batch that
\* nobody can recover keeps every invocation from looking at deletions.
DeletionsRetried ==
    \A b \in Batches :
      b \in PendingDeletes /\ <<b, "committed">> \notin broken
        ~> b \notin PendingDeletes \/ BrokenRecovery \/ Blocked
=============================================================================
