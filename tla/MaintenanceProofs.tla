------------------------- MODULE MaintenanceProofs -------------------------
(***************************************************************************)
(* Theorems about the scheduled maintenance that hold for every number of  *)
(* batches and spaces: the order of the queue, and what it gives to a      *)
(* batch that waits.                                                       *)
(***************************************************************************)
EXTENDS MaintenanceTurns, SequenceTheorems, TLAPS

-----------------------------------------------------------------------------
(* Sequences without repetition *)

\* q with its i-th element at the end.
Rotated(q, i) ==
    [j \in DOMAIN q |->
       IF j < i THEN q[j] ELSE IF j < Len(q) THEN q[j + 1] ELSE q[i]]

\* Where an element of q is in Rotated(q, i).
Moved(q, i, k) == IF k < i THEN k ELSE IF k = i THEN Len(q) ELSE k - 1

Precedes(q, x, y) == \E i, j \in DOMAIN q : i < j /\ q[i] = x /\ q[j] = y

\* Rotating a sequence only permutes it.
LEMMA RotatedPermutes ==
    ASSUME NEW S, NEW q \in Seq(S), NEW i \in DOMAIN q
    PROVE  /\ Rotated(q, i) \in Seq(S)
           /\ DOMAIN Rotated(q, i) = DOMAIN q
           /\ \A k \in DOMAIN q : /\ Moved(q, i, k) \in DOMAIN q
                                  /\ Rotated(q, i)[Moved(q, i, k)] = q[k]
           /\ \A j \in DOMAIN q : \E k \in DOMAIN q : Moved(q, i, k) = j
<1> DEFINE n == Len(q)
           r == Rotated(q, i)
<1>1. n \in Nat /\ DOMAIN q = 1 .. n /\ \A k \in 1 .. n : q[k] \in S
  OBVIOUS
<1>2. \A j \in 1 .. n : r[j] \in S
  BY <1>1 DEF Rotated
<1>3. r \in [1 .. n -> S]
  BY <1>1, <1>2 DEF Rotated
<1>4. r \in Seq(S)
  BY <1>1, <1>3, SeqDef
<1>5. ASSUME NEW k \in 1 .. n
      PROVE  Moved(q, i, k) \in 1 .. n /\ r[Moved(q, i, k)] = q[k]
  BY <1>1, <1>5 DEF Moved, Rotated
<1>6. ASSUME NEW j \in 1 .. n
      PROVE  \E k \in 1 .. n : Moved(q, i, k) = j
  <2>1. i \in 1 .. n /\ j \in 1 .. n
    BY <1>1
  <2>2. \A k \in 1 .. n : Moved(q, i, k) = IF k < i THEN k ELSE IF k = i THEN n ELSE k - 1
    BY DEF Moved
  <2> HIDE DEF n
  <2>3. CASE j < i
    BY <2>1, <2>2, <2>3
  <2>4. CASE ~(j < i) /\ j # n
    <3>1. j + 1 \in 1 .. n /\ ~(j + 1 < i) /\ j + 1 # i /\ (j + 1) - 1 = j
      BY <1>1, <2>1, <2>4
    <3> QED BY <2>2, <3>1
  <2>5. CASE j = n
    BY <1>1, <2>1, <2>2, <2>5
  <2> QED BY <2>3, <2>4, <2>5
<1>7. DOMAIN r = DOMAIN q
  BY DEF Rotated
<1> QED BY <1>1, <1>4, <1>5, <1>6, <1>7

\* It keeps the order of the others, and puts the one it moves behind them.
LEMMA RotatedOrder ==
    ASSUME NEW S, NEW q \in Seq(S), NEW i \in DOMAIN q, Distinct(q)
    PROVE  /\ Distinct(Rotated(q, i))
           /\ Elements(Rotated(q, i)) = Elements(q)
           /\ \A x, y : x # q[i] /\ Precedes(q, x, y) => Precedes(Rotated(q, i), x, y)
           /\ \A x \in Elements(q) \ {q[i]} : Precedes(Rotated(q, i), x, q[i])
<1> DEFINE n == Len(q)
           r == Rotated(q, i)
           m(k) == Moved(q, i, k)
<1>1. n \in Nat /\ DOMAIN q = 1 .. n
  OBVIOUS
<1>2. /\ DOMAIN r = 1 .. n
      /\ \A k \in 1 .. n : m(k) \in 1 .. n /\ r[m(k)] = q[k]
      /\ \A j \in 1 .. n : \E k \in 1 .. n : m(k) = j
  <2>1. /\ DOMAIN Rotated(q, i) = DOMAIN q
        /\ \A k \in DOMAIN q : /\ Moved(q, i, k) \in DOMAIN q
                               /\ Rotated(q, i)[Moved(q, i, k)] = q[k]
        /\ \A j \in DOMAIN q : \E k \in DOMAIN q : Moved(q, i, k) = j
    BY RotatedPermutes
  <2> QED BY <1>1, <2>1
<1>3. \A k, l \in 1 .. n : k # i /\ (k < l \/ l = i) /\ k # l => m(k) < m(l)
  BY <1>1 DEF Moved
<1>4. m(i) = n
  BY <1>1 DEF Moved
<1>5. \A k, l \in 1 .. n : q[k] = q[l] => k = l
  BY <1>1 DEF Distinct
<1> HIDE DEF r, m
<1>6. Distinct(r)
  <2> SUFFICES ASSUME NEW j1 \in 1 .. n, NEW j2 \in 1 .. n, r[j1] = r[j2] PROVE j1 = j2
    BY <1>2 DEF Distinct
  <2>1. PICK k1 \in 1 .. n : m(k1) = j1
    BY <1>2
  <2>2. PICK k2 \in 1 .. n : m(k2) = j2
    BY <1>2
  <2> QED BY <1>2, <1>5, <2>1, <2>2
<1>7. Elements(r) = Elements(q)
  <2>1. \A j \in 1 .. n : \E k \in 1 .. n : r[j] = q[k]
    BY <1>2
  <2>2. \A k \in 1 .. n : \E j \in 1 .. n : r[j] = q[k]
    BY <1>2
  <2>3. Elements(q) = {q[k] : k \in 1 .. n} /\ Elements(r) = {r[j] : j \in 1 .. n}
    BY <1>1, <1>2 DEF Elements
  <2> HIDE DEF n
  <2> QED BY <2>1, <2>2, <2>3
<1>8. ASSUME NEW x, NEW y, x # q[i], Precedes(q, x, y) PROVE Precedes(r, x, y)
  <2>1. PICK k \in 1 .. n : \E l \in 1 .. n : k < l /\ q[k] = x /\ q[l] = y
    BY <1>1, <1>8 DEF Precedes
  <2>2. PICK l \in 1 .. n : k < l /\ q[k] = x /\ q[l] = y
    BY <2>1
  <2>3. m(k) \in 1 .. n /\ m(l) \in 1 .. n /\ m(k) < m(l) /\ r[m(k)] = x /\ r[m(l)] = y
    BY <1>1, <1>2, <1>3, <1>8, <2>2
  <2> QED BY <1>2, <2>3 DEF Precedes
<1>9. ASSUME NEW x \in Elements(q) \ {q[i]} PROVE Precedes(r, x, q[i])
  <2>1. PICK k \in 1 .. n : q[k] = x
    BY <1>1 DEF Elements
  <2>2. m(k) \in 1 .. n /\ m(i) \in 1 .. n /\ m(k) < m(i) /\ r[m(k)] = x /\ r[m(i)] = q[i]
    BY <1>1, <1>2, <1>3, <2>1
  <2> QED BY <1>2, <2>2 DEF Precedes
<1> QED BY <1>6, <1>7, <1>8, <1>9 DEF r

\* Appending a new element keeps a sequence distinct and ordered as it was.
LEMMA AppendedOrder ==
    ASSUME NEW S, NEW q \in Seq(S), Distinct(q), NEW x \in S, x \notin Elements(q)
    PROVE  /\ Append(q, x) \in Seq(S)
           /\ Distinct(Append(q, x))
           /\ Elements(Append(q, x)) = Elements(q) \cup {x}
           /\ \A y, z : Precedes(q, y, z) => Precedes(Append(q, x), y, z)
<1> DEFINE n == Len(q)
           r == Append(q, x)
<1>1. n \in Nat /\ DOMAIN q = 1 .. n /\ r \in Seq(S)
  OBVIOUS
<1>2. /\ DOMAIN r = 1 .. n + 1 /\ r[n + 1] = x
      /\ \A k \in 1 .. n : k \in 1 .. n + 1 /\ r[k] = q[k]
  BY <1>1
<1>3. \A k \in 1 .. n + 1 : k \in 1 .. n \/ k = n + 1
  BY <1>1
<1>4. \A k \in 1 .. n : q[k] # x
  BY <1>1 DEF Elements
<1> HIDE DEF r
<1>5. Distinct(r)
  BY <1>1, <1>2, <1>3, <1>4 DEF Distinct
<1>6. Elements(r) = Elements(q) \cup {x}
  <2>1. Elements(q) = {q[k] : k \in 1 .. n} /\ Elements(r) = {r[k] : k \in 1 .. n + 1}
    BY <1>1, <1>2 DEF Elements
  <2>2. n + 1 \in 1 .. n + 1
    BY <1>1
  <2> QED BY <1>2, <1>3, <2>1, <2>2
<1>7. ASSUME NEW y, NEW z, Precedes(q, y, z) PROVE Precedes(r, y, z)
  BY <1>1, <1>2, <1>7 DEF Precedes
<1> QED BY <1>1, <1>5, <1>6, <1>7 DEF r

-----------------------------------------------------------------------------
(* The queue *)

\* Requeued moves the batch to the end of the queue.
LEMMA RequeuedRotates ==
    ASSUME queue \in Seq(Batches), Distinct(queue), NEW b \in Elements(queue)
    PROVE  \E i \in DOMAIN queue : queue[i] = b /\ Requeued(b) = Rotated(queue, i)
<1>1. PICK i \in DOMAIN queue : queue[i] = b
  BY DEF Elements
<1>2. (CHOOSE k \in DOMAIN queue : queue[k] = b) = i
  BY <1>1 DEF Distinct
<1> QED BY <1>1, <1>2 DEF Requeued, Rotated

\* So every batch keeps its place before those behind it, but for the one that
\* was worked on, and that comes behind all of them.
LEMMA RequeuedOrder ==
    ASSUME MaintenanceTypeOK, NEW b \in Batches, work[b] # "none", queue' = Requeued(b)
    PROVE  /\ queue' \in Seq(Batches) /\ Distinct(queue')
           /\ Elements(queue') = Elements(queue)
           /\ \A c, d : c # b /\ Precedes(queue, c, d) => Precedes(queue', c, d)
           /\ \A c \in Elements(queue) \ {b} : Precedes(queue', c, b)
<1>1. queue \in Seq(Batches) /\ Distinct(queue) /\ b \in Elements(queue)
  BY DEF MaintenanceTypeOK
<1>2. PICK i \in DOMAIN queue : queue[i] = b /\ queue' = Rotated(queue, i)
  BY <1>1, RequeuedRotates
<1>3. queue' \in Seq(Batches)
  BY <1>1, <1>2, RotatedPermutes
<1>4. /\ Distinct(Rotated(queue, i))
      /\ Elements(Rotated(queue, i)) = Elements(queue)
      /\ \A x, y : x # queue[i] /\ Precedes(queue, x, y) => Precedes(Rotated(queue, i), x, y)
      /\ \A x \in Elements(queue) \ {queue[i]} : Precedes(Rotated(queue, i), x, queue[i])
  BY <1>1, RotatedOrder
<1> QED BY <1>2, <1>3, <1>4

\* What is left of the type invariant when the queue only changes its order.
LEMMA WorkMoves ==
    ASSUME MaintenanceTypeOK, NEW b \in Batches, work[b] # "none",
           NEW s \in WorkStates \ {"none"}, work' = [work EXCEPT ![b] = s]
    PROVE  /\ work' \in [Batches -> WorkStates]
           /\ {c \in Batches : work'[c] # "none"} = {c \in Batches : work[c] # "none"}
BY DEF MaintenanceTypeOK

\* A unit of work on a batch, by whomever.
LEMMA UnitOfWork ==
    ASSUME MaintenanceTypeOK, NEW b \in Batches, Advances(b) \/ Fails(b)
    PROVE  /\ work[b] # "none" /\ queue' = Requeued(b)
           /\ work' \in [Batches -> WorkStates]
           /\ {c \in Batches : work'[c] # "none"} = {c \in Batches : work[c] # "none"}
<1>1. CASE Fails(b)
  BY <1>1 DEF Fails, MaintenanceTypeOK
<1>2. CASE Advances(b)
  <2>1. work[b] \in WorkStates
    BY DEF MaintenanceTypeOK
  <2>2. PICK s \in Later[work[b]] : work' = [work EXCEPT ![b] = s]
    BY <1>2 DEF Advances
  <2>3. work[b] # "none" /\ s \in WorkStates \ {"none"}
    BY <2>1, <2>2 DEF Later, WorkStates
  <2> QED BY <1>2, <2>2, <2>3, WorkMoves DEF Advances
<1> QED BY <1>1, <1>2

-----------------------------------------------------------------------------
(* Types *)

LEMMA TypeInit == Init => MaintenanceTypeOK
<1> SUFFICES ASSUME Init PROVE MaintenanceTypeOK
  OBVIOUS
<1>1. /\ queue \in Seq(Batches) /\ expired \in Seq(Spaces)
      /\ DOMAIN queue = {} /\ DOMAIN expired = {}
  BY DEF Init
<1>2. /\ Distinct(queue) /\ Distinct(expired)
      /\ Elements(queue) = {} /\ Elements(expired) = {}
  BY <1>1 DEF Distinct, Elements
<1> QED BY <1>1, <1>2, MaintenanceAssumption DEF Init, MaintenanceTypeOK, WorkStates

\* NextSlot alternates.
LEMMA SlotTyped == ASSUME NextSlot PROVE slot' \in {"even", "odd"}
BY DEF NextSlot

\* One step per action.
LEMMA TypeNext ==
    ASSUME MaintenanceTypeOK, [Next]_vars
    PROVE  MaintenanceTypeOK'
<1> USE MaintenanceAssumption
<1>1. ASSUME NEW b \in Batches, Begin(b) PROVE MaintenanceTypeOK'
  <2>1. b \notin Elements(queue)
    BY <1>1 DEF Begin, MaintenanceTypeOK
  <2>2. /\ queue' \in Seq(Batches) /\ Distinct(queue')
        /\ Elements(queue') = Elements(queue) \cup {b}
    BY <1>1, <2>1, AppendedOrder DEF Begin, MaintenanceTypeOK
  <2> QED BY <1>1, <2>2 DEF Begin, MaintenanceTypeOK, WorkStates
<1>2. ASSUME NEW b \in Batches, ExpireBatch(b) PROVE MaintenanceTypeOK'
  BY <1>2 DEF ExpireBatch, MaintenanceTypeOK, WorkStates
<1>3. ASSUME NEW s \in Spaces, ExpireSpace(s) PROVE MaintenanceTypeOK'
  <2>1. /\ expired' \in Seq(Spaces) /\ Distinct(expired')
        /\ Elements(expired') = Elements(expired) \cup {s}
    BY <1>3, AppendedOrder DEF ExpireSpace, Active, MaintenanceTypeOK
  <2> QED BY <1>3, <2>1 DEF ExpireSpace, MaintenanceTypeOK
<1>4. ASSUME NEW b \in Batches, NEW state \in {"committing", "cancelling"}, BeginEnd(b, state)
      PROVE  MaintenanceTypeOK'
  <2>1. work[b] # "none" /\ state \in WorkStates \ {"none"}
    BY <1>4 DEF BeginEnd, WorkStates
  <2>2. /\ work' \in [Batches -> WorkStates]
        /\ {c \in Batches : work'[c] # "none"} = {c \in Batches : work[c] # "none"}
    BY <1>4, <2>1, WorkMoves DEF BeginEnd
  <2> QED BY <1>4, <2>1, <2>2, RequeuedOrder DEF BeginEnd, MaintenanceTypeOK
<1>5. ASSUME NEW b \in Batches, Advances(b) \/ Fails(b), slot' \in {"even", "odd"},
             stuck' \subseteq MayStick, retries' \in 0 .. MaxRetries,
             UNCHANGED <<expired, rows, broken>>
      PROVE  MaintenanceTypeOK'
  BY <1>5, UnitOfWork, RequeuedOrder DEF MaintenanceTypeOK
<1>6. ASSUME NEW b \in Batches, ClientRecovers(b) PROVE MaintenanceTypeOK'
  <2>1. retries' \in 0 .. MaxRetries
    BY <1>6 DEF ClientRecovers, MaintenanceTypeOK
  <2> QED BY <1>5, <1>6, <2>1 DEF ClientRecovers, MaintenanceTypeOK
<1>7. ASSUME NEW b \in Batches, LeaveGuard(b) PROVE MaintenanceTypeOK'
  <2>1. stuck' \subseteq MayStick
    BY <1>7 DEF LeaveGuard, MaintenanceTypeOK
  <2>2. CASE Advances(b)
    BY <1>5, <1>7, <2>1, <2>2 DEF LeaveGuard, MaintenanceTypeOK
  <2>3. CASE UNCHANGED <<queue, work>>
    BY <1>7, <2>1, <2>3 DEF LeaveGuard, MaintenanceTypeOK
  <2> QED BY <1>7, <2>2, <2>3 DEF LeaveGuard
<1>8. ASSUME NEW b \in Batches, RecoverBatch(b) \/ RecoveryFails(b) PROVE MaintenanceTypeOK'
  BY <1>5, <1>8, SlotTyped DEF RecoverBatch, RecoveryFails, MaintenanceTypeOK
<1>9. ASSUME NEW s \in Spaces, CleanSpace(s) PROVE MaintenanceTypeOK'
  <2>1. s \in Elements(expired) /\ rows[s] \in 1 .. Runs
    BY <1>9 DEF CleanSpace, FirstOf, Claimable, MaintenanceTypeOK
  <2>2. /\ rows' \in [Spaces -> 0 .. Runs]
        /\ \A t \in Spaces \ {s} : rows'[t] = rows[t]
    BY <1>9, <2>1 DEF CleanSpace, MaintenanceTypeOK
  <2>3. /\ work' \in [Batches -> WorkStates]
        /\ {c \in Batches : work'[c] # "none"} = {c \in Batches : work[c] # "none"}
    BY <1>9 DEF CleanSpace, MaintenanceTypeOK, WorkStates
  <2>4. \A t \in Spaces \ Elements(expired) : rows'[t] = Runs
    BY <2>1, <2>2 DEF MaintenanceTypeOK
  <2>5. slot' \in {"even", "odd"} /\ UNCHANGED <<queue, expired, broken, stuck, retries>>
    BY <1>9, SlotTyped DEF CleanSpace
  <2> QED BY <2>2, <2>3, <2>4, <2>5 DEF MaintenanceTypeOK
<1>10. CASE NothingDone
  BY <1>10, SlotTyped DEF NothingDone, MaintenanceTypeOK
<1>11. CASE UNCHANGED vars
  BY <1>11 DEF vars, MaintenanceTypeOK
<1> QED BY <1>1, <1>2, <1>3, <1>4, <1>6, <1>7, <1>8, <1>9, <1>10, <1>11 DEF Next, Arrival

(***************************************************************************)
(* The queue of batches and the order of the expired spaces never lose,    *)
(* repeat or invent an entry, whoever works on which batch: setBatchError, *)
(* beginCommit, beginCancel and finalizeCommit move one row each.          *)
(***************************************************************************)
THEOREM MaintenanceTypeCorrect == Spec => []MaintenanceTypeOK
BY TypeInit, TypeNext, PTL DEF Spec

\* Only a claim takes rows from a space, and it takes none from one with a guard; a guard is
\* only taken in a space that is not expired, and such a space has all its rows.
LEMMA GuardedStep ==
    ASSUME MaintenanceTypeOK, GuardedSpaceKept, [Next]_vars
    PROVE  GuardedSpaceKept'
<1>1. ASSUME NEW b \in Batches, LeaveGuard(b) PROVE GuardedSpaceKept'
  <2>1. rows' = rows /\ stuck' = stuck \cup {b}
    BY <1>1 DEF LeaveGuard
  <2>2. Home[b] # Account => Home[b] \in Spaces \ Elements(expired)
    BY <1>1, MaintenanceAssumption DEF LeaveGuard, Active
  <2>3. Home[b] # Account => rows[Home[b]] = Runs
    BY <2>2 DEF MaintenanceTypeOK
  <2> QED BY <2>1, <2>3 DEF GuardedSpaceKept
<1>2. ASSUME NEW s \in Spaces, CleanSpace(s) PROVE GuardedSpaceKept'
  <2>1. /\ \A b \in stuck : Home[b] # s
        /\ rows' = [rows EXCEPT ![s] = @ - 1] /\ stuck' = stuck
    BY <1>2 DEF CleanSpace, FirstOf, Claimable
  <2>2. \A b \in stuck : Home[b] # Account => rows'[Home[b]] = rows[Home[b]]
    BY <2>1 DEF MaintenanceTypeOK
  <2> QED BY <2>1, <2>2 DEF GuardedSpaceKept
<1>3. CASE UNCHANGED <<rows, stuck>>
  BY <1>3 DEF GuardedSpaceKept
<1> QED
  BY <1>1, <1>2, <1>3
  DEF Next, Arrival, Begin, ExpireBatch, ExpireSpace, BeginEnd, ClientRecovers,
      RecoverBatch, RecoveryFails, NothingDone, vars

\* The removal of an expired space and a recovery in it exclude each other through the
\* guard of the batch, even when the recovery never comes back to give the guard up.
THEOREM GuardedSpaceCorrect == Spec => []GuardedSpaceKept
<1>1. Init => GuardedSpaceKept
  BY DEF Init, GuardedSpaceKept
<1> QED BY <1>1, GuardedStep, MaintenanceTypeCorrect, PTL DEF Spec

-----------------------------------------------------------------------------
(* The turns of a batch *)

\* A batch that was worked on while another one waited is behind it now.
BehindInv ==
    /\ turns \in [Batches -> [Batches -> {0, 1}]]
    /\ \A b, c \in Batches : turns[b][c] = 1 => Precedes(queue, b, c)

TurnsInv == MaintenanceTypeOK /\ BehindInv

\* The cron takes a batch that no other one of the same list precedes.
LEMMA NextIsOldest ==
    ASSUME MaintenanceTypeOK, NEW b \in Batches, NEW c \in Batches,
           IsNext(c), SameList(b, c)
    PROVE  ~Precedes(queue, b, c)
<1> DEFINE L == IF {b, c} \subseteq Recoverable THEN Recoverable ELSE PendingDeletes
<1>1. b \in L /\ FirstOf(queue, L, c)
  <2>1. CASE {b, c} \subseteq Recoverable
    BY <2>1 DEF IsNext
  <2>2. CASE ~({b, c} \subseteq Recoverable)
    <3>1. {b, c} \subseteq PendingDeletes
      BY <2>2 DEF SameList
    <3>2. c \notin Recoverable
      BY <3>1 DEF Recoverable, PendingDeletes
    <3> QED BY <2>2, <3>1, <3>2 DEF IsNext, FirstOf
  <2> QED BY <2>1, <2>2
<1>2. PICK i \in DOMAIN queue : queue[i] = c /\ \A j \in 1 .. i - 1 : queue[j] \notin L
  BY <1>1 DEF FirstOf
<1> SUFFICES ASSUME NEW j \in DOMAIN queue, NEW k \in DOMAIN queue,
                    j < k, queue[j] = b, queue[k] = c
             PROVE  FALSE
  BY DEF Precedes
<1>3. k = i
  BY <1>2 DEF MaintenanceTypeOK, Distinct
<1>4. DOMAIN queue = 1 .. Len(queue) /\ Len(queue) \in Nat
  BY DEF MaintenanceTypeOK
<1>5. j \in 1 .. i - 1
  BY <1>3, <1>4
<1> QED BY <1>1, <1>2, <1>5

\* Both lists are in the queue.
LEMMA ListsQueued ==
    ASSUME MaintenanceTypeOK, NEW b \in Batches, NEW c \in Batches, SameList(b, c)
    PROVE  b \in Elements(queue)
BY DEF SameList, Recoverable, PendingDeletes, MaintenanceTypeOK

\* The cron works on c: the others of its list see that, and c is behind them.
LEMMA CountedKeeps ==
    ASSUME TurnsInv, NEW c \in Batches, RecoverBatch(c) \/ RecoveryFails(c), CountedTurn(c)
    PROVE  BehindInv'
<1>1. MaintenanceTypeOK /\ IsNext(c) /\ (Advances(c) \/ Fails(c))
  BY DEF TurnsInv, RecoverBatch, RecoveryFails, CronTurn
<1>2. /\ \A b, d : b # c /\ Precedes(queue, b, d) => Precedes(queue', b, d)
      /\ \A b \in Elements(queue) \ {c} : Precedes(queue', b, c)
  BY <1>1, UnitOfWork, RequeuedOrder
<1>3. \A b, d \in Batches :
        turns'[b][d] = IF b = c THEN 0
                       ELSE IF d = c /\ SameList(b, c) THEN turns[b][d] + 1 ELSE turns[b][d]
  BY DEF CountedTurn, NoTurns, TurnsInv, BehindInv
<1>4. ASSUME NEW b \in Batches, b # c, SameList(b, c)
      PROVE  turns[b][c] = 0 /\ Precedes(queue', b, c)
  <2>1. ~Precedes(queue, b, c) /\ b \in Elements(queue)
    BY <1>1, <1>4, NextIsOldest, ListsQueued
  <2> QED BY <1>2, <1>4, <2>1 DEF TurnsInv, BehindInv
<1>5. \A b, d \in Batches : turns[b][d] \in {0, 1}
  BY DEF TurnsInv, BehindInv
<1>6. ASSUME NEW b \in Batches, NEW d \in Batches
      PROVE  /\ turns'[b][d] \in {0, 1}
             /\ turns'[b][d] = 1 => Precedes(queue', b, d)
  <2>1. CASE b = c
    BY <1>3, <2>1
  <2>2. CASE b # c /\ d = c /\ SameList(b, c)
    BY <1>3, <1>4, <2>2
  <2>3. CASE b # c /\ ~(d = c /\ SameList(b, c))
    BY <1>2, <1>3, <1>5, <2>3 DEF TurnsInv, BehindInv
  <2> QED BY <2>1, <2>2, <2>3
<1>7. \A b \in Batches : DOMAIN turns[b] = Batches /\ turns[b] \in [Batches -> {0, 1}]
  BY DEF TurnsInv, BehindInv
<1>8. /\ DOMAIN turns' = Batches
      /\ \A b \in Batches : turns'[b] = [d \in Batches |-> turns'[b][d]]
  BY <1>7 DEF CountedTurn, NoTurns
<1>9. turns' \in [Batches -> [Batches -> {0, 1}]]
  <2>1. \A b \in Batches : turns'[b] \in [Batches -> {0, 1}]
    BY <1>6, <1>8
  <2>2. turns' = [b \in Batches |-> turns'[b]]
    BY <1>8 DEF CountedTurn
  <2> QED BY <2>1, <2>2
<1> QED BY <1>6, <1>9 DEF BehindInv

\* A client or a lost worker works on c: its own count starts again.
LEMMA ResetKeeps ==
    ASSUME TurnsInv, NEW c \in Batches, turns' = [turns EXCEPT ![c] = NoTurns],
           \A b, d : b # c /\ Precedes(queue, b, d) => Precedes(queue', b, d)
    PROVE  BehindInv'
<1>1. NoTurns \in [Batches -> {0, 1}] /\ \A d \in Batches : NoTurns[d] = 0
  BY DEF NoTurns
<1>2. turns' \in [Batches -> [Batches -> {0, 1}]]
  BY <1>1 DEF TurnsInv, BehindInv
<1>3. \A b \in Batches : turns'[b] = IF b = c THEN NoTurns ELSE turns[b]
  BY DEF TurnsInv, BehindInv
<1> QED BY <1>1, <1>2, <1>3 DEF TurnsInv, BehindInv

\* Nobody works on a batch: whoever precedes another one goes on preceding it.
LEMMA StandingKeeps ==
    ASSUME TurnsInv, UNCHANGED turns,
           \A b, d : Precedes(queue, b, d) => Precedes(queue', b, d)
    PROVE  BehindInv'
BY DEF TurnsInv, BehindInv

LEMMA TurnsNextKeeps ==
    ASSUME TurnsInv, [TurnsNext]_turnVars
    PROVE  TurnsInv'
<1>1. MaintenanceTypeOK /\ [Next]_vars
  BY DEF TurnsInv, TurnsNext, turnVars, Next
<1>2. MaintenanceTypeOK'
  BY <1>1, TypeNext
<1>3. ASSUME NEW c \in Batches, RecoverBatch(c) \/ RecoveryFails(c), CountedTurn(c)
      PROVE  BehindInv'
  BY <1>3, CountedKeeps
<1>4. ASSUME NEW c \in Batches, ClientRecovers(c) \/ LeaveGuard(c),
             turns' = [turns EXCEPT ![c] = NoTurns]
      PROVE  BehindInv'
  <2>1. CASE Advances(c) \/ Fails(c)
    BY <1>1, <1>4, <2>1, UnitOfWork, RequeuedOrder, ResetKeeps
  <2>2. CASE UNCHANGED <<queue, work>>
    BY <1>4, <2>2, ResetKeeps
  <2> QED BY <1>4, <2>1, <2>2 DEF ClientRecovers, LeaveGuard
<1>5. ASSUME NEW c \in Batches, NEW state \in {"committing", "cancelling"}, BeginEnd(c, state),
             turns' = [turns EXCEPT ![c] = NoTurns]
      PROVE  BehindInv'
  BY <1>1, <1>5, RequeuedOrder, ResetKeeps DEF BeginEnd
<1>6. ASSUME NEW b \in Batches, Begin(b), UNCHANGED turns PROVE BehindInv'
  <2>1. b \notin Elements(queue)
    BY <1>1, <1>6 DEF Begin, MaintenanceTypeOK
  <2>2. \A c, d : Precedes(queue, c, d) => Precedes(queue', c, d)
    BY <1>1, <1>6, <2>1, AppendedOrder DEF Begin, MaintenanceTypeOK
  <2> QED BY <1>6, <2>2, StandingKeeps
<1>7. ASSUME queue' = queue, turns' = turns PROVE BehindInv'
  BY <1>7, StandingKeeps
<1>8. ASSUME TurnsNext PROVE BehindInv'
  <2>1. CASE Arrival /\ UNCHANGED turns
    <3>1. ASSUME NEW b \in Batches, ExpireBatch(b) PROVE BehindInv'
      BY <1>7, <2>1, <3>1 DEF ExpireBatch
    <3>2. ASSUME NEW s \in Spaces, ExpireSpace(s) PROVE BehindInv'
      BY <1>7, <2>1, <3>2 DEF ExpireSpace
    <3> QED BY <1>6, <2>1, <3>1, <3>2 DEF Arrival
  <2>2. CASE NothingDone /\ UNCHANGED turns
    BY <1>7, <2>2 DEF NothingDone
  <2>3. ASSUME NEW s \in Spaces, CleanSpace(s), UNCHANGED turns PROVE BehindInv'
    BY <1>7, <2>3 DEF CleanSpace
  <2> QED BY <1>3, <1>4, <1>5, <1>8, <2>1, <2>2, <2>3 DEF TurnsNext
<1>9. ASSUME UNCHANGED turnVars PROVE BehindInv'
  BY <1>7, <1>9 DEF turnVars, vars
<1> QED BY <1>2, <1>8, <1>9 DEF TurnsInv

(***************************************************************************)
(* listRecoverableBatches and listPendingDeleteCleanupBatches order by     *)
(* updated_at, and every unit of work on a batch sets it: of any number of *)
(* batches that fail and come back, none is worked on twice before one     *)
(* that waits has its turn.                                                *)
(***************************************************************************)
THEOREM OneTurnCorrect == TurnsSpec => []OneTurnEach
<1>1. TurnsInit => TurnsInv
  <2> SUFFICES ASSUME TurnsInit PROVE TurnsInv
    OBVIOUS
  <2>1. MaintenanceTypeOK
    BY TypeInit DEF TurnsInit
  <2>2. turns \in [Batches -> [Batches -> {0, 1}]] /\ \A b, c \in Batches : turns[b][c] = 0
    BY DEF TurnsInit, NoTurns
  <2> QED BY <2>1, <2>2 DEF TurnsInv, BehindInv
<1>2. TurnsInv => OneTurnEach
  BY DEF TurnsInv, BehindInv, OneTurnEach
<1> QED BY <1>1, <1>2, TurnsNextKeeps, PTL DEF TurnsSpec
=============================================================================
