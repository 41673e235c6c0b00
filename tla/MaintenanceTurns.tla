-------------------------- MODULE MaintenanceTurns --------------------------
(***************************************************************************)
(* SpaceMaintenance with a history: how often the cron has worked on one   *)
(* batch while another one of the same list was waiting.                   *)
(***************************************************************************)
EXTENDS SpaceMaintenance

VARIABLE
    turns           \* turns[b][c]: units of work on c since anybody worked on b

turnVars == <<vars, turns>>

NoTurns == [c \in Batches |-> 0]

TurnsInit == Init /\ turns = [b \in Batches |-> NoTurns]

\* The two lists that cleanupRecoverableBatches takes the oldest batch of.
SameList(b, c) ==
    \/ {b, c} \subseteq Recoverable
    \/ {b, c} \subseteq PendingDeletes

\* A unit of work of the cron that ends, or fails and is recorded.
CountedTurn(c) ==
    turns' = [b \in Batches |->
                IF b = c THEN NoTurns
                ELSE IF SameList(b, c) THEN [turns[b] EXCEPT ![c] = @ + 1] ELSE turns[b]]

TurnsNext ==
    \/ \E c \in Batches :
         \/ (RecoverBatch(c) \/ RecoveryFails(c)) /\ CountedTurn(c)
         \/ /\ \/ ClientRecovers(c) \/ LeaveGuard(c)
               \/ \E state \in {"committing", "cancelling"} : BeginEnd(c, state)
            /\ turns' = [turns EXCEPT ![c] = NoTurns]
    \/ /\ Arrival \/ NothingDone \/ \E s \in Spaces : CleanSpace(s)
       /\ UNCHANGED turns

TurnsSpec == TurnsInit /\ [][TurnsNext]_turnVars

\* A waiting batch sees every other batch taken up at most once before it is its turn,
\* although it may come into the list in the middle, others keep coming, clients work on
\* any of them at any time, and those that fail come back.  updated_at is all the cron
\* goes by.
OneTurnEach == \A b, c \in Batches : turns[b][c] <= 1
=============================================================================
