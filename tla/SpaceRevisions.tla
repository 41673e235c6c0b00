--------------------------- MODULE SpaceRevisions ---------------------------
(***************************************************************************)
(* What the upload protocol promises the clients of a space.  One upload   *)
(* at a time holds the space; while it is open nothing of it is visible;   *)
(* once sealed it can only be published; publishing replaces the revision, *)
(* advances the epoch and applies the whole plan in one step.              *)
(***************************************************************************)
EXTENDS Integers

CONSTANTS Uploads, Assets, Blobs, Plans, None

VARIABLES
    revision,       \* the published revision: the upload it came from
    epoch,
    contents,       \* the payload of each asset in that revision
    lock,           \* the upload that holds the space
    sealed,         \* it can no longer be abandoned
    plan            \* the mutations each upload was begun with

revisionVars == <<revision, epoch, contents, lock, sealed, plan>>

EmptyPlan == [put |-> [a \in Assets |-> None], del |-> {}]

Init ==
    /\ revision = None
    /\ epoch = 0
    /\ contents = [a \in Assets |-> None]
    /\ lock = None
    /\ sealed = FALSE
    /\ plan = [u \in Uploads |-> EmptyPlan]

\* The plan deletes only what is there.
Begin(u, p) ==
    /\ lock = None
    /\ plan[u] = EmptyPlan
    /\ \A a \in p.del : contents[a] # None
    /\ plan' = [plan EXCEPT ![u] = p]
    /\ lock' = u
    /\ UNCHANGED <<revision, epoch, contents, sealed>>

Abandon ==
    /\ lock # None
    /\ ~sealed
    /\ lock' = None
    /\ UNCHANGED <<revision, epoch, contents, sealed, plan>>

Seal ==
    /\ lock # None
    /\ ~sealed
    /\ sealed' = TRUE
    /\ UNCHANGED <<revision, epoch, contents, lock, plan>>

Publish ==
    /\ sealed
    /\ revision' = lock
    /\ epoch' = epoch + 1
    /\ contents' = [a \in Assets |->
                      IF a \in plan[lock].del THEN None
                      ELSE IF plan[lock].put[a] # None THEN plan[lock].put[a]
                      ELSE contents[a]]
    /\ lock' = None
    /\ sealed' = FALSE
    /\ UNCHANGED plan

Next ==
    \/ \E u \in Uploads, p \in Plans \ {EmptyPlan} : Begin(u, p)
    \/ Abandon \/ Seal \/ Publish

Spec == Init /\ [][Next]_revisionVars
=============================================================================
