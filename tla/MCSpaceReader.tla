---------------------------- MODULE MCSpaceReader ----------------------------
(* Instances of SpaceReader small enough for TLC. *)
EXTENDS SpaceReader, TLC

CONSTANTS
    small,      \* the payload at the lower threshold
    middle      \* one between the thresholds; every other one is at the upper

MCSize == [b \in Blobs |-> CASE b = small -> 1 [] b = middle -> 2 [] OTHER -> 3]

PutOnly == {[NoPlan EXCEPT !.put[a] = b] : a \in Assets, b \in Blobs}
PutOrDelete == PutOnly \cup {[NoPlan EXCEPT !.del = {a}] : a \in Assets}

Writers == [w \in Workers |-> {"prepare", "put", "commit", "cron"}]

ReaderSymmetry ==
    Permutations(Uploads) \cup Permutations(Multiparts) \cup Permutations(Readers)
      \cup Permutations(Blobs \ {small, middle})
=============================================================================
