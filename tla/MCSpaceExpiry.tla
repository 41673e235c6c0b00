---------------------------- MODULE MCSpaceExpiry ----------------------------
(* Instances of SpaceExpiry small enough for TLC. *)
EXTENDS SpaceExpiry, TLC

CONSTANT small      \* the payload below both thresholds

MCSize == [b \in Blobs |-> IF b = small THEN 1 ELSE 3]

PutOnly == {[NoPlan EXCEPT !.put[a] = b] : a \in Assets, b \in Blobs}
PutOrDelete == PutOnly \cup {[NoPlan EXCEPT !.del = {a}] : a \in Assets}

AnyDuty == [w \in Workers |-> Ops]

ExpirySymmetry ==
    Permutations(Uploads) \cup Permutations(Multiparts) \cup Permutations(Cleaners)
      \cup Permutations(Blobs \ {small})
=============================================================================
