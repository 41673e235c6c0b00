--------------------------- MODULE MCSpaceService ---------------------------
(* Instances of SpaceService small enough for TLC. *)
EXTENDS SpaceService, TLC

CONSTANTS
    small,      \* the payload below both thresholds; every other one is above
    w1          \* the worker clients' requests run in when duties are split

MCSize == [b \in Blobs |-> IF b = small THEN 1 ELSE 3]

Put(a, b) == [NoPlan EXCEPT !.put[a] = b]
Delete(a) == [NoPlan EXCEPT !.del = {a}]

PutOnly == {Put(a, b) : a \in Assets, b \in Blobs}
PutOrDelete == PutOnly \cup {Delete(a) : a \in Assets}

AnyDuty == [w \in Workers |-> Ops]
ClientsAndCron ==
    [w \in Workers |-> IF w = w1 THEN Ops \ {"cron"} ELSE {"cron"}]
UploadsAndCron ==
    [w \in Workers |-> IF w = w1 THEN {"prepare", "put", "commit", "cancel"} ELSE {"cron"}]
PutsAside ==
    [w \in Workers |-> IF w = w1 THEN Ops \ {"put"} ELSE {"put"}]

UploadSymmetry == Permutations(Uploads) \cup Permutations(Multiparts)
FullSymmetry == UploadSymmetry \cup Permutations(Workers)
=============================================================================
