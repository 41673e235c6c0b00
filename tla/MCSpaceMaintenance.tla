------------------------- MODULE MCSpaceMaintenance -------------------------
(* Instances of SpaceMaintenance small enough for TLC. *)
EXTENDS SpaceMaintenance

CONSTANTS b1, b2, b3, s1

MCHome == [b \in Batches |-> IF b = b3 THEN s1 ELSE Account]
MCMayBreak == {{<<b1, "committing">>}, {<<b2, "committed">>}}
=============================================================================
