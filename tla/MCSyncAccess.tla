---------------------------- MODULE MCSyncAccess ----------------------------
(* Instances of SyncAccess small enough for TLC. *)
EXTENDS SyncAccess, TLC

CONSTANTS e1, m     \* an id of an anonymous space, and the id "mine"

MCEphemeralIds == {e1}

AccessSymmetry ==
    Permutations(Accounts) \cup Permutations(Workers) \cup Permutations(Keys)
      \cup Permutations(Spaces \ {e1, m})
=============================================================================
