-------------------------- MODULE MCTelemetryShadow --------------------------
(* An instance of TelemetryShadow small enough for TLC. *)
EXTENDS TelemetryShadow, TLC

CONSTANTS h1, h2    \* a hash in lower case and another install's

MCLowerCase == [h \in Hashes |-> IF h = h2 THEN h2 ELSE h1]
=============================================================================
