---------------------------- MODULE RelayStartMC ----------------------------
(* Instances of RelayStart, and with it of Connectors, for TLC. *)
EXTENDS RelayStart

CONSTANTS t1, r1, r2, c1, c2, c3
=============================================================================
