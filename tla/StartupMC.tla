------------------------------ MODULE StartupMC ------------------------------
(* Instances of Startup for TLC. *)
EXTENDS Startup

CONSTANTS d1, d2
=============================================================================
