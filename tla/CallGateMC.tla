----------------------------- MODULE CallGateMC -----------------------------
(* Instances of CallGate for TLC. *)
EXTENDS CallGate, TLC
=============================================================================
