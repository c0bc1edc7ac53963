------------------------------ MODULE JournalMC ------------------------------
(* The instance of Journal that TLC checks. *)
EXTENDS Journal

CONSTANTS w1, w2, b1, b2
=============================================================================
