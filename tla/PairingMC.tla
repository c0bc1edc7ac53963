----------------------------- MODULE PairingMC -----------------------------
(* Instances of Pairing for TLC. *)
EXTENDS Pairing, TLC

CONSTANTS i1, i2

\* Ids are only ever compared.
IdSymmetry == Permutations({i1, i2})
=============================================================================
