-------------------------- MODULE ClientConfigMC --------------------------
(* Instances of ClientConfig for TLC. *)
EXTENDS ClientConfig, TLC

CONSTANTS r1, r2, r3, github, my_server, old, new

\* Runs and paths are only ever compared.
RunSymmetry == Permutations({r1, r2, r3}) \cup Permutations({old, new})
=============================================================================
