---------------------------- MODULE MCCreateSafe ----------------------------
(* Small instances of CreateSafe for TLC. *)
EXTENDS CreateSafe, TLC

CONSTANTS p1, p2

Symmetry == Permutations(Procs)
=============================================================================
