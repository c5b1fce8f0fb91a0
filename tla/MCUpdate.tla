------------------------------ MODULE MCUpdate ------------------------------
(* Small instances of Update for TLC. *)
EXTENDS Update, TLC

\* v0.9.1, a commit after it, v0.10.0, and v1.0.0, which does not run here.
MCTags == 1 :> <<0, 9, 1>> @@ 3 :> <<0, 10, 0>> @@ 4 :> <<1, 0, 0>>

Symmetry == Permutations(Shells)
=============================================================================
