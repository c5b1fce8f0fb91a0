--------------------------- MODULE MCSecretFiles ---------------------------
(* Small instances of SecretFiles for TLC. *)
EXTENDS SecretFiles, TLC

Symmetry == Permutations(Secrets) \union Permutations(Shells)
=============================================================================
