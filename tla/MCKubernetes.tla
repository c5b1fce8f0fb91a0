---------------------------- MODULE MCKubernetes ----------------------------
(* Small instances of Kubernetes for TLC. *)
EXTENDS Kubernetes, TLC

CONSTANTS alpha, beta, laptop, server

\* secrets/db-main and secrets/db/main are both Secret db-main.
Colliding == {"db-main", "db/main"}
StringOrder == {<<"db-main", "db-main">>, <<"db-main", "db/main">>, <<"db/main", "db/main">>}
SecretName == [f \in Paths |-> IF f = "db/main" THEN "db-main" ELSE f]

OneSafe == [c \in Clones |-> alpha]
OwnSafes == [c \in Clones |-> IF c = laptop THEN alpha ELSE beta]

Symmetry == Permutations(Contents)
=============================================================================
