----------------------------- MODULE MCBackends -----------------------------
(* Small instances of Backends for TLC. *)
EXTENDS Backends, TLC

\* The names in the order of strings. Three of them are copies of db.
Sorted == <<"api.yaml", "db.json.enc", "db.yaml", "db.yaml.enc">>
MCPathOf == [n \in Files |-> IF n = "api.yaml" THEN "api" ELSE "db"]
MCBefore == {<<Sorted[j[1]], Sorted[j[2]]>> : j \in {j \in (1..4) \X (1..4) : j[1] <= j[2]}}
              \union {<<"api", "api">>, <<"api", "db">>, <<"db", "db">>}
=============================================================================
