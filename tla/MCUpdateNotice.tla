--------------------------- MODULE MCUpdateNotice ---------------------------
(* Small instances of UpdateNotice for TLC. *)
EXTENDS UpdateNotice, TLC

\* v0.9.0, v0.10.0 and v1.0.0.
MCNumber == [r \in Releases |-> <<<<0, 9, 0>>, <<0, 10, 0>>, <<1, 0, 0>>>>[r]]
=============================================================================
