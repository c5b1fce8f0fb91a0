---------------------------- MODULE MCMasterKey ----------------------------
(* Small instances of MasterKey for TLC. *)
EXTENDS MasterKey, TLC

CONSTANTS alice, bob, ka, kb, kb2, laptop, server, m1, m2, m3

\* One shell per clone: the shells are named by their clones.
OneShellEach == [p \in Procs |-> p]

\* alice works on the laptop; bob on the server, with his old key.
MCIdentity == [c \in Clones |-> IF c = laptop THEN {ka} ELSE {kb}]

\* bob replaces his key by that of a machine he shares with alice.
ChangingKeys == [u \in Users |-> IF u = alice THEN {{ka, kb2}} ELSE {{kb}, {kb2}}]
\* Everybody keeps one key.
OneKeyEach == [u \in Users |-> IF u = alice THEN {{ka}} ELSE {{kb}}]

Symmetry == Permutations(MasterKeys) \union Permutations(Safes)
=============================================================================
