---------------------------- MODULE AccessPolicy ----------------------------
(***************************************************************************)
(* What the published access files promise, without commands, clones,      *)
(* files or failures: who is a member, which master key is current, and    *)
(* which SSH keys have ever been able to open each master key.             *)
(*                                                                         *)
(* A change of the published files either keeps the current key, and then  *)
(* everybody listed stays listed, or moves on to a key nobody has seen.    *)
(***************************************************************************)
CONSTANTS Users, Keys, MasterKeys, NoKey

VARIABLES
    members,  \* the SSH keys pinned for each user; none for an outsider
    current,  \* the master key in use, NoKey before there is one
    opened    \* the SSH keys each master key has ever been sealed to

Pins == [Users -> SUBSET Keys]
PinnedKeys(pins) == UNION {pins[u] : u \in Users}

Init == /\ members = [u \in Users |-> {}]
        /\ current = NoKey
        /\ opened = [m \in MasterKeys |-> {}]

\* The published files now pin the keys in members', and m is sealed to them.
Sealed(m) ==
    /\ members' \in Pins
    /\ current' = m
    /\ opened' = [opened EXCEPT ![m] = @ \union PinnedKeys(members')]

\* Grants under the current key: nobody is dropped.
Amend ==
    /\ current # NoKey
    /\ Sealed(current)
    /\ \A u \in Users : members[u] # {} => members'[u] # {}

\* The first grant, and every revoke: a key that was never published.
Rotate(m) ==
    /\ opened[m] = {} /\ m # current
    /\ Sealed(m)
    /\ \E u \in Users : members'[u] # {}

Next == Amend \/ \E m \in MasterKeys : Rotate(m)

Spec == Init /\ [][Next]_<<members, current, opened>>
=============================================================================
