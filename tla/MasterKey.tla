------------------------------ MODULE MasterKey ------------------------------
(***************************************************************************)
(* The project master key of penhan: how `access grant`, `access revoke`,  *)
(* `unlock`, `wrap` and `add` read and write the shared files of a project *)
(* in several clones, and what the published branch then holds.            *)
(*                                                                         *)
(* A clone's work tree is abstracted to the three kinds of committed file: *)
(*   check, users        .penhan/access.yaml (master_check, pinned keys)   *)
(*   sealedKey, sealedTo .penhan/master.age (the key, who can open it)     *)
(*   wrapped[s]          <safe>/.penhan/<method>.key.enc: the master key   *)
(*                       that opens it (a safe has one key of its own)     *)
(* A file that is absent holds NoKey; a file cut short by a crash, Torn.   *)
(* The check value of a master key stands for the key: both are unique.    *)
(*                                                                         *)
(* A command reads and computes in one step, then writes its files one at  *)
(* a time, in the order of the code. Between two writes it can be killed,  *)
(* a write can fail, and any other command can run.                        *)
(***************************************************************************)
EXTENDS Integers

CONSTANTS
    Users,        \* GitHub users
    Keys,         \* SSH key pairs
    Safes,        \* safes the project may come to have
    Clones,       \* work trees of the project, one per machine
    Procs,        \* shells in which commands run
    MasterKeys,   \* master keys that GenerateMasterKey may return
    NoKey, Torn,  \* no file, and a file left incomplete
    CloneOf,      \* the clone each shell works in
    Identity,     \* the SSH private keys on each clone's machine
    GitHub,       \* per user, the key sets a grant may fetch or select
    Environment,  \* clones that run with $PENHAN_MASTER_KEY (CI)
    MayMerge,     \* whether git merges a clone's own changes with others'
    MaxStops      \* bound on commands that stop halfway

ASSUME ConstantsOk ==
    /\ NoKey \notin MasterKeys /\ Torn \notin MasterKeys /\ NoKey # Torn
    /\ CloneOf \in [Procs -> Clones]
    /\ Identity \in [Clones -> SUBSET Keys]
    /\ GitHub \in [Users -> SUBSET ((SUBSET Keys) \ {{}})]
    /\ Environment \subseteq Clones
    /\ MayMerge \in BOOLEAN
    /\ MaxStops \in Nat

VARIABLES
    remote,     \* the tree of the published branch
    base,       \* per clone, the published tree it last had
    tree,       \* per clone, its work tree
    masterKey,  \* per clone, .penhan/master.key
    envKey,     \* per clone, $PENHAN_MASTER_KEY
    safeKey,    \* per clone, the safes with a plaintext key in it
    generated,  \* master keys generated so far
    op,         \* per shell, the command in progress
    failed,     \* clones where a command stopped between two writes
    stops,      \* how many commands stopped so far
    opened      \* history: SSH keys to which each master key was published

vars == <<remote, base, tree, masterKey, envKey, safeKey, generated, op,
          failed, stops, opened>>

-----------------------------------------------------------------------------
(* Files *)

MaybeKey == MasterKeys \union {NoKey, Torn}
NoUsers == [u \in Users |-> {}]

\* access.yaml lists u exactly when its set of pinned keys is not empty:
\* neither FetchGitHubKeys nor selectKeys returns an empty list.
Tree == [check: MaybeKey, users: [Users -> SUBSET Keys],
         sealedKey: MaybeKey, sealedTo: SUBSET Keys,
         wrapped: [Safes -> MaybeKey]]

EmptyTree == [check |-> NoKey, users |-> NoUsers, sealedKey |-> NoKey,
              sealedTo |-> {}, wrapped |-> [s \in Safes |-> NoKey]]

\* The recipients Seal encrypts to: every pinned key of every user.
Pinned(users) == UNION {users[u] : u \in Users}

Members(t) == {u \in Users : t.users[u] # {}}

-----------------------------------------------------------------------------
(* Commands in progress *)

Steps == {"idle", "store", "rewrap", "seal", "save", "generate", "wrap"}
Commands == {"none", "grant", "revoke", "unlock", "wrap", "add"}

Op == [cmd: Commands, step: Steps, master: MaybeKey,
       users: [Users -> SUBSET Keys], todo: SUBSET Safes]

Idle == [cmd |-> "none", step |-> "idle", master |-> NoKey,
         users |-> NoUsers, todo |-> {}]

Busy(p) == op[p].step # "idle"
Quiet(c) == \A p \in Procs : CloneOf[p] = c => ~Busy(p)

\* FindRoot: the project exists once access.yaml does.
HasAccess(c) == tree[c].check # NoKey

\* readMaster: the environment wins over .penhan/master.key.
ReadMaster(c) == IF envKey[c] # NoKey THEN envKey[c] ELSE masterKey[c]

\* LoadMaster: a key that is readable and that access.yaml recognises.
Unlocked(c) == HasAccess(c) /\ ReadMaster(c) \in MasterKeys
                            /\ ReadMaster(c) = tree[c].check

-----------------------------------------------------------------------------
(* The first half of each command: read, check, compute. The guards are    *)
(* its errors and early returns; nothing is written yet.                   *)

Begin(p, cmd, step, m, users, todo) ==
    /\ ~Busy(p)
    /\ op' = [op EXCEPT ![p] = [cmd |-> cmd, step |-> step, master |-> m,
                                users |-> users, todo |-> todo]]

\* GenerateMasterKey never returns the same key twice.
Generate(m) == m \in MasterKeys \ generated /\ generated' = generated \union {m}

\* runAccessGrant where no project exists yet: it creates the master key.
GrantFirst(p, u, ks, m) ==
    /\ ~HasAccess(CloneOf[p])
    /\ Generate(m)
    /\ Begin(p, "grant", "store", m, [NoUsers EXCEPT ![u] = ks], {})
    /\ UNCHANGED <<remote, base, tree, masterKey, envKey, safeKey, failed, stops, opened>>

\* runAccessGrant in a project: a user who already has exactly these keys is
\* left alone, anyone else is pinned with the keys fetched now.
Grant(p, u, ks) ==
    LET t == tree[CloneOf[p]] IN
    /\ Unlocked(CloneOf[p])
    /\ t.users[u] # ks
    /\ Begin(p, "grant", "seal", ReadMaster(CloneOf[p]), [t.users EXCEPT ![u] = ks], {})
    /\ UNCHANGED <<remote, base, tree, masterKey, envKey, safeKey, generated,
                   failed, stops, opened>>

\* Mutants of Revoke: it keeps the master key; it leaves the wrapped keys as
\* they are.
RevokeKeepingKey(p, u, m) ==
    LET t == tree[CloneOf[p]] IN
    /\ Unlocked(CloneOf[p])
    /\ u \in Members(t) /\ Members(t) # {u}
    /\ m = t.check
    /\ Begin(p, "revoke", "seal", m, [t.users EXCEPT ![u] = {}], {})
    /\ UNCHANGED <<remote, base, tree, masterKey, envKey, safeKey, generated,
                   failed, stops, opened>>

RevokeWithoutRewrap(p, u, m) ==
    LET t == tree[CloneOf[p]] IN
    /\ Unlocked(CloneOf[p])
    /\ u \in Members(t) /\ Members(t) # {u}
    /\ Generate(m)
    /\ Begin(p, "revoke", "seal", m, [t.users EXCEPT ![u] = {}], {})
    /\ UNCHANGED <<remote, base, tree, masterKey, envKey, safeKey, failed, stops, opened>>

\* runAccessRevoke: someone else must remain, and every wrapped key must open
\* with the current master key before anything is written.
Revoke(p, u, m) ==
    LET t == tree[CloneOf[p]]
        rewrapped == {s \in Safes : t.wrapped[s] # NoKey} IN
    /\ Unlocked(CloneOf[p])
    /\ u \in Members(t) /\ Members(t) # {u}
    /\ \A s \in rewrapped : t.wrapped[s] = ReadMaster(CloneOf[p])
    /\ Generate(m)
    /\ Begin(p, "revoke", IF rewrapped = {} THEN "seal" ELSE "rewrap", m,
             [t.users EXCEPT ![u] = {}], rewrapped)
    /\ UNCHANGED <<remote, base, tree, masterKey, envKey, safeKey, failed, stops, opened>>

\* Mutant of Unlock: the key in master.age is not compared with access.yaml.
UnlockUnverified(p) ==
    LET c == CloneOf[p]
        t == tree[c] IN
    /\ HasAccess(c)
    /\ Identity[c] \intersect t.sealedTo # {}
    /\ t.sealedKey \in MasterKeys
    /\ Begin(p, "unlock", "store", t.sealedKey, NoUsers, {})
    /\ UNCHANGED <<remote, base, tree, masterKey, envKey, safeKey, generated,
                   failed, stops, opened>>

\* runUnlock: master.age opens with an SSH key of this machine, and holds the
\* key access.yaml names. It does not look at the environment.
Unlock(p) ==
    LET c == CloneOf[p]
        t == tree[c] IN
    /\ HasAccess(c)
    /\ Identity[c] \intersect t.sealedTo # {}
    /\ t.sealedKey \in MasterKeys /\ t.sealedKey = t.check
    /\ Begin(p, "unlock", "store", t.sealedKey, NoUsers, {})
    /\ UNCHANGED <<remote, base, tree, masterKey, envKey, safeKey, generated,
                   failed, stops, opened>>

\* runWrap: the safes whose key is on this machine; the others are skipped.
Wrap(p) ==
    LET c == CloneOf[p] IN
    /\ Unlocked(c)
    /\ safeKey[c] # {}
    /\ Begin(p, "wrap", "wrap", ReadMaster(c), NoUsers, safeKey[c])
    /\ UNCHANGED <<remote, base, tree, masterKey, envKey, safeKey, generated,
                   failed, stops, opened>>

\* createSafe: the master key is loaded first, before the safe is looked at;
\* it must be unlocked if the project has one. Safe names are not reused.
Add(p, s) ==
    LET c == CloneOf[p] IN
    /\ HasAccess(c) => Unlocked(c)
    /\ \A d \in Clones : s \notin safeKey[d] /\ tree[d].wrapped[s] = NoKey
    /\ \A q \in Procs : s \notin op[q].todo
    /\ Begin(p, "add", "generate", IF HasAccess(c) THEN ReadMaster(c) ELSE NoKey, NoUsers, {s})
    /\ UNCHANGED <<remote, base, tree, masterKey, envKey, safeKey, generated,
                   failed, stops, opened>>

-----------------------------------------------------------------------------
(* The second half: one write per step, with what the first half computed. *)

Continue(p, step) == op' = [op EXCEPT ![p].step = step]
Finish(p) == op' = [op EXCEPT ![p] = Idle]

\* WriteMaster: first in a grant that created the key, last in a revoke.
StoreMaster(p) ==
    /\ op[p].step = "store"
    /\ masterKey' = [masterKey EXCEPT ![CloneOf[p]] = op[p].master]
    /\ IF op[p].cmd = "grant" THEN Continue(p, "seal") ELSE Finish(p)
    /\ UNCHANGED <<remote, base, tree, envKey, safeKey, generated, failed, stops, opened>>

\* runAccessRevoke's loop over the rewrapped keys, in the map's random order.
Rewrap(p, s) ==
    /\ op[p].step = "rewrap" /\ s \in op[p].todo
    /\ tree' = [tree EXCEPT ![CloneOf[p]].wrapped[s] = op[p].master]
    /\ op' = [op EXCEPT ![p].todo = @ \ {s},
                        ![p].step = IF op[p].todo = {s} THEN "seal" ELSE @]
    /\ UNCHANGED <<remote, base, masterKey, envKey, safeKey, generated, failed, stops, opened>>

\* Mutants of WriteSealed: sealed to the names of the users instead of their
\* keys; sealed to the users before the change.
WriteSealedToNames(p) ==
    /\ op[p].step = "seal"
    /\ tree' = [tree EXCEPT ![CloneOf[p]].sealedKey = op[p].master,
                            ![CloneOf[p]].sealedTo = {u \in Users : op[p].users[u] # {}}]
    /\ Continue(p, "save")
    /\ UNCHANGED <<remote, base, masterKey, envKey, safeKey, generated, failed, stops, opened>>

WriteSealedToOldUsers(p) ==
    /\ op[p].step = "seal"
    /\ tree' = [tree EXCEPT ![CloneOf[p]].sealedKey = op[p].master,
                            ![CloneOf[p]].sealedTo = Pinned(tree[CloneOf[p]].users)]
    /\ Continue(p, "save")
    /\ UNCHANGED <<remote, base, masterKey, envKey, safeKey, generated, failed, stops, opened>>

\* master.age, sealed to the keys the command is about to pin.
WriteSealed(p) ==
    /\ op[p].step = "seal"
    /\ tree' = [tree EXCEPT ![CloneOf[p]].sealedKey = op[p].master,
                            ![CloneOf[p]].sealedTo = Pinned(op[p].users)]
    /\ Continue(p, "save")
    /\ UNCHANGED <<remote, base, masterKey, envKey, safeKey, generated, failed, stops, opened>>

\* Mutant of SaveAccess: the check value stays that of the old key.
SaveAccessOldCheck(p) ==
    /\ op[p].step = "save"
    /\ tree' = [tree EXCEPT ![CloneOf[p]].check = IF @ = NoKey THEN op[p].master ELSE @,
                            ![CloneOf[p]].users = op[p].users]
    /\ IF op[p].cmd = "revoke" THEN Continue(p, "store") ELSE Finish(p)
    /\ UNCHANGED <<remote, base, masterKey, envKey, safeKey, generated, failed, stops, opened>>

\* access.Save: the check value and the users in one file.
SaveAccess(p) ==
    /\ op[p].step = "save"
    /\ tree' = [tree EXCEPT ![CloneOf[p]].check = op[p].master,
                            ![CloneOf[p]].users = op[p].users]
    /\ IF op[p].cmd = "revoke" THEN Continue(p, "store") ELSE Finish(p)
    /\ UNCHANGED <<remote, base, masterKey, envKey, safeKey, generated, failed, stops, opened>>

\* generateKey, and the test on master in createSafe.
GenerateSafeKey(p) ==
    /\ op[p].step = "generate"
    /\ safeKey' = [safeKey EXCEPT ![CloneOf[p]] = @ \union op[p].todo]
    /\ IF op[p].master = NoKey THEN Finish(p) ELSE Continue(p, "wrap")
    /\ UNCHANGED <<remote, base, tree, masterKey, envKey, generated, failed, stops, opened>>

\* wrapSafe: a wrapped key that is there is kept if it opens and is an error,
\* which ends the command, if it does not.
WrapSafe(p, s) ==
    LET c == CloneOf[p]
        existing == tree[c].wrapped[s] IN
    /\ op[p].step = "wrap" /\ s \in op[p].todo
    /\ \/ /\ existing = NoKey
          /\ tree' = [tree EXCEPT ![c].wrapped[s] = op[p].master]
       \/ existing # NoKey /\ tree' = tree
    /\ IF op[p].todo = {s} \/ existing \notin {NoKey, op[p].master}
       THEN Finish(p)
       ELSE op' = [op EXCEPT ![p].todo = @ \ {s}]
    /\ UNCHANGED <<remote, base, masterKey, envKey, safeKey, generated, failed, stops, opened>>

Step(p) == \/ StoreMaster(p) \/ WriteSealed(p) \/ SaveAccess(p)
           \/ GenerateSafeKey(p)
           \/ \E s \in Safes : Rewrap(p, s) \/ WrapSafe(p, s)

-----------------------------------------------------------------------------
(* Failure: the process is killed or a write fails. os.WriteFile truncates *)
(* before it writes, so the file being written may be left incomplete.     *)

\* What is left of the users when the end of access.yaml, and no more, is
\* missing: it may well parse, with the right master_check before them.
Shortened(users) == {kept \in [Users -> SUBSET Keys] : \A u \in Users : kept[u] \subseteq users[u]}

\* What the tree of p's clone becomes when the file p is writing is cut short.
TornFiles(p) ==
    LET t == tree[CloneOf[p]] IN
    CASE op[p].step = "seal" ->
           {[t EXCEPT !.sealedKey = Torn, !.sealedTo = {}]}
      [] op[p].step = "save" ->
           {[t EXCEPT !.check = Torn, !.users = NoUsers]} \union
           {[t EXCEPT !.check = op[p].master, !.users = kept] : kept \in Shortened(op[p].users)}
      [] op[p].step \in {"rewrap", "wrap"} ->
           {[t EXCEPT !.wrapped[s] = Torn] :
               s \in {x \in op[p].todo : op[p].step = "rewrap" \/ t.wrapped[x] = NoKey}}
      [] OTHER -> {}

Abort(p) ==
    LET c == CloneOf[p] IN
    /\ Busy(p) /\ stops < MaxStops
    /\ \E t \in {tree[c]} \union TornFiles(p) : tree' = [tree EXCEPT ![c] = t]
    /\ \E m \in {masterKey[c]} \union (IF op[p].step = "store" THEN {Torn} ELSE {}) :
          masterKey' = [masterKey EXCEPT ![c] = m]
    /\ failed' = failed \union {c}
    /\ stops' = stops + 1
    /\ Finish(p)
    /\ UNCHANGED <<remote, base, envKey, safeKey, generated, opened>>

\* createSafe's deferred RemoveAll: an error removes a directory it created.
RollBack(p) ==
    LET c == CloneOf[p] IN
    /\ op[p].cmd = "add"
    /\ safeKey' = [safeKey EXCEPT ![c] = @ \ op[p].todo]
    /\ Finish(p)
    /\ UNCHANGED <<remote, base, tree, masterKey, envKey, generated, failed, stops, opened>>

-----------------------------------------------------------------------------
(* What happens around the program: git, and the settings of a pipeline.   *)
(* A clone is committed and pulled only between commands, and not after a  *)
(* command that stopped halfway: its files are first restored.             *)

Shared(c) == Quiet(c) /\ c \notin failed

\* git commit and a push, which is refused unless it fast-forwards.
Publish(c) ==
    /\ Shared(c) /\ base[c] = remote /\ tree[c] # remote
    /\ remote' = tree[c]
    /\ base' = [base EXCEPT ![c] = tree[c]]
    /\ opened' = [m \in MasterKeys |->
                    opened[m] \union IF m = tree[c].sealedKey THEN tree[c].sealedTo ELSE {}]
    /\ UNCHANGED <<tree, masterKey, envKey, safeKey, generated, op, failed, stops>>

AccessOf(t) == <<t.check, t.users, t.sealedKey, t.sealedTo>>

\* A three-way merge file by file: a file only one side changed is taken from
\* that side. Where both changed a wrapped key, the published one is kept.
Merged(c) ==
    LET b == base[c]
        mine == tree[c]
        files == IF AccessOf(mine) = AccessOf(b) THEN remote ELSE mine IN
    [files EXCEPT !.wrapped = [s \in Safes |->
        IF remote.wrapped[s] = b.wrapped[s] THEN mine.wrapped[s] ELSE remote.wrapped[s]]]

\* git pull. When both sides changed access.yaml and master.age the merge
\* conflicts; the clone's own changes are then dropped (Restore) and redone.
Pull(c) ==
    /\ Shared(c) /\ base[c] # remote
    /\ \/ tree[c] = base[c]
       \/ /\ MayMerge
          /\ \/ AccessOf(tree[c]) = AccessOf(base[c])
             \/ AccessOf(remote) = AccessOf(base[c])
    /\ tree' = [tree EXCEPT ![c] = Merged(c)]
    /\ base' = [base EXCEPT ![c] = remote]
    /\ UNCHANGED <<remote, masterKey, envKey, safeKey, generated, op, failed, stops, opened>>

\* git checkout of every committed file; ignored files stay.
Restore(c) ==
    /\ Quiet(c) /\ (tree[c] # base[c] \/ c \in failed)
    /\ tree' = [tree EXCEPT ![c] = base[c]]
    /\ failed' = failed \ {c}
    /\ UNCHANGED <<remote, base, masterKey, envKey, safeKey, generated, op, stops, opened>>

\* A pipeline's $PENHAN_MASTER_KEY is the contents of someone's master.key,
\* for the project as published.
Configure(c, d) ==
    /\ c \in Environment /\ Quiet(c)
    /\ masterKey[d] = remote.check /\ remote.check # NoKey
    /\ envKey' = [envKey EXCEPT ![c] = masterKey[d]]
    /\ UNCHANGED <<remote, base, tree, masterKey, safeKey, generated, op, failed, stops, opened>>

-----------------------------------------------------------------------------
Init ==
    /\ remote = EmptyTree
    /\ base = [c \in Clones |-> EmptyTree]
    /\ tree = [c \in Clones |-> EmptyTree]
    /\ masterKey = [c \in Clones |-> NoKey]
    /\ envKey = [c \in Clones |-> NoKey]
    /\ safeKey = [c \in Clones |-> {}]
    /\ generated = {}
    /\ op = [p \in Procs |-> Idle]
    /\ failed = {}
    /\ stops = 0
    /\ opened = [m \in MasterKeys |-> {}]

Command(p) ==
    \/ \E u \in Users, m \in MasterKeys : \/ \E ks \in GitHub[u] : GrantFirst(p, u, ks, m)
                                          \/ Revoke(p, u, m)
    \/ \E u \in Users : \E ks \in GitHub[u] : Grant(p, u, ks)
    \/ Unlock(p) \/ Wrap(p)
    \/ \E s \in Safes : Add(p, s)

Next ==
    \/ \E p \in Procs : Command(p) \/ Step(p) \/ Abort(p) \/ RollBack(p)
    \/ \E c \in Clones : Publish(c) \/ Pull(c) \/ Restore(c)
    \/ \E c, d \in Clones : Configure(c, d)

Spec == Init /\ [][Next]_vars

-----------------------------------------------------------------------------
(* Properties *)

\* Every variable keeps its shape.
TypeOK ==
    /\ remote \in Tree
    /\ base \in [Clones -> Tree] /\ tree \in [Clones -> Tree]
    /\ masterKey \in [Clones -> MaybeKey] /\ envKey \in [Clones -> MaybeKey]
    /\ safeKey \in [Clones -> SUBSET Safes]
    /\ generated \subseteq MasterKeys
    /\ op \in [Procs -> Op]
    /\ failed \subseteq Clones
    /\ stops \in 0..MaxStops
    /\ opened \in [MasterKeys -> SUBSET Keys]

\* "Each key below can unlock master.age": what access.yaml pins is what
\* master.age was encrypted to, and the key inside is the one it names.
SealedFor(t) == t.sealedKey = t.check /\ t.sealedTo = Pinned(t.users)

\* Every wrapped safe key opens with the master key access.yaml names.
WrappedFor(t) == \A s \in Safes : t.wrapped[s] \in {NoKey, t.check}

\* The published access.yaml and master.age always agree, however commands
\* of different clones interleave and wherever one of them stopped.
SealedMatchesAccess == SealedFor(remote)

\* After unlock every published safe works without its plaintext key.
WrappedOpens == WrappedFor(remote)

\* A revoke cuts off: once a user disappears from the published access.yaml,
\* that master key was never published sealed to any SSH key but those
\* still pinned for somebody: to none the user has, or had under an earlier grant
\* (access.go:263-265), unless another user is listed with that same key.
RevokedCutOff ==
    [][Members(remote) \ Members(remote') # {} =>
          opened'[remote'.check] \subseteq Pinned(remote'.users)]_vars

\* Once unlock has stored the master key, every command that needs it works,
\* unless $PENHAN_MASTER_KEY takes its place.
UnlockSuffices ==
    [][\A p \in Procs :
          LET c == CloneOf[p] IN
            /\ op[p].cmd = "unlock" /\ ~Busy(p)'
            /\ masterKey'[c] = op[p].master /\ envKey[c] = NoKey
          => Unlocked(c)']_vars

\* The published files keep the promises of AccessPolicy.
Policy == INSTANCE AccessPolicy
              WITH members <- remote.users, current <- remote.check
ImplementsPolicy == Policy!Spec

=============================================================================
