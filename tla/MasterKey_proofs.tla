-------------------------- MODULE MasterKey_proofs --------------------------
(***************************************************************************)
(* Proofs about MasterKey for every number of users, keys, safes, clones   *)
(* and master keys, and any number of commands that stop halfway.          *)
(***************************************************************************)
EXTENDS MasterKey, TLAPS

-----------------------------------------------------------------------------
(* Type correctness *)

LEMMA PinnedType == ASSUME NEW users \in [Users -> SUBSET Keys]
                    PROVE  Pinned(users) \in SUBSET Keys
  BY DEF Pinned

LEMMA InitType == ASSUME ConstantsOk, Init PROVE TypeOK
  BY DEF ConstantsOk, Init, TypeOK, EmptyTree, Tree, MaybeKey, NoUsers, Idle,
         Op, Commands, Steps

\* A command that begins leaves the files alone and puts a well-formed record
\* in its shell.
LEMMA BeginType ==
  ASSUME TypeOK, NEW p \in Procs, NEW cmd \in Commands, NEW step \in Steps,
         NEW m \in MaybeKey, NEW users \in [Users -> SUBSET Keys],
         NEW todo \in SUBSET Safes, Begin(p, cmd, step, m, users, todo)
  PROVE  op' \in [Procs -> Op]
  BY DEF TypeOK, Begin, Op

\* The master key that LoadMaster returns is the one access.yaml names.
LEMMA LoadedMaster ==
  /\ \A p \in Procs, u \in Users : \A ks \in GitHub[u] : Grant(p, u, ks) =>
       Begin(p, "grant", "seal", tree[CloneOf[p]].check,
             [tree[CloneOf[p]].users EXCEPT ![u] = ks], {})
  /\ \A p \in Procs : Wrap(p) =>
       Begin(p, "wrap", "wrap", tree[CloneOf[p]].check, NoUsers, safeKey[CloneOf[p]])
  /\ \A p \in Procs, s \in Safes : Add(p, s) =>
       Begin(p, "add", "generate", tree[CloneOf[p]].check, NoUsers, {s})
<1>1. ASSUME NEW p \in Procs, NEW u \in Users, NEW ks \in GitHub[u], Grant(p, u, ks)
      PROVE  Begin(p, "grant", "seal", tree[CloneOf[p]].check,
                   [tree[CloneOf[p]].users EXCEPT ![u] = ks], {})
  BY <1>1 DEF Grant, Unlocked
<1>2. ASSUME NEW p \in Procs, Wrap(p)
      PROVE  Begin(p, "wrap", "wrap", tree[CloneOf[p]].check, NoUsers, safeKey[CloneOf[p]])
  BY <1>2 DEF Wrap, Unlocked
<1>3. ASSUME NEW p \in Procs, NEW s \in Safes, Add(p, s)
      PROVE  Begin(p, "add", "generate", tree[CloneOf[p]].check, NoUsers, {s})
  BY <1>3 DEF Add, Unlocked, HasAccess
<1> QED BY <1>1, <1>2, <1>3

LEMMA CommandType ==
  ASSUME ConstantsOk, TypeOK, NEW p \in Procs, Command(p)
  PROVE  TypeOK'
<1> USE DEF ConstantsOk
<1>t. /\ CloneOf[p] \in Clones
      /\ tree[CloneOf[p]] \in Tree
      /\ tree[CloneOf[p]].check \in MaybeKey
      /\ tree[CloneOf[p]].sealedKey \in MaybeKey
      /\ tree[CloneOf[p]].users \in [Users -> SUBSET Keys]
      /\ safeKey[CloneOf[p]] \in SUBSET Safes
  BY DEF TypeOK, Tree
<1>n. NoUsers \in [Users -> SUBSET Keys] /\ NoKey \in MaybeKey
  BY DEF NoUsers, MaybeKey
<1>1. CASE \E u \in Users, m \in MasterKeys : \E ks \in GitHub[u] : GrantFirst(p, u, ks, m)
  <2>1. PICK u \in Users, m \in MasterKeys : \E ks \in GitHub[u] : GrantFirst(p, u, ks, m)
    BY <1>1
  <2>2. PICK ks \in GitHub[u] : GrantFirst(p, u, ks, m)
    BY <2>1
  <2>3. ks \in SUBSET Keys
    OBVIOUS
  <2>4. [NoUsers EXCEPT ![u] = ks] \in [Users -> SUBSET Keys]
    BY <2>3, <1>n
  <2>5. op' \in [Procs -> Op]
    BY <2>2, <2>4, BeginType DEF GrantFirst, Commands, Steps, MaybeKey
  <2> QED BY <2>2, <2>5 DEF TypeOK, GrantFirst, Generate
<1>2. CASE \E u \in Users, m \in MasterKeys : Revoke(p, u, m)
  <2>1. PICK u \in Users, m \in MasterKeys : Revoke(p, u, m)
    BY <1>2
  <2>2. [tree[CloneOf[p]].users EXCEPT ![u] = {}] \in [Users -> SUBSET Keys]
    BY <1>t
  <2> DEFINE rewrapped == {s \in Safes : tree[CloneOf[p]].wrapped[s] # NoKey}
             step == IF rewrapped = {} THEN "seal" ELSE "rewrap"
             users == [tree[CloneOf[p]].users EXCEPT ![u] = {}]
  <2>a. Begin(p, "revoke", step, m, users, rewrapped)
    BY <2>1 DEF Revoke
  <2>b. step \in Steps /\ "revoke" \in Commands /\ m \in MaybeKey /\ rewrapped \in SUBSET Safes
    BY DEF Steps, Commands, MaybeKey
  <2>3. op' \in [Procs -> Op]
    <3> HIDE DEF step, users, rewrapped
    <3> QED BY <2>a, <2>b, <2>2, BeginType DEF users
  <2> QED BY <2>1, <2>3 DEF TypeOK, Revoke, Generate
<1>3. CASE \E u \in Users : \E ks \in GitHub[u] : Grant(p, u, ks)
  <2>1. PICK u \in Users : \E ks \in GitHub[u] : Grant(p, u, ks)
    BY <1>3
  <2>2. PICK ks \in GitHub[u] : Grant(p, u, ks)
    BY <2>1
  <2>3. [tree[CloneOf[p]].users EXCEPT ![u] = ks] \in [Users -> SUBSET Keys]
    BY <1>t
  <2>4. op' \in [Procs -> Op]
    <3>1. Begin(p, "grant", "seal", tree[CloneOf[p]].check,
                [tree[CloneOf[p]].users EXCEPT ![u] = ks], {})
      BY <2>2, LoadedMaster
    <3> QED BY <3>1, <2>3, <1>t, BeginType DEF Commands, Steps
  <2> QED BY <2>2, <2>4 DEF TypeOK, Grant
<1>4. CASE Unlock(p)
  <2>1. op' \in [Procs -> Op]
    BY <1>4, <1>t, <1>n, BeginType DEF Unlock, Commands, Steps
  <2> QED BY <1>4, <2>1 DEF TypeOK, Unlock
<1>5. CASE Wrap(p)
  <2>1. op' \in [Procs -> Op]
    BY <1>5, <1>t, <1>n, BeginType, LoadedMaster DEF Commands, Steps
  <2> QED BY <1>5, <2>1 DEF TypeOK, Wrap
<1>6. CASE \E s \in Safes : Add(p, s)
  <2>1. PICK s \in Safes : Add(p, s)
    BY <1>6
  <2>2. op' \in [Procs -> Op]
    <3>1. Begin(p, "add", "generate", tree[CloneOf[p]].check, NoUsers, {s})
      BY <2>1, LoadedMaster
    <3> QED BY <3>1, <1>t, <1>n, BeginType DEF Commands, Steps
  <2> QED BY <2>1, <2>2 DEF TypeOK, Add
<1> QED BY <1>1, <1>2, <1>3, <1>4, <1>5, <1>6 DEF Command

\* What the files of a clone may become in one write is a tree.
LEMMA TreeUpdates ==
  ASSUME NEW t \in Tree, NEW m \in MaybeKey, NEW s \in Safes,
         NEW to \in SUBSET Keys, NEW users \in [Users -> SUBSET Keys]
  PROVE  /\ [t EXCEPT !.wrapped[s] = m] \in Tree
         /\ [t EXCEPT !.sealedKey = m, !.sealedTo = to] \in Tree
         /\ [t EXCEPT !.check = m, !.users = users] \in Tree
  BY DEF Tree

LEMMA OpUpdates ==
  ASSUME TypeOK, NEW p \in Procs
  PROVE  /\ op[p].master \in MaybeKey
         /\ op[p].users \in [Users -> SUBSET Keys]
         /\ op[p].todo \in SUBSET Safes
         /\ op[p].step \in Steps /\ op[p].cmd \in Commands
         /\ \A step \in Steps : Continue(p, step) => op' \in [Procs -> Op]
         /\ Finish(p) => op' \in [Procs -> Op]
<1>1. op[p] \in Op
  BY DEF TypeOK
<1>2. ASSUME NEW step \in Steps, Continue(p, step)
      PROVE  op' \in [Procs -> Op]
  <2>1. [op[p] EXCEPT !.step = step] \in Op
    BY <1>1 DEF Op
  <2> QED BY <1>2, <2>1 DEF Continue, TypeOK
<1>3. ASSUME Finish(p)
      PROVE  op' \in [Procs -> Op]
  <2>1. Idle \in Op
    BY DEF Idle, Op, Commands, Steps, MaybeKey, NoUsers
  <2> QED BY <1>3, <2>1 DEF Finish, TypeOK
<1> QED BY <1>1, <1>2, <1>3 DEF Op

LEMMA StepType ==
  ASSUME ConstantsOk, TypeOK, NEW p \in Procs, Step(p)
  PROVE  TypeOK'
<1> DEFINE c == CloneOf[p]
<1>c. c \in Clones /\ tree[c] \in Tree
  BY DEF ConstantsOk, TypeOK
<1> HIDE DEF c
<1>1. CASE StoreMaster(p)
  <2>1. op' \in [Procs -> Op]
    BY <1>1, OpUpdates DEF StoreMaster, Steps
  <2> QED BY <1>1, <2>1, <1>c, OpUpdates DEF StoreMaster, TypeOK, c
<1>2. CASE WriteSealed(p)
  <2>1. op' \in [Procs -> Op]
    BY <1>2, OpUpdates DEF WriteSealed, Steps
  <2>2. [tree[c] EXCEPT !.sealedKey = op[p].master, !.sealedTo = Pinned(op[p].users)] \in Tree
    <3>1. Safes = {} \/ Safes # {}
      OBVIOUS
    <3> QED BY <1>c, OpUpdates, PinnedType DEF Tree
  <2>3. tree' = [tree EXCEPT ![c] = [tree[c] EXCEPT !.sealedKey = op[p].master,
                                                     !.sealedTo = Pinned(op[p].users)]]
    BY <1>2, <1>c DEF WriteSealed, c, TypeOK
  <2> QED BY <1>2, <2>1, <2>2, <2>3, <1>c DEF WriteSealed, TypeOK
<1>3. CASE SaveAccess(p)
  <2>1. op' \in [Procs -> Op]
    BY <1>3, OpUpdates DEF SaveAccess, Steps
  <2>2. [tree[c] EXCEPT !.check = op[p].master, !.users = op[p].users] \in Tree
    BY <1>c, OpUpdates DEF Tree
  <2>3. tree' = [tree EXCEPT ![c] = [tree[c] EXCEPT !.check = op[p].master,
                                                     !.users = op[p].users]]
    BY <1>3, <1>c DEF SaveAccess, c, TypeOK
  <2> QED BY <1>3, <2>1, <2>2, <2>3, <1>c DEF SaveAccess, TypeOK
<1>4. CASE GenerateSafeKey(p)
  <2>1. op' \in [Procs -> Op]
    BY <1>4, OpUpdates DEF GenerateSafeKey, Steps
  <2> QED BY <1>4, <2>1, <1>c, OpUpdates DEF GenerateSafeKey, TypeOK, c
<1>5. CASE \E s \in Safes : Rewrap(p, s)
  <2>1. PICK s \in Safes : Rewrap(p, s)
    BY <1>5
  <2>2. op' \in [Procs -> Op]
    <3>1. op[p] \in Op
      BY DEF TypeOK
    <3>2. [op[p] EXCEPT !.todo = @ \ {s}, !.step = IF op[p].todo = {s} THEN "seal" ELSE @] \in Op
      BY <3>1 DEF Op, Steps
    <3> QED BY <2>1, <3>2 DEF Rewrap, TypeOK
  <2>3. tree' = [tree EXCEPT ![c] = [tree[c] EXCEPT !.wrapped[s] = op[p].master]]
    BY <2>1, <1>c DEF Rewrap, c, TypeOK
  <2>4. [tree[c] EXCEPT !.wrapped[s] = op[p].master] \in Tree
    BY <1>c, OpUpdates, TreeUpdates
  <2> QED BY <2>1, <2>2, <2>3, <2>4, <1>c DEF Rewrap, TypeOK
<1>6. CASE \E s \in Safes : WrapSafe(p, s)
  <2>1. PICK s \in Safes : WrapSafe(p, s)
    BY <1>6
  <2>2. op' \in [Procs -> Op]
    <3>1. op[p] \in Op
      BY DEF TypeOK
    <3>2. [op[p] EXCEPT !.todo = @ \ {s}] \in Op
      BY <3>1 DEF Op
    <3> QED BY <2>1, <3>2, OpUpdates DEF WrapSafe, TypeOK
  <2>3. tree' = [tree EXCEPT ![c] = [tree[c] EXCEPT !.wrapped[s] = op[p].master]] \/ tree' = tree
    BY <2>1, <1>c DEF WrapSafe, c, TypeOK
  <2>4. [tree[c] EXCEPT !.wrapped[s] = op[p].master] \in Tree
    BY <1>c, OpUpdates, TreeUpdates
  <2> QED BY <2>1, <2>2, <2>3, <2>4, <1>c DEF WrapSafe, TypeOK
<1> QED BY <1>1, <1>2, <1>3, <1>4, <1>5, <1>6 DEF Step

LEMMA TornType ==
  ASSUME ConstantsOk, TypeOK, NEW p \in Procs, NEW t \in TornFiles(p)
  PROVE  t \in Tree
<1>1. tree[CloneOf[p]] \in Tree /\ Torn \in MaybeKey /\ NoUsers \in [Users -> SUBSET Keys]
  BY DEF ConstantsOk, TypeOK, MaybeKey, NoUsers
<1>2. op[p].todo \in SUBSET Safes
  BY OpUpdates
<1>3. CASE op[p].step = "seal"
  BY <1>1, <1>3 DEF TornFiles, Tree
<1>4. CASE op[p].step = "save"
  <2>1. Shortened(op[p].users) \subseteq [Users -> SUBSET Keys] /\ op[p].master \in MaybeKey
    BY OpUpdates DEF Shortened
  <2>2. PICK m \in MaybeKey, users \in [Users -> SUBSET Keys] :
          t = [tree[CloneOf[p]] EXCEPT !.check = m, !.users = users]
    BY <1>1, <1>4, <2>1 DEF TornFiles
  <2> QED BY <1>1, <2>2 DEF Tree
<1>5. CASE op[p].step \in {"rewrap", "wrap"}
  <2>1. PICK s \in op[p].todo : t = [tree[CloneOf[p]] EXCEPT !.wrapped[s] = Torn]
    BY <1>5 DEF TornFiles
  <2> QED BY <2>1, <1>1, <1>2 DEF Tree
<1>6. CASE op[p].step \notin {"seal", "save", "rewrap", "wrap"}
  BY <1>6 DEF TornFiles
<1> QED BY <1>3, <1>4, <1>5, <1>6

LEMMA StopType ==
  ASSUME ConstantsOk, TypeOK, NEW p \in Procs, Abort(p) \/ RollBack(p)
  PROVE  TypeOK'
<1> DEFINE c == CloneOf[p]
<1>c. c \in Clones /\ tree[c] \in Tree
  BY DEF ConstantsOk, TypeOK
<1> HIDE DEF c
<1>1. CASE Abort(p)
  <2>1. op' \in [Procs -> Op]
    BY <1>1, OpUpdates DEF Abort
  <2>2. PICK t \in {tree[c]} \union TornFiles(p) : tree' = [tree EXCEPT ![c] = t]
    BY <1>1 DEF Abort, c
  <2>3. t \in Tree
    BY <2>2, <1>c, TornType
  <2>4. PICK m \in {masterKey[c], Torn} : masterKey' = [masterKey EXCEPT ![c] = m]
    BY <1>1 DEF Abort, c
  <2>5. m \in MaybeKey
    BY <1>c DEF TypeOK, MaybeKey
  <2>6. stops' \in 0..MaxStops
    BY <1>1 DEF Abort, TypeOK, ConstantsOk
  <2> QED BY <1>1, <1>c, <2>1, <2>2, <2>3, <2>4, <2>5, <2>6 DEF Abort, TypeOK, c
<1>2. CASE RollBack(p)
  <2>1. op' \in [Procs -> Op]
    BY <1>2, OpUpdates DEF RollBack
  <2> QED BY <1>2, <1>c, <2>1 DEF RollBack, TypeOK, c
<1> QED BY <1>1, <1>2

LEMMA MergedType ==
  ASSUME TypeOK, NEW c \in Clones
  PROVE  Merged(c) \in Tree
<1>1. remote \in Tree /\ tree[c] \in Tree /\ base[c] \in Tree
  BY DEF TypeOK
<1> QED BY <1>1 DEF Merged, Tree

LEMMA GitType ==
  ASSUME ConstantsOk, TypeOK, NEW c \in Clones,
         Publish(c) \/ Pull(c) \/ Restore(c) \/ \E d \in Clones : Configure(c, d)
  PROVE  TypeOK'
<1>1. CASE Publish(c)
  <2>1. tree[c] \in Tree
    BY DEF TypeOK
  <2>2. tree[c].sealedTo \in SUBSET Keys
    BY <2>1 DEF Tree
  <2>3. opened' \in [MasterKeys -> SUBSET Keys]
    BY <1>1, <2>2 DEF Publish, TypeOK
  <2> QED BY <1>1, <2>1, <2>3 DEF Publish, TypeOK
<1>2. CASE Pull(c)
  BY <1>2, MergedType DEF Pull, TypeOK
<1>3. CASE Restore(c)
  BY <1>3 DEF Restore, TypeOK
<1>4. CASE \E d \in Clones : Configure(c, d)
  BY <1>4 DEF Configure, TypeOK
<1> QED BY <1>1, <1>2, <1>3, <1>4

LEMMA NextType == ASSUME ConstantsOk, TypeOK, [Next]_vars PROVE TypeOK'
<1>1. CASE Next
  BY <1>1, CommandType, StepType, StopType, GitType DEF Next
<1>2. CASE UNCHANGED vars
  BY <1>2 DEF vars, TypeOK
<1> QED BY <1>1, <1>2

\* Every reachable state is well-formed.
THEOREM TypeCorrect == Spec => []TypeOK
<1>1. Init => TypeOK
  BY ConstantsOk, InitType
<1>2. TypeOK /\ [Next]_vars => TypeOK'
  BY ConstantsOk, NextType
<1> QED BY <1>1, <1>2, PTL DEF Spec

-----------------------------------------------------------------------------
(* The published files are consistent. The theorems assume that a clone is *)
(* worked in from one shell at a time: with two shells, a revoke overtakes *)
(* a grant or a wrap that has loaded the master key before.                *)

OneShellPerClone == \A p, q \in Procs : CloneOf[p] = CloneOf[q] => p = q

\* What a tree is like when no command is half-way through changing it. The
\* wrapped keys are only safe from a merge when there is none.
Good(t) == SealedFor(t) /\ (~MayMerge => WrappedFor(t))

\* A command holds the master key of its tree, or is about to replace it.
Current(p) ==
    LET t == tree[CloneOf[p]] IN
    /\ op[p].step \in {"generate", "wrap"} => op[p].master = t.check
    /\ op[p].cmd = "grant" /\ op[p].step \in {"store", "seal"}
         => t.check \in {NoKey, op[p].master}
    /\ op[p].cmd = "add" => op[p].step \in {"generate", "wrap"}
    /\ op[p].step = "rewrap" => op[p].cmd = "revoke"
    /\ op[p].step \in {"store", "seal", "save"} => op[p].todo = {}

\* How far a command has changed a tree that was good when it began.
InProgress(p) ==
    LET t == tree[CloneOf[p]] IN
    /\ op[p].step \in {"generate", "wrap"} => Good(t)
    /\ op[p].step = "store" /\ op[p].cmd # "grant" => Good(t)
    /\ op[p].step = "save" => /\ t.sealedKey = op[p].master
                              /\ t.sealedTo = Pinned(op[p].users)
    /\ ~MayMerge /\ (op[p].step \in {"rewrap", "seal", "save"}
                       \/ (op[p].step = "store" /\ op[p].cmd = "grant"))
         => \A s \in Safes \ op[p].todo : t.wrapped[s] \in {NoKey, op[p].master}

\* The inductive invariant.
ConsistencyInv ==
    /\ Good(remote)
    /\ \A c \in Clones : Good(base[c])
    /\ \A c \in Clones : c \notin failed /\ Quiet(c) => Good(tree[c])
    /\ \A p \in Procs : Current(p)
    /\ \A p \in Procs : CloneOf[p] \notin failed => InProgress(p)

\* A step of one shell disturbs no other clone.
Local(p) ==
    /\ remote' = remote /\ base' = base
    /\ \A d \in Clones : d # CloneOf[p] => tree'[d] = tree[d]
    /\ \A q \in Procs : q # p => op'[q] = op[q]
    /\ failed' \in {failed, failed \union {CloneOf[p]}}

LEMMA LocalStep ==
  ASSUME ConstantsOk, OneShellPerClone, ConsistencyInv, NEW p \in Procs, Local(p),
         Current(p)',
         CloneOf[p] \notin failed' => InProgress(p)',
         CloneOf[p] \notin failed' /\ ~Busy(p)' => Good(tree[CloneOf[p]])'
  PROVE  ConsistencyInv'
<1>c. \A q \in Procs : CloneOf[q] \in Clones
  BY DEF ConstantsOk
<1>o. \A q \in Procs : q # p => CloneOf[q] # CloneOf[p] /\ op'[q] = op[q]
                                  /\ tree'[CloneOf[q]] = tree[CloneOf[q]]
  BY <1>c DEF OneShellPerClone, Local
<1>1. Good(remote)' /\ \A c \in Clones : Good(base[c])'
  BY DEF ConsistencyInv, Local, Good, SealedFor, WrappedFor
<1>2. ASSUME NEW c \in Clones, c \notin failed', Quiet(c)'
      PROVE  Good(tree[c])'
  <2>1. CASE c = CloneOf[p]
    <3>1. ~Busy(p)'
      BY <1>2, <2>1 DEF Quiet
    <3> QED BY <3>1, <2>1, <1>2
  <2>2. CASE c # CloneOf[p]
    <3>1. Quiet(c)
      BY <1>2, <2>2, <1>o DEF Quiet, Busy
    <3>2. c \notin failed
      BY <1>2, <2>2 DEF Local
    <3>3. tree'[c] = tree[c]
      BY <2>2 DEF Local
    <3> QED BY <3>1, <3>2, <3>3 DEF ConsistencyInv, Good, SealedFor, WrappedFor
  <2> QED BY <2>1, <2>2
<1>3. ASSUME NEW q \in Procs
      PROVE  Current(q)'
  <2>1. CASE q = p
    BY <2>1
  <2>2. CASE q # p
    BY <2>2, <1>o DEF ConsistencyInv, Current
  <2> QED BY <2>1, <2>2
<1>4. ASSUME NEW q \in Procs, CloneOf[q] \notin failed'
      PROVE  InProgress(q)'
  <2>1. CASE q = p
    BY <2>1, <1>4
  <2>2. CASE q # p
    <3>1. CloneOf[q] \notin failed
      BY <1>4 DEF Local
    <3>2. InProgress(q)
      BY <3>1 DEF ConsistencyInv
    <3> QED BY <3>2, <2>2, <1>o DEF InProgress, Good, SealedFor, WrappedFor
  <2> QED BY <2>1, <2>2
<1> QED BY <1>1, <1>2, <1>3, <1>4 DEF ConsistencyInv

\* In a clone with one shell, an idle shell means a quiet clone.
LEMMA QuietWhenIdle ==
  ASSUME OneShellPerClone, NEW p \in Procs, ~Busy(p)
  PROVE  Quiet(CloneOf[p])
  BY DEF OneShellPerClone, Quiet

\* What a command that begins must establish, for its shell alone.
LEMMA BeginConsistent ==
  ASSUME ConstantsOk, OneShellPerClone, TypeOK, ConsistencyInv, NEW p \in Procs,
         NEW cmd, NEW step, NEW m, NEW users, NEW todo,
         Begin(p, cmd, step, m, users, todo),
         UNCHANGED <<remote, base, tree, failed>>,
         step # "idle",
         op'[p] = [cmd |-> cmd, step |-> step, master |-> m, users |-> users, todo |-> todo]
             => /\ Current(p)'
                /\ CloneOf[p] \notin failed /\ Good(tree[CloneOf[p]]) => InProgress(p)'
  PROVE  ConsistencyInv'
<1>1. op'[p] = [cmd |-> cmd, step |-> step, master |-> m, users |-> users, todo |-> todo]
  BY DEF Begin, TypeOK
<1>2. Local(p)
  BY DEF Begin, TypeOK, Local
<1>3. CloneOf[p] \notin failed => Good(tree[CloneOf[p]])
  BY QuietWhenIdle DEF Begin, ConsistencyInv, ConstantsOk
<1>4. Busy(p)'
  BY <1>1 DEF Busy
<1> QED BY <1>1, <1>2, <1>3, <1>4, LocalStep

LEMMA GrantFirstConsistent ==
  ASSUME ConstantsOk, OneShellPerClone, TypeOK, ConsistencyInv, NEW p \in Procs,
         NEW u \in Users, NEW ks \in GitHub[u], NEW m \in MasterKeys,
         GrantFirst(p, u, ks, m)
  PROVE  ConsistencyInv'
<1> DEFINE o == [cmd |-> "grant", step |-> "store", master |-> m,
                 users |-> [NoUsers EXCEPT ![u] = ks], todo |-> {}]
<1>1. ASSUME op'[p] = o
      PROVE  Current(p)' /\ (Good(tree[CloneOf[p]]) => InProgress(p)')
  <2>1. tree' = tree /\ tree[CloneOf[p]].check = NoKey
    BY DEF GrantFirst, HasAccess
  <2>2. /\ op'[p].cmd = "grant" /\ op'[p].step = "store"
        /\ op'[p].master = m /\ op'[p].todo = {}
    BY <1>1
  <2>3. Current(p)'
    BY <2>1, <2>2 DEF Current
  <2>4. Good(tree[CloneOf[p]]) => InProgress(p)'
    BY <2>1, <2>2 DEF InProgress, Good, WrappedFor
  <2> QED BY <2>3, <2>4
<1> QED BY <1>1, BeginConsistent DEF GrantFirst

LEMMA GrantConsistent ==
  ASSUME ConstantsOk, OneShellPerClone, TypeOK, ConsistencyInv, NEW p \in Procs,
         NEW u \in Users, NEW ks \in GitHub[u], Grant(p, u, ks)
  PROVE  ConsistencyInv'
<1> DEFINE t == tree[CloneOf[p]]
           users == [t.users EXCEPT ![u] = ks]
           o == [cmd |-> "grant", step |-> "seal", master |-> t.check,
                 users |-> users, todo |-> {}]
<1>1. ASSUME op'[p] = o
      PROVE  Current(p)' /\ (Good(tree[CloneOf[p]]) => InProgress(p)')
  <2>1. tree' = tree
    BY DEF Grant
  <2>2. /\ op'[p].cmd = "grant" /\ op'[p].step = "seal"
        /\ op'[p].master = t.check /\ op'[p].todo = {}
    BY <1>1
  <2>3. Current(p)'
    BY <2>1, <2>2 DEF Current
  <2>4. Good(tree[CloneOf[p]]) => InProgress(p)'
    BY <2>1, <2>2 DEF InProgress, Good, WrappedFor
  <2> QED BY <2>3, <2>4
<1>2. Begin(p, "grant", "seal", t.check, users, {})
  BY LoadedMaster
<1>3. UNCHANGED <<remote, base, tree, failed>>
  BY DEF Grant
<1> HIDE DEF t, users
<1> QED BY <1>1, <1>2, <1>3, BeginConsistent DEF t

LEMMA RevokeConsistent ==
  ASSUME ConstantsOk, OneShellPerClone, TypeOK, ConsistencyInv, NEW p \in Procs,
         NEW u \in Users, NEW m \in MasterKeys, Revoke(p, u, m)
  PROVE  ConsistencyInv'
<1> DEFINE t == tree[CloneOf[p]]
           rewrapped == {s \in Safes : t.wrapped[s] # NoKey}
           step == IF rewrapped = {} THEN "seal" ELSE "rewrap"
           users == [t.users EXCEPT ![u] = {}]
           o == [cmd |-> "revoke", step |-> step, master |-> m,
                 users |-> users, todo |-> rewrapped]
<1>1. ASSUME op'[p] = o
      PROVE  Current(p)' /\ InProgress(p)'
  <2>1. tree' = tree
    BY DEF Revoke
  <2>2. /\ op'[p].cmd = "revoke" /\ op'[p].step = step
        /\ op'[p].master = m /\ op'[p].todo = rewrapped
    BY <1>1
  <2>3. Current(p)'
    BY <2>2 DEF Current
  <2>4. InProgress(p)'
    BY <2>1, <2>2 DEF InProgress
  <2> QED BY <2>3, <2>4
<1>2. Begin(p, "revoke", step, m, users, rewrapped)
  BY DEF Revoke
<1>3. UNCHANGED <<remote, base, tree, failed>>
  BY DEF Revoke
<1>4. step # "idle"
  OBVIOUS
<1> HIDE DEF step, users, rewrapped
<1> QED BY <1>1, <1>2, <1>3, <1>4, BeginConsistent

LEMMA UnlockConsistent ==
  ASSUME ConstantsOk, OneShellPerClone, TypeOK, ConsistencyInv, NEW p \in Procs,
         Unlock(p)
  PROVE  ConsistencyInv'
<1> DEFINE t == tree[CloneOf[p]]
           o == [cmd |-> "unlock", step |-> "store", master |-> t.sealedKey,
                 users |-> NoUsers, todo |-> {}]
<1>1. ASSUME op'[p] = o
      PROVE  Current(p)' /\ (Good(tree[CloneOf[p]]) => InProgress(p)')
  <2>1. tree' = tree
    BY DEF Unlock
  <2>2. op'[p].cmd = "unlock" /\ op'[p].step = "store" /\ op'[p].todo = {}
    BY <1>1
  <2>3. Current(p)'
    BY <2>2 DEF Current
  <2>4. Good(tree[CloneOf[p]]) => InProgress(p)'
    BY <2>1, <2>2 DEF InProgress, Good, SealedFor, WrappedFor
  <2> QED BY <2>3, <2>4
<1> QED BY <1>1, BeginConsistent DEF Unlock

\* wrap and add: the master key they hold is the one of their tree.
LEMMA WrapConsistent ==
  ASSUME ConstantsOk, OneShellPerClone, TypeOK, ConsistencyInv, NEW p \in Procs,
         Wrap(p) \/ \E s \in Safes : Add(p, s)
  PROVE  ConsistencyInv'
<1> DEFINE t == tree[CloneOf[p]]
<1>1. ASSUME NEW cmd \in {"wrap", "add"}, NEW step \in {"wrap", "generate"}, NEW todo,
             op'[p] = [cmd |-> cmd, step |-> step, master |-> t.check,
                       users |-> NoUsers, todo |-> todo],
             tree' = tree
      PROVE  Current(p)' /\ (Good(tree[CloneOf[p]]) => InProgress(p)')
  <2>1. /\ op'[p].cmd = cmd /\ op'[p].step = step /\ op'[p].master = t.check
    BY <1>1
  <2>2. Current(p)'
    BY <1>1, <2>1 DEF Current
  <2>3. Good(tree[CloneOf[p]]) => InProgress(p)'
    BY <1>1, <2>1 DEF InProgress, Good, SealedFor, WrappedFor
  <2> QED BY <2>2, <2>3
<1>2. CASE Wrap(p)
  <2>1. Begin(p, "wrap", "wrap", t.check, NoUsers, safeKey[CloneOf[p]])
    BY <1>2, LoadedMaster
  <2>2. UNCHANGED <<remote, base, tree, failed>>
    BY <1>2 DEF Wrap
  <2> QED BY <1>1, <2>1, <2>2, BeginConsistent
<1>3. CASE \E s \in Safes : Add(p, s)
  <2>1. PICK s \in Safes : Add(p, s)
    BY <1>3
  <2>2. Begin(p, "add", "generate", t.check, NoUsers, {s})
    BY <2>1, LoadedMaster
  <2>3. UNCHANGED <<remote, base, tree, failed>>
    BY <2>1 DEF Add
  <2> QED BY <1>1, <2>2, <2>3, BeginConsistent
<1> QED BY <1>2, <1>3

\* What a step of a command does to the record of its shell.
LEMMA OpAfter ==
  ASSUME TypeOK, NEW p \in Procs
  PROVE  /\ \A step \in Steps : Continue(p, step) =>
               /\ op'[p].cmd = op[p].cmd /\ op'[p].step = step
               /\ op'[p].master = op[p].master /\ op'[p].users = op[p].users
               /\ op'[p].todo = op[p].todo
               /\ \A q \in Procs : q # p => op'[q] = op[q]
         /\ Finish(p) =>
               op'[p] = Idle /\ \A q \in Procs : q # p => op'[q] = op[q]
<1>1. ASSUME NEW step \in Steps, Continue(p, step)
      PROVE  /\ op'[p].cmd = op[p].cmd /\ op'[p].step = step
             /\ op'[p].master = op[p].master /\ op'[p].users = op[p].users
             /\ op'[p].todo = op[p].todo
             /\ \A q \in Procs : q # p => op'[q] = op[q]
  <2>1. op' = [op EXCEPT ![p] = [op[p] EXCEPT !.step = step]]
    BY <1>1 DEF Continue, TypeOK
  <2>2. op[p] \in Op
    BY DEF TypeOK
  <2> QED BY <2>1, <2>2 DEF TypeOK, Op
<1>2. ASSUME Finish(p)
      PROVE  op'[p] = Idle /\ \A q \in Procs : q # p => op'[q] = op[q]
  BY <1>2 DEF Finish, TypeOK
<1> QED BY <1>1, <1>2

\* A shell that is idle again owes nothing.
LEMMA IdleOwesNothing ==
  ASSUME NEW p \in Procs, op'[p] = Idle
  PROVE  Current(p)' /\ InProgress(p)' /\ ~Busy(p)'
  BY DEF Current, InProgress, Idle, Busy

LEMMA StoreMasterConsistent ==
  ASSUME ConstantsOk, OneShellPerClone, TypeOK, ConsistencyInv, NEW p \in Procs,
         StoreMaster(p)
  PROVE  ConsistencyInv'
<1>0. op[p].step = "store" /\ tree' = tree /\ failed' = failed
      /\ remote' = remote /\ base' = base
  BY DEF StoreMaster
<1>1. Current(p) /\ (CloneOf[p] \notin failed => InProgress(p))
  BY DEF ConsistencyInv
<1>2. CASE op[p].cmd = "grant"
  <2>1. Continue(p, "seal")
    BY <1>2 DEF StoreMaster
  <2>2. /\ op'[p].cmd = "grant" /\ op'[p].step = "seal" /\ op'[p].master = op[p].master
        /\ op'[p].todo = op[p].todo /\ \A q \in Procs : q # p => op'[q] = op[q]
    BY <1>2, <2>1, OpAfter DEF Steps
  <2>3. Current(p)' /\ (CloneOf[p] \notin failed => InProgress(p)')
    BY <1>0, <1>1, <1>2, <2>2 DEF Current, InProgress
  <2>4. Busy(p)' /\ Local(p)
    BY <1>0, <2>2 DEF Busy, Local
  <2> QED BY <1>0, <2>3, <2>4, LocalStep
<1>3. CASE op[p].cmd # "grant"
  <2>1. op'[p] = Idle /\ \A q \in Procs : q # p => op'[q] = op[q]
    BY <1>3, OpAfter DEF StoreMaster
  <2>2. CloneOf[p] \notin failed => Good(tree[CloneOf[p]])'
    BY <1>0, <1>1, <1>3 DEF InProgress, Good, SealedFor, WrappedFor
  <2>3. Local(p)
    BY <1>0, <2>1 DEF Local
  <2> QED BY <1>0, <2>1, <2>2, <2>3, IdleOwesNothing, LocalStep
<1> QED BY <1>2, <1>3

LEMMA RewrapConsistent ==
  ASSUME ConstantsOk, OneShellPerClone, TypeOK, ConsistencyInv, NEW p \in Procs,
         NEW s \in Safes, Rewrap(p, s)
  PROVE  ConsistencyInv'
<1> DEFINE c == CloneOf[p]
<1>c. c \in Clones /\ tree[c] \in Tree /\ op[p] \in Op
  BY DEF ConstantsOk, TypeOK
<1>0. /\ op[p].step = "rewrap" /\ s \in op[p].todo
      /\ failed' = failed /\ remote' = remote /\ base' = base
  BY DEF Rewrap
<1>1. Current(p) /\ (c \notin failed => InProgress(p))
  BY DEF ConsistencyInv
<1>2. /\ op'[p].cmd = op[p].cmd /\ op'[p].master = op[p].master
      /\ op'[p].todo = op[p].todo \ {s}
      /\ op'[p].step = IF op[p].todo = {s} THEN "seal" ELSE "rewrap"
      /\ \A q \in Procs : q # p => op'[q] = op[q]
  <2>1. op' = [op EXCEPT ![p] = [op[p] EXCEPT !.todo = @ \ {s},
                                    !.step = IF op[p].todo = {s} THEN "seal" ELSE @]]
    BY DEF Rewrap, TypeOK
  <2> QED BY <1>c, <1>0, <2>1 DEF TypeOK, Op
<1>3. /\ tree'[c].wrapped = [tree[c].wrapped EXCEPT ![s] = op[p].master]
      /\ tree'[c].check = tree[c].check
      /\ \A d \in Clones : d # c => tree'[d] = tree[d]
  BY <1>c DEF Rewrap, TypeOK, Tree
<1>4. op[p].cmd = "revoke"
  BY <1>0, <1>1 DEF Current
<1>5. Local(p) /\ Busy(p)'
  BY <1>0, <1>2, <1>3 DEF Local, Busy
<1>6. c \notin failed => InProgress(p)'
  <2>1. \A x \in Safes : tree'[c].wrapped[x] =
           IF x = s THEN op[p].master ELSE tree[c].wrapped[x]
    BY <1>c, <1>3 DEF Tree
  <2>2. op'[p].step \in {"seal", "rewrap"}
    BY <1>2
  <2>3. ~MayMerge /\ c \notin failed =>
           \A x \in Safes \ op'[p].todo : tree'[c].wrapped[x] \in {NoKey, op'[p].master}
    BY <1>0, <1>1, <1>2, <2>1 DEF InProgress
  <2> QED BY <2>2, <2>3 DEF InProgress
<1>7. Current(p)'
  <2>1. op'[p].step = "seal" => op'[p].todo = {}
    BY <1>2
  <2> QED BY <1>2, <1>4, <2>1 DEF Current
<1> QED BY <1>0, <1>5, <1>6, <1>7, LocalStep

LEMMA WriteSealedConsistent ==
  ASSUME ConstantsOk, OneShellPerClone, TypeOK, ConsistencyInv, NEW p \in Procs,
         WriteSealed(p)
  PROVE  ConsistencyInv'
<1> DEFINE c == CloneOf[p]
<1>c. c \in Clones /\ tree[c] \in Tree
  BY DEF ConstantsOk, TypeOK
<1>0. op[p].step = "seal" /\ failed' = failed /\ remote' = remote /\ base' = base
  BY DEF WriteSealed
<1>1. Current(p) /\ (c \notin failed => InProgress(p))
  BY DEF ConsistencyInv
<1>2. /\ op'[p].cmd = op[p].cmd /\ op'[p].master = op[p].master
      /\ op'[p].users = op[p].users /\ op'[p].todo = op[p].todo
      /\ op'[p].step = "save"
      /\ \A q \in Procs : q # p => op'[q] = op[q]
  BY OpAfter DEF WriteSealed, Steps
<1>3. /\ tree'[c].sealedKey = op[p].master
      /\ tree'[c].sealedTo = Pinned(op[p].users)
      /\ tree'[c].wrapped = tree[c].wrapped
      /\ \A d \in Clones : d # c => tree'[d] = tree[d]
  BY <1>c DEF WriteSealed, TypeOK, Tree
<1>4. Local(p) /\ Busy(p)'
  BY <1>0, <1>2, <1>3 DEF Local, Busy
<1>5. Current(p)'
  BY <1>0, <1>1, <1>2 DEF Current
<1>6. c \notin failed => InProgress(p)'
  <2>1. Pinned(op'[p].users) = Pinned(op[p].users)
    BY <1>2
  <2> QED BY <1>0, <1>1, <1>2, <1>3, <2>1 DEF InProgress
<1> QED BY <1>0, <1>4, <1>5, <1>6, LocalStep

LEMMA SaveAccessConsistent ==
  ASSUME ConstantsOk, OneShellPerClone, TypeOK, ConsistencyInv, NEW p \in Procs,
         SaveAccess(p)
  PROVE  ConsistencyInv'
<1> DEFINE c == CloneOf[p]
<1>c. c \in Clones /\ tree[c] \in Tree
  BY DEF ConstantsOk, TypeOK
<1>0. op[p].step = "save" /\ failed' = failed /\ remote' = remote /\ base' = base
  BY DEF SaveAccess
<1>1. Current(p) /\ (c \notin failed => InProgress(p))
  BY DEF ConsistencyInv
<1>2. /\ tree'[c].sealedKey = tree[c].sealedKey
      /\ tree'[c].sealedTo = tree[c].sealedTo
      /\ tree'[c].wrapped = tree[c].wrapped
      /\ tree'[c].check = op[p].master /\ tree'[c].users = op[p].users
      /\ \A d \in Clones : d # c => tree'[d] = tree[d]
  BY <1>c DEF SaveAccess, TypeOK, Tree
<1>3. c \notin failed => Good(tree[c])'
  BY <1>0, <1>1, <1>2 DEF Current, InProgress, Good, SealedFor, WrappedFor
<1>4. CASE op[p].cmd = "revoke"
  <2>1. /\ op'[p].cmd = "revoke" /\ op'[p].todo = op[p].todo
        /\ op'[p].step = "store"
        /\ \A q \in Procs : q # p => op'[q] = op[q]
    BY <1>4, OpAfter DEF SaveAccess, Steps
  <2>2. Current(p)'
    BY <1>0, <1>1, <2>1 DEF Current
  <2>3. c \notin failed => InProgress(p)'
    BY <1>3, <2>1 DEF InProgress
  <2>4. Local(p) /\ Busy(p)'
    BY <1>0, <1>2, <2>1 DEF Local, Busy
  <2> QED BY <1>0, <2>2, <2>3, <2>4, LocalStep
<1>5. CASE op[p].cmd # "revoke"
  <2>1. op'[p] = Idle /\ \A q \in Procs : q # p => op'[q] = op[q]
    BY <1>5, OpAfter DEF SaveAccess
  <2>2. Local(p)
    BY <1>0, <1>2, <2>1 DEF Local
  <2> QED BY <1>0, <1>3, <2>1, <2>2, IdleOwesNothing, LocalStep
<1> QED BY <1>4, <1>5

LEMMA GenerateSafeKeyConsistent ==
  ASSUME ConstantsOk, OneShellPerClone, TypeOK, ConsistencyInv, NEW p \in Procs,
         GenerateSafeKey(p)
  PROVE  ConsistencyInv'
<1> DEFINE c == CloneOf[p]
<1>0. /\ op[p].step = "generate" /\ tree' = tree
      /\ failed' = failed /\ remote' = remote /\ base' = base
  BY DEF GenerateSafeKey
<1>1. Current(p) /\ (c \notin failed => InProgress(p))
  BY DEF ConsistencyInv
<1>2. c \notin failed => Good(tree[c])
  BY <1>0, <1>1 DEF InProgress
<1>3. c \notin failed => Good(tree[c])'
  BY <1>0, <1>2 DEF Good, SealedFor, WrappedFor
<1>4. CASE op[p].master = NoKey
  <2>1. op'[p] = Idle /\ \A q \in Procs : q # p => op'[q] = op[q]
    BY <1>4, OpAfter DEF GenerateSafeKey
  <2>2. Local(p)
    BY <1>0, <2>1 DEF Local
  <2> QED BY <1>0, <1>3, <2>1, <2>2, IdleOwesNothing, LocalStep
<1>5. CASE op[p].master # NoKey
  <2>1. /\ op'[p].cmd = op[p].cmd /\ op'[p].master = op[p].master
        /\ op'[p].step = "wrap"
        /\ \A q \in Procs : q # p => op'[q] = op[q]
    BY <1>5, OpAfter DEF GenerateSafeKey, Steps
  <2>2. Current(p)'
    BY <1>0, <1>1, <2>1 DEF Current
  <2>3. c \notin failed => InProgress(p)'
    BY <1>3, <2>1 DEF InProgress
  <2>4. Local(p) /\ Busy(p)'
    BY <1>0, <2>1 DEF Local, Busy
  <2> QED BY <1>0, <2>2, <2>3, <2>4, LocalStep
<1> QED BY <1>4, <1>5

LEMMA WrapSafeConsistent ==
  ASSUME ConstantsOk, OneShellPerClone, TypeOK, ConsistencyInv, NEW p \in Procs,
         NEW s \in Safes, WrapSafe(p, s)
  PROVE  ConsistencyInv'
<1> DEFINE c == CloneOf[p]
<1>c. c \in Clones /\ tree[c] \in Tree /\ op[p] \in Op
  BY DEF ConstantsOk, TypeOK
<1>0. op[p].step = "wrap" /\ failed' = failed /\ remote' = remote /\ base' = base
  BY DEF WrapSafe
<1>1. Current(p) /\ (c \notin failed => InProgress(p))
  BY DEF ConsistencyInv
<1>2. /\ tree'[c].check = tree[c].check /\ tree'[c].users = tree[c].users
      /\ tree'[c].sealedKey = tree[c].sealedKey
      /\ tree'[c].sealedTo = tree[c].sealedTo
      /\ \A x \in Safes : tree'[c].wrapped[x] \in {tree[c].wrapped[x], op[p].master}
      /\ \A d \in Clones : d # c => tree'[d] = tree[d]
  BY <1>c DEF WrapSafe, TypeOK, Tree
<1>3. op[p].master = tree[c].check /\ (c \notin failed => Good(tree[c]))
  BY <1>0, <1>1 DEF Current, InProgress
<1>4. c \notin failed => Good(tree[c])'
  BY <1>2, <1>3 DEF Good, SealedFor, WrappedFor
<1>5. CASE Finish(p)
  <2>1. op'[p] = Idle /\ \A q \in Procs : q # p => op'[q] = op[q]
    BY <1>5, OpAfter
  <2>2. Local(p)
    BY <1>0, <1>2, <2>1 DEF Local
  <2> QED BY <1>0, <1>4, <2>1, <2>2, IdleOwesNothing, LocalStep
<1>6. CASE op' = [op EXCEPT ![p].todo = @ \ {s}]
  <2>1. /\ op'[p].cmd = op[p].cmd /\ op'[p].master = op[p].master
        /\ op'[p].step = "wrap"
        /\ \A q \in Procs : q # p => op'[q] = op[q]
    BY <1>c, <1>0, <1>6 DEF TypeOK, Op
  <2>2. Current(p)'
    BY <1>0, <1>1, <1>2, <2>1 DEF Current
  <2>3. c \notin failed => InProgress(p)'
    BY <1>4, <2>1 DEF InProgress
  <2>4. Local(p) /\ Busy(p)'
    BY <1>0, <1>2, <2>1 DEF Local, Busy
  <2> QED BY <1>0, <2>2, <2>3, <2>4, LocalStep
<1> QED BY <1>5, <1>6 DEF WrapSafe

\* A command that stops leaves its clone out of what is shared; a safe that
\* is rolled back was not in any shared file yet.
LEMMA StopConsistent ==
  ASSUME ConstantsOk, OneShellPerClone, TypeOK, ConsistencyInv, NEW p \in Procs,
         Abort(p) \/ RollBack(p)
  PROVE  ConsistencyInv'
<1> DEFINE c == CloneOf[p]
<1>c. c \in Clones
  BY DEF ConstantsOk
<1>0. remote' = remote /\ base' = base
      /\ op'[p] = Idle /\ \A q \in Procs : q # p => op'[q] = op[q]
  BY OpAfter DEF Abort, RollBack
<1>1. CASE Abort(p)
  <2>1. failed' = failed \union {c}
    BY <1>1 DEF Abort
  <2>2. \A d \in Clones : d # c => tree'[d] = tree[d]
    <3>1. PICK t \in {tree[c]} \union TornFiles(p) : tree' = [tree EXCEPT ![c] = t]
      BY <1>1 DEF Abort
    <3> QED BY <3>1 DEF TypeOK
  <2>3. Local(p)
    BY <1>0, <2>1, <2>2 DEF Local
  <2> QED BY <1>0, <2>1, <2>3, IdleOwesNothing, LocalStep
<1>2. CASE RollBack(p)
  <2>1. tree' = tree /\ failed' = failed /\ op[p].cmd = "add"
    BY <1>2 DEF RollBack
  <2>2. c \notin failed => Good(tree[c])
    BY <2>1 DEF ConsistencyInv, Current, InProgress
  <2>3. c \notin failed => Good(tree[c])'
    BY <2>1, <2>2 DEF Good, SealedFor, WrappedFor
  <2>4. Local(p)
    BY <1>0, <2>1 DEF Local
  <2> QED BY <1>0, <2>1, <2>3, <2>4, IdleOwesNothing, LocalStep
<1> QED BY <1>1, <1>2

\* A merge of good trees in which at most one side changed the access files.
LEMMA MergedGood ==
  ASSUME TypeOK, NEW c \in Clones, Good(remote), Good(tree[c]), Good(base[c]), Pull(c)
  PROVE  Good(Merged(c))
<1>t. remote \in Tree /\ tree[c] \in Tree /\ base[c] \in Tree
  BY DEF TypeOK
<1> DEFINE files == IF AccessOf(tree[c]) = AccessOf(base[c]) THEN remote ELSE tree[c]
<1>1. /\ Merged(c).check = files.check /\ Merged(c).users = files.users
      /\ Merged(c).sealedKey = files.sealedKey /\ Merged(c).sealedTo = files.sealedTo
      /\ \A s \in Safes : Merged(c).wrapped[s] =
            IF remote.wrapped[s] = base[c].wrapped[s] THEN tree[c].wrapped[s]
                                                      ELSE remote.wrapped[s]
  BY <1>t DEF Merged, Tree
<1>2. SealedFor(Merged(c))
  <2>1. SealedFor(files)
    BY DEF Good
  <2> QED BY <1>1, <2>1 DEF SealedFor
<1>3. ASSUME ~MayMerge
      PROVE  WrappedFor(Merged(c))
  <2>1. tree[c] = base[c]
    BY <1>3 DEF Pull
  <2>2. files = remote
    BY <2>1
  <2>3. \A s \in Safes : Merged(c).wrapped[s] = remote.wrapped[s]
    BY <1>1, <2>1
  <2> QED BY <1>1, <1>3, <2>2, <2>3 DEF Good, WrappedFor
<1> QED BY <1>2, <1>3 DEF Good

LEMMA GitConsistent ==
  ASSUME ConstantsOk, OneShellPerClone, TypeOK, ConsistencyInv, NEW c \in Clones,
         Publish(c) \/ Pull(c) \/ Restore(c) \/ \E d \in Clones : Configure(c, d)
  PROVE  ConsistencyInv'
<1>0. op' = op /\ \A d \in Clones : d # c => tree'[d] = tree[d] /\ base'[d] = base[d]
  BY DEF Publish, Pull, Restore, Configure, TypeOK
<1>q. Quiet(c) \/ UNCHANGED <<tree, base, remote, failed, op>>
  BY DEF Publish, Pull, Restore, Configure, Shared
<1>f. failed' \subseteq failed /\ \A d \in Clones : d # c => (d \in failed' <=> d \in failed)
  BY DEF Publish, Pull, Restore, Configure
<1>g. c \notin failed' => Good(tree'[c])
  <2>1. CASE Publish(c)
    BY <2>1 DEF Publish, Shared, ConsistencyInv
  <2>2. CASE Pull(c)
    <3>1. Good(Merged(c))
      BY <2>2, MergedGood DEF Pull, Shared, ConsistencyInv
    <3> QED BY <2>2, <3>1 DEF Pull, TypeOK
  <2>3. CASE Restore(c)
    BY <2>3 DEF Restore, TypeOK, ConsistencyInv
  <2>4. CASE \E d \in Clones : Configure(c, d)
    BY <2>4 DEF Configure, ConsistencyInv
  <2> QED BY <2>1, <2>2, <2>3, <2>4
<1>r. Good(remote') /\ Good(base'[c])
  <2>1. CASE Publish(c)
    BY <2>1 DEF Publish, Shared, ConsistencyInv, TypeOK
  <2>2. CASE Pull(c)
    BY <2>2 DEF Pull, ConsistencyInv, TypeOK
  <2>3. CASE Restore(c) \/ \E d \in Clones : Configure(c, d)
    BY <2>3 DEF Restore, Configure, ConsistencyInv
  <2> QED BY <2>1, <2>2, <2>3
<1>1. \A d \in Clones : d # c /\ d \notin failed /\ Quiet(d) => Good(tree'[d])
  BY <1>0 DEF ConsistencyInv
<1>2. \A d \in Clones : Quiet(d)' <=> Quiet(d)
  BY <1>0 DEF Quiet, Busy
<1>3. \A d \in Clones : Good(base'[d])
  BY <1>0, <1>r DEF ConsistencyInv
<1>4. ASSUME NEW p \in Procs
      PROVE  Current(p)' /\ (CloneOf[p] \notin failed' => InProgress(p)')
  <2>1. CloneOf[p] \in Clones /\ Current(p) /\ (CloneOf[p] \notin failed => InProgress(p))
    BY DEF ConstantsOk, ConsistencyInv
  <2>2. CASE CloneOf[p] = c /\ Quiet(c)
    <3>1. op'[p].step = "idle" /\ op'[p] = op[p]
      BY <1>0, <2>2 DEF Quiet, Busy
    <3> QED BY <2>1, <3>1 DEF Current, InProgress
  <2>3. CASE CloneOf[p] # c \/ ~Quiet(c)
    <3>1. tree'[CloneOf[p]] = tree[CloneOf[p]] /\ op'[p] = op[p]
      BY <1>0, <1>q, <2>1, <2>3
    <3>2. CloneOf[p] \notin failed' => CloneOf[p] \notin failed
      BY <1>q, <1>f, <2>1, <2>3
    <3> QED BY <2>1, <3>1, <3>2 DEF Current, InProgress, Good, SealedFor, WrappedFor
  <2> QED BY <2>2, <2>3
<1>5. Good(remote)' /\ \A d \in Clones : Good(base[d])'
  BY <1>r, <1>3 DEF Good, SealedFor, WrappedFor
<1>6. ASSUME NEW d \in Clones, d \notin failed', Quiet(d)'
      PROVE  Good(tree[d])'
  <2>1. Good(tree'[d])
    BY <1>g, <1>1, <1>2, <1>f, <1>6
  <2> QED BY <2>1 DEF Good, SealedFor, WrappedFor
<1> QED BY <1>4, <1>5, <1>6 DEF ConsistencyInv

LEMMA InitConsistent == ASSUME ConstantsOk, Init PROVE ConsistencyInv
<1>1. Pinned(NoUsers) = {}
  BY DEF Pinned, NoUsers
<1>2. Good(EmptyTree)
  BY <1>1 DEF Good, SealedFor, WrappedFor, EmptyTree
<1>3. /\ remote = EmptyTree
      /\ \A c \in Clones : base[c] = EmptyTree /\ tree[c] = EmptyTree
      /\ \A p \in Procs : op[p] = Idle
  BY DEF Init
<1>4. \A p \in Procs : Current(p) /\ InProgress(p)
  BY <1>3 DEF Current, InProgress, Idle
<1> QED BY <1>2, <1>3, <1>4 DEF ConsistencyInv

LEMMA NextConsistent ==
  ASSUME ConstantsOk, OneShellPerClone, TypeOK, ConsistencyInv, [Next]_vars
  PROVE  ConsistencyInv'
<1>1. ASSUME NEW p \in Procs, Command(p)
      PROVE  ConsistencyInv'
  BY <1>1, GrantFirstConsistent, GrantConsistent, RevokeConsistent,
     UnlockConsistent, WrapConsistent DEF Command
<1>2. ASSUME NEW p \in Procs, Step(p)
      PROVE  ConsistencyInv'
  BY <1>2, StoreMasterConsistent, RewrapConsistent, WriteSealedConsistent,
     SaveAccessConsistent, GenerateSafeKeyConsistent, WrapSafeConsistent DEF Step
<1>3. CASE Next
  BY <1>1, <1>2, <1>3, StopConsistent, GitConsistent DEF Next
<1>4. CASE UNCHANGED vars
  BY <1>4 DEF vars, ConsistencyInv, Good, SealedFor, WrappedFor, Quiet, Busy,
              Current, InProgress
<1> QED BY <1>3, <1>4

LEMMA Consistency == ASSUME OneShellPerClone PROVE Spec => []ConsistencyInv
<1>1. Init => ConsistencyInv
  BY ConstantsOk, InitConsistent
<1>2. TypeOK /\ ConsistencyInv /\ [Next]_vars => ConsistencyInv'
  BY ConstantsOk, NextConsistent
<1> QED BY <1>1, <1>2, TypeCorrect, PTL DEF Spec

\* The published master.age is sealed to exactly the keys the published
\* access.yaml pins, and holds the master key it names: for any number of
\* clones and users, any merges, and any number of interrupted commands.
THEOREM SealedMatchesAccessHolds ==
  ASSUME OneShellPerClone PROVE Spec => []SealedMatchesAccess
<1>1. ConsistencyInv => SealedMatchesAccess
  BY DEF ConsistencyInv, Good, SealedMatchesAccess
<1> QED BY <1>1, Consistency, PTL

\* Where a clone's own changes are never merged with published ones, every
\* published wrapped key opens with the published master key.
THEOREM WrappedOpensHolds ==
  ASSUME OneShellPerClone, ~MayMerge PROVE Spec => []WrappedOpens
<1>1. ConsistencyInv => WrappedOpens
  BY DEF ConsistencyInv, Good, WrappedOpens
<1> QED BY <1>1, Consistency, PTL
=============================================================================
