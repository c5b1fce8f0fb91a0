---------------------------- MODULE Policy_proofs ----------------------------
(***************************************************************************)
(* Proofs that MasterKey implements AccessPolicy, that a revoke cuts off,  *)
(* and that an unlock suffices: for every number of users, keys, safes,    *)
(* clones, master keys and interrupted commands, with and without merges,  *)
(* if each clone is worked in from one shell.                              *)
(***************************************************************************)
EXTENDS MasterKey_proofs

-----------------------------------------------------------------------------
(* The master keys that a clone has in its files or in its commands. *)

Has(c) == {tree[c].check, base[c].check}
            \union {op[p].master : p \in {q \in Procs : CloneOf[q] = c}}

\* Keys come from GenerateMasterKey, and no other key was ever published.
KnownKeys ==
    /\ remote.check \in generated \union {NoKey}
    /\ \A c \in Clones : base[c].check \in generated \union {NoKey}
    /\ \A c \in Clones : Has(c) \subseteq generated \union {NoKey, Torn}
    /\ \A m \in MasterKeys \ generated : opened[m] = {}

\* A key that a clone has and did not get from the published branch is its
\* own: it was sealed to nobody, and no other clone has it.
Exclusive(c, m) ==
    /\ opened[m] = {} /\ m # remote.check
    /\ \A d \in Clones : d # c => m \notin Has(d)

NewKeysExclusive ==
    \A c \in Clones : \A m \in Has(c) \intersect MasterKeys :
        m # base[c].check => Exclusive(c, m)

-----------------------------------------------------------------------------
(* The users that a clone is going to publish. A clone in which a command  *)
(* stopped halfway may hold an access.yaml without its last users; it is   *)
(* restored before it publishes anything.                                  *)

Listed(users) == {u \in Users : users[u] # {}}

\* Under the published key, `users` drops nobody of those published.
Keeps(c, m, users) == m = base[c].check => Listed(base[c].users) \subseteq Listed(users)

Changing(p) == op[p].cmd \in {"grant", "revoke"}

\* A key comes with somebody who has it.
Held(t) == /\ t.check = NoKey => t.users = NoUsers
           /\ t.check \in MasterKeys => Listed(t.users) # {}

TreeKeeps(c) ==
    /\ Held(base[c])
    /\ tree[c].check = NoKey => base[c].check = NoKey
    /\ tree[c].check = Torn => c \in failed
    /\ c \notin failed => Held(tree[c]) /\ Keeps(c, tree[c].check, tree[c].users)

OpKeeps(p) ==
    /\ op[p].step = "idle" => op[p] = Idle
    /\ op[p].step \in {"seal", "save", "rewrap"} => Changing(p)
    /\ Changing(p) => op[p].master \in MasterKeys
    /\ Changing(p) /\ CloneOf[p] \notin failed =>
          /\ Listed(op[p].users) # {}
          /\ Keeps(CloneOf[p], op[p].master, op[p].users)

UsersKept ==
    /\ Held(remote)
    /\ \A c \in Clones : TreeKeeps(c)
    /\ \A p \in Procs : OpKeeps(p)

PolicyInv == KnownKeys /\ NewKeysExclusive /\ UsersKept

-----------------------------------------------------------------------------
(* Commands *)

\* A step of a shell takes up no key but one it has, or a new one.
Carries(p) ==
    LET c == CloneOf[p] IN
    /\ remote' = remote /\ base' = base /\ opened' = opened
    /\ \A d \in Clones : d # c => tree'[d] = tree[d]
    /\ \A q \in Procs : q # p => op'[q] = op[q]
    /\ generated \subseteq generated'
    /\ tree'[c].check \in {tree[c].check, op[p].master, Torn}
    /\ op'[p].master \in {op[p].master, NoKey, tree[c].check} \union (generated' \ generated)

LEMMA KeysCarried ==
  ASSUME ConstantsOk, TypeOK, TypeOK', KnownKeys, NewKeysExclusive,
         NEW p \in Procs, Carries(p)
  PROVE  KnownKeys' /\ NewKeysExclusive'
<1> DEFINE c == CloneOf[p]
           New == generated' \ generated
<1>c. c \in Clones
  BY DEF ConstantsOk
<1>g. New \subseteq MasterKeys /\ generated \subseteq MasterKeys
  BY DEF TypeOK
<1>1. Has(c)' \subseteq Has(c) \union {NoKey, Torn} \union New
  BY DEF Has, Carries
<1>2. \A d \in Clones : d # c => Has(d)' = Has(d)
  <2> SUFFICES ASSUME NEW d \in Clones, d # c
               PROVE  Has(d)' = Has(d)
    OBVIOUS
  <2>1. \A q \in Procs : CloneOf[q] = d => op'[q] = op[q]
    BY DEF Carries
  <2> QED BY <2>1 DEF Has, Carries
<1>3. KnownKeys'
  <2>1. \A d \in Clones : Has(d)' \subseteq generated' \union {NoKey, Torn}
    BY <1>1, <1>2 DEF KnownKeys, Carries
  <2>2. \A m \in MasterKeys \ generated' : opened'[m] = {}
    BY DEF KnownKeys, Carries
  <2> QED BY <2>1, <2>2 DEF KnownKeys, Carries
<1>4. ASSUME NEW d \in Clones, NEW m \in MasterKeys, m \in Has(d)', m # base[d].check
      PROVE  Exclusive(d, m)'
  <2>n. m # NoKey /\ m # Torn
    BY DEF ConstantsOk
  <2>1. CASE m \in New
    <3>1. opened[m] = {} /\ m # remote.check /\ \A e \in Clones : m \notin Has(e)
      BY <2>1, <2>n DEF KnownKeys
    <3>2. d = c
      BY <1>2, <1>4, <3>1
    <3> QED BY <1>2, <3>1, <3>2 DEF Exclusive, Carries
  <2>2. CASE m \notin New
    <3>1. m \in Has(d)
      BY <1>1, <1>2, <1>4, <2>2, <2>n
    <3>2. Exclusive(d, m)
      BY <1>4, <3>1 DEF NewKeysExclusive
    <3>3. \A e \in Clones : e # d => m \notin Has(e)'
      BY <1>1, <1>2, <2>2, <2>n, <3>2 DEF Exclusive
    <3> QED BY <3>2, <3>3 DEF Exclusive, Carries
  <2> QED BY <2>1, <2>2
<1>5. base' = base
  BY DEF Carries
<1> QED BY <1>3, <1>4, <1>5 DEF NewKeysExclusive

\* What a step must establish about the users of its own clone and shell.
LEMMA UsersCarried ==
  ASSUME ConstantsOk, TypeOK, KnownKeys, UsersKept, NEW p \in Procs, Carries(p),
         failed \subseteq failed', OpKeeps(p)',
         \/ /\ tree'[CloneOf[p]].check = tree[CloneOf[p]].check
            /\ tree'[CloneOf[p]].users = tree[CloneOf[p]].users
         \/ /\ Changing(p)
            /\ tree'[CloneOf[p]].check = op[p].master
            /\ tree'[CloneOf[p]].users = op[p].users
         \/ CloneOf[p] \in failed' /\ tree'[CloneOf[p]].check # NoKey
  PROVE  UsersKept'
<1> DEFINE c == CloneOf[p]
<1>c. c \in Clones /\ base' = base /\ remote' = remote
  BY DEF ConstantsOk, Carries
<1>t. TreeKeeps(c) /\ OpKeeps(p)
  BY <1>c DEF UsersKept
<1>1. TreeKeeps(c)'
  <2>1. CASE tree'[c].check = tree[c].check /\ tree'[c].users = tree[c].users
    BY <1>c, <1>t, <2>1 DEF TreeKeeps, Held, Keeps, Listed
  <2>2. CASE Changing(p) /\ tree'[c].check = op[p].master /\ tree'[c].users = op[p].users
    <3>1. op[p].master # NoKey /\ op[p].master # Torn
      BY <1>t, <2>2 DEF OpKeeps, ConstantsOk
    <3> QED BY <1>c, <1>t, <2>2, <3>1 DEF TreeKeeps, Held, OpKeeps, Keeps, Listed
  <2>3. CASE c \in failed' /\ tree'[c].check # NoKey
    BY <1>c, <1>t, <2>3 DEF TreeKeeps, Held
  <2> QED BY <2>1, <2>2, <2>3
<1>2. ASSUME NEW d \in Clones, d # c
      PROVE  TreeKeeps(d)'
  <2>1. tree'[d] = tree[d] /\ TreeKeeps(d)
    BY <1>2 DEF Carries, UsersKept
  <2> QED BY <1>c, <2>1 DEF TreeKeeps, Held, Keeps, Listed
<1>3. ASSUME NEW q \in Procs, q # p
      PROVE  OpKeeps(q)'
  <2>1. op'[q] = op[q] /\ OpKeeps(q)
    BY <1>3 DEF Carries, UsersKept
  <2> QED BY <1>c, <2>1 DEF OpKeeps, Changing, Keeps, Listed
<1>4. Held(remote)'
  BY <1>c DEF UsersKept, Held, Listed
<1> QED BY <1>1, <1>2, <1>3, <1>4 DEF UsersKept

LEMMA BeginKeeps ==
  ASSUME ConstantsOk, TypeOK, TypeOK', PolicyInv, NEW p \in Procs,
         NEW cmd, NEW step, NEW m, NEW users, NEW todo,
         Begin(p, cmd, step, m, users, todo),
         UNCHANGED <<remote, base, tree, opened, failed>>,
         generated \subseteq generated',
         m \in {NoKey, tree[CloneOf[p]].check} \union (generated' \ generated),
         step # "idle", step \in {"seal", "save", "rewrap"} => cmd \in {"grant", "revoke"},
         cmd \in {"grant", "revoke"} =>
            /\ m \in MasterKeys
            /\ CloneOf[p] \notin failed => Listed(users) # {} /\ Keeps(CloneOf[p], m, users)
  PROVE  PolicyInv'
<1>1. /\ op'[p] = [cmd |-> cmd, step |-> step, master |-> m, users |-> users, todo |-> todo]
      /\ \A q \in Procs : q # p => op'[q] = op[q]
  BY DEF Begin, TypeOK
<1>2. Carries(p)
  BY <1>1 DEF Carries
<1>3. OpKeeps(p)'
  BY <1>1 DEF OpKeeps, Changing, Keeps, Listed
<1> QED BY <1>2, <1>3, KeysCarried, UsersCarried DEF PolicyInv

\* A new key is not one the published branch has had.
LEMMA NewKey ==
  ASSUME ConstantsOk, KnownKeys, NEW c \in Clones, NEW m \in MasterKeys, Generate(m)
  PROVE  /\ m # base[c].check
         /\ generated \subseteq generated' /\ m \in generated' \ generated
  BY DEF ConstantsOk, KnownKeys, Generate

LEMMA CommandKeeps ==
  ASSUME ConstantsOk, TypeOK, TypeOK', PolicyInv, NEW p \in Procs, Command(p)
  PROVE  PolicyInv'
<1> DEFINE c == CloneOf[p]
           t == tree[c]
<1>c. c \in Clones /\ t.users \in [Users -> SUBSET Keys] /\ TreeKeeps(c)
  BY DEF ConstantsOk, TypeOK, Tree, PolicyInv, UsersKept
<1>1. ASSUME NEW u \in Users, NEW m \in MasterKeys, NEW ks \in GitHub[u], GrantFirst(p, u, ks, m)
      PROVE  PolicyInv'
  <2> DEFINE users == [NoUsers EXCEPT ![u] = ks]
  <2>1. u \in Listed(users)
    BY DEF ConstantsOk, Listed, NoUsers
  <2>2. /\ Begin(p, "grant", "store", m, users, {}) /\ Generate(m)
        /\ UNCHANGED <<remote, base, tree, opened, failed>>
    BY <1>1 DEF GrantFirst
  <2>3. Keeps(c, m, users) /\ generated \subseteq generated' /\ m \in generated' \ generated
    BY <1>c, <2>2, NewKey DEF Keeps, PolicyInv
  <2> HIDE DEF users
  <2> QED BY <2>1, <2>2, <2>3, BeginKeeps
<1>2. ASSUME NEW u \in Users, NEW m \in MasterKeys, Revoke(p, u, m)
      PROVE  PolicyInv'
  <2> DEFINE users == [t.users EXCEPT ![u] = {}]
             rewrapped == {s \in Safes : t.wrapped[s] # NoKey}
             step == IF rewrapped = {} THEN "seal" ELSE "rewrap"
  <2>1. PICK v \in Users : v # u /\ t.users[v] # {}
    BY <1>2 DEF Revoke, Members
  <2>2. v \in Listed(users)
    BY <1>c, <2>1 DEF Listed
  <2>3. /\ Begin(p, "revoke", step, m, users, rewrapped) /\ Generate(m)
        /\ UNCHANGED <<remote, base, tree, opened, failed>>
    BY <1>2 DEF Revoke
  <2>4. Keeps(c, m, users) /\ generated \subseteq generated' /\ m \in generated' \ generated
    BY <1>c, <2>3, NewKey DEF Keeps, PolicyInv
  <2>5. step \in {"seal", "rewrap"}
    OBVIOUS
  <2> HIDE DEF users, step, rewrapped
  <2> QED BY <2>2, <2>3, <2>4, <2>5, BeginKeeps
<1>3. ASSUME NEW u \in Users, NEW ks \in GitHub[u], Grant(p, u, ks)
      PROVE  PolicyInv'
  <2> DEFINE users == [t.users EXCEPT ![u] = ks]
  <2>1. u \in Listed(users) /\ Listed(t.users) \subseteq Listed(users)
    BY <1>c DEF ConstantsOk, Listed
  <2>2. c \notin failed => Keeps(c, t.check, users)
    BY <1>c, <2>1 DEF TreeKeeps, Held, Keeps
  <2>3. t.check \in MasterKeys /\ Begin(p, "grant", "seal", t.check, users, {})
    BY <1>3, LoadedMaster DEF Grant, Unlocked
  <2>4. UNCHANGED <<remote, base, tree, opened, failed, generated>>
    BY <1>3 DEF Grant
  <2> HIDE DEF users
  <2> QED BY <2>1, <2>2, <2>3, <2>4, BeginKeeps
<1>4. CASE Unlock(p)
  <2>1. Begin(p, "unlock", "store", t.check, NoUsers, {})
    BY <1>4 DEF Unlock
  <2>2. UNCHANGED <<remote, base, tree, opened, failed, generated>>
    BY <1>4 DEF Unlock
  <2> QED BY <2>1, <2>2, BeginKeeps
<1>5. CASE Wrap(p)
  <2>1. Begin(p, "wrap", "wrap", t.check, NoUsers, safeKey[c])
    BY <1>5, LoadedMaster
  <2>2. UNCHANGED <<remote, base, tree, opened, failed, generated>>
    BY <1>5 DEF Wrap
  <2> QED BY <2>1, <2>2, BeginKeeps
<1>6. ASSUME NEW s \in Safes, Add(p, s)
      PROVE  PolicyInv'
  <2>1. Begin(p, "add", "generate", t.check, NoUsers, {s})
    BY <1>6, LoadedMaster
  <2>2. UNCHANGED <<remote, base, tree, opened, failed, generated>>
    BY <1>6 DEF Add
  <2> QED BY <2>1, <2>2, BeginKeeps
<1> QED BY <1>1, <1>2, <1>3, <1>4, <1>5, <1>6 DEF Command

\* A command that goes on with what it computed owes what it owed.
LEMMA GoesOn ==
  ASSUME NEW p \in Procs, OpKeeps(p), base' = base, failed \subseteq failed',
         \/ op'[p] = Idle
         \/ /\ op'[p].cmd = op[p].cmd /\ op'[p].master = op[p].master
            /\ op'[p].users = op[p].users
            /\ op'[p].step # "idle"
            /\ op'[p].step \in {"seal", "save", "rewrap"} => Changing(p)
  PROVE  OpKeeps(p)'
<1>1. CASE op'[p] = Idle
  BY <1>1 DEF OpKeeps, Changing, Idle
<1>2. CASE op'[p] # Idle
  BY <1>2 DEF OpKeeps, Changing, Keeps, Listed
<1> QED BY <1>1, <1>2

LEMMA StepKeeps ==
  ASSUME ConstantsOk, TypeOK, TypeOK', ConsistencyInv, PolicyInv, NEW p \in Procs, Step(p)
  PROVE  PolicyInv'
<1> DEFINE c == CloneOf[p]
<1>c. c \in Clones /\ tree[c] \in Tree /\ op[p] \in Op /\ Idle.master = NoKey
  BY DEF ConstantsOk, TypeOK, Idle
<1>p. OpKeeps(p) /\ Current(p)
  BY DEF PolicyInv, UsersKept, ConsistencyInv
<1>s. ASSUME Carries(p), OpKeeps(p)', failed' = failed,
             \/ /\ tree'[c].check = tree[c].check /\ tree'[c].users = tree[c].users
             \/ /\ Changing(p)
                /\ tree'[c].check = op[p].master /\ tree'[c].users = op[p].users
      PROVE  PolicyInv'
  BY <1>s, KeysCarried, UsersCarried DEF PolicyInv
<1>1. CASE StoreMaster(p) \/ GenerateSafeKey(p)
  <2>1. /\ UNCHANGED <<remote, base, tree, opened, failed, generated>>
        /\ \/ Continue(p, "seal") /\ op[p].cmd = "grant"
           \/ Continue(p, "wrap")
           \/ Finish(p)
    BY <1>1 DEF StoreMaster, GenerateSafeKey
  <2>2. /\ \A q \in Procs : q # p => op'[q] = op[q]
        /\ \/ op'[p] = Idle
           \/ /\ op'[p].cmd = op[p].cmd /\ op'[p].master = op[p].master
              /\ op'[p].users = op[p].users
              /\ op'[p].step # "idle"
              /\ op'[p].step \in {"seal", "save", "rewrap"} => Changing(p)
    <3>1. CASE Continue(p, "seal") /\ op[p].cmd = "grant"
      BY <3>1, OpAfter DEF Steps, Changing
    <3>2. CASE Continue(p, "wrap")
      BY <3>2, OpAfter DEF Steps
    <3>3. CASE Finish(p)
      BY <3>3, OpAfter
    <3> QED BY <2>1, <3>1, <3>2, <3>3
  <2>3. Carries(p)
    BY <1>c, <2>1, <2>2 DEF Carries
  <2>4. OpKeeps(p)'
    BY <1>p, <2>1, <2>2, GoesOn
  <2> QED BY <2>1, <2>3, <2>4, <1>s
<1>2. CASE WriteSealed(p)
  <2>1. /\ UNCHANGED <<remote, base, opened, failed, generated>>
        /\ op[p].step = "seal" /\ Continue(p, "save")
        /\ tree'[c].check = tree[c].check /\ tree'[c].users = tree[c].users
        /\ \A d \in Clones : d # c => tree'[d] = tree[d]
    BY <1>2, <1>c DEF WriteSealed, TypeOK, Tree
  <2>2. /\ \A q \in Procs : q # p => op'[q] = op[q]
        /\ op'[p].cmd = op[p].cmd /\ op'[p].master = op[p].master
        /\ op'[p].users = op[p].users /\ op'[p].step = "save"
    BY <2>1, OpAfter DEF Steps
  <2>3. Carries(p)
    BY <1>c, <2>1, <2>2 DEF Carries
  <2>4. OpKeeps(p)'
    BY <1>p, <2>1, <2>2, GoesOn DEF OpKeeps
  <2> QED BY <2>1, <2>3, <2>4, <1>s
<1>3. CASE SaveAccess(p)
  <2>1. /\ UNCHANGED <<remote, base, opened, failed, generated>>
        /\ op[p].step = "save" /\ (Continue(p, "store") \/ Finish(p))
        /\ tree'[c].check = op[p].master /\ tree'[c].users = op[p].users
        /\ \A d \in Clones : d # c => tree'[d] = tree[d]
    BY <1>3, <1>c DEF SaveAccess, TypeOK, Tree
  <2>2. /\ \A q \in Procs : q # p => op'[q] = op[q]
        /\ \/ op'[p] = Idle
           \/ /\ op'[p].cmd = op[p].cmd /\ op'[p].master = op[p].master
              /\ op'[p].users = op[p].users /\ op'[p].step = "store"
    BY <2>1, OpAfter DEF Steps
  <2>3. Carries(p)
    BY <1>c, <2>1, <2>2 DEF Carries
  <2>4. Changing(p) /\ OpKeeps(p)'
    BY <1>p, <2>1, <2>2, GoesOn DEF OpKeeps
  <2> QED BY <2>1, <2>3, <2>4, <1>s
<1>4. ASSUME NEW s \in Safes, Rewrap(p, s) \/ WrapSafe(p, s)
      PROVE  PolicyInv'
  <2>1. /\ UNCHANGED <<remote, base, opened, failed, generated>>
        /\ tree'[c].check = tree[c].check /\ tree'[c].users = tree[c].users
        /\ \A d \in Clones : d # c => tree'[d] = tree[d]
    BY <1>4, <1>c DEF Rewrap, WrapSafe, TypeOK, Tree
  <2>2. /\ \A q \in Procs : q # p => op'[q] = op[q]
        /\ \/ op'[p] = Idle
           \/ /\ op'[p].cmd = op[p].cmd /\ op'[p].master = op[p].master
              /\ op'[p].users = op[p].users
              /\ op'[p].step \in {"seal", "rewrap"} => op[p].step = "rewrap"
              /\ op'[p].step \notin {"idle", "save"}
    BY <1>4, <1>c, OpAfter DEF Rewrap, WrapSafe, TypeOK, Op
  <2>3. Carries(p)
    BY <1>c, <2>1, <2>2 DEF Carries
  <2>4. OpKeeps(p)'
    BY <1>p, <2>1, <2>2, GoesOn DEF OpKeeps
  <2> QED BY <2>1, <2>3, <2>4, <1>s
<1> QED BY <1>1, <1>2, <1>3, <1>4 DEF Step

LEMMA StopKeeps ==
  ASSUME ConstantsOk, TypeOK, TypeOK', PolicyInv, NEW p \in Procs, Abort(p) \/ RollBack(p)
  PROVE  PolicyInv'
<1> DEFINE c == CloneOf[p]
<1>c. c \in Clones /\ tree[c] \in Tree /\ Idle.master = NoKey /\ OpKeeps(p)
  BY DEF ConstantsOk, TypeOK, Idle, PolicyInv, UsersKept
<1>1. /\ UNCHANGED <<remote, base, opened, generated>> /\ failed \subseteq failed'
      /\ op'[p] = Idle /\ \A q \in Procs : q # p => op'[q] = op[q]
  BY OpAfter DEF Abort, RollBack
<1>2. PICK t : /\ tree' = [tree EXCEPT ![c] = t]
               /\ t = tree[c] \/ (t \in TornFiles(p) /\ c \in failed')
  <2>1. CASE Abort(p)
    BY <2>1 DEF Abort
  <2>2. CASE RollBack(p)
    BY <2>2, <1>c DEF RollBack, TypeOK
  <2> QED BY <2>1, <2>2
<1>3. /\ \A d \in Clones : d # c => tree'[d] = tree[d]
      /\ \/ tree'[c].check = tree[c].check /\ tree'[c].users = tree[c].users
         \/ c \in failed' /\ tree'[c].check \in {Torn, op[p].master} \ {NoKey}
  <2>1. tree'[c] = t /\ \A d \in Clones : d # c => tree'[d] = tree[d]
    BY <1>c, <1>2 DEF TypeOK
  <2>2. ASSUME t \in TornFiles(p)
        PROVE  \/ t.check \in {Torn, op[p].master} \ {NoKey}
               \/ t.check = tree[c].check /\ t.users = tree[c].users
    <3>1. CASE op[p].step = "seal"
      BY <1>c, <2>2, <3>1 DEF TornFiles, Tree
    <3>2. CASE op[p].step = "save"
      <4>1. t.check \in {Torn, op[p].master}
        BY <1>c, <2>2, <3>2 DEF TornFiles, Tree
      <4>2. NoKey \notin {Torn, op[p].master}
        BY <1>c, <3>2 DEF OpKeeps, ConstantsOk
      <4> QED BY <4>1, <4>2
    <3>3. CASE op[p].step \in {"rewrap", "wrap"}
      <4>1. PICK s : t = [tree[c] EXCEPT !.wrapped[s] = Torn]
        BY <2>2, <3>3 DEF TornFiles
      <4> QED BY <1>c, <4>1 DEF Tree
    <3>4. CASE op[p].step \notin {"seal", "save", "rewrap", "wrap"}
      BY <2>2, <3>4 DEF TornFiles
    <3> QED BY <3>1, <3>2, <3>3, <3>4
  <2> QED BY <1>2, <2>1, <2>2
<1>4. Carries(p)
  BY <1>c, <1>1, <1>3 DEF Carries
<1>5. OpKeeps(p)'
  BY <1>c, <1>1, GoesOn
<1> QED BY <1>1, <1>3, <1>4, <1>5, KeysCarried, UsersCarried DEF PolicyInv

-----------------------------------------------------------------------------
(* Git *)

\* In a quiet clone no command holds a key, or owes anything.
LEMMA QuietHasFiles ==
  ASSUME NEW c \in Clones, Quiet(c), UsersKept
  PROVE  /\ \A p \in Procs : CloneOf[p] = c => op[p] = Idle
         /\ Has(c) \subseteq {tree[c].check, base[c].check, NoKey}
<1>1. \A p \in Procs : CloneOf[p] = c => op[p] = Idle
  BY DEF UsersKept, OpKeeps, Quiet, Busy
<1>2. \A p \in Procs : CloneOf[p] = c => op[p].master = NoKey
  BY <1>1 DEF Idle
<1> QED BY <1>1, <1>2 DEF Has

LEMMA PublishKeeps ==
  ASSUME ConstantsOk, TypeOK, ConsistencyInv, PolicyInv, NEW c \in Clones, Publish(c)
  PROVE  PolicyInv'
<1> DEFINE t == tree[c]
<1> USE DEF PolicyInv
<1>0. /\ UNCHANGED <<tree, op, generated, failed>> /\ remote' = t
      /\ base'[c] = t /\ \A d \in Clones : d # c => base'[d] = base[d]
      /\ \A m \in MasterKeys : t.check # m => opened'[m] = opened[m]
  <2>1. Good(t)
    BY DEF Publish, Shared, ConsistencyInv
  <2> QED BY <2>1 DEF Publish, Good, SealedFor, TypeOK
<1>1. Quiet(c) /\ c \notin failed /\ TreeKeeps(c)
  BY DEF Publish, Shared, UsersKept
<1>2. t.check \in generated \union {NoKey}
  BY <1>1 DEF TreeKeeps, KnownKeys, Has
<1>3. /\ \A d \in Clones : d # c => Has(d)' = Has(d)
      /\ Has(c)' \subseteq {t.check, NoKey} /\ Has(c)' \subseteq Has(c)
      /\ t.check \in Has(c)
  <2>1. \A d \in Clones : d # c => Has(d)' = Has(d)
    BY <1>0 DEF Has
  <2>2. \A p \in Procs : CloneOf[p] = c => op'[p].master = NoKey
    BY <1>0, <1>1, QuietHasFiles DEF Idle
  <2>3. Has(c)' \subseteq {t.check, NoKey} /\ Has(c)' \subseteq Has(c)
    BY <1>0, <2>2 DEF Has
  <2> QED BY <2>1, <2>3 DEF Has
<1>4. KnownKeys'
  <2>1. \A m \in MasterKeys \ generated' : opened'[m] = {}
    BY <1>0, <1>2 DEF KnownKeys, ConstantsOk
  <2> QED BY <1>0, <1>2, <1>3, <2>1 DEF KnownKeys
<1>5. ASSUME NEW d \in Clones, NEW m \in MasterKeys, m \in Has(d)', m # base'[d].check
      PROVE  Exclusive(d, m)'
  <2>1. d # c
    BY <1>0, <1>3, <1>5 DEF ConstantsOk
  <2>2. Exclusive(d, m)
    BY <1>0, <1>3, <1>5, <2>1 DEF NewKeysExclusive
  <2>3. m # t.check
    BY <1>3, <2>1, <2>2 DEF Exclusive
  <2> QED BY <1>0, <1>3, <2>2, <2>3 DEF Exclusive
<1>6. ASSUME NEW d \in Clones
      PROVE  TreeKeeps(d)'
  <2>1. TreeKeeps(d) /\ tree' = tree /\ failed' = failed
    BY <1>0 DEF UsersKept
  <2> QED BY <1>0, <1>1, <2>1 DEF TreeKeeps, Held, Keeps, Listed
<1>7. ASSUME NEW p \in Procs
      PROVE  OpKeeps(p)'
  <2>1. CASE CloneOf[p] = c
    <3>1. op'[p] = Idle
      BY <1>0, <1>1, <2>1, QuietHasFiles
    <3> QED BY <3>1 DEF OpKeeps, Changing, Idle
  <2>2. CASE CloneOf[p] # c
    BY <1>0, <2>2 DEF UsersKept, OpKeeps, Changing, Keeps, Listed, ConstantsOk
  <2> QED BY <2>1, <2>2
<1>8. Held(remote)'
  BY <1>0, <1>1 DEF TreeKeeps, Held, Listed
<1> QED BY <1>4, <1>5, <1>6, <1>7, <1>8 DEF UsersKept, NewKeysExclusive

\* Pull and Restore: the clone ends with access files of the published branch,
\* or keeps its own over a base with the same access files.
LEMMA UpdateKeeps ==
  ASSUME ConstantsOk, TypeOK, PolicyInv, NEW c \in Clones, Quiet(c),
         UNCHANGED <<remote, op, generated, opened>>,
         failed' \subseteq failed, failed \subseteq failed' \union {c},
         \A d \in Clones : d # c => tree'[d] = tree[d] /\ base'[d] = base[d],
         base'[c] \in {base[c], remote},
         \/ /\ tree'[c].check = base'[c].check /\ tree'[c].users = base'[c].users
         \/ /\ tree'[c].check = tree[c].check /\ tree'[c].users = tree[c].users
            /\ base'[c].check = base[c].check /\ base'[c].users = base[c].users
            /\ failed' = failed
  PROVE  PolicyInv'
<1> USE DEF PolicyInv
<1>1. Has(c)' \subseteq {tree'[c].check, base'[c].check, NoKey}
  <2>1. \A p \in Procs : CloneOf[p] = c => op'[p].master = NoKey
    BY QuietHasFiles DEF Idle
  <2> QED BY <2>1 DEF Has
<1>2. /\ \A d \in Clones : d # c => Has(d)' = Has(d)
      /\ Has(c)' \subseteq Has(c) \union {NoKey, remote.check}
  <2>1. \A d \in Clones : d # c => Has(d)' = Has(d)
    BY DEF Has
  <2>2. tree'[c].check \in Has(c) \union {remote.check} /\ base'[c].check \in Has(c) \union {remote.check}
    BY DEF Has
  <2> QED BY <1>1, <2>1, <2>2
<1>3. KnownKeys'
  <2>1. \A d \in Clones : base'[d].check \in generated \union {NoKey}
    BY DEF KnownKeys
  <2>2. \A d \in Clones : Has(d)' \subseteq generated \union {NoKey, Torn}
    BY <1>2 DEF KnownKeys
  <2> QED BY <2>1, <2>2 DEF KnownKeys
<1>4. ASSUME NEW d \in Clones, NEW m \in MasterKeys, m \in Has(d)', m # base'[d].check
      PROVE  Exclusive(d, m)'
  <2>n. m # NoKey
    BY DEF ConstantsOk
  <2>1. Exclusive(d, m)
    <3>1. CASE d = c
      <4>1. m = tree[c].check /\ m # base[c].check
        BY <1>1, <1>4, <2>n, <3>1
      <4> QED BY <3>1, <4>1 DEF NewKeysExclusive, Has
    <3>2. CASE d # c
      BY <1>2, <1>4, <3>2 DEF NewKeysExclusive
    <3> QED BY <3>1, <3>2
  <2>2. \A e \in Clones : e # d => m \notin Has(e)'
    BY <1>2, <2>n, <2>1 DEF Exclusive
  <2> QED BY <2>1, <2>2 DEF Exclusive
<1>5. ASSUME NEW d \in Clones
      PROVE  TreeKeeps(d)'
  <2>1. TreeKeeps(d)
    BY DEF UsersKept
  <2>2. CASE d # c
    BY <2>1, <2>2 DEF TreeKeeps, Held, Keeps, Listed
  <2>3. CASE d = c /\ tree'[c].check = base'[c].check /\ tree'[c].users = base'[c].users
    <3>1. base'[c].check # Torn
      BY DEF KnownKeys, ConstantsOk, TypeOK
    <3>2. Held(base'[c])
      BY <2>1 DEF TreeKeeps, UsersKept
    <3> QED BY <2>3, <3>1, <3>2 DEF TreeKeeps, Held, Keeps, Listed
  <2>4. CASE d = c /\ ~(tree'[c].check = base'[c].check /\ tree'[c].users = base'[c].users)
    BY <2>1, <2>4 DEF TreeKeeps, Held, Keeps, Listed
  <2> QED BY <2>2, <2>3, <2>4
<1>6. ASSUME NEW p \in Procs
      PROVE  OpKeeps(p)'
  <2>1. CASE CloneOf[p] = c
    <3>1. op'[p] = Idle
      BY <2>1, QuietHasFiles
    <3> QED BY <3>1 DEF OpKeeps, Changing, Idle
  <2>2. CASE CloneOf[p] # c
    BY <2>2 DEF UsersKept, OpKeeps, Changing, Keeps, Listed, ConstantsOk
  <2> QED BY <2>1, <2>2
<1> QED BY <1>3, <1>4, <1>5, <1>6 DEF UsersKept, NewKeysExclusive

LEMMA MergeKeeps ==
  ASSUME ConstantsOk, TypeOK, PolicyInv, NEW c \in Clones,
         Pull(c) \/ Restore(c) \/ \E d \in Clones : Configure(c, d)
  PROVE  PolicyInv'
<1>t. remote \in Tree /\ tree[c] \in Tree /\ base[c] \in Tree
  BY DEF TypeOK
<1>1. CASE Pull(c)
  <2>1. /\ Quiet(c) /\ UNCHANGED <<remote, op, generated, opened, failed>>
        /\ base'[c] = remote /\ tree'[c] = Merged(c)
        /\ \A d \in Clones : d # c => tree'[d] = tree[d] /\ base'[d] = base[d]
        /\ AccessOf(tree[c]) = AccessOf(base[c]) \/ AccessOf(remote) = AccessOf(base[c])
    BY <1>1 DEF Pull, Shared, TypeOK
  <2>2. CASE AccessOf(tree[c]) = AccessOf(base[c])
    <3>1. tree'[c].check = remote.check /\ tree'[c].users = remote.users
      BY <1>t, <2>1, <2>2 DEF Merged, Tree
    <3> QED BY <2>1, <3>1, UpdateKeeps
  <2>3. CASE AccessOf(tree[c]) # AccessOf(base[c])
    <3>1. tree'[c].check = tree[c].check /\ tree'[c].users = tree[c].users
      BY <1>t, <2>1, <2>3 DEF Merged, Tree
    <3>2. remote.check = base[c].check /\ remote.users = base[c].users
      BY <2>1, <2>3 DEF AccessOf
    <3> QED BY <2>1, <3>1, <3>2, UpdateKeeps
  <2> QED BY <2>2, <2>3
<1>2. CASE Restore(c)
  <2>1. /\ Quiet(c) /\ UNCHANGED <<remote, base, op, generated, opened>>
        /\ tree'[c] = base[c] /\ failed' = failed \ {c}
        /\ \A d \in Clones : d # c => tree'[d] = tree[d] /\ base'[d] = base[d]
    BY <1>2 DEF Restore, TypeOK
  <2> QED BY <2>1, UpdateKeeps
<1>3. CASE \E d \in Clones : Configure(c, d)
  <2>1. UNCHANGED <<remote, base, tree, op, generated, opened, failed>> /\ Quiet(c)
    BY <1>3 DEF Configure
  <2> QED BY <2>1, UpdateKeeps
<1> QED BY <1>1, <1>2, <1>3

-----------------------------------------------------------------------------
(* The invariant *)

LEMMA InitKeeps == ASSUME ConstantsOk, Init PROVE PolicyInv
<1>1. /\ remote = EmptyTree /\ generated = {}
      /\ \A c \in Clones : base[c] = EmptyTree /\ tree[c] = EmptyTree
      /\ \A p \in Procs : op[p] = Idle
      /\ \A m \in MasterKeys : opened[m] = {}
  BY DEF Init
<1>2. EmptyTree.check = NoKey /\ EmptyTree.users = NoUsers /\ Idle.master = NoKey
      /\ Idle.step = "idle" /\ Idle.cmd = "none"
  BY DEF EmptyTree, Idle
<1>3. \A c \in Clones : Has(c) \subseteq {NoKey}
  BY <1>1, <1>2 DEF Has
<1>4. KnownKeys
  BY <1>1, <1>2, <1>3 DEF KnownKeys
<1>5. NewKeysExclusive
  BY <1>3 DEF NewKeysExclusive, ConstantsOk
<1>6. Held(remote) /\ \A c \in Clones : TreeKeeps(c)
  BY <1>1, <1>2 DEF Held, TreeKeeps, Keeps, Listed, ConstantsOk
<1>7. \A p \in Procs : OpKeeps(p)
  BY <1>1, <1>2 DEF OpKeeps, Changing
<1> QED BY <1>4, <1>5, <1>6, <1>7 DEF PolicyInv, UsersKept

LEMMA NextKeeps ==
  ASSUME ConstantsOk, TypeOK, TypeOK', ConsistencyInv, PolicyInv, [Next]_vars
  PROVE  PolicyInv'
<1>1. ASSUME NEW p \in Procs, Command(p) \/ Step(p) \/ Abort(p) \/ RollBack(p)
      PROVE  PolicyInv'
  BY <1>1, CommandKeeps, StepKeeps, StopKeeps
<1>2. ASSUME NEW c \in Clones, Publish(c) \/ Pull(c) \/ Restore(c) \/ \E d \in Clones : Configure(c, d)
      PROVE  PolicyInv'
  BY <1>2, PublishKeeps, MergeKeeps
<1>3. CASE UNCHANGED vars
  <2>1. UNCHANGED <<remote, base, tree, generated, op, failed, opened>>
    BY <1>3 DEF vars
  <2>2. \A c \in Clones : Has(c)' = Has(c)
    BY <2>1 DEF Has
  <2>3. KnownKeys' /\ NewKeysExclusive'
    BY <2>1, <2>2 DEF PolicyInv, KnownKeys, NewKeysExclusive, Exclusive
  <2>4. Held(remote)' /\ \A c \in Clones : TreeKeeps(c)'
    BY <2>1 DEF PolicyInv, UsersKept, Held, TreeKeeps, Keeps, Listed
  <2>5. \A p \in Procs : OpKeeps(p)'
    BY <2>1 DEF PolicyInv, UsersKept, OpKeeps, Keeps, Changing, Listed
  <2> QED BY <2>3, <2>4, <2>5 DEF PolicyInv, UsersKept
<1> QED BY <1>1, <1>2, <1>3 DEF Next

LEMMA PolicyKept == ASSUME OneShellPerClone PROVE Spec => []PolicyInv
<1>1. Init => PolicyInv
  BY ConstantsOk, InitKeeps
<1>2. TypeOK /\ TypeOK' /\ ConsistencyInv /\ PolicyInv /\ [Next]_vars => PolicyInv'
  BY ConstantsOk, NextKeeps
<1> QED BY <1>1, <1>2, TypeCorrect, Consistency, PTL DEF Spec

-----------------------------------------------------------------------------
(* What publishing does *)

\* Everything but Publish leaves the published files alone.
LEMMA OnlyPublish ==
  ASSUME TypeOK, [Next]_vars, ~\E c \in Clones : Publish(c)
  PROVE  remote' = remote /\ opened' = opened
<1>1. ASSUME NEW p \in Procs, Command(p)
      PROVE  remote' = remote /\ opened' = opened
  BY <1>1 DEF Command, GrantFirst, Grant, Revoke, Unlock, Wrap, Add
<1>2. ASSUME NEW p \in Procs, Step(p)
      PROVE  remote' = remote /\ opened' = opened
  BY <1>2 DEF Step, StoreMaster, WriteSealed, SaveAccess, GenerateSafeKey, Rewrap, WrapSafe
<1>3. ASSUME NEW p \in Procs, Abort(p) \/ RollBack(p)
      PROVE  remote' = remote /\ opened' = opened
  BY <1>3 DEF Abort, RollBack
<1>4. ASSUME NEW c \in Clones, Pull(c) \/ Restore(c) \/ \E d \in Clones : Configure(c, d)
      PROVE  remote' = remote /\ opened' = opened
  BY <1>4 DEF Pull, Restore, Configure
<1> QED BY <1>1, <1>2, <1>3, <1>4 DEF Next, vars

\* The published files keep their key and drop nobody, or move on to a key
\* that was sealed to nobody; and the key is sealed to whoever is then pinned.
LEMMA PublishStep ==
  ASSUME ConstantsOk, TypeOK, ConsistencyInv, PolicyInv, NEW c \in Clones, Publish(c)
  PROVE  /\ remote'.users \in [Users -> SUBSET Keys]
         /\ \/ /\ remote.check = NoKey /\ remote'.check = NoKey
               /\ remote'.users = remote.users /\ opened' = opened
            \/ /\ remote'.check \in MasterKeys
               /\ opened' = [opened EXCEPT ![remote'.check] = @ \union Pinned(remote'.users)]
               /\ \/ /\ remote'.check = remote.check
                     /\ Listed(remote.users) \subseteq Listed(remote'.users)
                  \/ /\ remote'.check # remote.check /\ opened[remote'.check] = {}
                     /\ Listed(remote'.users) # {}
<1> DEFINE t == tree[c]
<1>1. /\ remote' = t /\ base[c] = remote /\ t \in Tree
      /\ Quiet(c) /\ c \notin failed /\ TreeKeeps(c) /\ Held(remote)
      /\ opened' = [m \in MasterKeys |->
                      opened[m] \union IF m = t.sealedKey THEN t.sealedTo ELSE {}]
  BY DEF Publish, Shared, TypeOK, PolicyInv, UsersKept
<1>2. t.sealedKey = t.check /\ t.sealedTo = Pinned(t.users)
  BY <1>1 DEF ConsistencyInv, Good, SealedFor
<1>3. t.check \in MasterKeys \union {NoKey} /\ t.users \in [Users -> SUBSET Keys]
  BY <1>1 DEF TreeKeeps, Tree, MaybeKey
<1>4. CASE t.check = NoKey
  <2>1. remote.check = NoKey /\ t.users = NoUsers /\ remote.users = NoUsers
    BY <1>1, <1>4 DEF TreeKeeps, Held
  <2>2. opened' = [m \in MasterKeys |-> opened[m]]
    BY <1>1, <1>2, <1>4 DEF ConstantsOk
  <2>3. opened' = opened
    BY <2>2 DEF TypeOK
  <2> QED BY <1>1, <1>3, <1>4, <2>1, <2>3
<1>5. CASE t.check \in MasterKeys
  <2>1. opened' = [opened EXCEPT ![t.check] = @ \union Pinned(t.users)]
    BY <1>1, <1>2, <1>5 DEF TypeOK
  <2>2. CASE t.check = remote.check
    BY <1>1, <1>3, <1>5, <2>1, <2>2 DEF TreeKeeps, Keeps
  <2>3. CASE t.check # remote.check
    <3>1. opened[t.check] = {}
      BY <1>1, <1>5, <2>3 DEF PolicyInv, NewKeysExclusive, Exclusive, Has
    <3>2. Listed(t.users) # {}
      BY <1>1, <1>5 DEF TreeKeeps, Held
    <3> QED BY <1>1, <1>3, <1>5, <2>1, <2>3, <3>1, <3>2
  <2> QED BY <2>2, <2>3
<1> QED BY <1>3, <1>4, <1>5

-----------------------------------------------------------------------------
(* The theorems *)

\* MasterKey implements AccessPolicy: every commit that reaches the published
\* branch amends the list under the same master key and drops nobody, or
\* rotates to a key that was never sealed; for any merges, any number of
\* clones, users and keys, and wherever commands stop.
THEOREM PolicyImplemented == ASSUME OneShellPerClone PROVE Spec => ImplementsPolicy
<1>1. Init => Policy!Init
  BY DEF Init, Policy!Init, EmptyTree, NoUsers
<1>2. ASSUME TypeOK, ConsistencyInv, PolicyInv, [Next]_vars
      PROVE  [Policy!Next]_<<remote.users, remote.check, opened>>
  <2>1. CASE \E c \in Clones : Publish(c)
    <3>1. PICK c \in Clones : Publish(c)
      BY <2>1
    <3>2. Policy!PinnedKeys(remote'.users) = Pinned(remote'.users)
      BY DEF Policy!PinnedKeys, Pinned
    <3>3. remote'.users \in Policy!Pins
      BY <1>2, <3>1, ConstantsOk, PublishStep DEF Policy!Pins
    <3>4. CASE remote'.check = NoKey /\ remote.check = NoKey
      BY <1>2, <3>1, <3>4, ConstantsOk, PublishStep DEF ConstantsOk
    <3>5. ASSUME remote'.check \in MasterKeys,
                 opened' = [opened EXCEPT ![remote'.check] = @ \union Pinned(remote'.users)],
                 remote'.check = remote.check,
                 Listed(remote.users) \subseteq Listed(remote'.users)
          PROVE  Policy!Amend
      <4>1. remote.check # NoKey
        BY <3>5, ConstantsOk DEF ConstantsOk
      <4>2. Policy!Sealed(remote.check)
        BY <3>2, <3>3, <3>5 DEF Policy!Sealed
      <4>3. \A u \in Users : remote.users[u] # {} => remote'.users[u] # {}
        BY <3>5 DEF Listed
      <4> QED BY <4>1, <4>2, <4>3 DEF Policy!Amend
    <3>6. ASSUME remote'.check \in MasterKeys,
                 opened' = [opened EXCEPT ![remote'.check] = @ \union Pinned(remote'.users)],
                 remote'.check # remote.check, opened[remote'.check] = {},
                 Listed(remote'.users) # {}
          PROVE  Policy!Rotate(remote'.check)
      <4>1. Policy!Sealed(remote'.check)
        BY <3>2, <3>3, <3>6 DEF Policy!Sealed
      <4>2. \E u \in Users : remote'.users[u] # {}
        BY <3>6 DEF Listed
      <4> QED BY <3>6, <4>1, <4>2 DEF Policy!Rotate
    <3>7. remote'.check \in MasterKeys \/ (remote'.check = NoKey /\ remote.check = NoKey)
      BY <1>2, <3>1, ConstantsOk, PublishStep
    <3>8. CASE remote'.check \in MasterKeys
      <4>1. Policy!Amend \/ Policy!Rotate(remote'.check)
        BY <1>2, <3>1, <3>5, <3>6, <3>8, ConstantsOk, PublishStep DEF ConstantsOk
      <4> QED BY <3>8, <4>1 DEF Policy!Next
    <3> QED BY <3>4, <3>7, <3>8
  <2>2. CASE ~\E c \in Clones : Publish(c)
    BY <1>2, <2>2, OnlyPublish
  <2> QED BY <2>1, <2>2
<1> QED BY <1>1, <1>2, TypeCorrect, Consistency, PolicyKept, PTL
        DEF Spec, ImplementsPolicy, Policy!Spec

\* When somebody disappears from the published list, the published master key
\* is one never published sealed to any SSH key but those still pinned: to none
\* that user ever had, whatever was granted before, but a key another has too.
THEOREM RevokedCutOffHolds == ASSUME OneShellPerClone PROVE Spec => RevokedCutOff
<1>1. ASSUME TypeOK, ConsistencyInv, PolicyInv, [Next]_vars,
             Members(remote) \ Members(remote') # {}
      PROVE  opened'[remote'.check] \subseteq Pinned(remote'.users)
  <2>1. PICK u \in Members(remote) : u \notin Members(remote')
    BY <1>1
  <2>2. PICK c \in Clones : Publish(c)
    BY <1>1, OnlyPublish DEF Members
  <2>3. u \in Listed(remote.users) /\ u \notin Listed(remote'.users)
    BY <2>1 DEF Members, Listed
  <2>4. /\ remote'.check \in MasterKeys /\ opened[remote'.check] = {}
        /\ opened' = [opened EXCEPT ![remote'.check] = @ \union Pinned(remote'.users)]
    BY <1>1, <2>2, <2>3, ConstantsOk, PublishStep
  <2> QED BY <1>1, <2>4 DEF TypeOK
<1>2. TypeOK /\ ConsistencyInv /\ PolicyInv /\ [Next]_vars =>
        [Members(remote) \ Members(remote') # {} =>
            opened'[remote'.check] \subseteq Pinned(remote'.users)]_vars
  BY <1>1
<1> QED BY <1>2, TypeCorrect, Consistency, PolicyKept, PTL DEF Spec, RevokedCutOff

-----------------------------------------------------------------------------
(* Unlocking *)

\* The master key that an unlock stores is the one access.yaml names.
UnlockInv ==
    \A p \in Procs : op[p].cmd = "unlock" =>
        /\ op[p].step = "store" /\ op[p].master \in MasterKeys
        /\ op[p].master = tree[CloneOf[p]].check

\* A step of one shell leaves the unlocks of the others alone.
LEMMA UnlockCarried ==
  ASSUME ConstantsOk, OneShellPerClone, UnlockInv, NEW p \in Procs,
         \A c \in Clones : c # CloneOf[p] => tree'[c] = tree[c],
         \A q \in Procs : q # p => op'[q] = op[q],
         op'[p].cmd = "unlock" => /\ op'[p].step = "store" /\ op'[p].master \in MasterKeys
                                  /\ op'[p].master = tree'[CloneOf[p]].check
  PROVE  UnlockInv'
<1>1. \A q \in Procs : q # p => tree'[CloneOf[q]] = tree[CloneOf[q]]
  BY DEF ConstantsOk, OneShellPerClone
<1> QED BY <1>1 DEF UnlockInv

\* A command that begins writes nothing yet.
LEMMA UnlockBegins ==
  ASSUME ConstantsOk, OneShellPerClone, TypeOK, UnlockInv, NEW p \in Procs,
         NEW cmd, NEW step, NEW m, NEW users, NEW todo,
         Begin(p, cmd, step, m, users, todo), tree' = tree,
         cmd = "unlock" => /\ step = "store" /\ m \in MasterKeys
                           /\ m = tree[CloneOf[p]].check
  PROVE  UnlockInv'
<1>1. /\ op'[p] = [cmd |-> cmd, step |-> step, master |-> m, users |-> users, todo |-> todo]
      /\ \A q \in Procs : q # p => op'[q] = op[q]
  BY DEF Begin, TypeOK
<1> QED BY <1>1, UnlockCarried

\* Of the steps of a command, an unlock only takes the one that stores the key.
LEMMA UnlockSteps ==
  ASSUME TypeOK, UnlockInv, NEW p \in Procs, Step(p)
  PROVE  /\ op'[p].cmd # "unlock"
         /\ op[p].cmd = "unlock" => UNCHANGED <<tree, envKey>>
         /\ \A q \in Procs : q # p => op'[q] = op[q]
         /\ \A c \in Clones : c # CloneOf[p] => tree'[c] = tree[c]
<1>1. Idle.cmd # "unlock" /\ {"seal", "save", "store", "wrap"} \subseteq Steps
  BY DEF Idle, Steps
<1>2. CASE StoreMaster(p)
  BY <1>1, <1>2, OpAfter DEF StoreMaster, TypeOK
<1>3. CASE WriteSealed(p) \/ SaveAccess(p)
  BY <1>1, <1>3, OpAfter DEF WriteSealed, SaveAccess, UnlockInv, TypeOK
<1>4. CASE GenerateSafeKey(p)
  BY <1>1, <1>4, OpAfter DEF GenerateSafeKey, UnlockInv, TypeOK
<1>5. ASSUME NEW s \in Safes, Rewrap(p, s) \/ WrapSafe(p, s)
      PROVE  /\ op'[p].cmd # "unlock"
             /\ op[p].cmd = "unlock" => UNCHANGED <<tree, envKey>>
             /\ \A q \in Procs : q # p => op'[q] = op[q]
             /\ \A c \in Clones : c # CloneOf[p] => tree'[c] = tree[c]
  <2>1. op[p].cmd # "unlock" /\ op[p] \in Op
    BY <1>5 DEF Rewrap, WrapSafe, UnlockInv, TypeOK
  <2>2. op'[p].cmd \in {op[p].cmd, "none"} /\ \A q \in Procs : q # p => op'[q] = op[q]
    BY <1>5, <2>1, OpAfter DEF Rewrap, WrapSafe, TypeOK, Op, Idle
  <2> QED BY <1>5, <2>1, <2>2 DEF Rewrap, WrapSafe, TypeOK
<1> QED BY <1>2, <1>3, <1>4, <1>5 DEF Step

LEMMA UnlockNext ==
  ASSUME ConstantsOk, OneShellPerClone, TypeOK, UnlockInv, [Next]_vars
  PROVE  UnlockInv'
<1>1. ASSUME NEW p \in Procs, Command(p)
      PROVE  UnlockInv'
  <2>1. ASSUME NEW u \in Users, NEW m \in MasterKeys,
               (\E ks \in GitHub[u] : GrantFirst(p, u, ks, m)) \/ Revoke(p, u, m)
        PROVE  UnlockInv'
    BY <2>1, UnlockBegins DEF GrantFirst, Revoke
  <2>2. ASSUME NEW u \in Users, NEW ks \in GitHub[u], Grant(p, u, ks)
        PROVE  UnlockInv'
    BY <2>2, UnlockBegins DEF Grant
  <2>3. CASE Unlock(p)
    BY <2>3, UnlockBegins DEF Unlock
  <2>4. CASE Wrap(p) \/ \E s \in Safes : Add(p, s)
    BY <2>4, UnlockBegins DEF Wrap, Add
  <2> QED BY <1>1, <2>1, <2>2, <2>3, <2>4 DEF Command
<1>2. ASSUME NEW p \in Procs, Step(p)
      PROVE  UnlockInv'
  BY <1>2, UnlockSteps, UnlockCarried
<1>3. ASSUME NEW p \in Procs, Abort(p) \/ RollBack(p)
      PROVE  UnlockInv'
  <2>1. /\ \A q \in Procs : q # p => op'[q] = op[q]
        /\ op'[p].cmd # "unlock"
    BY <1>3, OpAfter DEF Abort, RollBack, Idle
  <2>2. \A c \in Clones : c # CloneOf[p] => tree'[c] = tree[c]
    BY <1>3 DEF Abort, RollBack, TypeOK
  <2> QED BY <2>1, <2>2, UnlockCarried
<1>4. ASSUME NEW c \in Clones,
             Publish(c) \/ Pull(c) \/ Restore(c) \/ \E d \in Clones : Configure(c, d)
      PROVE  UnlockInv'
  <2>1. op' = op /\ (tree' = tree \/ Quiet(c)) /\ \A d \in Clones : d # c => tree'[d] = tree[d]
    BY <1>4 DEF Publish, Pull, Restore, Configure, Shared, TypeOK
  <2>2. ASSUME NEW p \in Procs, op[p].cmd = "unlock"
        PROVE  tree'[CloneOf[p]] = tree[CloneOf[p]]
    <3>1. Busy(p) /\ CloneOf[p] \in Clones
      BY <2>2 DEF Busy, UnlockInv, ConstantsOk
    <3> QED BY <2>1, <3>1 DEF Quiet
  <2> QED BY <2>1, <2>2 DEF UnlockInv
<1>5. CASE UNCHANGED vars
  BY <1>5 DEF vars, UnlockInv
<1> QED BY <1>1, <1>2, <1>3, <1>4, <1>5 DEF Next

\* After an unlock has stored the key, and unless $PENHAN_MASTER_KEY stands in
\* its place, every command that needs the master key finds it.
THEOREM UnlockSufficesHolds == ASSUME OneShellPerClone PROVE Spec => UnlockSuffices
<1>1. Init => UnlockInv
  BY DEF Init, UnlockInv, Idle
<1>2. TypeOK /\ UnlockInv /\ [Next]_vars => UnlockInv'
  BY ConstantsOk, UnlockNext
<1>3. ASSUME TypeOK, UnlockInv, [Next]_vars, NEW p \in Procs,
             op[p].cmd = "unlock", ~Busy(p)',
             masterKey'[CloneOf[p]] = op[p].master, envKey[CloneOf[p]] = NoKey
      PROVE  Unlocked(CloneOf[p])'
  <2> DEFINE c == CloneOf[p]
  <2>0. c \in Clones
    BY ConstantsOk DEF ConstantsOk
  <2>1. Busy(p) /\ op[p].step = "store" /\ op[p].master \in MasterKeys
        /\ op[p].master = tree[c].check
    BY <1>3 DEF UnlockInv, Busy
  <2>2. op' # op
    BY <1>3, <2>1 DEF Busy
  <2>3. Step(p) \/ Abort(p)
    <3>1. PICK q \in Procs : Command(q) \/ Step(q) \/ Abort(q) \/ RollBack(q)
      BY <1>3, <2>2 DEF Next, vars, Publish, Pull, Restore, Configure
    <3>2. q = p
      <4>1. Command(q) => \A r \in Procs : r # q => op'[r] = op[r]
        BY <1>3 DEF Command, GrantFirst, Revoke, Grant, Unlock, Wrap, Add, Begin, TypeOK
      <4>2. Step(q) => \A r \in Procs : r # q => op'[r] = op[r]
        BY <1>3, UnlockSteps
      <4>3. Abort(q) \/ RollBack(q) => \A r \in Procs : r # q => op'[r] = op[r]
        BY <1>3, OpAfter DEF Abort, RollBack
      <4> QED BY <1>3, <2>1, <3>1, <4>1, <4>2, <4>3 DEF Busy
    <3>3. ~Command(p)
      BY <2>1 DEF Command, GrantFirst, Revoke, Grant, Unlock, Wrap, Add, Begin
    <3>4. ~RollBack(p)
      BY <1>3 DEF RollBack
    <3> QED BY <3>1, <3>2, <3>3, <3>4
  <2>4. tree' = tree /\ envKey' = envKey
    <3>1. CASE Step(p)
      BY <1>3, <3>1, UnlockSteps
    <3>2. CASE Abort(p)
      <4>1. TornFiles(p) = {}
        BY <2>1 DEF TornFiles
      <4> QED BY <1>3, <2>0, <3>2, <4>1 DEF Abort, TypeOK
    <3> QED BY <2>3, <3>1, <3>2
  <2>5. tree'[c].check \in MasterKeys /\ masterKey'[c] = tree'[c].check /\ envKey'[c] = NoKey
    BY <1>3, <2>1, <2>4
  <2>6. HasAccess(c)'
    BY <2>5, ConstantsOk DEF HasAccess, ConstantsOk
  <2>7. ReadMaster(c)' = masterKey'[c]
    BY <2>5 DEF ReadMaster
  <2> QED BY <2>5, <2>6, <2>7 DEF Unlocked
<1>4. TypeOK /\ UnlockInv /\ [Next]_vars =>
        [\A p \in Procs :
            LET c == CloneOf[p] IN
              /\ op[p].cmd = "unlock" /\ ~Busy(p)'
              /\ masterKey'[c] = op[p].master /\ envKey[c] = NoKey
            => Unlocked(c)']_vars
  BY <1>3
<1> QED BY <1>1, <1>2, <1>4, TypeCorrect, PTL DEF Spec, UnlockSuffices
=============================================================================
