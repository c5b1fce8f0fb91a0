-------------------------- MODULE Kubernetes_proofs --------------------------
(***************************************************************************)
(* Proofs about Kubernetes for every set of clones, safes, paths, Secret   *)
(* names and contents.                                                     *)
(***************************************************************************)
EXTENDS Kubernetes, TLAPS

-----------------------------------------------------------------------------
(* The inductive invariant *)

\* What a Get that is still current said about the Secret.
Got(c) ==
    c \in current =>
        /\ op[c].step = "update" => Exists(NameOf[At(c)]) /\ Owns(c, At(c))
        /\ op[c].step = "mark" => /\ Exists(At(c)) /\ MayImport(c, At(c))
                                  /\ cluster[At(c)].data = op[c].data

\* An import about to mark a Secret has what it read in its file.
Held(c) == op[c].step \in {"adopt", "mark"} => local[c][At(c)] = op[c].data

\* A push has read and decrypted the files it is to compare and to push.
Readable(c) ==
    op[c].step \in {"check", "push", "create", "update"} =>
        \A f \in op[c].todo \union op[c].need : local[c][f] \in Contents

\* While no answer is lost, what penhan has not read is not marked as its own.
UnreadIsForeign ==
    "lost" \notin Faults =>
        \A n \in unread : Exists(n) /\ cluster[n].owner \in {Hand, Tool}

OwnershipInv ==
    /\ TypeOK
    /\ \A c \in Clones : Got(c) /\ Held(c) /\ Readable(c)
    /\ UnreadIsForeign

-----------------------------------------------------------------------------
(* Facts about the operators *)

LEMMA FirstMember ==
  ASSUME ConstantsOk, NEW S \in SUBSET Paths, S # {}
  PROVE  First(S) \in S
<1>1. \E f \in S : \A g \in S : <<f, g>> \in Before
  BY DEF ConstantsOk
<1> QED BY <1>1 DEF First

LEMMA NamesArePaths ==
  ASSUME ConstantsOk
  PROVE  /\ Names \subseteq Paths
         /\ \A n \in Names : NameOf[n] = n
         /\ \A f \in Paths : NameOf[f] \in Names
  BY DEF ConstantsOk, Names

LEMMA PathAtType ==
  ASSUME ConstantsOk, NEW o \in Op, Placed(o)
  PROVE  /\ o.step \in {"create", "update"} => PathAt(o) \in o.need /\ PathAt(o) \in Paths
         /\ o.step \in {"write", "adopt", "mark", "cleanup"} =>
               PathAt(o) \in o.todo /\ PathAt(o) \in Names
<1>1. o.need \in SUBSET Paths /\ o.todo \in SUBSET Paths
  BY DEF Op
<1>2. CASE o.step \in {"create", "update"}
  BY <1>1, <1>2, FirstMember DEF PathAt, Placed
<1>3. CASE o.step \in {"write", "adopt", "mark", "cleanup"}
  BY <1>1, <1>3, FirstMember DEF PathAt, Placed
<1> QED BY <1>2, <1>3

\* Annotations of a safe are neither nobody's nor another tool's.
LEMMA OwnerType ==
  ASSUME ConstantsOk, NEW c \in Clones, NEW f \in Paths
  PROVE  /\ Owner(c, f) \in Managed
         /\ Owner(c, f) \notin {Hand, Tool}
         /\ Owner(c, f).safe = SafeOf[c] /\ Owner(c, f).path = f
<1>1. SafeOf[c] \in Safes /\ None \notin Safes
  BY DEF ConstantsOk
<1>2. Owner(c, f).safe # Hand.safe /\ Owner(c, f).safe # Tool.safe
  BY <1>1 DEF Owner, Hand, Tool
<1> QED BY <1>1, <1>2 DEF Owner, Managed

LEMMA Typed ==
  ASSUME TypeOK, NEW c \in Clones
  PROVE  /\ op[c] \in Op /\ Placed(op[c])
         /\ op[c].todo \in SUBSET Paths /\ op[c].need \in SUBSET Paths
         /\ op[c].data \in Contents \union {None} /\ op[c].step \in Steps
         /\ \A n \in Names : Exists(n) => cluster[n] \in Secret
         /\ \A f \in Paths : local[c][f] \in Contents \union {None, Torn}
  BY DEF TypeOK, Op, Exists

-----------------------------------------------------------------------------
(* Kinds of steps *)

\* A clone whose record and files stay keeps what it knows: its Get is only
\* current as long as nobody writes that Secret.
LEMMA OthersKnow ==
  ASSUME ConstantsOk, OwnershipInv, NEW d \in Clones, op'[d] = op[d], local'[d] = local[d],
         \/ UNCHANGED <<cluster, current>>
         \/ \E c \in Clones : UNCHANGED cluster /\ current' = current \union {c} /\ c # d
         \/ \E n \in Names, s \in Secret \union {None}, by \in SUBSET Clones : Store(n, s, by)
  PROVE  Got(d)' /\ Held(d)' /\ Readable(d)'
<1>1. Got(d) /\ Held(d) /\ Readable(d) /\ op[d] \in Op /\ Placed(op[d])
  BY Typed DEF OwnershipInv
<1>2. Held(d)' /\ Readable(d)'
  BY <1>1 DEF Held, At, Readable
<1> SUFFICES Got(d)'
  BY <1>2
<1>3. CASE UNCHANGED cluster /\ (d \in current' => d \in current)
  BY <1>1, <1>3 DEF Got, At, Exists, Owns, MayImport
<1>4. CASE \E n \in Names, s \in Secret \union {None}, by \in SUBSET Clones : Store(n, s, by)
  <2>1. PICK n \in Names, s \in Secret \union {None}, by \in SUBSET Clones : Store(n, s, by)
    BY <1>4
  <2>2. d \in current' => d \in current /\ NameOf[At(d)] # n
    BY <2>1 DEF Store
  <2>3. \A m \in Names : m # n => cluster'[m] = cluster[m]
    BY <2>1 DEF Store, OwnershipInv, TypeOK
  <2>4. op[d].step = "update" => NameOf[At(d)] \in Names
    BY <1>1, PathAtType, NamesArePaths DEF At
  <2>5. op[d].step = "mark" => At(d) \in Names /\ NameOf[At(d)] = At(d)
    BY <1>1, PathAtType, NamesArePaths DEF At
  <2> QED BY <1>1, <2>2, <2>3, <2>4, <2>5 DEF Got, At, Exists, Owns, MayImport
<1> QED BY <1>3, <1>4

LEMMA BecomeType ==
  ASSUME TypeOK, NEW c \in Clones, NEW o \in Op, Placed(o), Become(c, o)
  PROVE  /\ op' \in [Clones -> Op] /\ op'[c] = o
         /\ \A d \in Clones : d # c => op'[d] = op[d]
         /\ \A d \in Clones : Placed(op'[d])
  BY DEF TypeOK, Become

LEMMA IdleType == Idle \in Op /\ Placed(Idle) /\ Idle.step = "idle"
  BY DEF Idle, Op, Placed, Steps

\* Another step for a command, with the same work ahead.
LEMMA GotoType ==
  ASSUME TypeOK, NEW c \in Clones, NEW step \in Steps
  PROVE  [op[c] EXCEPT !.step = step] \in Op
  BY Typed DEF Op

\* A step that only reads, and does not base a later write on it.
LEMMA ReadStep ==
  ASSUME ConstantsOk, OwnershipInv, NEW c \in Clones, NEW o \in Op, Placed(o), Become(c, o),
         UNCHANGED <<cluster, local, current, unread>>, others' \in [Clones -> SUBSET Names],
         o.step \notin {"update", "mark", "adopt"},
         o.step \in {"check", "push", "create"} =>
             \A f \in o.todo \union o.need : local[c][f] \in Contents
  PROVE  OwnershipInv'
<1>1. TypeOK'
  BY BecomeType DEF OwnershipInv, TypeOK
<1>2. ASSUME NEW d \in Clones
      PROVE  Got(d)' /\ Held(d)' /\ Readable(d)'
  <2>1. CASE d = c
    BY <2>1, BecomeType DEF OwnershipInv, Got, Held, Readable
  <2>2. CASE d # c
    BY <2>2, BecomeType, OthersKnow DEF OwnershipInv
  <2> QED BY <2>1, <2>2
<1>3. UnreadIsForeign'
  BY DEF OwnershipInv, UnreadIsForeign, Exists
<1> QED BY <1>1, <1>2, <1>3 DEF OwnershipInv

\* A Get that a later Update is based on.
LEMMA GetStep ==
  ASSUME ConstantsOk, OwnershipInv, NEW c \in Clones, NEW step \in {"update", "mark"},
         Goto(c, step), GetForUpdate(c),
         Placed([op[c] EXCEPT !.step = step]),
         step = "update" => op[c].step = "push",
         step = "update" => LET f == PathAt([op[c] EXCEPT !.step = step])
                            IN  Exists(NameOf[f]) /\ Owns(c, f),
         step = "mark" => /\ op[c].step = "adopt"
                          /\ Exists(At(c)) /\ MayImport(c, At(c))
                          /\ cluster[At(c)].data = op[c].data
  PROVE  OwnershipInv'
<1> DEFINE o == [op[c] EXCEPT !.step = step]
<1>1. o \in Op /\ o.step = step /\ o.todo = op[c].todo /\ o.data = op[c].data
  <2>1. TypeOK /\ op[c] \in Op /\ step \in Steps
    BY Typed DEF OwnershipInv, Steps
  <2> QED BY <2>1, GotoType DEF Op
<1>2. Become(c, o) /\ Placed(o)
  BY DEF Goto
<1> HIDE DEF o
<1>3. /\ op' \in [Clones -> Op] /\ op'[c] = o
      /\ \A d \in Clones : d # c => op'[d] = op[d]
      /\ \A d \in Clones : Placed(op'[d])
  BY <1>1, <1>2, BecomeType DEF OwnershipInv
<1>4. TypeOK'
  BY <1>3 DEF OwnershipInv, TypeOK, GetForUpdate
<1>5. ASSUME NEW d \in Clones, d # c
      PROVE  Got(d)' /\ Held(d)' /\ Readable(d)'
  BY <1>3, <1>5, OthersKnow DEF GetForUpdate, OwnershipInv, TypeOK
<1>6. At(c)' = PathAt(o)
  BY <1>3 DEF At
<1>7. step = "mark" => PathAt(o) = At(c)
  BY <1>1 DEF At, PathAt
<1>8. Got(c)'
  BY <1>1, <1>3, <1>6, <1>7 DEF Got, GetForUpdate, Exists, Owns, MayImport, o
<1>9. Held(c)'
  BY <1>1, <1>3, <1>6, <1>7 DEF Held, GetForUpdate, OwnershipInv
<1>10. Readable(c)'
  BY <1>1, <1>3 DEF Readable, GetForUpdate, OwnershipInv, o
<1>11. UnreadIsForeign'
  BY DEF OwnershipInv, UnreadIsForeign, Exists, GetForUpdate
<1> QED BY <1>4, <1>5, <1>8, <1>9, <1>10, <1>11 DEF OwnershipInv

\* A step of one clone that only changes one of its own files.
LEMMA FileStep ==
  ASSUME ConstantsOk, OwnershipInv, NEW c \in Clones, NEW o \in Op, Placed(o), Become(c, o),
         NEW f \in Paths, NEW x \in Contents \union {None, Torn},
         local' = [local EXCEPT ![c][f] = x],
         UNCHANGED <<cluster, current, others, unread>>,
         o.step \in {"idle", "killed", "adopt"},
         o.step = "adopt" => f = PathAt(o) /\ x = o.data
  PROVE  OwnershipInv'
<1>1. /\ local' \in [Clones -> [Paths -> Contents \union {None, Torn}]]
      /\ local'[c][f] = x
      /\ \A d \in Clones : d # c => local'[d] = local[d]
  BY DEF OwnershipInv, TypeOK
<1>2. TypeOK'
  BY <1>1, BecomeType DEF OwnershipInv, TypeOK
<1>3. ASSUME NEW d \in Clones
      PROVE  Got(d)' /\ Held(d)' /\ Readable(d)'
  <2>1. CASE d = c
    BY <1>1, <2>1, BecomeType DEF OwnershipInv, Got, Held, Readable, At
  <2>2. CASE d # c
    BY <1>1, <2>2, BecomeType, OthersKnow DEF OwnershipInv
  <2> QED BY <2>1, <2>2
<1>4. UnreadIsForeign'
  BY DEF OwnershipInv, UnreadIsForeign, Exists
<1> QED BY <1>2, <1>3, <1>4 DEF OwnershipInv

\* A write of a Secret, by a command of c or by somebody else.
LEMMA StoreStep ==
  ASSUME ConstantsOk, OwnershipInv, NEW n \in Names, NEW s \in Secret \union {None},
         NEW by \in SUBSET Clones, Store(n, s, by), UNCHANGED local,
         op' \in [Clones -> Op], \A d \in Clones : Placed(op'[d]),
         \A d \in Clones : \/ op'[d] = op[d]
                           \/ op'[d].step \notin {"update", "mark", "adopt"} /\ Readable(d)',
         unread' \in SUBSET Names, UnreadIsForeign'
  PROVE  OwnershipInv'
<1>1. TypeOK'
  BY DEF OwnershipInv, TypeOK, Store
<1>2. ASSUME NEW d \in Clones
      PROVE  Got(d)' /\ Held(d)' /\ Readable(d)'
  <2>1. CASE op'[d] = op[d]
    BY <2>1, OthersKnow
  <2>2. CASE op'[d].step \notin {"update", "mark", "adopt"} /\ Readable(d)'
    BY <2>2 DEF Got, Held
  <2> QED BY <2>1, <2>2
<1> QED BY <1>1, <1>2 DEF OwnershipInv

-----------------------------------------------------------------------------
(* push *)

LEMMA StopStep ==
  ASSUME ConstantsOk, OwnershipInv, NEW c \in Clones, Stop(c), ReadOnly
  PROVE  OwnershipInv'
  BY IdleType, ReadStep DEF Stop, ReadOnly, OwnershipInv, TypeOK

LEMMA CheckStep ==
  ASSUME ConstantsOk, OwnershipInv, NEW c \in Clones,
         Push(c) \/ Check(c) \/ Checked(c) \/ PushComplete(c)
  PROVE  OwnershipInv'
<1>t. op[c] \in Op /\ others \in [Clones -> SUBSET Names]
  BY Typed DEF OwnershipInv, TypeOK
<1>1. CASE Push(c)
  <2> DEFINE o == [Idle EXCEPT !.step = "check", !.todo = LocalFiles(c)]
  <2>1. o \in Op /\ Placed(o) /\ o.step = "check"
    BY DEF Idle, Op, Placed, Steps, LocalFiles
  <2>2. Become(c, o) /\ UNCHANGED <<cluster, local, current, unread>> /\ others' \in [Clones -> SUBSET Names]
    BY <1>1, <1>t DEF Push
  <2>3. \A f \in o.todo \union o.need : local[c][f] \in Contents
    BY <1>1, Typed DEF Push, LocalFiles, Idle, OwnershipInv
  <2> HIDE DEF o
  <2> QED BY <2>1, <2>2, <2>3, ReadStep
<1>2. CASE Check(c)
  <2> DEFINE f == First(op[c].todo)
             o == [op[c] EXCEPT !.todo = @ \ {f},
                                !.need = IF NeedsPush(c, f) THEN @ \union {f} ELSE @]
  <2>1. CASE Stop(c)
    BY <1>2, <2>1, StopStep DEF Check
  <2>2. CASE Become(c, o)
    <3>1. f \in Paths /\ op[c].step = "check"
      BY <1>2, <1>t, FirstMember DEF Check, Op
    <3>2. o \in Op /\ o.step = "check"
      BY <1>t, <3>1 DEF Op
    <3>3. Placed(o)
      BY <3>2 DEF Placed
    <3>4. \A g \in o.todo \union o.need : local[c][g] \in Contents
      BY <1>2, <1>t, <3>1, FirstMember DEF OwnershipInv, Readable, Check, Op
    <3> HIDE DEF o
    <3> QED BY <1>2, <1>t, <2>2, <3>2, <3>3, <3>4, ReadStep DEF Check, ReadOnly
  <2> QED BY <1>2, <2>1, <2>2 DEF Check
<1>3. CASE Checked(c)
  <2> DEFINE o == [op[c] EXCEPT !.step = "push"]
  <2>1. o \in Op /\ o.step = "push"
    BY <1>t DEF Op, Steps
  <2>2. Placed(o)
    BY <2>1 DEF Placed
  <2>3. Become(c, o) /\ ReadOnly
    BY <1>3 DEF Checked, Goto
  <2>4. \A f \in o.todo \union o.need : local[c][f] \in Contents
    BY <1>3, <1>t DEF Checked, OwnershipInv, Readable, Op
  <2> HIDE DEF o
  <2> QED BY <1>t, <2>1, <2>2, <2>3, <2>4, ReadStep DEF ReadOnly
<1>4. CASE PushComplete(c)
  BY <1>4, StopStep DEF PushComplete
<1> QED BY <1>1, <1>2, <1>3, <1>4

LEMMA PushGetStep ==
  ASSUME ConstantsOk, OwnershipInv, NEW c \in Clones, PushGet(c)
  PROVE  OwnershipInv'
<1> DEFINE f == First(op[c].need)
<1>t. op[c] \in Op /\ others \in [Clones -> SUBSET Names] /\ op[c].need # {}
  BY Typed DEF OwnershipInv, TypeOK, PushGet
<1>1. CASE Goto(c, "create") /\ ReadOnly
  <2> DEFINE o == [op[c] EXCEPT !.step = "create"]
  <2>1. o \in Op /\ o.step = "create" /\ o.need # {}
    BY <1>t DEF Op, Steps
  <2>2. Placed(o)
    BY <2>1 DEF Placed
  <2>3. Become(c, o)
    BY <1>1 DEF Goto
  <2>4. \A g \in o.todo \union o.need : local[c][g] \in Contents
    BY <1>t DEF PushGet, OwnershipInv, Readable, Op
  <2> HIDE DEF o
  <2> QED BY <1>1, <1>t, <2>1, <2>2, <2>3, <2>4, ReadStep DEF ReadOnly
<1>2. CASE Exists(NameOf[f]) /\ Owns(c, f) /\ Goto(c, "update") /\ GetForUpdate(c)
  <2> DEFINE o == [op[c] EXCEPT !.step = "update"]
  <2>1. o.step = "update" /\ o.need = op[c].need
    BY <1>t DEF Op
  <2>2. Placed(o) /\ PathAt(o) = f
    BY <1>t, <2>1 DEF Placed, PathAt
  <2> HIDE DEF f
  <2> QED BY <1>2, <2>2, GetStep DEF PushGet
<1>3. CASE Stop(c) /\ ReadOnly
  BY <1>3, StopStep
<1> QED BY <1>1, <1>2, <1>3 DEF PushGet

\* A write of a push finds no Secret, or this safe's copy of the path.
LEMMA StorePushedStep ==
  ASSUME ConstantsOk, OwnershipInv, NEW c \in Clones,
         op[c].step \in {"create", "update"},
         ~Exists(NameOf[At(c)]) \/ Owns(c, At(c)),
         StorePushed(c, At(c))
  PROVE  OwnershipInv'
<1> DEFINE f == At(c)
           n == NameOf[f]
           s == [owner |-> Owner(c, f), data |-> local[c][f]]
           o == [op[c] EXCEPT !.step = "push", !.need = @ \ {f}]
<1>t. op[c] \in Op /\ Placed(op[c]) /\ others \in [Clones -> SUBSET Names]
  BY Typed DEF OwnershipInv, TypeOK
<1>1. f \in op[c].need /\ f \in Paths /\ n \in Names
  BY <1>t, PathAtType, NamesArePaths DEF At
<1>2. s \in Secret
  BY <1>1, OwnerType DEF OwnershipInv, Readable, Secret
<1>3. /\ op' \in [Clones -> Op] /\ \A d \in Clones : Placed(op'[d])
      /\ \A d \in Clones : op'[d] = op[d] \/ (op'[d].step \notin {"update", "mark", "adopt"} /\ Readable(d)')
  <2>1. o \in Op /\ o.step = "push" /\ o.todo = op[c].todo /\ o.need \subseteq op[c].need
    BY <1>t DEF Op, Steps
  <2>2. Placed(o)
    BY <2>1 DEF Placed
  <2>3. PICK r \in {o, Idle} : Become(c, r)
    BY DEF StorePushed, Answered, Stop
  <2>4. r \in Op /\ Placed(r) /\ r.step \in {"push", "idle"}
    BY <2>1, <2>2, <2>3, IdleType
  <2>5. /\ op' \in [Clones -> Op] /\ op'[c] = r /\ \A d \in Clones : Placed(op'[d])
        /\ \A d \in Clones : d # c => op'[d] = op[d]
    BY <2>3, <2>4, BecomeType DEF OwnershipInv
  <2>6. Readable(c)'
    BY <2>1, <2>3, <2>5, IdleType DEF Readable, OwnershipInv, StorePushed
  <2> QED BY <2>4, <2>5, <2>6
<1>4. UnreadIsForeign'
  <2>1. "lost" \notin Faults => n \notin unread
    BY <1>1, OwnerType DEF OwnershipInv, UnreadIsForeign, Owns
  <2>2. \A m \in Names : m # n => cluster'[m] = cluster[m]
    BY DEF StorePushed, Store, OwnershipInv, TypeOK
  <2> QED BY <2>1, <2>2 DEF StorePushed, OwnershipInv, UnreadIsForeign, TypeOK, Exists
<1>5. Store(n, s, {c}) /\ UNCHANGED <<local, unread>>
  BY DEF StorePushed
<1> HIDE DEF n, s
<1> QED BY <1>1, <1>2, <1>3, <1>4, <1>5, StoreStep DEF OwnershipInv, TypeOK

LEMMA WriteStep ==
  ASSUME ConstantsOk, OwnershipInv, NEW c \in Clones, Create(c) \/ Update(c)
  PROVE  OwnershipInv'
<1>1. CASE Stop(c) /\ ReadOnly
  BY <1>1, StopStep
<1>2. CASE Create(c) /\ ~Exists(NameOf[At(c)]) /\ StorePushed(c, At(c))
  BY <1>2, StorePushedStep DEF Create
<1>3. CASE Update(c) /\ c \in current /\ StorePushed(c, At(c))
  <2>1. Owns(c, At(c)) /\ op[c].step = "update"
    BY <1>3 DEF OwnershipInv, Got, Update
  <2> QED BY <1>3, <2>1, StorePushedStep
<1> QED BY <1>1, <1>2, <1>3 DEF Create, Update

-----------------------------------------------------------------------------
(* import *)

LEMMA StartImportStep ==
  ASSUME ConstantsOk, OwnershipInv, NEW c \in Clones, NEW names \in SUBSET Names,
         StartImport(c, names)
  PROVE  OwnershipInv'
<1> DEFINE o == [Idle EXCEPT !.step = "import", !.todo = names]
<1>1. o \in Op /\ Placed(o) /\ o.step = "import"
  BY NamesArePaths DEF Idle, Op, Placed, Steps
<1>2. Become(c, o) /\ others' \in [Clones -> SUBSET Names]
  BY DEF StartImport, ReadOnly, OwnershipInv, TypeOK
<1> HIDE DEF o
<1> QED BY <1>1, <1>2, ReadStep DEF StartImport, ReadOnly

LEMMA ReadForImportStep ==
  ASSUME ConstantsOk, OwnershipInv, NEW c \in Clones, ReadForImport(c) \/ ImportComplete(c)
  PROVE  OwnershipInv'
<1>t. op[c] \in Op /\ Placed(op[c]) /\ others \in [Clones -> SUBSET Names]
  BY Typed DEF OwnershipInv, TypeOK
<1>1. CASE Stop(c) /\ ReadOnly
  BY <1>1, StopStep
<1>2. CASE ~Stop(c) /\ ReadForImport(c)
  <2> DEFINE n == First(op[c].todo)
             o == [op[c] EXCEPT !.step = "write", !.data = cluster[n].data]
  <2>1. Exists(n) /\ Become(c, o) /\ ReadOnly /\ op[c].step = "import" /\ op[c].todo # {}
    BY <1>2 DEF ReadForImport
  <2>2. n \in Names
    <3>1. op[c].todo \in SUBSET Paths /\ op[c].todo \subseteq Names
      BY <1>t, <2>1 DEF Op, Placed
    <3> QED BY <2>1, <3>1, FirstMember
  <2>3. cluster[n].data \in Contents
    BY <2>1, <2>2, Typed DEF OwnershipInv, Secret
  <2>4. o \in Op /\ o.step = "write" /\ o.todo = op[c].todo /\ o.data = cluster[n].data
    BY <1>t, <2>3 DEF Op, Steps
  <2>5. Placed(o)
    BY <1>t, <2>1, <2>3, <2>4 DEF Placed
  <2> HIDE DEF o
  <2> QED BY <1>t, <2>1, <2>4, <2>5, ReadStep DEF ReadOnly
<1> QED BY <1>1, <1>2 DEF ReadForImport, ImportComplete

LEMMA FilesStep ==
  ASSUME ConstantsOk, OwnershipInv, NEW c \in Clones, WriteEnc(c) \/ CleanUp(c)
  PROVE  OwnershipInv'
<1> DEFINE f == At(c)
           o == [op[c] EXCEPT !.step = "adopt"]
<1>t. op[c] \in Op /\ Placed(op[c])
  BY Typed DEF OwnershipInv
<1>f. f \in Paths
  BY <1>t, PathAtType, NamesArePaths DEF At, WriteEnc, CleanUp
<1>1. CASE WriteEnc(c) /\ local' = [local EXCEPT ![c][f] = op[c].data] /\ Goto(c, "adopt")
  <2>1. o \in Op /\ o.step = "adopt" /\ o.todo = op[c].todo /\ o.data = op[c].data
    BY <1>t DEF Op, Steps
  <2>2. op[c].step = "write" /\ op[c].data \in Contents
    BY <1>1, <1>t DEF WriteEnc, Placed
  <2>3. Placed(o)
    BY <1>t, <2>1, <2>2 DEF Placed
  <2>4. PathAt(o) = f
    BY <2>1, <2>2 DEF At, PathAt
  <2>5. Become(c, o)
    BY <1>1 DEF Goto
  <2> HIDE DEF o, f
  <2> QED BY <1>1, <1>f, <2>1, <2>2, <2>3, <2>4, <2>5, FileStep DEF WriteEnc
<1>2. CASE WriteEnc(c) /\ local' = [local EXCEPT ![c][f] = Torn] /\ Stop(c)
  <2> HIDE DEF f
  <2> QED BY <1>2, <1>f, IdleType, FileStep DEF WriteEnc, Stop
<1>3. CASE CleanUp(c) /\ local' = [local EXCEPT ![c][f] = None]
  <2>1. Become(c, Idle) /\ UNCHANGED <<cluster, current, others, unread>>
    BY <1>3 DEF CleanUp, Stop
  <2> HIDE DEF f
  <2> QED BY <1>f, <1>3, <2>1, IdleType, FileStep
<1>4. CASE CleanUp(c) /\ UNCHANGED local
  BY <1>4, StopStep DEF CleanUp, ReadOnly
<1> QED BY <1>1, <1>2, <1>3, <1>4 DEF WriteEnc, CleanUp

\* A command that is to remove the file it wrote.
LEMMA ToCleanUp ==
  ASSUME ConstantsOk, OwnershipInv, NEW c \in Clones, op[c].step \in {"adopt", "mark"},
         Goto(c, "cleanup")
  PROVE  \E o \in Op : Become(c, o) /\ Placed(o) /\ o.step = "cleanup"
<1> DEFINE o == [op[c] EXCEPT !.step = "cleanup"]
<1>1. op[c] \in Op /\ Placed(op[c])
  BY Typed DEF OwnershipInv
<1>2. o \in Op /\ o.step = "cleanup" /\ o.todo = op[c].todo /\ o.data = op[c].data
  BY <1>1 DEF Op, Steps
<1>3. Placed(o)
  BY <1>1, <1>2 DEF Placed
<1>4. Become(c, o)
  BY DEF Goto
<1> HIDE DEF o
<1> QED BY <1>2, <1>3, <1>4

LEMMA ToCleanUpStep ==
  ASSUME ConstantsOk, OwnershipInv, NEW c \in Clones, op[c].step \in {"adopt", "mark"},
         Goto(c, "cleanup"), ReadOnly
  PROVE  OwnershipInv'
<1>1. PICK o \in Op : Become(c, o) /\ Placed(o) /\ o.step = "cleanup"
  BY ToCleanUp
<1> QED BY <1>1, ReadStep DEF ReadOnly, OwnershipInv, TypeOK

LEMMA AdoptStep ==
  ASSUME ConstantsOk, OwnershipInv, NEW c \in Clones, Adopt(c)
  PROVE  OwnershipInv'
<1>1. CASE Goto(c, "cleanup") /\ ReadOnly
  BY <1>1, ToCleanUpStep DEF Adopt
<1>2. CASE Goto(c, "mark") /\ GetForUpdate(c) /\ Exists(At(c)) /\ MayImport(c, At(c))
            /\ cluster[At(c)].data = op[c].data
  <2> DEFINE o == [op[c] EXCEPT !.step = "mark"]
  <2>1. op[c] \in Op /\ Placed(op[c]) /\ op[c].step = "adopt"
    BY Typed DEF OwnershipInv, Adopt
  <2>2. o.step = "mark" /\ o.todo = op[c].todo /\ o.data = op[c].data
    BY <2>1 DEF Op
  <2>3. Placed(o)
    BY <2>1, <2>2 DEF Placed
  <2> QED BY <1>2, <2>1, <2>3, GetStep
<1> QED BY <1>1, <1>2 DEF Adopt

\* The Update of an import writes a Secret that is free, or is this safe's
\* copy already, with the data it has.
LEMMA MarkStep ==
  ASSUME ConstantsOk, OwnershipInv, NEW c \in Clones, Mark(c)
  PROVE  OwnershipInv'
<1> DEFINE n == At(c)
           s == [cluster[n] EXCEPT !.owner = Owner(c, n)]
           o == [op[c] EXCEPT !.step = "import", !.todo = @ \ {n}, !.data = None]
<1>t. op[c] \in Op /\ Placed(op[c]) /\ others \in [Clones -> SUBSET Names] /\ op[c].step = "mark"
  BY Typed DEF OwnershipInv, TypeOK, Mark
<1>n. n \in Names /\ n \in Paths
  BY <1>t, PathAtType, NamesArePaths DEF At
<1>1. CASE Goto(c, "cleanup") /\ ReadOnly
  BY <1>1, <1>t, ToCleanUpStep
<1>2. CASE /\ c \in current /\ Store(n, s, {c}) /\ UNCHANGED local
           /\ \/ /\ Become(c, o)
                 /\ unread' = IF local[c][n] = cluster[n].data THEN unread \ {n} ELSE unread
              \/ "lost" \in Faults /\ Goto(c, "cleanup") /\ UNCHANGED unread
  <2>1. Exists(n) /\ cluster[n].data = op[c].data /\ local[c][n] = op[c].data
    BY <1>2, <1>t DEF OwnershipInv, Got, Held
  <2>2. s \in Secret
    BY <2>1, <1>n, Typed, OwnerType DEF OwnershipInv, Secret
  <2>3. o \in Op /\ o.step = "import" /\ o.todo \subseteq op[c].todo
    BY <1>t DEF Op, Steps
  <2>4. Placed(o)
    BY <1>t, <2>3 DEF Placed
  <2>5. \E r \in Op : Become(c, r) /\ Placed(r) /\ r.step \in {"import", "cleanup"}
    BY <1>2, <1>t, <2>3, <2>4, ToCleanUp
  <2>6. /\ op' \in [Clones -> Op] /\ \A d \in Clones : Placed(op'[d])
        /\ \A d \in Clones : op'[d] = op[d] \/ op'[d].step \in {"import", "cleanup"}
    BY <2>5, BecomeType DEF OwnershipInv
  <2>7. \A d \in Clones : \/ op'[d] = op[d]
                          \/ op'[d].step \notin {"update", "mark", "adopt"} /\ Readable(d)'
    BY <2>6 DEF Readable
  <2>8. UnreadIsForeign'
    <3>1. "lost" \notin Faults => unread' = unread \ {n}
      BY <1>2, <2>1
    <3>2. \A m \in Names : m # n => cluster'[m] = cluster[m]
      BY <1>2 DEF Store, OwnershipInv, TypeOK
    <3> QED BY <3>1, <3>2 DEF OwnershipInv, UnreadIsForeign, TypeOK, Exists
  <2>9. unread' \in SUBSET Names
    BY <1>2 DEF OwnershipInv, TypeOK
  <2> HIDE DEF n, s, o
  <2> QED BY <1>2, <1>n, <1>t, <2>2, <2>6, <2>7, <2>8, <2>9, StoreStep
<1> QED BY <1>1, <1>2, Zenon DEF Mark

-----------------------------------------------------------------------------
(* Failures, and everybody else *)

LEMMA FailureStep ==
  ASSUME ConstantsOk, OwnershipInv, NEW c \in Clones, Refused(c) \/ Kill(c)
  PROVE  OwnershipInv'
<1>1. CASE Refused(c)
  BY <1>1, StopStep, ToCleanUpStep DEF Refused
<1> DEFINE dead == [Idle EXCEPT !.step = "killed"]
<1>k. dead \in Op /\ Placed(dead) /\ dead.step = "killed"
  BY DEF Idle, Op, Placed, Steps
<1>2. CASE Kill(c) /\ UNCHANGED local
  <2>1. Become(c, dead) /\ others' \in [Clones -> SUBSET Names]
           /\ UNCHANGED <<cluster, local, current, unread>>
    BY <1>2 DEF Kill, OwnershipInv, TypeOK
  <2> HIDE DEF dead
  <2> QED BY <1>k, <2>1, ReadStep
<1>3. CASE Kill(c) /\ op[c].step = "write" /\ local' = [local EXCEPT ![c][At(c)] = Torn]
  <2>1. At(c) \in Paths
    BY <1>3, Typed, PathAtType, NamesArePaths DEF At, OwnershipInv
  <2>2. Become(c, dead) /\ UNCHANGED <<cluster, current, others, unread>>
    BY <1>3 DEF Kill
  <2> HIDE DEF dead
  <2> QED BY <1>k, <1>3, <2>1, <2>2, FileStep
<1> QED BY <1>1, <1>2, <1>3 DEF Kill

LEMMA EditStep ==
  ASSUME ConstantsOk, OwnershipInv, NEW c \in Clones, NEW f \in Paths, Edit(c, f)
  PROVE  OwnershipInv'
<1>1. PICK x \in Contents \union {None} : local' = [local EXCEPT ![c][f] = x]
  BY DEF Edit
<1>2. op[c] \in Op /\ Placed(op[c]) /\ op[c].step \in {"idle", "killed"}
  BY Typed DEF Edit, AtRest, OwnershipInv
<1>3. Become(c, op[c])
  BY DEF Edit, Become, OwnershipInv, TypeOK
<1> QED BY <1>1, <1>2, <1>3, FileStep DEF Edit

LEMMA OthersStep ==
  ASSUME ConstantsOk, OwnershipInv, NEW n \in Names, OthersWrite(n) \/ OthersDelete(n)
  PROVE  OwnershipInv'
<1>1. \A m \in Names : m # n => cluster'[m] = cluster[m]
  BY DEF OthersWrite, OthersDelete, Store, OwnershipInv, TypeOK
<1>2. CASE OthersWrite(n)
  <2>1. PICK o \in {Hand, Tool} \union (IF Exists(n) THEN {cluster[n].owner} ELSE {}),
             x \in Contents :
               /\ Store(n, [owner |-> o, data |-> x], {})
               /\ unread' = IF o \in {Hand, Tool} THEN unread \union {n} ELSE unread
               /\ UNCHANGED <<local, op>>
    BY <1>2 DEF OthersWrite
  <2> DEFINE s == [owner |-> o, data |-> x]
  <2>2. Exists(n) => cluster[n] \in Secret
    BY DEF OwnershipInv, TypeOK, Exists
  <2>3. s \in Secret /\ s.owner = o /\ s # None
    <3>1. Exists(n) => cluster[n].owner \in Managed \union {Hand, Tool}
      BY <2>2 DEF Secret
    <3> QED BY <2>1, <3>1, NoneIsNoSecret DEF Secret
  <2>4. cluster'[n] = s
    BY <2>1 DEF Store, OwnershipInv, TypeOK
  <2>5. UnreadIsForeign'
    <3>1. ASSUME "lost" \notin Faults, NEW m \in unread'
          PROVE  Exists(m)' /\ cluster'[m].owner \in {Hand, Tool}
      <4>1. CASE m = n
        <5>1. o \in {Hand, Tool}
          BY <2>1, <3>1, <4>1 DEF OwnershipInv, UnreadIsForeign
        <5> QED BY <2>3, <2>4, <4>1, <5>1 DEF Exists
      <4>2. CASE m # n
        <5>1. m \in unread /\ m \in Names
          BY <2>1, <3>1, <4>2 DEF OwnershipInv, TypeOK
        <5> QED BY <1>1, <3>1, <4>2, <5>1 DEF OwnershipInv, UnreadIsForeign, Exists
      <4> QED BY <4>1, <4>2
    <3> QED BY <3>1 DEF UnreadIsForeign
  <2>6. unread' \in SUBSET Names /\ op' = op /\ UNCHANGED local
    BY <2>1 DEF OwnershipInv, TypeOK
  <2>7. op' \in [Clones -> Op] /\ \A d \in Clones : Placed(op'[d]) /\ op'[d] = op[d]
    BY <2>6 DEF OwnershipInv, TypeOK
  <2>8. Store(n, s, {})
    BY <2>1
  <2> HIDE DEF s
  <2> QED BY <2>3, <2>5, <2>6, <2>7, <2>8, StoreStep
<1>3. CASE OthersDelete(n)
  <2>1. UnreadIsForeign'
    BY <1>1, <1>3 DEF OthersDelete, OwnershipInv, UnreadIsForeign, TypeOK, Exists
  <2>2. unread' \in SUBSET Names /\ op' = op /\ UNCHANGED local /\ Store(n, None, {})
    BY <1>3 DEF OthersDelete, OwnershipInv, TypeOK
  <2>3. op' \in [Clones -> Op] /\ \A d \in Clones : Placed(op'[d]) /\ op'[d] = op[d]
    BY <2>2 DEF OwnershipInv, TypeOK
  <2> QED BY <2>1, <2>2, <2>3, StoreStep
<1> QED BY <1>2, <1>3

-----------------------------------------------------------------------------
(* The invariant *)

LEMMA InitInv == ASSUME ConstantsOk, Init PROVE OwnershipInv
<1>1. TypeOK
  BY IdleType DEF Init, TypeOK
<1> QED BY <1>1, IdleType DEF Init, OwnershipInv, Got, Held, Readable, UnreadIsForeign

LEMMA NextInv == ASSUME ConstantsOk, OwnershipInv, [Next]_vars PROVE OwnershipInv'
<1>1. ASSUME NEW c \in Clones, Step(c)
      PROVE  OwnershipInv'
  <2>1. ASSUME ImportAll(c)
        PROVE  OwnershipInv'
    BY <2>1, StartImportStep DEF ImportAll
  <2> QED BY <1>1, <2>1, CheckStep, PushGetStep, WriteStep, ReadForImportStep, FilesStep,
             AdoptStep, MarkStep, FailureStep DEF Step
<1>2. ASSUME NEW c \in Clones, NEW n \in Names, Import(c, n)
      PROVE  OwnershipInv'
  BY <1>2, StartImportStep DEF Import
<1>3. CASE UNCHANGED vars
  BY <1>3 DEF vars, OwnershipInv, TypeOK, Got, Held, Readable, UnreadIsForeign, At, Exists,
              Owns, MayImport
<1> QED BY <1>1, <1>2, <1>3, EditStep, OthersStep DEF Next

\* Every reachable state is well-formed.
THEOREM TypeCorrect == Spec => []TypeOK
<1>1. Init => OwnershipInv
  BY ConstantsOk, InitInv
<1>2. OwnershipInv /\ [Next]_vars => OwnershipInv'
  BY ConstantsOk, NextInv
<1>3. OwnershipInv => TypeOK
  BY DEF OwnershipInv
<1> QED BY <1>1, <1>2, <1>3, PTL DEF Spec

-----------------------------------------------------------------------------
(* What a command may do to a Secret *)

LEMMA PushWrites ==
  ASSUME ConstantsOk, OwnershipInv, NEW c \in Clones, Create(c) \/ Update(c),
         NEW n \in Names, cluster'[n] # cluster[n]
  PROVE  LET o == cluster'[n].owner IN
         /\ o = Owner(c, At(c)) /\ At(c) \in Paths /\ n = NameOf[At(c)]
         /\ Exists(n) => cluster[n].owner = o
<1>1. StorePushed(c, At(c)) /\ (~Exists(NameOf[At(c)]) \/ Owns(c, At(c)))
      /\ op[c].step \in {"create", "update"}
  BY DEF Create, Update, ReadOnly, OwnershipInv, Got
<1>2. At(c) \in Paths
  BY <1>1, Typed, PathAtType DEF At, OwnershipInv
<1>3. n = NameOf[At(c)] /\ cluster'[n].owner = Owner(c, At(c))
  BY <1>1 DEF StorePushed, Store, OwnershipInv, TypeOK
<1> QED BY <1>1, <1>2, <1>3 DEF Owns

LEMMA MarkWrites ==
  ASSUME ConstantsOk, OwnershipInv, NEW c \in Clones, Mark(c),
         NEW n \in Names, cluster'[n] # cluster[n]
  PROVE  /\ n = At(c) /\ Exists(n) /\ MayImport(c, n)
         /\ cluster' = [cluster EXCEPT ![n] = [cluster[n] EXCEPT !.owner = Owner(c, n)]]
         /\ cluster'[n].owner = Owner(c, n)
         /\ cluster'[n].data = cluster[n].data
<1>1. c \in current /\ Store(At(c), [cluster[At(c)] EXCEPT !.owner = Owner(c, At(c))], {c})
  BY DEF Mark, ReadOnly
<1>2. n = At(c)
  BY <1>1 DEF Store, OwnershipInv, TypeOK
<1>3. Exists(n) /\ MayImport(c, n)
  BY <1>1, <1>2 DEF Mark, OwnershipInv, Got
<1>4. cluster[n] \in Secret
  BY <1>3, Typed DEF OwnershipInv
<1>5. cluster' = [cluster EXCEPT ![n] = [cluster[n] EXCEPT !.owner = Owner(c, n)]]
  BY <1>1, <1>2 DEF Store
<1> QED BY <1>2, <1>3, <1>4, <1>5 DEF OwnershipInv, TypeOK, Secret

\* The steps that change a Secret, and the record of a command too.
LEMMA Writers ==
  ASSUME OwnershipInv, [Next]_vars, NEW c \in Clones, op'[c] # op[c], cluster' # cluster
  PROVE  Create(c) \/ Update(c) \/ Mark(c)
<1>1. \A d \in Clones : \A o : Become(d, o) /\ d # c => op'[c] = op[c]
  BY DEF Become, OwnershipInv, TypeOK
<1>2. ASSUME NEW d \in Clones, Step(d)
      PROVE  d = c /\ (Create(c) \/ Update(c) \/ Mark(c))
  <2>1. Create(d) \/ Update(d) \/ Mark(d)
    BY <1>2 DEF Step, Push, Check, Checked, PushGet, PushComplete, ImportAll, StartImport,
                ReadForImport, WriteEnc, Adopt, CleanUp, ImportComplete, Refused, Kill,
                ReadOnly, GetForUpdate
  <2>2. \E o : Become(d, o)
    BY <2>1 DEF Create, Update, Mark, StorePushed, Answered, Stop, Goto
  <2> QED BY <1>1, <2>1, <2>2
<1> QED BY <1>2 DEF Next, vars, Import, StartImport, ReadOnly, Edit, OthersWrite, OthersDelete

LEMMA StepRespects ==
  ASSUME ConstantsOk, OwnershipInv, [Next]_vars, NEW c \in Clones, NEW n \in Names,
         op'[c] # op[c], cluster'[n] # cluster[n]
  PROVE  LET o == cluster'[n].owner IN
         /\ o.safe = SafeOf[c]
         /\ NameOf[o.path] = n
         /\ Exists(n) => \/ cluster[n].owner = o
                         \/ /\ cluster[n].owner = Hand
                            /\ o.path = n
                            /\ cluster'[n].data = cluster[n].data
<1>1. CASE Create(c) \/ Update(c)
  BY <1>1, PushWrites, OwnerType
<1>2. CASE Mark(c)
  BY <1>2, MarkWrites, NamesArePaths, OwnerType DEF MayImport
<1> QED BY <1>1, <1>2, Writers

\* Whatever other tools, other safes and colliding paths do in between, a
\* command creates or rewrites only its own Secret, or marks a free one.
THEOREM OwnershipIsRespected == Spec => OwnershipRespected
<1>1. Init => OwnershipInv
  BY ConstantsOk, InitInv
<1>2. OwnershipInv /\ [Next]_vars => OwnershipInv'
  BY ConstantsOk, NextInv
<1>3. OwnershipInv /\ [Next]_vars =>
        [\A c \in Clones, n \in Names :
            op'[c] # op[c] /\ cluster'[n] # cluster[n] =>
                LET o == cluster'[n].owner IN
                /\ o.safe = SafeOf[c]
                /\ NameOf[o.path] = n
                /\ Exists(n) => \/ cluster[n].owner = o
                                \/ /\ cluster[n].owner = Hand
                                   /\ o.path = n
                                   /\ cluster'[n].data = cluster[n].data]_vars
  BY ConstantsOk, StepRespects
<1> QED BY <1>1, <1>2, <1>3, PTL DEF Spec, OwnershipRespected

LEMMA StepKeepsUnread ==
  ASSUME ConstantsOk, OwnershipInv, [Next]_vars, "lost" \notin Faults,
         NEW c \in Clones, NEW n \in unread, op'[c] # op[c]
  PROVE  cluster'[n] # None /\ cluster'[n].data = cluster[n].data
<1>1. n \in Names /\ Exists(n) /\ cluster[n].owner \in {Hand, Tool}
  BY DEF OwnershipInv, TypeOK, UnreadIsForeign
<1>2. CASE cluster'[n] = cluster[n]
  BY <1>1, <1>2 DEF Exists
<1>3. CASE cluster'[n] # cluster[n]
  <2>1. CASE Create(c) \/ Update(c)
    BY <1>1, <1>3, <2>1, PushWrites, OwnerType
  <2>2. CASE Mark(c)
    <3>1. /\ cluster'[n].data = cluster[n].data /\ cluster[n] \in Secret
          /\ cluster' = [cluster EXCEPT ![n] = [cluster[n] EXCEPT !.owner = Owner(c, n)]]
      BY <1>1, <1>3, <2>2, MarkWrites, Typed DEF OwnershipInv
    <3>2. cluster'[n] \in Secret
      <4>1. Owner(c, n) \in Managed
        BY <1>1, NamesArePaths, OwnerType
      <4> QED BY <1>1, <3>1, <4>1 DEF Secret, OwnershipInv, TypeOK
    <3> QED BY <3>1, <3>2, NoneIsNoSecret
  <2> QED BY <1>3, <2>1, <2>2, Writers
<1> QED BY <1>2, <1>3

\* Unless the answer to an Update is lost, no command replaces data that was
\* written outside penhan and never imported.
THEOREM NothingIsReverted ==
  ASSUME "lost" \notin Faults
  PROVE  Spec => NothingReverted
<1>1. Init => OwnershipInv
  BY ConstantsOk, InitInv
<1>2. OwnershipInv /\ [Next]_vars => OwnershipInv'
  BY ConstantsOk, NextInv
<1>3. OwnershipInv /\ [Next]_vars =>
        [\A c \in Clones, n \in unread :
            op'[c] # op[c] => cluster'[n] # None /\ cluster'[n].data = cluster[n].data]_vars
  BY ConstantsOk, StepKeepsUnread
<1> QED BY <1>1, <1>2, <1>3, PTL DEF Spec, NothingReverted

-----------------------------------------------------------------------------
(* What a push that completes has done *)

\* The Secret that push makes of the file at f.
Copy(c, f) == [owner |-> Owner(c, f), data |-> local[c][f]]

\* A push has read some files, all of them whole, and has each of them to
\* compare, or to push, or behind it.
Loaded(c) ==
    op[c].step \in Pushing =>
        /\ LocalFiles(c) # {}
        /\ \A f \in LocalFiles(c) : local[c][f] \in Contents
        /\ op[c].todo \union op[c].need \subseteq LocalFiles(c)
        /\ op[c].todo \intersect op[c].need = {}
        /\ op[c].step # "check" => op[c].todo = {}

\* What a push has compared, and nobody else has written, is still to be pushed
\* exactly if it is not in the cluster.
Compared(c) ==
    op[c].step \in Pushing =>
        \A f \in LocalFiles(c) \ op[c].todo : NameOf[f] \notin others[c] =>
            (f \in op[c].need <=> cluster[NameOf[f]] # Copy(c, f))

InSync(c) == Loaded(c) /\ Compared(c)

PushInv == OwnershipInv /\ \A c \in Clones : InSync(c)

\* What others may do while a push runs: write a Secret, and be known for it.
OnlyOthers(d) == \A n \in Names \ others'[d] : n \notin others[d] /\ cluster'[n] = cluster[n]

LEMMA OthersSync ==
  ASSUME ConstantsOk, NEW d \in Clones, InSync(d), op'[d] = op[d], local'[d] = local[d],
         OnlyOthers(d)
  PROVE  InSync(d)'
<1>1. \A f \in LocalFiles(d) : NameOf[f] \in Names
  BY NamesArePaths DEF LocalFiles
<1> QED BY <1>1 DEF InSync, Loaded, Compared, OnlyOthers, LocalFiles, Copy, Owner

\* A command leaves the other clones alone, but for the Secret it writes.
LEMMA Alone ==
  ASSUME OwnershipInv, NEW c \in Clones, NEW d \in Clones, d # c,
         Step(c) \/ (\E n \in Names : Import(c, n)) \/ (\E f \in Paths : Edit(c, f))
  PROVE  /\ op'[d] = op[d] /\ local'[d] = local[d]
         /\ \/ cluster' = cluster /\ others'[d] = others[d]
            \/ \E n, s : Store(n, s, {c})
<1>o. \A o : Become(c, o) => op'[d] = op[d]
  BY DEF Become, OwnershipInv, TypeOK
<1>f. \A f, x : local' = [local EXCEPT ![c][f] = x] => local'[d] = local[d]
  BY DEF OwnershipInv, TypeOK
<1>1. CASE Push(c) \/ ImportAll(c) \/ \E n \in Names : Import(c, n)
  BY <1>o, <1>1 DEF Push, ImportAll, Import, StartImport, ReadOnly, OwnershipInv, TypeOK
<1>2. CASE Check(c) \/ Checked(c) \/ PushComplete(c) \/ ReadForImport(c) \/ ImportComplete(c)
             \/ Refused(c)
  BY <1>o, <1>2 DEF Check, Checked, PushComplete, ReadForImport, ImportComplete, Refused,
                    ReadOnly, Stop, Goto
<1>3. CASE PushGet(c) \/ Adopt(c)
  BY <1>o, <1>3 DEF PushGet, Adopt, ReadOnly, GetForUpdate, Stop, Goto
<1>4. CASE Create(c) \/ Update(c)
  BY <1>o, <1>4 DEF Create, Update, StorePushed, Answered, ReadOnly, Stop
<1>5. CASE Mark(c)
  BY <1>o, <1>5 DEF Mark, ReadOnly, Goto
<1>6. CASE WriteEnc(c) \/ CleanUp(c) \/ Kill(c)
  BY <1>o, <1>f, <1>6 DEF WriteEnc, CleanUp, Kill, Stop, Goto
<1>7. CASE \E f \in Paths : Edit(c, f)
  BY <1>f, <1>7 DEF Edit
<1> QED BY <1>1, <1>2, <1>3, <1>4, <1>5, <1>6, <1>7 DEF Step

LEMMA AloneIsOthers ==
  ASSUME TypeOK, NEW d \in Clones,
         \/ cluster' = cluster /\ others'[d] = others[d]
         \/ \E n, s, by : Store(n, s, by) /\ d \notin by
  PROVE  OnlyOthers(d)
<1>1. ASSUME NEW n, NEW s, NEW by, Store(n, s, by), d \notin by
      PROVE  OnlyOthers(d)
  <2>1. /\ others'[d] = others[d] \union {n}
        /\ \A m \in Names : cluster'[m] = IF m = n THEN s ELSE cluster[m]
    BY <1>1 DEF Store, TypeOK
  <2> QED BY <2>1 DEF OnlyOthers
<1>2. cluster' = cluster /\ others'[d] = others[d] => OnlyOthers(d)
  BY DEF OnlyOthers
<1> QED BY <1>1, <1>2

\* A file needs no push if its Secret is this safe's copy of it.
LEMMA NeededIsNotCopied ==
  ASSUME TypeOK, NEW c \in Clones, NEW f \in Paths, NameOf[f] \in Names,
         Exists(NameOf[f]) => Owns(c, f), Copy(c, f) # None
  PROVE  NeedsPush(c, f) <=> cluster[NameOf[f]] # Copy(c, f)
<1>1. CASE Exists(NameOf[f])
  <2>1. cluster[NameOf[f]] \in Secret /\ cluster[NameOf[f]].owner = Owner(c, f)
    BY <1>1, Typed DEF Owns
  <2>2. cluster[NameOf[f]] = Copy(c, f) <=> cluster[NameOf[f]].data = local[c][f]
    BY <2>1 DEF Copy, Secret
  <2> QED BY <1>1, <2>2 DEF NeedsPush
<1>2. CASE ~Exists(NameOf[f])
  BY <1>2 DEF NeedsPush, Exists
<1> QED BY <1>1, <1>2

LEMMA CopyIsSecret ==
  ASSUME ConstantsOk, NEW c \in Clones, NEW f \in Paths, local[c][f] \in Contents
  PROVE  Copy(c, f) \in Secret /\ Copy(c, f) # None
<1>1. Copy(c, f) \in Secret
  BY OwnerType DEF Copy, Secret
<1> QED BY <1>1, NoneIsNoSecret

LEMMA CheckSync ==
  ASSUME ConstantsOk, PushInv, NEW c \in Clones, Push(c) \/ Check(c) \/ Checked(c)
  PROVE  InSync(c)'
<1>t. op[c] \in Op /\ InSync(c) /\ TypeOK
  BY Typed DEF PushInv, OwnershipInv
<1>1. CASE Push(c)
  <2>1. /\ op'[c].step = "check" /\ op'[c].todo = LocalFiles(c) /\ op'[c].need = {}
        /\ local' = local
    BY <1>1, <1>t DEF Push, Become, Idle, TypeOK
  <2>2. /\ LocalFiles(c) # {}
        /\ \A f \in LocalFiles(c) : local[c][f] \in Contents
    BY <1>1, <1>t DEF Push, LocalFiles, TypeOK
  <2> QED BY <2>1, <2>2 DEF InSync, Loaded, Compared, LocalFiles
<1>2. CASE Check(c)
  <2> DEFINE f == First(op[c].todo)
  <2>1. op[c].step = "check" /\ f \in op[c].todo /\ f \in Paths /\ NameOf[f] \in Names
    <3>1. op[c].todo # {} /\ op[c].todo \in SUBSET Paths
      BY <1>2, <1>t DEF Check, Op
    <3> QED BY <1>2, <3>1, FirstMember, NamesArePaths DEF Check
  <2>2. CASE Stop(c)
    BY <1>t, <2>2 DEF Stop, Become, Idle, InSync, Loaded, Compared, Pushing, TypeOK
  <2>3. CASE ~Stop(c)
    <3>1. /\ Exists(NameOf[f]) => Owns(c, f)
          /\ op'[c] = [op[c] EXCEPT !.todo = @ \ {f},
                          !.need = IF NeedsPush(c, f) THEN @ \union {f} ELSE @]
          /\ ReadOnly
      BY <1>2, <1>t, <2>3 DEF Check, Become, TypeOK
    <3>2. /\ op'[c].step = "check" /\ op'[c].todo = op[c].todo \ {f}
          /\ op'[c].need = IF NeedsPush(c, f) THEN op[c].need \union {f} ELSE op[c].need
      BY <1>t, <2>1, <3>1 DEF Op
    <3>3. NeedsPush(c, f) <=> cluster[NameOf[f]] # Copy(c, f)
      <4>1. Copy(c, f) # None
        BY <1>t, <2>1, CopyIsSecret DEF InSync, Loaded, Pushing
      <4> QED BY <1>t, <2>1, <3>1, <4>1, NeededIsNotCopied
    <3> HIDE DEF f
    <3>4. op[c].step \in Pushing /\ f \notin op[c].need /\ f \in LocalFiles(c)
      BY <1>t, <2>1 DEF InSync, Loaded, Pushing
    <3>5. /\ LocalFiles(c)' = LocalFiles(c) /\ \A g : Copy(c, g)' = Copy(c, g)
          /\ UNCHANGED <<cluster, local, others>>
      BY <3>1 DEF ReadOnly, LocalFiles, Copy, Owner
    <3>6. Loaded(c)'
      BY <1>t, <3>2, <3>4, <3>5 DEF InSync, Loaded
    <3>7. Compared(c)'
      BY <1>t, <3>2, <3>3, <3>4, <3>5 DEF InSync, Compared
    <3> QED BY <3>6, <3>7 DEF InSync
  <2> QED BY <2>2, <2>3
<1>3. CASE Checked(c)
  <2>1. /\ op[c].step = "check" /\ op'[c].todo = {} /\ op'[c].need = op[c].need
        /\ op[c].todo = {} /\ ReadOnly
    BY <1>3, <1>t DEF Checked, Goto, Become, TypeOK, Op
  <2> QED BY <1>t, <2>1 DEF InSync, Loaded, Compared, Pushing, ReadOnly, LocalFiles, Copy, Owner
<1> QED BY <1>1, <1>2, <1>3

\* Two paths of one name do not undo each other: the Secret is the other's,
\* and push does not get as far as writing it.
LEMMA CopiesApart ==
  ASSUME ConstantsOk, NEW c \in Clones, NEW f \in Paths, NEW g \in Paths, f # g,
         local[c][f] \in Contents, cluster[NameOf[f]] = Copy(c, f),
         ~Exists(NameOf[g]) \/ Owns(c, g)
  PROVE  NameOf[f] # NameOf[g]
<1>1. cluster[NameOf[f]].owner.path = f
  BY DEF Copy, Owner
<1>2. Exists(NameOf[f])
  BY CopyIsSecret DEF Exists
<1>3. ~Owns(c, g) \/ NameOf[f] # NameOf[g]
  BY <1>1 DEF Owns, Owner
<1> QED BY <1>2, <1>3

\* What a write of a push does, when it goes on.
LEMMA PushWritten ==
  ASSUME ConstantsOk, OwnershipInv, NEW c \in Clones, Create(c) \/ Update(c),
         ~(Stop(c) /\ ReadOnly)
  PROVE  /\ op[c].step \in {"create", "update"} /\ At(c) = First(op[c].need)
         /\ At(c) \in op[c].need /\ At(c) \in Paths /\ NameOf[At(c)] \in Names
         /\ ~Exists(NameOf[At(c)]) \/ Owns(c, At(c))
         /\ StorePushed(c, At(c)) /\ local' = local /\ others'[c] = others[c]
         /\ \A n \in Names :
               cluster'[n] = IF n = NameOf[At(c)] THEN Copy(c, At(c)) ELSE cluster[n]
<1>t. op[c] \in Op /\ Placed(op[c]) /\ TypeOK
  BY Typed DEF OwnershipInv
<1>1. /\ op[c].step \in {"create", "update"} /\ StorePushed(c, At(c))
      /\ ~Exists(NameOf[At(c)]) \/ Owns(c, At(c))
  BY DEF Create, Update, OwnershipInv, Got
<1>2. At(c) \in op[c].need /\ At(c) \in Paths /\ NameOf[At(c)] \in Names
  BY <1>t, <1>1, PathAtType, NamesArePaths DEF At
<1>3. Store(NameOf[At(c)], Copy(c, At(c)), {c}) /\ local' = local
  BY <1>1 DEF StorePushed, Copy
<1>4. others'[c] = others[c]
  BY <1>t, <1>3 DEF Store, TypeOK
<1>5. \A n \in Names :
         cluster'[n] = IF n = NameOf[At(c)] THEN Copy(c, At(c)) ELSE cluster[n]
  BY <1>t, <1>3 DEF Store, TypeOK
<1>6. At(c) = First(op[c].need)
  BY <1>1 DEF At, PathAt
<1> QED BY <1>1, <1>2, <1>3, <1>4, <1>5, <1>6

LEMMA PushSync ==
  ASSUME ConstantsOk, PushInv, NEW c \in Clones, PushGet(c) \/ Create(c) \/ Update(c)
  PROVE  InSync(c)'
<1>t. op[c] \in Op /\ Placed(op[c]) /\ InSync(c) /\ TypeOK
  BY Typed DEF PushInv, OwnershipInv
<1>1. CASE Stop(c)
  BY <1>t, <1>1 DEF Stop, Become, Idle, InSync, Loaded, Compared, Pushing, TypeOK
<1>2. CASE PushGet(c) /\ ~Stop(c)
  <2>1. /\ op[c].step = "push" /\ op'[c].todo = op[c].todo /\ op'[c].need = op[c].need
        /\ op'[c].step # "check" /\ UNCHANGED <<cluster, local, others>>
    BY <1>2, <1>t DEF PushGet, Goto, Become, TypeOK, Op, ReadOnly, GetForUpdate
  <2> QED BY <1>t, <2>1 DEF InSync, Loaded, Compared, Pushing, LocalFiles, Copy, Owner
<1>3. CASE (Create(c) \/ Update(c)) /\ ~Stop(c)
  <2> DEFINE g == At(c)
  <2>1. /\ op[c].step \in {"create", "update"} /\ StorePushed(c, g)
        /\ ~Exists(NameOf[g]) \/ Owns(c, g)
        /\ g \in op[c].need /\ g \in Paths /\ NameOf[g] \in Names
        /\ local' = local /\ others'[c] = others[c]
        /\ \A n \in Names : cluster'[n] = IF n = NameOf[g] THEN Copy(c, g) ELSE cluster[n]
    BY <1>3, PushWritten DEF PushInv
  <2> HIDE DEF g
  <2>2. op'[c].step = "push" /\ op'[c].todo = op[c].todo /\ op'[c].need = op[c].need \ {g}
    <3>1. Become(c, [op[c] EXCEPT !.step = "push", !.need = @ \ {g}])
      BY <1>3, <2>1 DEF StorePushed, Answered
    <3> QED BY <1>t, <3>1 DEF Become, TypeOK, Op
  <2>3. op[c].step \in Pushing /\ LocalFiles(c)' = LocalFiles(c) /\ \A f : Copy(c, f)' = Copy(c, f)
    BY <2>1 DEF Pushing, LocalFiles, Copy, Owner
  <2>4. Loaded(c)'
    BY <1>t, <2>1, <2>2, <2>3 DEF InSync, Loaded
  <2>5. ASSUME NEW f \in LocalFiles(c), f # g
        PROVE  cluster'[NameOf[f]] # Copy(c, f) <=> cluster[NameOf[f]] # Copy(c, f)
    <3>1. f \in Paths /\ NameOf[f] \in Names /\ local[c][f] \in Contents
      BY <1>t, <2>3, NamesArePaths DEF LocalFiles, InSync, Loaded
    <3>2. Copy(c, f) # Copy(c, g)
      BY <2>5 DEF Copy, Owner
    <3>3. cluster[NameOf[f]] = Copy(c, f) => NameOf[f] # NameOf[g]
      BY <2>1, <2>5, <3>1, CopiesApart
    <3> QED BY <2>1, <3>1, <3>2, <3>3
  <2>6. Compared(c)'
    <3> SUFFICES ASSUME NEW f \in LocalFiles(c) \ op[c].todo, NameOf[f] \notin others[c]
                 PROVE  f \in op[c].need \ {g} <=> cluster'[NameOf[f]] # Copy(c, f)
      BY <2>1, <2>2, <2>3 DEF Compared
    <3>1. CASE f = g
      BY <2>1, <3>1
    <3>2. CASE f # g
      BY <1>t, <2>3, <2>5, <3>2 DEF InSync, Compared
    <3> QED BY <3>1, <3>2
  <2> QED BY <2>4, <2>6 DEF InSync
<1> QED BY <1>1, <1>2, <1>3

\* After any other step of a clone there is no push.
LEMMA NotPushing ==
  ASSUME PushInv, NEW c \in Clones,
         Step(c) \/ (\E n \in Names : Import(c, n)) \/ (\E f \in Paths : Edit(c, f)),
         ~(Push(c) \/ Check(c) \/ Checked(c) \/ PushGet(c) \/ Create(c) \/ Update(c))
  PROVE  op'[c].step \notin Pushing
<1>t. op \in [Clones -> Op] /\ op[c] \in Op
  BY DEF PushInv, OwnershipInv, TypeOK
<1>1. \A o : Become(c, o) => op'[c] = o
  BY <1>t DEF Become
<1>2. \A step : Goto(c, step) => op'[c].step = step
  BY <1>1, <1>t DEF Goto, Op
<1>3. Stop(c) => op'[c].step = "idle"
  BY <1>1 DEF Stop, Idle
<1>4. ASSUME ImportAll(c) \/ \E n \in Names : Import(c, n)
      PROVE  op'[c].step \notin Pushing
  BY <1>1, <1>4 DEF ImportAll, Import, StartImport, Idle, Pushing
<1>5. ASSUME PushComplete(c) \/ ImportComplete(c) \/ CleanUp(c) \/ Refused(c) \/ WriteEnc(c)
               \/ Adopt(c)
      PROVE  op'[c].step \notin Pushing
  BY <1>2, <1>3, <1>5 DEF PushComplete, ImportComplete, CleanUp, Refused, WriteEnc, Adopt, Pushing
<1>6. ASSUME ReadForImport(c)
      PROVE  op'[c].step \notin Pushing
  <2>1. CASE Stop(c)
    BY <1>3, <2>1 DEF Pushing
  <2>2. CASE \E x : Become(c, [op[c] EXCEPT !.step = "write", !.data = x])
    BY <1>1, <1>t, <2>2 DEF Pushing, Op
  <2> QED BY <1>6, <2>1, <2>2 DEF ReadForImport
<1>7. ASSUME Mark(c)
      PROVE  op'[c].step \notin Pushing
  <2>1. CASE Goto(c, "cleanup")
    BY <1>2, <2>1 DEF Pushing
  <2>2. ASSUME NEW n, Become(c, [op[c] EXCEPT !.step = "import", !.todo = @ \ {n},
                                            !.data = None])
        PROVE  op'[c].step \notin Pushing
    <3>1. op'[c].step = "import"
      BY <1>1, <1>t, <2>2 DEF Op
    <3> QED BY <3>1 DEF Pushing
  <2> QED BY <1>7, <2>1, <2>2 DEF Mark
<1>8. ASSUME Kill(c)
      PROVE  op'[c].step \notin Pushing
  BY <1>1, <1>8 DEF Kill, Idle, Pushing
<1>9. ASSUME \E f \in Paths : Edit(c, f)
      PROVE  op'[c].step \notin Pushing
  BY <1>9 DEF Edit, AtRest, Pushing
<1> QED BY <1>4, <1>5, <1>6, <1>7, <1>8, <1>9 DEF Step

LEMMA OwnSync ==
  ASSUME ConstantsOk, PushInv, NEW c \in Clones,
         Step(c) \/ (\E n \in Names : Import(c, n)) \/ (\E f \in Paths : Edit(c, f))
  PROVE  InSync(c)'
<1>1. op'[c].step \notin Pushing => InSync(c)'
  BY DEF InSync, Loaded, Compared
<1> QED BY <1>1, CheckSync, PushSync, NotPushing

LEMMA NextSync == ASSUME ConstantsOk, PushInv, [Next]_vars PROVE PushInv'
<1>1. OwnershipInv'
  BY NextInv DEF PushInv
<1>2. ASSUME NEW d \in Clones
      PROVE  InSync(d)'
  <2>i. InSync(d) /\ OwnershipInv
    BY DEF PushInv
  <2>1. ASSUME NEW c \in Clones,
               Step(c) \/ (\E n \in Names : Import(c, n)) \/ (\E f \in Paths : Edit(c, f))
        PROVE  InSync(d)'
    <3>1. CASE c = d
      BY <2>1, <3>1, OwnSync
    <3>2. CASE c # d
      <4>1. op'[d] = op[d] /\ local'[d] = local[d] /\ OnlyOthers(d)
        <5>1. /\ op'[d] = op[d] /\ local'[d] = local[d]
              /\ \/ cluster' = cluster /\ others'[d] = others[d]
                 \/ \E n, s : Store(n, s, {c})
          BY <2>i, <2>1, <3>2, Alone
        <5> QED BY <2>i, <3>2, <5>1, AloneIsOthers DEF OwnershipInv
      <4> QED BY <2>i, <4>1, OthersSync
    <3> QED BY <3>1, <3>2
  <2>2. ASSUME NEW n \in Names, OthersWrite(n) \/ OthersDelete(n)
        PROVE  InSync(d)'
    <3>1. (\E s : Store(n, s, {})) /\ UNCHANGED <<local, op>>
      BY <2>2 DEF OthersWrite, OthersDelete
    <3>2. OnlyOthers(d)
      BY <2>i, <3>1, AloneIsOthers DEF OwnershipInv
    <3> QED BY <2>i, <3>1, <3>2, OthersSync
  <2>3. CASE UNCHANGED vars
    BY <2>i, <2>3, OthersSync DEF vars, OnlyOthers
  <2> QED BY <2>1, <2>2, <2>3 DEF Next
<1> QED BY <1>1, <1>2 DEF PushInv

\* A push that completes has brought every secret of its clone into the cluster
\* whose Secret nobody else wrote meanwhile, however many paths share a name, and
\* whatever failed, was killed or was answered in vain before.
THEOREM PushedIsInSync == Spec => []PushedInSync
<1>1. Init => PushInv
  BY ConstantsOk, InitInv, IdleType DEF Init, PushInv, InSync, Loaded, Compared, Pushing
<1>2. PushInv /\ [Next]_vars => PushInv'
  BY ConstantsOk, NextSync
<1>3. PushInv => PushedInSync
  BY DEF PushInv, InSync, Loaded, Compared, Pushing, PushedInSync, Copy
<1> QED BY <1>1, <1>2, <1>3, PTL DEF Spec

-----------------------------------------------------------------------------
(* The abstract store *)

\* What a clone reads at a path, where it has a file, is what is there of it.
LEMMA ViewAt ==
  ASSUME ConstantsOk, TypeOK, NEW c \in Clones, NEW f \in Paths
  PROVE  /\ View(c)[f] \in Contents \union {None}
         /\ local[c][f] \in Contents =>
               (View(c)[f] = local[c][f] <=> cluster[NameOf[f]] = Copy(c, f))
<1> DEFINE s == cluster[NameOf[f]]
<1>1. View(c)[f] = IF Exists(NameOf[f]) /\ Owns(c, f) THEN s.data ELSE None
  BY DEF View
<1>2. Exists(NameOf[f]) => s \in Secret
  BY Typed, NamesArePaths
<1>3. CASE Exists(NameOf[f]) /\ Owns(c, f)
  BY <1>1, <1>2, <1>3 DEF Secret, Owns, Copy
<1>4. CASE ~Exists(NameOf[f])
  <2>1. local[c][f] \in Contents => s # Copy(c, f)
    BY <1>4, CopyIsSecret DEF Exists
  <2> QED BY <1>1, <1>4, <2>1 DEF ConstantsOk
<1>5. CASE ~Owns(c, f)
  <2>1. s # Copy(c, f)
    BY <1>5 DEF Owns, Copy
  <2> QED BY <1>1, <1>5, <2>1 DEF ConstantsOk
<1> QED BY <1>3, <1>4, <1>5

LEMMA ViewType ==
  ASSUME ConstantsOk, TypeOK
  PROVE  \A c \in Clones : View(c) \in [Paths -> Contents \union {None} \union {}]
<1>1. \A c \in Clones, f \in Paths : View(c)[f] \in Contents \union {None}
  BY ViewAt
<1> QED BY <1>1 DEF View

LEMMA MapsPushing ==
  ASSUME NEW c \in Clones, Loaded(c)
  PROVE  StoreOf(c)!Pushing <=> op[c].step \in Pushing
  BY DEF Loaded, LocalFiles, Wanted, StoreOf!Pushing, StoreOf!Nothing

\* A push that is complete has all its secrets there.
Complete(c) == op[c].step = "push" /\ op[c].need = {} => StoreOf(c)!Synced

LEMMA MapsComplete ==
  ASSUME ConstantsOk, PushInv, NEW c \in Clones
  PROVE  Complete(c)
<1> SUFFICES ASSUME op[c].step = "push", op[c].need = {}, NEW f \in Paths,
                    local[c][f] # None, NameOf[f] \notin others[c]
             PROVE  View(c)[f] = local[c][f]
  BY DEF Complete, StoreOf!Synced, StoreOf!Wanted, Wanted, Elsewhere, Pushing
<1>1. f \in LocalFiles(c) /\ op[c].step \in Pushing /\ InSync(c) /\ TypeOK
  BY DEF LocalFiles, Pushing, PushInv, OwnershipInv
<1>2. local[c][f] \in Contents /\ cluster[NameOf[f]] = Copy(c, f)
  BY <1>1 DEF InSync, Loaded, Compared
<1> QED BY <1>1, <1>2, ViewAt

\* Where the store stays, or a wanted secret is written, the push goes on.
LEMMA MapsGoesOn ==
  ASSUME NEW c \in Clones, Complete(c)', op[c].step \in Pushing, op'[c].step \in Pushing,
         local'[c] = local[c], others'[c] = others[c]
  PROVE  StoreOf(c)!GoesOn
  BY DEF Complete, StoreOf!GoesOn, Wanted, Elsewhere

LEMMA MapsEnds ==
  ASSUME NEW c \in Clones, op'[c].step \notin Pushing
  PROVE  StoreOf(c)!Ends
  BY DEF StoreOf!Ends, StoreOf!Nothing, Wanted, Elsewhere, Pushing

\* What somebody else does, as a push in the clone sees it.
LEMMA OthersMaps ==
  ASSUME ConstantsOk, PushInv, NEW c \in Clones,
         View(c)' \in [Paths -> Contents \union {None} \union {}], op'[c] = op[c], local'[c] = local[c],
         \/ cluster' = cluster /\ others'[c] = others[c]
         \/ \E n, s, by : Store(n, s, by) /\ c \notin by
  PROVE  UNCHANGED StoreOf(c)!vars \/ StoreOf(c)!Next
<1>1. CASE cluster' = cluster /\ others'[c] = others[c]
  BY <1>1 DEF StoreOf!vars, View, Exists, Owns, Wanted, Elsewhere
<1>2. ASSUME NEW n, NEW s, NEW by, Store(n, s, by), c \notin by
      PROVE  StoreOf(c)!Next
  <2> DEFINE S == {f \in Paths : NameOf[f] = n}
  <2>1. others'[c] = others[c] \union {n}
    BY <1>2 DEF Store, PushInv, OwnershipInv, TypeOK
  <2>2. \A f \in Paths \ S : cluster'[NameOf[f]] = cluster[NameOf[f]]
    BY <1>2, NamesArePaths DEF Store, PushInv, OwnershipInv, TypeOK
  <2>3. \A f \in Paths \ S : View(c)'[f] = View(c)[f]
    BY <2>2 DEF View, Exists, Owns
  <2>4. StoreOf(c)!Pushing <=> op[c].step \in Pushing
    BY MapsPushing DEF PushInv, InSync
  <2>5. Elsewhere(c)' = IF op[c].step \in Pushing THEN Elsewhere(c) \union S ELSE {}
    BY <2>1 DEF Elsewhere
  <2>6. StoreOf(c)!Otherwise(S)
    BY <2>3, <2>4, <2>5 DEF StoreOf!Otherwise, Wanted
  <2> QED BY <2>6 DEF StoreOf!Next
<1> QED BY <1>1, <1>2

\* Import, and whatever else a clone does that is no push.
LEMMA ElseMaps ==
  ASSUME PushInv, NEW c \in Clones, View(c)' \in [Paths -> Contents \union {None} \union {}],
         op[c].step \notin Pushing, op'[c].step \notin Pushing
  PROVE  StoreOf(c)!Next
<1>1. StoreOf(c)!Otherwise(Paths)
  BY MapsPushing DEF StoreOf!Otherwise, PushInv, InSync, Wanted, Elsewhere, Pushing
<1> QED BY <1>1 DEF StoreOf!Next

LEMMA WriteMaps ==
  ASSUME ConstantsOk, PushInv, NEW c \in Clones, Create(c) \/ Update(c), Complete(c)',
         ~(Stop(c) /\ ReadOnly)
  PROVE  StoreOf(c)!Next
<1> DEFINE g == At(c)
<1>t. op[c] \in Op /\ InSync(c) /\ OwnershipInv /\ TypeOK
  BY Typed DEF PushInv, OwnershipInv
<1>1. /\ op[c].step \in {"create", "update"} /\ StorePushed(c, g)
      /\ ~Exists(NameOf[g]) \/ Owns(c, g)
      /\ g \in op[c].need /\ g \in Paths /\ NameOf[g] \in Names
      /\ local' = local /\ others'[c] = others[c]
      /\ \A n \in Names : cluster'[n] = IF n = NameOf[g] THEN Copy(c, g) ELSE cluster[n]
  BY <1>t, PushWritten
<1> HIDE DEF g
<1>2. op[c].step \in Pushing /\ local[c][g] \in Contents /\ op[c].todo = {}
  BY <1>t, <1>1 DEF InSync, Loaded, Pushing
<1>3. View(c)[g] # local[c][g] \/ g \in Elsewhere(c)
  BY <1>t, <1>1, <1>2, ViewAt DEF InSync, Loaded, Compared, Elsewhere
<1>4. View(c)' = [View(c) EXCEPT ![g] = local[c][g]]
  <2>1. View(c)'[g] = local[c][g]
    <3>1. cluster'[NameOf[g]] = Copy(c, g) /\ Copy(c, g) # None
      BY <1>1, <1>2, CopyIsSecret
    <3>2. Copy(c, g).owner = Owner(c, g) /\ Copy(c, g).data = local[c][g]
      BY DEF Copy
    <3> QED BY <1>1, <3>1, <3>2 DEF View, Exists, Owns, Owner
  <2>2. ASSUME NEW f \in Paths, f # g
        PROVE  View(c)'[f] = View(c)[f]
    <3>1. CASE NameOf[f] = NameOf[g]
      <4>1. ~Owns(c, f)'
        BY <1>1, <2>2, <3>1 DEF Owns, Owner, Copy
      <4>2. ~Exists(NameOf[f]) \/ ~Owns(c, f)
        BY <1>1, <2>2, <3>1 DEF Owns, Owner
      <4> QED BY <4>1, <4>2 DEF View
    <3>2. CASE NameOf[f] # NameOf[g]
      BY <1>1, <3>2, NamesArePaths DEF View, Exists, Owns
    <3> QED BY <3>1, <3>2
  <2>3. /\ View(c) = [f \in Paths |-> View(c)[f]]
        /\ View(c)' = [f \in Paths |-> View(c)'[f]]
    BY DEF View
  <2> QED BY <1>1, <2>1, <2>2, <2>3
<1>5. StoreOf(c)!GoesOn \/ StoreOf(c)!Ends
  <2>1. CASE op'[c].step \in Pushing
    BY <1>1, <1>2, <2>1, MapsGoesOn
  <2>2. CASE op'[c].step \notin Pushing
    BY <2>2, MapsEnds
  <2> QED BY <2>1, <2>2
<1>6. g \in StoreOf(c)!Wanted /\ Wanted(c)[g] = local[c][g] /\ op[c].step # "push"
  BY <1>1, <1>2 DEF StoreOf!Wanted, Wanted, ConstantsOk
<1>7. StoreOf(c)!Write(g)
  BY <1>3, <1>4, <1>5, <1>6 DEF StoreOf!Write
<1> QED BY <1>1, <1>7 DEF StoreOf!Next

\* What a step that reads, of a push that runs, is to the store.
LEMMA ReadMaps ==
  ASSUME PushInv, NEW c \in Clones, op[c].step \in Pushing, cluster' = cluster,
         Complete(c)',
         op'[c].step \in Pushing => /\ local'[c] = local[c] /\ others'[c] = others[c]
                                    /\ op[c].step # "push" \/ op[c].need # {}
  PROVE  UNCHANGED StoreOf(c)!vars \/ StoreOf(c)!Next
<1>1. View(c)' = View(c) /\ StoreOf(c)!Pushing
  BY MapsPushing DEF View, Exists, Owns, PushInv, InSync
<1>2. CASE op'[c].step \notin Pushing
  <2>1. StoreOf(c)!End
    BY <1>1, <1>2, MapsEnds DEF StoreOf!End
  <2> QED BY <2>1 DEF StoreOf!Next
<1>3. CASE op'[c].step \in Pushing
  <2>1. StoreOf(c)!GoesOn
    BY <1>3, MapsGoesOn
  <2>2. CASE op'[c].step = "push" /\ op'[c].need = {}
    BY <1>1, <2>1, <2>2 DEF StoreOf!Finish, StoreOf!Next
  <2>3. CASE ~(op'[c].step = "push" /\ op'[c].need = {})
    BY <1>1, <1>3, <2>1, <2>3 DEF StoreOf!vars, StoreOf!GoesOn
  <2> QED BY <2>2, <2>3
<1> QED BY <1>2, <1>3

LEMMA OwnMaps ==
  ASSUME ConstantsOk, PushInv, NEW c \in Clones, Complete(c)',
         View(c)' \in [Paths -> Contents \union {None} \union {}],
         Step(c) \/ (\E n \in Names : Import(c, n)) \/ (\E f \in Paths : Edit(c, f))
  PROVE  UNCHANGED StoreOf(c)!vars \/ StoreOf(c)!Next
<1>t. op[c] \in Op /\ TypeOK
  BY Typed DEF PushInv, OwnershipInv
<1>1. CASE Push(c)
  <2>1. /\ op[c].step \notin Pushing /\ op'[c].step = "check" /\ others'[c] = {}
        /\ cluster' = cluster /\ local' = local
    BY <1>1, <1>t DEF Push, AtRest, Become, Idle, Pushing, TypeOK
  <2>2. local[c] \in [Paths -> Contents \union {None}] /\ local[c] # [f \in Paths |-> None]
    BY <1>1, <1>t DEF Push, LocalFiles, TypeOK
  <2>3. View(c)' = View(c) /\ ~StoreOf(c)!Pushing
    BY <2>1, MapsPushing DEF View, Exists, Owns, PushInv, InSync
  <2>4. StoreOf(c)!Begin
    BY <2>1, <2>2, <2>3 DEF StoreOf!Begin, StoreOf!Nothing, Wanted, Elsewhere, Pushing
  <2> QED BY <2>4 DEF StoreOf!Next
<1>2. CASE Check(c) \/ Checked(c) \/ PushGet(c)
  <2>1. /\ op[c].step \in Pushing /\ UNCHANGED <<cluster, local, others>>
        /\ op[c].step # "push" \/ op[c].need # {}
    BY <1>2 DEF Check, Checked, PushGet, ReadOnly, GetForUpdate, Pushing
  <2> QED BY <2>1, ReadMaps
<1>3. CASE Create(c) \/ Update(c)
  <2>1. CASE Stop(c) /\ ReadOnly
    <3>1. op'[c].step = "idle" /\ cluster' = cluster /\ op[c].step \in Pushing
      BY <1>3, <1>t, <2>1 DEF Stop, Become, Idle, ReadOnly, TypeOK, Create, Update, Pushing
    <3> QED BY <3>1, ReadMaps DEF Pushing
  <2> QED BY <1>3, <2>1, WriteMaps
<1>4. CASE ~(Push(c) \/ Check(c) \/ Checked(c) \/ PushGet(c) \/ Create(c) \/ Update(c))
  <2>1. op'[c].step \notin Pushing
    BY <1>4, NotPushing
  <2>2. op[c].step \in Pushing => cluster' = cluster
    <3>1. ~Mark(c) => cluster' = cluster
      BY <1>4 DEF Step, PushComplete, ImportAll, Import, StartImport, ReadForImport, WriteEnc,
                  Adopt, CleanUp, ImportComplete, Refused, Kill, Edit, ReadOnly, GetForUpdate
    <3> QED BY <3>1 DEF Mark, Pushing
  <2> QED BY <2>1, <2>2, ReadMaps, ElseMaps
<1> QED BY <1>1, <1>2, <1>3, <1>4

\* Every state agrees with the store: its contents are contents, and it has
\* what a completed push says.
Agrees == \A c \in Clones : /\ Complete(c)
                           /\ View(c) \in [Paths -> Contents \union {None} \union {}]

LEMMA StepMaps ==
  ASSUME ConstantsOk, PushInv, Agrees', [Next]_vars, NEW d \in Clones
  PROVE  UNCHANGED StoreOf(d)!vars \/ StoreOf(d)!Next
<1>1. /\ Complete(d)' /\ View(d)' \in [Paths -> Contents \union {None} \union {}]
      /\ OwnershipInv
  BY DEF Agrees, PushInv
<1>2. ASSUME NEW c \in Clones,
             Step(c) \/ (\E n \in Names : Import(c, n)) \/ (\E f \in Paths : Edit(c, f))
      PROVE  UNCHANGED StoreOf(d)!vars \/ StoreOf(d)!Next
  <2>1. CASE c = d
    BY <1>1, <1>2, <2>1, OwnMaps
  <2>2. CASE c # d
    <3>1. /\ op'[d] = op[d] /\ local'[d] = local[d]
          /\ \/ cluster' = cluster /\ others'[d] = others[d]
             \/ \E n, s : Store(n, s, {c})
      BY <1>1, <1>2, <2>2, Alone
    <3> QED BY <1>1, <2>2, <3>1, OthersMaps
  <2> QED BY <2>1, <2>2
<1>3. ASSUME NEW n \in Names, OthersWrite(n) \/ OthersDelete(n)
      PROVE  UNCHANGED StoreOf(d)!vars \/ StoreOf(d)!Next
  <2>1. (\E s : Store(n, s, {})) /\ UNCHANGED <<local, op>>
    BY <1>3 DEF OthersWrite, OthersDelete
  <2> QED BY <1>1, <2>1, OthersMaps
<1>4. CASE UNCHANGED vars
  BY <1>1, <1>4, OthersMaps DEF vars
<1> QED BY <1>2, <1>3, <1>4 DEF Next

\* To every clone, the namespace is the store that push promises, whatever the
\* other clones, safes, people and tools do: a push writes only secrets it has
\* read, under the paths they have, none that is there already, and none in
\* place of a secret of another path; and it does not say that it is complete
\* before all is there.
THEOREM StoreImplemented == Spec => ImplementsStore
<1>1. Init => PushInv
  BY ConstantsOk, InitInv, IdleType DEF Init, PushInv, InSync, Loaded, Compared, Pushing
<1>2. PushInv /\ [Next]_vars => PushInv'
  BY ConstantsOk, NextSync
<1>3. PushInv => Agrees
  BY ConstantsOk, MapsComplete, ViewType DEF Agrees, PushInv, OwnershipInv
<1>4. Init => \A c \in Clones : StoreOf(c)!Init
  <2> SUFFICES ASSUME Init, NEW c \in Clones PROVE StoreOf(c)!Init
    OBVIOUS
  <2>1. View(c) \in [Paths -> Contents \union {None} \union {}]
    BY <1>1, ConstantsOk, ViewType DEF PushInv, OwnershipInv
  <2>2. op[c].step = "idle"
    BY IdleType DEF Init
  <2> QED BY <2>1, <2>2 DEF StoreOf!Init, StoreOf!Nothing, Wanted, Elsewhere, Pushing
<1>5. PushInv /\ Agrees' /\ [Next]_vars =>
        [\A c \in Clones : UNCHANGED StoreOf(c)!vars \/ StoreOf(c)!Next]_vars
  BY ConstantsOk, StepMaps
<1> QED BY <1>1, <1>2, <1>3, <1>4, <1>5, PTL DEF Spec, ImplementsStore

-----------------------------------------------------------------------------
(* How an import ends *)

LEMMA EndsCleanly ==
  ASSUME ConstantsOk, OwnershipInv, [Next]_vars, NEW c \in Clones,
         op[c].step \in {"adopt", "mark", "cleanup"}, op'[c].step = "idle", "remove" \notin Faults
  PROVE  local'[c][At(c)] = None
<1>t. op \in [Clones -> Op] /\ op[c] \in Op /\ Placed(op[c])
  BY Typed DEF OwnershipInv, TypeOK
<1>1. \A d \in Clones : \A o : Become(d, o) => op'[c] = IF c = d THEN o ELSE op[c]
  BY <1>t DEF Become
<1>2. ASSUME NEW d \in Clones, Step(d)
      PROVE  CleanUp(c)
  <2>1. d = c
    <3>1. CASE Push(d) \/ Check(d) \/ Checked(d) \/ PushGet(d) \/ PushComplete(d)
      BY <1>1, <3>1 DEF Push, Check, Checked, PushGet, PushComplete, Stop, Goto
    <3>2. CASE Create(d) \/ Update(d)
      BY <1>1, <3>2 DEF Create, Update, StorePushed, Answered, Stop
    <3>3. CASE ImportAll(d) \/ ReadForImport(d) \/ WriteEnc(d) \/ Adopt(d) \/ Mark(d)
      BY <1>1, <3>3 DEF ImportAll, StartImport, ReadForImport, WriteEnc, Adopt, Mark, Stop, Goto
    <3>4. CASE CleanUp(d) \/ ImportComplete(d) \/ Refused(d) \/ Kill(d)
      BY <1>1, <3>4 DEF CleanUp, ImportComplete, Refused, Kill, Stop, Goto
    <3> QED BY <1>2, <3>1, <3>2, <3>3, <3>4 DEF Step
  <2>2. Adopt(c) \/ Mark(c) \/ CleanUp(c) \/ Refused(c) \/ Kill(c)
    BY <1>2, <2>1 DEF Step, Push, Check, Checked, PushGet, Create, Update, PushComplete,
                      ImportAll, StartImport, ReadForImport, WriteEnc, ImportComplete, AtRest
  <2>3. \A step : Goto(c, step) => op'[c].step = step
    BY <1>1, <1>t DEF Goto, Op
  <2>4. ~Adopt(c) /\ ~Refused(c)
    BY <2>3 DEF Adopt, Refused
  <2>5. ~Mark(c)
    <3>1. ASSUME NEW n, Become(c, [op[c] EXCEPT !.step = "import", !.todo = @ \ {n},
                                              !.data = None])
          PROVE  op'[c].step = "import"
      <4>1. op'[c] = [op[c] EXCEPT !.step = "import", !.todo = @ \ {n}, !.data = None]
        BY <1>t, <3>1 DEF Become
      <4> QED BY <1>t, <4>1 DEF Op
    <3> QED BY <2>3, <3>1 DEF Mark
  <2>6. ~Kill(c)
    BY <1>1 DEF Kill, Idle
  <2> QED BY <2>2, <2>4, <2>5, <2>6
<1>3. ASSUME NEW d \in Clones, NEW names, StartImport(d, names)
      PROVE  FALSE
  BY <1>1, <1>3 DEF StartImport, AtRest, Idle
<1>4. op' # op
  OBVIOUS
<1>5. CleanUp(c)
  BY <1>2, <1>3, <1>4 DEF Next, vars, Import, Edit, OthersWrite, OthersDelete
<1>6. At(c) \in Paths
  BY <1>t, PathAtType, NamesArePaths DEF At
<1> QED BY <1>5, <1>6 DEF CleanUp, OwnershipInv, TypeOK

\* An import that fails once its file is written takes it away again, whoever
\* changed the Secret in between, unless it is killed or cannot remove it.
THEOREM FailedImportLeavesNone == Spec => FailedImportLeavesNoFile
<1>1. Init => OwnershipInv
  BY ConstantsOk, InitInv
<1>2. OwnershipInv /\ [Next]_vars => OwnershipInv'
  BY ConstantsOk, NextInv
<1>3. OwnershipInv /\ [Next]_vars =>
        [\A c \in Clones :
            /\ op[c].step \in {"adopt", "mark", "cleanup"} /\ op'[c].step = "idle"
            /\ "remove" \notin Faults
            => local'[c][At(c)] = None]_vars
  BY ConstantsOk, EndsCleanly
<1> QED BY <1>1, <1>2, <1>3, PTL DEF Spec, FailedImportLeavesNoFile
=============================================================================
