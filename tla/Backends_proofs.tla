--------------------------- MODULE Backends_proofs ---------------------------
(***************************************************************************)
(* Proofs about Backends for any files, paths and contents, whatever       *)
(* others write and whatever fails.                                        *)
(***************************************************************************)
EXTENDS Backends, TLAPS

-----------------------------------------------------------------------------
(* The inductive invariant *)

\* The command has compared f, and is not in the middle of writing it.
Decided(f) ==
    /\ f \in Wanted(op.want) \ op.todo
    /\ ~(op.step \in {"fill", "resend"} /\ f = First(op.need))

\* What is compared, and nobody else has written, is either still to be written
\* or there; an emptied file stays empty, and what is sent again is there.
Knowledge ==
    /\ \A f \in Paths \ op.others : Decided(f) => (f \in op.need <=> store[f] # op.want[f])
    /\ op.step = "fill" /\ First(op.need) \notin op.others => store[First(op.need)] = Broken
    /\ op.step = "resend" /\ First(op.need) \notin op.others =>
          store[First(op.need)] = op.want[First(op.need)]

\* No secret is both to be compared and to be written.
Disjoint ==
    /\ op.todo \intersect op.need = {}
    /\ op.step \in {"push", "resend", "fill"} => op.todo = {}

\* A push that runs has read something, and nothing is left of one that is over.
InSession == IF op.step = "idle" THEN op = Idle ELSE Wanted(op.want) # {}

PushInv == TypeOK /\ Knowledge /\ Disjoint /\ InSession

-----------------------------------------------------------------------------
(* collectLocalSecrets *)

LEMMA FirstMember ==
  ASSUME ConstantsOk, NEW S \in SUBSET Paths, S # {}
  PROVE  First(S) \in S
<1>1. \E f \in S : \A g \in S : <<f, g>> \in Before
  BY DEF ConstantsOk
<1> QED BY <1>1 DEF First

LEMMA LastMember ==
  ASSUME ConstantsOk, NEW S \in SUBSET Files, S # {}
  PROVE  Last(S) \in S /\ \A g \in S : <<g, Last(S)>> \in Before
<1>1. \E f \in S : \A g \in S : <<g, f>> \in Before
  BY DEF ConstantsOk
<1> QED BY <1>1 DEF Last

\* What is collected for a path is what some file of it holds.
LEMMA CollectedType ==
  ASSUME ConstantsOk, Collectable(files), files \in [Files -> Contents \union {None, Broken}]
  PROVE  Collected(files) \in [Paths -> Contents \union {None}]
<1> SUFFICES ASSUME NEW f \in Paths
             PROVE  Collected(files)[f] \in Contents \union {None}
  BY DEF Collected
<1> DEFINE read == {n \in Files : PathOf[n] = f /\ Reads(files, n)}
<1>1. Collected(files)[f] = IF read = {} THEN None ELSE files[Last(read)]
  BY DEF Collected
<1>2. CASE read = {}
  BY <1>1, <1>2
<1>3. CASE read # {}
  <2>1. Last(read) \in read
    BY <1>3, LastMember
  <2> QED BY <1>1, <1>3, <2>1 DEF Collectable
<1> QED BY <1>2, <1>3

\* A plaintext file is read, and no encrypted one of its path after it.
LEMMA CollectedPlaintext ==
  ASSUME ConstantsOk, NEW n \in Files \ Enc, files[n] # None
  PROVE  \E m \in Files \ Enc :
            PathOf[m] = PathOf[n] /\ Collected(files)[PathOf[n]] = files[m]
<1> DEFINE read == {m \in Files : PathOf[m] = PathOf[n] /\ Reads(files, m)}
<1>1. n \in read
  BY DEF Reads
<1>2. Last(read) \in read /\ <<n, Last(read)>> \in Before
  BY <1>1, LastMember
<1>3. Last(read) \notin Enc
  BY <1>1, <1>2 DEF Reads
<1>4. PathOf[n] \in Paths
  BY DEF Paths
<1>5. Collected(files)[PathOf[n]] = files[Last(read)]
  BY <1>1, <1>4 DEF Collected
<1> QED BY <1>2, <1>3, <1>5

-----------------------------------------------------------------------------
(* Types *)

LEMMA IdleType ==
  ASSUME NEW o, o = Idle
  PROVE  /\ o \in Op /\ o.todo = {} /\ o.need = {} /\ o.others = {} /\ o.step = "idle"
         /\ o.want = [f \in Paths |-> None] /\ Wanted(o.want) = {}
  BY DEF Idle, Op, Steps, Wanted

LEMMA OpFields ==
  ASSUME PushInv
  PROVE  /\ op \in Op /\ op.step \in Steps /\ op.want \in [Paths -> Contents \union {None}]
         /\ op.todo \in SUBSET Paths /\ op.need \in SUBSET Paths /\ op.others \in SUBSET Paths
         /\ op.todo \union op.need \subseteq Wanted(op.want)
         /\ store \in [Paths -> Contents \union {None, Broken}]
  BY DEF PushInv, TypeOK, Op

\* A command that ends, for whatever reason, leaves nothing to be proved.
LEMMA Stops ==
  ASSUME ConstantsOk, PushInv, Stop, UNCHANGED <<kind, files, settled>>,
         store' \in [Paths -> Contents \union {None, Broken}],
         kind = "vault" => \A f \in Paths : store'[f] # Broken
  PROVE  PushInv'
<1>1. op' = Idle
  BY DEF Stop, Become
<1>2. /\ op' \in Op /\ op'.todo = {} /\ op'.need = {} /\ op'.step = "idle"
      /\ Wanted(op'.want) = {}
  BY <1>1, IdleType
<1>3. TypeOK' /\ Disjoint'
  BY <1>2 DEF PushInv, TypeOK, Disjoint
<1>4. Knowledge' /\ InSession'
  BY <1>1, <1>2 DEF Knowledge, Decided, InSession
<1> QED BY <1>3, <1>4 DEF PushInv

\* A secret is written as a whole: its path is decided now.
LEMMA Writes ==
  ASSUME ConstantsOk, PushInv, op.step \in {"push", "resend", "fill"}, op.need # {},
         Become(Done(First(op.need))),
         NEW x \in Contents \union {None, Broken}, Put(First(op.need), x),
         First(op.need) \notin op.others => x = op.want[First(op.need)],
         kind = "vault" => x # Broken,
         UNCHANGED <<kind, files, settled>>
  PROVE  PushInv'
<1> DEFINE f == First(op.need)
<1>1. f \in op.need /\ f \in Paths /\ f \in Wanted(op.want)
  BY FirstMember, OpFields
<1>2. /\ op' \in Op /\ op'.step = "push" /\ op'.todo = {} /\ op'.need = op.need \ {f}
      /\ op'.want = op.want /\ op'.others = op.others
  BY OpFields DEF PushInv, Disjoint, Become, Done, Op, Steps
<1>3. /\ store' \in [Paths -> Contents \union {None, Broken}]
      /\ store'[f] = x /\ \A g \in Paths : g # f => store'[g] = store[g]
  BY <1>1, OpFields DEF Put
<1>4. TypeOK'
  BY <1>2, <1>3 DEF PushInv, TypeOK, Wanted
<1>5. Knowledge'
  <2> SUFFICES ASSUME NEW g \in Paths \ op.others, g \in Wanted(op.want)
               PROVE  g \in op.need \ {f} <=> store'[g] # op.want[g]
    BY <1>2 DEF Knowledge, Decided
  <2>1. CASE g = f
    BY <1>3, <2>1
  <2>2. CASE g # f
    <3>1. Decided(g)
      BY <1>2, <2>2 DEF Decided, PushInv, Disjoint
    <3> QED BY <1>3, <2>2, <3>1 DEF PushInv, Knowledge
  <2> QED BY <2>1, <2>2
<1> QED BY <1>2, <1>4, <1>5 DEF PushInv, Disjoint, InSession

-----------------------------------------------------------------------------
(* The commands *)

LEMMA PushStep ==
  ASSUME ConstantsOk, PushInv, Push
  PROVE  PushInv'
<1>1. Collected(files) \in [Paths -> Contents \union {None}]
  BY CollectedType DEF Push, PushInv, TypeOK
<1>2. Wanted(Collected(files)) \in SUBSET Paths
  BY DEF Wanted
<1>3. /\ op' \in Op /\ op'.step = "check" /\ op'.want = Collected(files) /\ op'.need = {}
      /\ op'.todo = Wanted(Collected(files)) /\ op'.others = {}
  BY <1>1, <1>2 DEF Push, Become, Idle, Op, Steps
<1>4. TypeOK'
  BY <1>3 DEF Push, PushInv, TypeOK
<1>5. Knowledge' /\ Disjoint' /\ InSession'
  BY <1>3 DEF Push, Knowledge, Disjoint, Decided, InSession
<1> QED BY <1>4, <1>5 DEF PushInv

LEMMA CheckStep ==
  ASSUME ConstantsOk, PushInv, Check
  PROVE  PushInv'
<1> DEFINE f == First(op.todo)
<1>1. f \in op.todo /\ f \in Paths
  BY FirstMember, OpFields DEF Check
<1>2. CASE store[f] = Broken
  BY <1>2, Stops, OpFields DEF Check, PushInv, TypeOK
<1>3. CASE store[f] # Broken
  <2>1. /\ op' \in Op /\ op'.step = "check" /\ op'.todo = op.todo \ {f}
        /\ op'.want = op.want /\ op'.others = op.others
        /\ op'.need = IF NeedsPush(f) THEN op.need \union {f} ELSE op.need
    <3> DEFINE need == IF NeedsPush(f) THEN op.need \union {f} ELSE op.need
    <3>1. need \in SUBSET Paths /\ op.todo \ {f} \in SUBSET Paths
      BY <1>1, OpFields
    <3>2. op' = [op EXCEPT !.todo = op.todo \ {f}, !.need = need]
      BY <1>3 DEF Check, Become
    <3> HIDE DEF need, f
    <3>3. /\ op' \in Op /\ op'.step = op.step /\ op'.todo = op.todo \ {f}
          /\ op'.want = op.want /\ op'.others = op.others /\ op'.need = need
      BY <3>1, <3>2, OpFields DEF Op
    <3> QED BY <3>3 DEF Check, need
  <2>2. TypeOK'
    BY <1>1, <2>1, OpFields DEF Check, PushInv, TypeOK, Wanted
  <2>3. Knowledge'
    <3> SUFFICES ASSUME NEW g \in Paths \ op.others, g \in Wanted(op.want) \ (op.todo \ {f})
                 PROVE  g \in op'.need <=> store[g] # op.want[g]
      BY <2>1 DEF Knowledge, Decided, Check
    <3>1. CASE g = f
      BY <1>1, <2>1, <3>1 DEF NeedsPush, PushInv, Disjoint
    <3>2. CASE g # f
      <4>1. Decided(g)
        BY <3>2 DEF Decided, Check
      <4> QED BY <2>1, <3>2, <4>1 DEF PushInv, Knowledge
    <3> QED BY <3>1, <3>2
  <2>4. Disjoint' /\ InSession'
    BY <2>1 DEF Check, PushInv, Disjoint, InSession
  <2> QED BY <2>2, <2>3, <2>4 DEF PushInv
<1> QED BY <1>2, <1>3

LEMMA CheckedStep ==
  ASSUME ConstantsOk, PushInv, Checked
  PROVE  PushInv'
<1>1. /\ op' \in Op /\ op'.step = "push" /\ op'.todo = {} /\ op'.need = op.need
      /\ op'.want = op.want /\ op'.others = op.others
  BY OpFields DEF PushInv, TypeOK, Checked, Become, Op, Steps
<1>2. TypeOK' /\ Disjoint' /\ InSession'
  BY <1>1 DEF PushInv, TypeOK, Disjoint, InSession, Checked, Wanted
<1>3. Knowledge'
  BY <1>1 DEF PushInv, Knowledge, Decided, Checked
<1> QED BY <1>2, <1>3 DEF PushInv

LEMMA WriteStep ==
  ASSUME ConstantsOk, PushInv, Write
  PROVE  PushInv'
<1> DEFINE f == First(op.need)
<1>1. f \in op.need /\ f \in Paths /\ f \in Wanted(op.want)
  BY FirstMember, OpFields DEF Write
<1>2. op.want[f] \in Contents /\ op.want[f] # Broken
  BY <1>1, OpFields DEF Wanted, ConstantsOk
<1>3. CASE Become(Done(f))
  BY <1>2, <1>3, Writes DEF Write
<1>4. CASE Stop
  <2>1. store' \in [Paths -> Contents \union {None, Broken}]
    BY <1>1, <1>2, OpFields DEF Write, Put
  <2>2. \A g \in Paths : store'[g] # Broken
    BY <1>1, <1>2, OpFields DEF Write, Put, PushInv, TypeOK
  <2> QED BY <1>4, <2>1, <2>2, Stops DEF Write
<1>5. CASE Become([op EXCEPT !.step = "resend"])
  <2>1. /\ op' \in Op /\ op'.step = "resend" /\ op'.todo = op.todo /\ op'.need = op.need
        /\ op'.want = op.want /\ op'.others = op.others
    BY <1>5, OpFields DEF Become, Op, Steps
  <2>2. /\ store' \in [Paths -> Contents \union {None, Broken}]
        /\ store'[f] = op.want[f] /\ \A g \in Paths : g # f => store'[g] = store[g]
    BY <1>1, <1>2, OpFields DEF Write, Put
  <2>3. TypeOK'
    BY <1>2, <2>1, <2>2 DEF Write, PushInv, TypeOK, Wanted
  <2>4. Knowledge'
    BY <2>1, <2>2 DEF Write, PushInv, Knowledge, Decided
  <2>5. Disjoint' /\ InSession'
    BY <2>1 DEF Write, PushInv, Disjoint, InSession
  <2> QED BY <2>3, <2>4, <2>5 DEF PushInv
<1> QED BY <1>3, <1>4, <1>5 DEF Write

LEMMA OpenStep ==
  ASSUME ConstantsOk, PushInv, Open
  PROVE  PushInv'
<1> DEFINE f == First(op.need)
<1>1. f \in op.need /\ f \in Paths
  BY FirstMember, OpFields DEF Open
<1>2. /\ op' \in Op /\ op'.step = "fill" /\ op'.todo = op.todo /\ op'.need = op.need
      /\ op'.want = op.want /\ op'.others = op.others
  BY OpFields DEF Open, Become, Op, Steps
<1>3. /\ store' \in [Paths -> Contents \union {None, Broken}]
      /\ store'[f] = Broken /\ \A g \in Paths : g # f => store'[g] = store[g]
  BY <1>1, OpFields DEF Open, Put
<1>4. TypeOK'
  BY <1>2, <1>3 DEF Open, PushInv, TypeOK, Wanted
<1>5. Knowledge'
  BY <1>2, <1>3 DEF Open, PushInv, Knowledge, Decided
<1>6. Disjoint' /\ InSession'
  BY <1>2 DEF Open, PushInv, Disjoint, InSession
<1> QED BY <1>4, <1>5, <1>6 DEF PushInv

LEMMA FillStep ==
  ASSUME ConstantsOk, PushInv, Fill
  PROVE  PushInv'
<1> DEFINE f == First(op.need)
<1>1. op.need # {} /\ op.step = "fill" /\ kind = "file"
  BY DEF Fill, PushInv, TypeOK
<1>2. f \in Paths /\ f \in Wanted(op.want)
  BY <1>1, FirstMember, OpFields
<1>3. op.want[f] \in Contents /\ store[f] \in Contents \union {None, Broken}
  BY <1>2, OpFields DEF Wanted
<1>4. f \notin op.others => store[f] = Broken
  BY <1>1 DEF PushInv, Knowledge
<1>5. PICK x \in Contents \union {None, Broken} :
         Put(f, x) /\ (f \notin op.others => x = op.want[f])
  BY <1>3, <1>4 DEF Fill
<1>6. Become(Done(f)) /\ UNCHANGED <<kind, files, settled>> /\ kind # "vault"
  BY <1>1 DEF Fill
<1> QED BY <1>1, <1>5, <1>6, Writes

-----------------------------------------------------------------------------
(* Everybody else *)

LEMMA FailStep ==
  ASSUME ConstantsOk, PushInv, Complete \/ Fail
  PROVE  PushInv'
  BY Stops DEF Complete, Fail, PushInv, TypeOK

LEMMA EditStep ==
  ASSUME ConstantsOk, PushInv, NEW n \in Files, Edit(n)
  PROVE  PushInv'
<1>1. TypeOK'
  BY DEF Edit, PushInv, TypeOK
<1> QED BY <1>1 DEF Edit, PushInv, Knowledge, Decided, Disjoint, InSession

LEMMA OthersStep ==
  ASSUME ConstantsOk, PushInv, NEW f \in Paths, OthersWrite(f)
  PROVE  PushInv'
<1>1. /\ op' \in Op /\ op'.step = op.step /\ op'.todo = op.todo
      /\ op'.need = op.need /\ op'.want = op.want
      /\ IF op.step = "idle" THEN op' = op ELSE op'.others = op.others \union {f}
  BY OpFields DEF OthersWrite, Become, Op
<1>2. PICK x \in Contents \union {None, Broken} :
         Put(f, x) /\ (kind = "vault" => x # Broken)
  BY DEF OthersWrite, ConstantsOk
<1>3. /\ store' \in [Paths -> Contents \union {None, Broken}]
      /\ kind = "vault" => \A g \in Paths : store'[g] # Broken
      /\ \A g \in Paths : g # f => store'[g] = store[g]
  BY <1>2, OpFields DEF Put, PushInv, TypeOK
<1>4. TypeOK' /\ Disjoint' /\ InSession'
  BY <1>1, <1>3 DEF OthersWrite, PushInv, TypeOK, Disjoint, InSession
<1>5. CASE op.step = "idle"
  <2>1. Wanted(op'.want) = {}
    BY <1>1, <1>5, IdleType DEF PushInv, InSession
  <2> QED BY <1>1, <1>4, <1>5, <2>1 DEF PushInv, Knowledge, Decided
<1>6. CASE op.step # "idle"
  <2>1. op'.step \in {"fill", "resend"} => First(op.need) \in Paths
    BY <1>1, FirstMember, OpFields DEF PushInv, TypeOK
  <2> QED BY <1>1, <1>3, <1>4, <1>6, <2>1 DEF PushInv, Knowledge, Decided
<1> QED BY <1>5, <1>6

LEMMA SettleStep ==
  ASSUME PushInv, Settle
  PROVE  PushInv'
  BY DEF Settle, PushInv, TypeOK, Knowledge, Decided, Disjoint, InSession

LEMMA StutterStep ==
  ASSUME PushInv, UNCHANGED vars
  PROVE  PushInv'
  BY DEF vars, PushInv, TypeOK, Knowledge, Decided, Disjoint, InSession

LEMMA PushInvInit ==
  ASSUME ConstantsOk, Init
  PROVE  PushInv
<1>1. /\ op \in Op /\ op.todo = {} /\ op.need = {} /\ op.step = "idle"
      /\ Wanted(op.want) = {}
  BY IdleType DEF Init
<1> QED BY <1>1 DEF Init, PushInv, TypeOK, Knowledge, Decided, Disjoint, InSession, ConstantsOk

LEMMA PushInvStep ==
  ASSUME ConstantsOk, PushInv, [Next]_vars
  PROVE  PushInv'
<1>1. CASE Command
  BY <1>1, PushStep, CheckStep, CheckedStep, WriteStep, OpenStep, FillStep, FailStep
     DEF Command
<1>2. CASE Fail \/ Settle
  BY <1>2, FailStep, SettleStep
<1>3. CASE \E n \in Files : Edit(n)
  BY <1>3, EditStep
<1>4. CASE \E f \in Paths : OthersWrite(f)
  BY <1>4, OthersStep
<1>5. CASE UNCHANGED vars
  BY <1>5, StutterStep
<1> QED BY <1>1, <1>2, <1>3, <1>4, <1>5 DEF Next

LEMMA PushInvHolds == Spec => []PushInv
<1>1. Init => PushInv
  BY PushInvInit, ConstantsOk
<1>2. PushInv /\ [Next]_vars => PushInv'
  BY PushInvStep, ConstantsOk
<1> QED BY <1>1, <1>2, PTL DEF Spec

-----------------------------------------------------------------------------
(* The results *)

\* Every variable of Backends keeps its shape.
THEOREM TypeCorrect == Spec => []TypeOK
<1>1. PushInv => TypeOK
  BY DEF PushInv
<1> QED BY <1>1, PushInvHolds, PTL

\* A push that completes has every secret in the backend that nobody else wrote
\* meanwhile, although it writes only some of them, long after it compared them.
THEOREM PushedIsInSync == Spec => []PushedInSync
<1>1. PushInv => PushedInSync
  BY DEF PushInv, Knowledge, Disjoint, Decided, PushedInSync, Wanted
<1> QED BY <1>1, PushInvHolds, PTL

\* A push writes nothing that is there already, unless somebody else has just
\* put it there.
THEOREM MatchingIsSkipped == Spec => []MatchingSkipped
<1>1. PushInv => MatchingSkipped
  <2> SUFFICES ASSUME PushInv, op.step \in {"check", "push"}, NEW f \in op.need \ op.others
               PROVE  store[f] # op.want[f]
    BY DEF MatchingSkipped
  <2>1. f \in Paths /\ Decided(f)
    BY OpFields DEF PushInv, Disjoint, Decided
  <2> QED BY <2>1 DEF PushInv, Knowledge
<1> QED BY <1>1, PushInvHolds, PTL

\* A push that begins takes a plaintext file for every secret that has one.
THEOREM PlaintextIsTaken == Spec => PlaintextWins
<1>1. ASSUME PushInv, [Next]_vars, op.step = "idle", op'.step = "check"
      PROVE  op'.want = Collected(files)
  <2>1. Stop => op'.step = "idle"
    BY DEF Stop, Become, Idle
  <2>2. ~(Fail \/ Complete \/ Check \/ Checked \/ Write \/ Open \/ Fill)
    BY <1>1 DEF Fail, Complete, Check, Checked, Write, Open, Fill
  <2>3. \A n \in Files : ~Edit(n)
    BY <1>1 DEF Edit
  <2>4. ~Settle /\ ~UNCHANGED vars
    BY <1>1 DEF Settle, vars
  <2>5. \A f \in Paths : ~OthersWrite(f)
    BY <1>1, OpFields DEF OthersWrite, Become, Op
  <2>6. Push
    BY <1>1, <2>2, <2>3, <2>4, <2>5 DEF Next, Command
  <2> QED BY <2>6 DEF Push, Become, Idle
<1>2. ASSUME PushInv, [Next]_vars, op.step = "idle", op'.step = "check",
             NEW n \in Files \ Enc, files[n] # None
      PROVE  \E m \in Files \ Enc :
                PathOf[m] = PathOf[n] /\ op'.want[PathOf[n]] = files[m]
  BY <1>1, <1>2, CollectedPlaintext, ConstantsOk
<1>3. PushInv /\ [Next]_vars =>
        [op.step = "idle" /\ op'.step = "check" =>
           \A n \in Files \ Enc : files[n] # None =>
             \E m \in Files \ Enc :
                PathOf[m] = PathOf[n] /\ op'.want[PathOf[n]] = files[m]]_vars
  BY <1>2
<1> QED BY <1>3, PushInvHolds, PTL DEF Spec, PlaintextWins

-----------------------------------------------------------------------------
(* The abstract store *)

LEMMA MapsPushing ==
  ASSUME PushInv
  PROVE  Store!Pushing <=> op.step # "idle"
<1>1. op.step = "idle" => op.want = [f \in Paths |-> None]
  BY IdleType DEF PushInv, InSession
<1>2. op.step # "idle" => op.want # [f \in Paths |-> None]
  BY DEF PushInv, InSession, Wanted
<1> QED BY <1>1, <1>2 DEF Store!Pushing, Store!Nothing

\* Where a step leaves a push that is complete, all is there.
LEMMA MapsDone ==
  ASSUME PushInv', op'.step = "push", op'.need = {}
  PROVE  Store!Synced'
  BY DEF PushInv, Knowledge, Disjoint, Decided, Wanted, Store!Synced, Store!Wanted

LEMMA MapsGoesOn ==
  ASSUME PushInv', op'.want = op.want, op'.others = op.others
  PROVE  Store!GoesOn
  BY MapsDone DEF Store!GoesOn

LEMMA MapsEnds ==
  ASSUME Stop
  PROVE  Store!Ends
  BY IdleType DEF Stop, Become, Store!Ends, Store!Nothing

\* What is about to be written is wanted, and not there, unless it is sent again.
LEMMA MapsWrite ==
  ASSUME ConstantsOk, PushInv, op.step \in {"push", "resend", "fill"}, op.need # {},
         op.step = "resend" => First(op.need) \in op.others,
         NEW x \in {op.want[First(op.need)], Broken}, Put(First(op.need), x),
         Store!GoesOn \/ Store!Ends
  PROVE  Store!Write(First(op.need))
<1> DEFINE f == First(op.need)
<1>1. f \in op.need /\ f \in Paths /\ f \in Wanted(op.want)
  BY FirstMember, OpFields
<1>2. store[f] # op.want[f] \/ f \in op.others
  <2>1. CASE op.step = "push"
    BY <1>1, <2>1 DEF PushInv, Knowledge, Disjoint, Decided
  <2>2. CASE op.step = "fill"
    <3>1. op.want[f] # Broken
      BY <1>1, OpFields DEF Wanted, ConstantsOk
    <3> QED BY <2>2, <3>1 DEF PushInv, Knowledge
  <2>3. CASE op.step = "resend"
    BY <2>3
  <2> QED BY <2>1, <2>2, <2>3
<1>3. f \in Store!Wanted /\ ~(op.step = "push" /\ op.need = {})
  BY <1>1 DEF Wanted, Store!Wanted
<1> QED BY <1>2, <1>3 DEF Store!Write, Put

LEMMA WriteMaps ==
  ASSUME ConstantsOk, PushInv, PushInv', Write \/ Open \/ Fill
  PROVE  Store!Next \/ UNCHANGED Store!vars
<1> DEFINE f == First(op.need)
<1>1. f \in Paths /\ op.need # {} /\ op.step \in {"push", "resend", "fill"}
  BY FirstMember, OpFields DEF Write, Open, Fill, PushInv, TypeOK
<1>2. ASSUME Become(Done(f)) \/ \E step \in {"fill", "resend"} : Become([op EXCEPT !.step = step])
      PROVE  op'.want = op.want /\ op'.others = op.others
  BY <1>2, OpFields DEF Become, Done, Op
<1>3. Store!GoesOn \/ Store!Ends
  BY <1>2, MapsGoesOn, MapsEnds DEF Write, Open, Fill
<1>4. CASE /\ Put(f, op.want[f]) \/ Put(f, Broken)
           /\ op.step = "resend" => f \in op.others
  BY <1>1, <1>3, <1>4, MapsWrite DEF Store!Next
<1>5. CASE Fill /\ Put(f, store[f])
  <2>1. store' = store /\ Become(Done(f))
    BY <1>1, <1>5, OpFields DEF Put, Fill
  <2>2. op.step = "fill" /\ Store!Pushing /\ Store!GoesOn
    BY <1>2, <1>5, <2>1, MapsPushing, MapsGoesOn DEF Fill
  <2> QED BY <2>1, <2>2 DEF Store!Next, Store!Finish, Store!vars, Store!GoesOn
<1>6. CASE Write /\ op.step = "resend" /\ f \notin op.others
  <2>1. store[f] = op.want[f] /\ Store!Pushing
    BY <1>6, MapsPushing DEF PushInv, Knowledge
  <2>2. store' = store
    BY <1>1, <1>6, <2>1, OpFields DEF Write, Put
  <2> QED BY <1>3, <1>6, <2>1, <2>2
          DEF Store!Next, Store!Finish, Store!End, Store!vars, Store!GoesOn
<1>7. CASE Write
  BY <1>4, <1>6, <1>7 DEF Write
<1>8. CASE Open
  BY <1>4, <1>8 DEF Open
<1>9. CASE Fill
  BY <1>4, <1>5, <1>9 DEF Fill
<1> QED BY <1>7, <1>8, <1>9

LEMMA CheckMaps ==
  ASSUME ConstantsOk, PushInv, PushInv', Push \/ Check \/ Checked \/ Complete \/ Fail
  PROVE  Store!Next \/ UNCHANGED Store!vars
<1>1. CASE Push
  <2>1. Collected(files) \in [Paths -> Contents \union {None}]
    BY <1>1, CollectedType DEF Push, PushInv, TypeOK
  <2>2. /\ op'.step = "check" /\ op'.want = Collected(files) /\ op'.others = {}
        /\ op.step = "idle" /\ store' = store
    BY <1>1 DEF Push, Become, Idle
  <2>3. Collected(files) # Store!Nothing
    BY <1>1 DEF Push, Wanted, Store!Nothing
  <2>4. ~Store!Pushing
    BY <2>2, MapsPushing
  <2> QED BY <2>1, <2>2, <2>3, <2>4 DEF Store!Next, Store!Begin
<1>2. CASE Stop /\ op.step # "idle" /\ store' = store
  BY <1>2, MapsPushing, MapsEnds DEF Store!Next, Store!End
<1>3. CASE (Check \/ Checked) /\ ~Stop
  <2>1. /\ op.step = "check" /\ op'.step \in {"check", "push"} /\ store' = store
        /\ op'.want = op.want /\ op'.others = op.others
    <3>1. CASE Check
      <4>1. \E todo, need : op' = [op EXCEPT !.todo = todo, !.need = need]
        BY <1>3, <3>1 DEF Check, Become
      <4> QED BY <3>1, <4>1, OpFields DEF Check, Op
    <3>2. CASE Checked
      BY <3>2, OpFields DEF Checked, Become, Op
    <3> QED BY <1>3, <3>1, <3>2
  <2>2. Store!Pushing /\ Store!GoesOn
    BY <2>1, MapsPushing, MapsGoesOn
  <2> QED BY <2>1, <2>2 DEF Store!Next, Store!Finish, Store!vars, Store!GoesOn
<1> QED BY <1>1, <1>2, <1>3 DEF Check, Checked, Complete, Fail

LEMMA OthersMaps ==
  ASSUME PushInv, PushInv', NEW f \in Paths, OthersWrite(f)
  PROVE  Store!Next
<1>1. /\ op'.want = op.want /\ op'.step = op.step /\ op'.need = op.need
      /\ op'.others = IF op.step = "idle" THEN {} ELSE op.others \union {f}
  BY OpFields, IdleType DEF OthersWrite, Become, Op, PushInv, InSession
<1>2. \A g \in Paths \ {f} : store'[g] = store[g]
  BY OpFields DEF OthersWrite, Put
<1>3. store' \in [Paths -> Contents \union {None} \union {Broken}]
  BY DEF PushInv, TypeOK
<1>4. Store!Otherwise({f})
  BY <1>1, <1>2, <1>3, MapsPushing DEF Store!Otherwise
<1> QED BY <1>4 DEF Store!Next

LEMMA StepMaps ==
  ASSUME ConstantsOk, PushInv, PushInv', [Next]_vars
  PROVE  [Store!Next]_Store!vars
<1>1. CASE Command \/ Fail
  BY <1>1, WriteMaps, CheckMaps DEF Command
<1>2. CASE Settle \/ (\E n \in Files : Edit(n)) \/ UNCHANGED vars
  BY <1>2 DEF Settle, Edit, vars, Store!vars
<1>3. CASE \E f \in Paths : OthersWrite(f)
  BY <1>3, OthersMaps
<1> QED BY <1>1, <1>2, <1>3 DEF Next

\* A directory of files and a Vault server are the store that push promises:
\* files are cut short only by the push or where it says so, nothing else is
\* written, nothing that is there already, and no push says that it is
\* complete before all is there.
THEOREM StoreImplemented == Spec => ImplementsStore
<1>1. Init => Store!Init
  <2> SUFFICES ASSUME Init PROVE Store!Init
    OBVIOUS
  <2>1. op.want = [f \in Paths |-> None] /\ op.others = {} /\ op.step = "idle"
    BY IdleType DEF Init
  <2> QED BY <2>1 DEF Init, Store!Init, Store!Nothing
<1>2. PushInv /\ PushInv' /\ [Next]_vars => [Store!Next]_Store!vars
  BY StepMaps, ConstantsOk
<1> QED BY <1>1, <1>2, PushInvHolds, PTL DEF Spec, ImplementsStore, Store!Spec

=============================================================================
