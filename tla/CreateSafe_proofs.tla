-------------------------- MODULE CreateSafe_proofs --------------------------
(***************************************************************************)
(* Proofs about CreateSafe for every number of safes, shells, keys and     *)
(* stopped commands.                                                       *)
(***************************************************************************)
EXTENDS CreateSafe, TLAPS

-----------------------------------------------------------------------------
(* Types *)

LEMMA EntriesType ==
  ASSUME NEW s \in Safes
  PROVE  /\ Entries(s) \subseteq Private /\ Master \notin Entries(s)
         /\ <<s, "key">> \in Entries(s) /\ <<s, "secret">> \in Entries(s)
         /\ s \in VaultSafes => <<s, "token">> \in Entries(s)
  BY ConstantsOk DEF ConstantsOk, Entries, Private, Master

LEMMA IdleType ==
  /\ Idle \in Op /\ Idle.cmd = "none" /\ Idle.step = "idle" /\ Idle.place = Root
  /\ Idle.made = 0 /\ Idle.lines = {} /\ Master \in Private
  BY ConstantsOk DEF Idle, Op, Steps, Private, ConstantsOk

LEMMA BeginType ==
  ASSUME TypeOK, NEW p \in Procs, NEW o \in Op, Begin(p, o)
  PROVE  op' \in [Procs -> Op]
<1>1. ASSUME NEW q \in Procs, NEW r \in Op, NEW m \in BOOLEAN
      PROVE  [r EXCEPT !.met = m] \in Op
  BY DEF Op
<1> DEFINE met(q) == op[q].met \/ (o.cmd = "add" /\ Adds(op[q], o.place))
           any == o.cmd = "add" /\ \E r \in Procs : Adds(op[r], o.place)
<1>2. op' = [q \in Procs |-> IF q = p THEN [o EXCEPT !.met = any]
                                      ELSE [op[q] EXCEPT !.met = met(q)]]
  BY DEF Begin
<1>3. any \in BOOLEAN /\ \A q \in Procs : met(q) \in BOOLEAN /\ op[q] \in Op
  BY DEF TypeOK, Op
<1> HIDE DEF met, any
<1> QED BY <1>1, <1>2, <1>3

\* What the ends of a step do to the record of its shell.
LEMMA OpAfter ==
  ASSUME TypeOK, NEW p \in Procs
  PROVE  /\ \A step \in Steps : Continue(p, step) =>
               /\ op' \in [Procs -> Op] /\ op'[p] = [op[p] EXCEPT !.step = step]
               /\ \A q \in Procs : q # p => op'[q] = op[q]
         /\ Finish(p) => /\ op' \in [Procs -> Op] /\ op'[p] = Idle
                         /\ \A q \in Procs : q # p => op'[q] = op[q]
<1>1. op[p] \in Op /\ Idle \in Op
  BY ConstantsOk DEF TypeOK, Idle, Op, Steps, Private, ConstantsOk
<1>2. ASSUME NEW step \in Steps, Continue(p, step)
      PROVE  /\ op' \in [Procs -> Op] /\ op'[p] = [op[p] EXCEPT !.step = step]
             /\ \A q \in Procs : q # p => op'[q] = op[q]
  <2>1. op' = [op EXCEPT ![p] = [op[p] EXCEPT !.step = step]]
    BY <1>2 DEF Continue, TypeOK
  <2>2. [op[p] EXCEPT !.step = step] \in Op
    BY <1>1 DEF Op
  <2> QED BY <2>1, <2>2 DEF TypeOK
<1>3. ASSUME Finish(p)
      PROVE  /\ op' \in [Procs -> Op] /\ op'[p] = Idle
             /\ \A q \in Procs : q # p => op'[q] = op[q]
  BY <1>1, <1>3 DEF Finish, TypeOK
<1> QED BY <1>2, <1>3

LEMMA InitType == ASSUME Init PROVE TypeOK
<1>1. Idle \in Op
  BY ConstantsOk DEF Idle, Op, Steps, Private, ConstantsOk
<1>2. {Master} \subseteq Private /\ {Access} \subseteq Paths
  BY DEF Private, Paths
<1>3. files \subseteq Paths /\ ignored \subseteq Private /\ indented \subseteq Private
  BY <1>2 DEF Init
<1>4. /\ keyOf \in [Safes -> 0..MaxKeys] /\ op \in [Procs -> Op]
      /\ keys \in 0..MaxKeys /\ stops \in 0..MaxStops
  BY <1>1, ConstantsOk DEF Init, ConstantsOk
<1>5. /\ committed = {} /\ tail \in {"ended", "text", "blank"} /\ trouble \in BOOLEAN
      /\ bare \in BOOLEAN /\ whole = {} /\ issued = {}
  BY ConstantsOk DEF Init, ConstantsOk
<1> QED BY <1>3, <1>4, <1>5 DEF TypeOK

Command(p) == (\E s \in Safes : Add(p, s)) \/ Grant(p) \/ Revoke(p) \/ Unlock(p)

\* The records commands begin with.
AddOp(s) == [Idle EXCEPT !.cmd = "add", !.step = "dirs", !.place = s,
                         !.created = Directory(s) = {},
                         !.wrap = Access \in files, !.lines = Entries(s)]
GrantOp == [Idle EXCEPT !.cmd = "grant", !.lines = {Master},
                        !.step = IF Access \in files THEN "access" ELSE "store"]
RevokeOp == [Idle EXCEPT !.cmd = "revoke", !.step = "access"]
UnlockOp == [Idle EXCEPT !.cmd = "unlock", !.step = "store", !.lines = {Master}]

LEMMA AddOpType ==
  ASSUME NEW s \in Safes
  PROVE  /\ AddOp(s) \in Op
         /\ AddOp(s).cmd = "add" /\ AddOp(s).step = "dirs" /\ AddOp(s).place = s
         /\ AddOp(s).made = 0 /\ AddOp(s).lines = Entries(s)
         /\ AddOp(s).created = (Directory(s) = {})
<1> DEFINE created == Directory(s) = {}
           wrap == Access \in files
           o == [Idle EXCEPT !.cmd = "add", !.step = "dirs", !.place = s,
                             !.created = created, !.wrap = wrap, !.lines = Entries(s)]
<1>1. AddOp(s) = o
  BY DEF AddOp
<1>2. created \in BOOLEAN /\ wrap \in BOOLEAN
  OBVIOUS
<1> HIDE DEF created, wrap
<1>3. o \in Op
  BY <1>2, IdleType, EntriesType DEF Op, Steps
<1>4. o.cmd = "add" /\ o.step = "dirs" /\ o.place = s /\ o.made = 0 /\ o.lines = Entries(s)
  BY IdleType DEF Op
<1>5. o.created = created
  BY IdleType DEF Op
<1> HIDE DEF o
<1> USE DEF created
<1> QED BY <1>1, <1>3, <1>4, <1>5

LEMMA GrantOpType ==
  /\ GrantOp \in Op /\ GrantOp.cmd = "grant" /\ GrantOp.lines = {Master}
  /\ GrantOp.step \in {"access", "store"}
<1>1. GrantOp \in Op
  BY IdleType DEF GrantOp, Op, Steps
<1> QED BY <1>1, IdleType DEF GrantOp, Op

LEMMA RevokeOpType ==
  /\ RevokeOp \in Op /\ RevokeOp.cmd = "revoke" /\ RevokeOp.lines = {}
  /\ RevokeOp.step = "access"
<1>1. RevokeOp \in Op
  BY IdleType DEF RevokeOp, Op, Steps
<1> QED BY <1>1, IdleType DEF RevokeOp, Op

LEMMA UnlockOpType ==
  /\ UnlockOp \in Op /\ UnlockOp.cmd = "unlock" /\ UnlockOp.lines = {Master}
  /\ UnlockOp.step = "store"
<1>1. UnlockOp \in Op
  BY IdleType DEF UnlockOp, Op, Steps
<1> QED BY <1>1, IdleType DEF UnlockOp, Op

LEMMA CommandType ==
  ASSUME TypeOK, NEW p \in Procs, Command(p)
  PROVE  TypeOK'
<1>1. op' \in [Procs -> Op]
  <2>1. CASE \E s \in Safes : Add(p, s)
    BY <2>1, AddOpType, BeginType DEF Add, AddOp
  <2>2. CASE Grant(p)
    BY <2>2, GrantOpType, BeginType DEF Grant, GrantOp
  <2>3. CASE Revoke(p)
    BY <2>3, RevokeOpType, BeginType DEF Revoke, RevokeOp
  <2>4. CASE Unlock(p)
    BY <2>4, UnlockOpType, BeginType DEF Unlock, UnlockOp
  <2> QED BY <2>1, <2>2, <2>3, <2>4 DEF Command
<1>2. UNCHANGED <<files, keyVars, ignoreVars, committed, issued, stops, trouble, bare>>
  BY DEF Command, Add, Grant, Revoke, Unlock
<1> QED BY <1>1, <1>2 DEF TypeOK, keyVars, ignoreVars

\* What the end of a successful command leaves in the history.
LEMMA CompleteType ==
  ASSUME TypeOK, NEW p \in Procs, Complete(p), op[p].cmd = "add" => op[p].place \in Safes
  PROVE  issued' \subseteq Safes \X (0..MaxKeys) /\ trouble' \in BOOLEAN /\ op' \in [Procs -> Op]
<1>1. op[p].made \in 0..MaxKeys
  BY DEF TypeOK, Op
<1>2. issued' \subseteq Safes \X (0..MaxKeys)
  BY <1>1 DEF Complete, TypeOK
<1>3. trouble' \in BOOLEAN /\ op' \in [Procs -> Op]
  BY OpAfter DEF Complete
<1> QED BY <1>2, <1>3

LEMMA StepType ==
  ASSUME TypeOK, NEW p \in Procs, Step(p), op[p].cmd = "add" => op[p].place \in Safes,
         op[p].step \in {"dirs", "config", "token", "key", "fill", "wrapped"} => op[p].place \in Safes
  PROVE  TypeOK'
<1> {"config", "token", "key", "fill", "wrapped", "store", "access", "ignore", "append"} \subseteq Steps
  BY DEF Steps
<1>0. op[p] \in Op /\ op[p].lines \subseteq Private
  BY DEF TypeOK, Op
<1>1. CASE MakeDirs(p) \/ SaveConfig(p) \/ WriteToken(p) \/ WriteWrapped(p)
  <2>1. op' \in [Procs -> Op]
    BY <1>1, OpAfter DEF MakeDirs, SaveConfig, WriteToken, WriteWrapped
  <2>2. files' \subseteq Paths
    BY <1>1 DEF MakeDirs, SaveConfig, WriteToken, WriteWrapped, Create, Paths, Kinds, TypeOK
  <2> QED BY <1>1, <2>1, <2>2
          DEF MakeDirs, SaveConfig, WriteToken, WriteWrapped, TypeOK, keyVars, ignoreVars
<1>2. CASE StoreMaster(p) \/ SaveAccess(p)
  <2>1. op' \in [Procs -> Op] /\ trouble' \in BOOLEAN /\ issued' \subseteq Safes \X (0..MaxKeys)
    <3>1. CASE Complete(p)
      BY <3>1, CompleteType
    <3>2. CASE ~Complete(p)
      BY <1>2, <3>2, OpAfter DEF StoreMaster, SaveAccess, TypeOK
    <3> QED BY <3>1, <3>2
  <2>2. files' \subseteq Paths
    BY <1>2 DEF StoreMaster, SaveAccess, Create, Paths, TypeOK
  <2>3. bare' \in BOOLEAN
    BY <1>2 DEF StoreMaster, SaveAccess, TypeOK
  <2> QED BY <1>2, <2>1, <2>2, <2>3 DEF StoreMaster, SaveAccess, TypeOK, keyVars, ignoreVars
<1>3. CASE OpenKey(p)
  <2>1. keys + 1 \in 0..MaxKeys
    BY <1>3, ConstantsOk DEF OpenKey, TypeOK, ConstantsOk
  <2> DEFINE o == [op[p] EXCEPT !.step = "fill", !.made = keys + 1]
  <2>2. op' = [op EXCEPT ![p] = o]
    BY <1>3 DEF OpenKey, TypeOK
  <2>3. o \in Op
    BY <1>0, <2>1 DEF Op
  <2> HIDE DEF o
  <2>4. op' \in [Procs -> Op]
    BY <2>2, <2>3 DEF TypeOK
  <2>5. files' \subseteq Paths /\ keyOf' \in [Safes -> 0..MaxKeys]
    BY <1>3, <2>1 DEF OpenKey, Create, Paths, Kinds, TypeOK
  <2> QED BY <1>3, <2>1, <2>4, <2>5 DEF OpenKey, TypeOK, keyVars, ignoreVars
<1>4. CASE WriteKey(p)
  <2>1. op' \in [Procs -> Op]
    BY <1>4, OpAfter DEF WriteKey
  <2>2. whole' \subseteq Safes
    BY <1>4 DEF WriteKey, TypeOK
  <2> QED BY <1>4, <2>1, <2>2 DEF WriteKey, TypeOK, keyVars, ignoreVars
<1>5. CASE ReadIgnore(p) \/ EndLine(p) \/ \E e \in Private : AppendLine(p, e)
  <2>1. /\ UNCHANGED <<files, keyVars, committed, stops, bare>>
        /\ tail' \in {"ended", "text", "blank"}
        /\ ignored' \subseteq Private /\ indented' \subseteq Private
    BY <1>5 DEF ReadIgnore, EndLine, AppendLine, ignoreVars, TypeOK
  <2>2. /\ trouble' \in BOOLEAN /\ issued' \subseteq Safes \X (0..MaxKeys)
        /\ op' \in [Procs -> Op]
    <3>1. CASE Complete(p)
      BY <3>1, CompleteType
    <3>2. CASE ~Complete(p)
      <4> DEFINE newline == tail = "text"
      <4>0. newline \in BOOLEAN
        OBVIOUS
      <4> HIDE DEF newline
      <4>1. ASSUME NEW o \in Op, op' = [op EXCEPT ![p] = o]
            PROVE  op' \in [Procs -> Op]
        BY <4>1 DEF TypeOK
      <4>2. PICK lines \in SUBSET Private :
              \/ op' = [op EXCEPT ![p] = [op[p] EXCEPT !.step = "append", !.lines = lines,
                                                       !.newline = newline]]
              \/ op' = [op EXCEPT ![p] = [op[p] EXCEPT !.newline = FALSE]]
              \/ op' = [op EXCEPT ![p] = [op[p] EXCEPT !.lines = lines]]
        BY <1>0, <1>5, <3>2 DEF ReadIgnore, EndLine, AppendLine, TypeOK, newline
      <4>3. /\ [op[p] EXCEPT !.step = "append", !.lines = lines, !.newline = newline] \in Op
            /\ [op[p] EXCEPT !.newline = FALSE] \in Op
            /\ [op[p] EXCEPT !.lines = lines] \in Op
        BY <1>0, <4>0 DEF Op
      <4>4. op' \in [Procs -> Op]
        BY <4>1, <4>2, <4>3
      <4>5. UNCHANGED <<issued, trouble>>
        BY <1>5, <3>2 DEF ReadIgnore, EndLine, AppendLine
      <4> QED BY <4>4, <4>5 DEF TypeOK
    <3> QED BY <3>1, <3>2
  <2> QED BY <2>1, <2>2 DEF TypeOK, keyVars
<1> QED BY <1>1, <1>2, <1>3, <1>4, <1>5 DEF Step

LEMMA StopType ==
  ASSUME TypeOK, NEW p \in Procs, Refuse(p) \/ Fail(p) \/ Kill(p)
  PROVE  TypeOK'
<1>1. /\ op' \in [Procs -> Op] /\ trouble' = TRUE
      /\ UNCHANGED <<ignored, indented, committed, keys, issued, bare>>
  BY OpAfter DEF Refuse, Fail, Kill, ignoreVars, keyVars
<1>2. stops' \in 0..MaxStops /\ tail' \in {"ended", "text", "blank"}
  <2>1. stops' \in 0..MaxStops
    BY ConstantsOk DEF Refuse, Fail, Kill, TypeOK, ConstantsOk
  <2>2. tail' = tail \/ tail' = "text"
    BY DEF Refuse, Fail, Kill, ignoreVars
  <2> QED BY <2>1, <2>2 DEF TypeOK
<1>3. files' \subseteq Paths /\ keyOf' \in [Safes -> 0..MaxKeys] /\ whole' \subseteq Safes
  BY ConstantsOk DEF Refuse, Fail, Kill, CleanUp, TypeOK, ConstantsOk, keyVars
<1> QED BY <1>1, <1>2, <1>3 DEF TypeOK

LEMMA UserType ==
  ASSUME TypeOK,
         \/ Commit \/ \E p \in Procs : NothingToDo(p)
         \/ \E s \in Safes : MakeDirectory(s) \/ RemoveConfig(s) \/ WriteSecret(s)
  PROVE  TypeOK'
<1>1. CASE Commit \/ \E p \in Procs : NothingToDo(p)
  BY <1>1 DEF Commit, NothingToDo, TypeOK, keyVars, ignoreVars
<1>2. ASSUME NEW s \in Safes, MakeDirectory(s) \/ RemoveConfig(s) \/ WriteSecret(s)
      PROVE  TypeOK'
  BY <1>2 DEF MakeDirectory, RemoveConfig, WriteSecret, Create, Paths, Kinds, TypeOK,
              keyVars, ignoreVars
<1> QED BY <1>1, <1>2

-----------------------------------------------------------------------------
(* What a command is about, at each of its steps *)

Placed(p) ==
    /\ op[p].step = "idle" => op[p] = Idle
    /\ op[p].cmd = "add" =>
          /\ op[p].place \in Safes
          /\ op[p].step \in {"fill", "wrapped", "ignore", "append"} => op[p].made # 0
    /\ op[p].step \in {"dirs", "config", "token", "key", "fill", "wrapped"} =>
          op[p].cmd = "add" /\ op[p].lines = Entries(op[p].place)
    /\ op[p].step = "token" => op[p].place \in VaultSafes
    /\ op[p].step \in {"store", "access"} =>
          op[p].cmd # "add" /\ (op[p].cmd = "revoke" \/ op[p].lines = {Master})
    /\ op[p].cmd = "revoke" => op[p].lines = {} /\ op[p].step \in {"access", "store"}

\* Keys and tokens are in directories that are there, and a key is in its file.
InDirectory(s) ==
    /\ <<s, "key">> \in files \/ <<s, "token">> \in files => <<s, "dirs">> \in files
    /\ keyOf[s] # 0 \/ s \in whole => <<s, "key">> \in files

BaseInv == /\ TypeOK
           /\ \A p \in Procs : Placed(p)
           /\ \A s \in Safes : InDirectory(s)

\* A command that begins changes nothing but who is doing what.
LEMMA CommandBegins ==
  ASSUME BaseInv, NEW p \in Procs, Command(p)
  PROVE  /\ UNCHANGED <<files, keyOf, whole, ignored, indented, tail, committed, issued, stops, bare>>
         /\ op[p] = Idle /\ Placed(p)' /\ op'[p].step \notin {"idle", "append"}
         /\ \A q \in Procs : q # p =>
               op'[q] = [op[q] EXCEPT !.met = @ \/ (op'[p].cmd = "add" /\ Adds(op[q], op'[p].place))]
         /\ op'[p].cmd = "add" =>
               /\ op'[p].made = 0
               /\ op'[p].met = \E q \in Procs : Adds(op[q], op'[p].place)
               /\ op'[p].created = (Directory(op'[p].place) = {})
<1>1. UNCHANGED <<files, keyOf, whole, ignored, indented, tail, committed, issued, stops, bare>>
  BY DEF Command, Add, Grant, Revoke, Unlock, keyVars, ignoreVars
<1>2. ASSUME NEW o \in Op, Begin(p, o)
      PROVE  /\ op[p] = Idle
             /\ op'[p].cmd = o.cmd /\ op'[p].step = o.step /\ op'[p].place = o.place
             /\ op'[p].made = o.made /\ op'[p].lines = o.lines /\ op'[p].created = o.created
             /\ op'[p].met = (o.cmd = "add" /\ \E q \in Procs : Adds(op[q], o.place))
             /\ \A q \in Procs : q # p =>
                   op'[q] = [op[q] EXCEPT !.met = @ \/ (o.cmd = "add" /\ Adds(op[q], o.place))]
  <2> DEFINE met == o.cmd = "add" /\ \E q \in Procs : Adds(op[q], o.place)
  <2>1. op'[p] = [o EXCEPT !.met = met]
    BY <1>2 DEF Begin
  <2>2. op[p] = Idle
    BY <1>2 DEF Begin, BaseInv, Placed, Busy
  <2>3. \A q \in Procs : q # p =>
           op'[q] = [op[q] EXCEPT !.met = @ \/ (o.cmd = "add" /\ Adds(op[q], o.place))]
    BY <1>2 DEF Begin
  <2>4. op'[p].met = met
    BY <2>1 DEF Op
  <2> HIDE DEF met
  <2>5. /\ op'[p].cmd = o.cmd /\ op'[p].step = o.step /\ op'[p].place = o.place
        /\ op'[p].made = o.made /\ op'[p].lines = o.lines /\ op'[p].created = o.created
    BY <2>1 DEF Op
  <2> USE DEF met
  <2> QED BY <2>2, <2>3, <2>4, <2>5
<1>3. CASE \E s \in Safes : Add(p, s)
  <2>1. PICK s \in Safes : Begin(p, AddOp(s))
    BY <1>3 DEF Add, AddOp
  <2>2. /\ op'[p].cmd = "add" /\ op'[p].step = "dirs" /\ op'[p].place = s
        /\ op'[p].lines = Entries(s) /\ op'[p].made = 0 /\ op[p] = Idle
    BY <1>2, <2>1, AddOpType
  <2>3. op'[p].met = \E q \in Procs : Adds(op[q], s)
    <3>1. AddOp(s) \in Op /\ AddOp(s).cmd = "add" /\ AddOp(s).place = s
      BY AddOpType
    <3>2. op'[p].met = (AddOp(s).cmd = "add" /\ \E q \in Procs : Adds(op[q], AddOp(s).place))
      BY <1>2, <2>1, <3>1
    <3> QED BY <3>1, <3>2
  <2>4. op'[p].created = (Directory(s) = {})
    BY <1>2, <2>1, AddOpType
  <2>5. \A q \in Procs : q # p => op'[q] = [op[q] EXCEPT !.met = @ \/ Adds(op[q], s)]
    <3>1. AddOp(s) \in Op /\ AddOp(s).cmd = "add" /\ AddOp(s).place = s
      BY AddOpType
    <3>2. \A q \in Procs : q # p =>
             op'[q] = [op[q] EXCEPT !.met = @ \/ (AddOp(s).cmd = "add" /\ Adds(op[q], AddOp(s).place))]
      BY <1>2, <2>1, <3>1
    <3> QED BY <3>1, <3>2
  <2>6. Placed(p)'
    BY <2>2 DEF Placed
  <2> QED BY <1>1, <2>2, <2>3, <2>4, <2>5, <2>6
<1>4. CASE Grant(p)
  <2>1. Begin(p, GrantOp)
    BY <1>4 DEF Grant, GrantOp
  <2> QED BY <1>1, <1>2, <2>1, GrantOpType DEF Placed
<1>5. CASE Revoke(p)
  <2>1. Begin(p, RevokeOp)
    BY <1>5 DEF Revoke, RevokeOp
  <2> QED BY <1>1, <1>2, <2>1, RevokeOpType DEF Placed
<1>6. CASE Unlock(p)
  <2>1. Begin(p, UnlockOp)
    BY <1>6 DEF Unlock, UnlockOp
  <2> QED BY <1>1, <1>2, <2>1, UnlockOpType DEF Placed
<1> QED BY <1>3, <1>4, <1>5, <1>6 DEF Command

\* The same command about the same place.
SameCommand(p) ==
    /\ op'[p].cmd = op[p].cmd /\ op'[p].place = op[p].place
    /\ op'[p].created = op[p].created /\ op'[p].met = op[p].met

\* Which step follows which, what each makes, and what it leaves in the
\* record of its shell.
Writes(p) ==
    LET s == op[p].place IN
    /\ SameCommand(p) /\ op'[p].lines = op[p].lines
    /\ UNCHANGED <<ignored, indented, tail, issued>>
    /\ \/ /\ op[p].step = "dirs" /\ op'[p].step = "config"
          /\ files' = files \union {<<s, "dirs">>} /\ UNCHANGED <<keyOf, whole>>
       \/ /\ op[p].step = "config" /\ Usable(p)
          /\ op'[p].step = IF s \in VaultSafes THEN "token" ELSE "key"
          /\ files' = files \union {<<s, "config">>} /\ UNCHANGED <<keyOf, whole>>
       \/ /\ op[p].step = "token" /\ Usable(p) /\ op'[p].step = "key"
          /\ files' = files \union {<<s, "token">>} /\ UNCHANGED <<keyOf, whole>>
       \/ /\ op[p].step = "key" /\ Usable(p) /\ op'[p].step = "fill"
          /\ files' = files \union {<<s, "key">>} /\ <<s, "key">> \notin files
          /\ keyOf' = [keyOf EXCEPT ![s] = op'[p].made] /\ op'[p].made # 0 /\ whole' = whole
       \/ /\ op[p].step = "fill" /\ op'[p].step \in {"wrapped", "ignore"}
          /\ UNCHANGED <<files, keyOf>>
          /\ whole' = IF keyOf[s] = op[p].made THEN whole \union {s} ELSE whole
       \/ /\ op[p].step = "wrapped" /\ op'[p].step = "ignore"
          /\ files' = files \union {<<s, "wrapped">>} /\ UNCHANGED <<keyOf, whole>>
       \/ /\ op[p].step = "store" /\ op'[p].step \in {"access", "ignore"}
          /\ op[p].cmd # "revoke"
          /\ files' = files \union {Master} /\ UNCHANGED <<keyOf, whole>>
       \/ /\ op[p].step = "access"
          /\ op'[p].step = IF op[p].cmd = "revoke" THEN "store" ELSE "ignore"
          /\ files' = files \union {Access} /\ UNCHANGED <<keyOf, whole>>
    /\ op[p].step # "key" => op'[p].made = op[p].made

\* A revoke stores the new master key, and ends.
Rotates(p) ==
    /\ op[p].step = "store" /\ op[p].cmd = "revoke" /\ op'[p] = Idle
    /\ UNCHANGED <<keyOf, whole, ignored, indented, tail, issued>>
    /\ files' = files \union {Master} /\ (Master \in files \/ bare')

\* The end of a command that has seen to .gitignore.
Ends(p) ==
    /\ op'[p] = Idle
    /\ issued' = issued \union (IF op[p].cmd = "add" /\ ~op[p].met
                                THEN {<<op[p].place, op[p].made>>} ELSE {})

Ignores(p) ==
    /\ UNCHANGED <<files, keyOf, whole>>
    /\ \/ /\ op[p].step = "ignore" /\ UNCHANGED <<ignored, indented, tail>>
          /\ \/ Ends(p) /\ op[p].lines \subseteq ignored \union indented
             \/ /\ SameCommand(p) /\ op'[p].made = op[p].made /\ op'[p].step = "append"
                /\ op'[p].lines = op[p].lines \ (ignored \union indented)
                /\ op'[p].newline = (tail = "text") /\ issued' = issued
       \/ /\ op[p].step = "append" /\ SameCommand(p) /\ op'[p].made = op[p].made
          /\ op'[p].step = "append" /\ op'[p].lines = op[p].lines
          /\ tail' = "ended" /\ UNCHANGED <<ignored, indented, issued>>
       \/ \E e \in Private :
          /\ op[p].step = "append" /\ ~op[p].newline /\ tail' = "ended" /\ e \in op[p].lines
          /\ ignored' = IF tail = "ended" THEN ignored \union {e} ELSE ignored
          /\ indented' = IF tail = "blank" THEN indented \union {e} ELSE indented
          /\ \/ Ends(p) /\ op[p].lines = {e}
             \/ /\ SameCommand(p) /\ op'[p].made = op[p].made /\ op'[p].step = "append"
                /\ op'[p].lines = op[p].lines \ {e} /\ op'[p].newline = op[p].newline
                /\ issued' = issued

LEMMA StepEffect ==
  ASSUME BaseInv, NEW p \in Procs, Step(p)
  PROVE  /\ Writes(p) \/ Rotates(p) \/ Ignores(p)
         /\ UNCHANGED <<committed, stops>> /\ \A q \in Procs : q # p => op'[q] = op[q]
         /\ bare => bare'
<1> {"config", "token", "key", "fill", "wrapped", "store", "access", "ignore", "append"} \subseteq Steps
  BY DEF Steps
<1>0. TypeOK /\ op[p] \in Op
  BY DEF BaseInv, TypeOK
<1>c. ASSUME NEW step \in Steps, Continue(p, step)
      PROVE  /\ SameCommand(p) /\ op'[p].step = step /\ op'[p].lines = op[p].lines
             /\ op'[p].made = op[p].made
             /\ \A q \in Procs : q # p => op'[q] = op[q]
  <2>1. op'[p] = [op[p] EXCEPT !.step = step] /\ \A q \in Procs : q # p => op'[q] = op[q]
    BY <1>0, <1>c, OpAfter
  <2> QED BY <1>0, <2>1 DEF Op, SameCommand
<1>d. ASSUME Complete(p)
      PROVE  Ends(p) /\ \A q \in Procs : q # p => op'[q] = op[q]
  BY <1>0, <1>d, OpAfter DEF Complete, Ends
<1>1. CASE MakeDirs(p) \/ SaveConfig(p) \/ WriteToken(p) \/ WriteWrapped(p)
  BY <1>1, <1>c DEF MakeDirs, SaveConfig, WriteToken, WriteWrapped, Create, Writes,
                    keyVars, ignoreVars
<1>2. CASE StoreMaster(p)
  <2>1. CASE op[p].cmd = "revoke"
    <3>1. Ends(p) /\ \A q \in Procs : q # p => op'[q] = op[q]
      BY <1>2, <1>d, <2>1 DEF StoreMaster
    <3>2. issued' = issued /\ op'[p] = Idle
      BY <2>1, <3>1 DEF Ends
    <3>3. (Master \in files \/ bare') /\ (bare => bare')
      BY <1>2, <2>1 DEF StoreMaster
    <3> QED BY <1>2, <2>1, <3>1, <3>2, <3>3 DEF StoreMaster, Create, Rotates, keyVars, ignoreVars
  <2>2. CASE op[p].cmd # "revoke"
    <3>1. bare => bare'
      BY <1>2 DEF StoreMaster
    <3> QED BY <1>2, <1>c, <2>2, <3>1 DEF StoreMaster, Create, Writes, keyVars, ignoreVars
  <2> QED BY <2>1, <2>2
<1>3. CASE SaveAccess(p)
  BY <1>3, <1>c DEF SaveAccess, Create, Writes, keyVars, ignoreVars
<1>4. CASE OpenKey(p)
  <2> DEFINE o == [op[p] EXCEPT !.step = "fill", !.made = keys + 1]
  <2>1. op'[p] = o /\ \A q \in Procs : q # p => op'[q] = op[q]
    BY <1>0, <1>4 DEF OpenKey, TypeOK
  <2>2. /\ SameCommand(p) /\ op'[p].step = "fill"
        /\ op'[p].lines = op[p].lines /\ op'[p].made = keys + 1
    BY <1>0, <2>1 DEF Op, SameCommand
  <2>3. keys + 1 # 0
    BY <1>0 DEF TypeOK
  <2> HIDE DEF o
  <2> QED BY <1>4, <2>1, <2>2, <2>3 DEF OpenKey, KeyFree, Create, Writes, ignoreVars
<1>5. CASE WriteKey(p)
  BY <1>5, <1>c DEF WriteKey, Writes, ignoreVars
<1>6. CASE ReadIgnore(p)
  <2> DEFINE missing == op[p].lines \ (ignored \union indented)
             newline == tail = "text"
             o == [op[p] EXCEPT !.step = "append", !.lines = missing, !.newline = newline]
  <2>1. CASE missing = {}
    BY <1>6, <1>d, <2>1 DEF ReadIgnore, Ignores, keyVars, ignoreVars
  <2>2. CASE missing # {}
    <3>1. op'[p] = o /\ \A q \in Procs : q # p => op'[q] = op[q]
      BY <1>0, <1>6, <2>2 DEF ReadIgnore, TypeOK
    <3> HIDE DEF newline
    <3>2. /\ SameCommand(p) /\ op'[p].made = op[p].made /\ op'[p].step = "append"
          /\ op'[p].lines = missing /\ op'[p].newline = newline
      BY <1>0, <3>1 DEF Op, SameCommand
    <3> USE DEF newline
    <3>3. UNCHANGED <<files, keyOf, whole, ignored, indented, tail, issued, committed, stops, bare>>
      BY <1>6, <2>2 DEF ReadIgnore, keyVars, ignoreVars
    <3>4. op[p].step = "ignore"
      BY <1>6 DEF ReadIgnore
    <3> HIDE DEF o
    <3> QED BY <3>1, <3>2, <3>3, <3>4 DEF Ignores
  <2> QED BY <2>1, <2>2
<1>7. CASE EndLine(p)
  <2>1. op'[p] = [op[p] EXCEPT !.newline = FALSE] /\ \A q \in Procs : q # p => op'[q] = op[q]
    BY <1>0, <1>7 DEF EndLine, TypeOK
  <2>2. SameCommand(p) /\ op'[p].made = op[p].made /\ op'[p].step = op[p].step
        /\ op'[p].lines = op[p].lines
    BY <1>0, <2>1 DEF Op, SameCommand
  <2> QED BY <1>7, <2>1, <2>2 DEF EndLine, Ignores, keyVars
<1>8. ASSUME NEW e \in Private, AppendLine(p, e)
      PROVE  /\ Ignores(p) /\ UNCHANGED <<committed, stops, bare>>
             /\ \A q \in Procs : q # p => op'[q] = op[q]
  <2>0. /\ UNCHANGED <<files, keyOf, whole, committed, stops, bare>>
        /\ op[p].step = "append" /\ ~op[p].newline /\ tail' = "ended" /\ e \in op[p].lines
        /\ ignored' = IF tail = "ended" THEN ignored \union {e} ELSE ignored
        /\ indented' = IF tail = "blank" THEN indented \union {e} ELSE indented
    BY <1>8 DEF AppendLine, keyVars
  <2>1. CASE op[p].lines = {e}
    BY <1>8, <1>d, <2>0, <2>1 DEF AppendLine, Ignores
  <2>2. CASE op[p].lines # {e}
    <3>1. /\ op'[p] = [op[p] EXCEPT !.lines = @ \ {e}] /\ \A q \in Procs : q # p => op'[q] = op[q]
          /\ issued' = issued
      BY <1>0, <1>8, <2>2 DEF AppendLine, TypeOK
    <3>2. /\ SameCommand(p) /\ op'[p].made = op[p].made /\ op'[p].step = op[p].step
          /\ op'[p].lines = op[p].lines \ {e} /\ op'[p].newline = op[p].newline
      BY <1>0, <3>1 DEF Op, SameCommand
    <3> QED BY <2>0, <3>1, <3>2 DEF Ignores
  <2> QED BY <2>1, <2>2
<1>9. Step(p) => \/ MakeDirs(p) \/ SaveConfig(p) \/ WriteToken(p) \/ WriteWrapped(p)
                 \/ StoreMaster(p) \/ SaveAccess(p) \/ OpenKey(p) \/ WriteKey(p)
                 \/ ReadIgnore(p) \/ EndLine(p) \/ \E e \in Private : AppendLine(p, e)
  BY DEF Step
<1>10. Step(p) => UNCHANGED <<committed, stops>> /\ (bare => bare')
  BY DEF Step, MakeDirs, SaveConfig, WriteToken, WriteWrapped, StoreMaster, SaveAccess,
         OpenKey, WriteKey, ReadIgnore, EndLine, AppendLine
<1> QED BY <1>1, <1>2, <1>3, <1>4, <1>5, <1>6, <1>7, <1>8, <1>9, <1>10

-----------------------------------------------------------------------------
(* The base invariant *)

\* What the other steps do to the files: cleaning up takes a whole directory
\* and the key in it; the user's own changes touch neither keys nor tokens.
LEMMA StopEffect ==
  ASSUME BaseInv, NEW p \in Procs, Refuse(p) \/ Fail(p) \/ Kill(p)
  PROVE  /\ op'[p] = Idle /\ \A q \in Procs : q # p => op'[q] = op[q]
         /\ op[p].step # "idle" /\ UNCHANGED <<ignored, indented, committed, issued, bare>>
         /\ stops' = stops \/ stops' = stops + 1
         /\ stops' = stops => Refuse(p) /\ tail' = tail
         /\ \/ UNCHANGED <<files, keyOf, whole>>
            \/ /\ op[p].cmd = "add" /\ op[p].created
               /\ files' = files \ Directory(op[p].place)
               /\ keyOf' = [keyOf EXCEPT ![op[p].place] = 0]
               /\ whole' = whole \ {op[p].place}
<1>1. op'[p] = Idle /\ \A q \in Procs : q # p => op'[q] = op[q]
  BY OpAfter DEF BaseInv, Refuse, Fail, Kill
<1>2. stops \in Nat
  BY ConstantsOk DEF BaseInv, TypeOK, ConstantsOk
<1>3. /\ op[p].step # "idle" /\ UNCHANGED <<ignored, indented, committed, issued, bare>>
      /\ stops' = stops \/ stops' = stops + 1
      /\ stops' = stops => Refuse(p) /\ tail' = tail
  BY <1>2 DEF Refuse, Fail, Kill, Busy, ignoreVars
<1>4. \/ UNCHANGED <<files, keyOf, whole>>
      \/ /\ op[p].cmd = "add" /\ op[p].created
         /\ files' = files \ Directory(op[p].place)
         /\ keyOf' = [keyOf EXCEPT ![op[p].place] = 0]
         /\ whole' = whole \ {op[p].place}
  BY DEF Refuse, Fail, Kill, CleanUp, keyVars
<1> QED BY <1>1, <1>3, <1>4

LEMMA UserEffect ==
  ASSUME BaseInv,
         \/ Commit \/ \E p \in Procs : NothingToDo(p)
         \/ \E s \in Safes : MakeDirectory(s) \/ RemoveConfig(s) \/ WriteSecret(s)
  PROVE  /\ UNCHANGED <<keyOf, whole, ignored, indented, tail, op, issued, stops, bare>>
         /\ \A s \in Safes : \A kind \in {"dirs", "token", "key", "wrapped"} :
               <<s, kind>> \in files' <=> <<s, kind>> \in files
         /\ Master \in files' <=> Master \in files
         /\ \A s \in Safes : <<s, "own">> \in files => <<s, "own">> \in files'
  BY ConstantsOk
     DEF Commit, NothingToDo, MakeDirectory, RemoveConfig, WriteSecret, Create, Master, ConstantsOk,
         keyVars, ignoreVars

LEMMA BaseInit == ASSUME Init PROVE BaseInv
<1>1. TypeOK
  BY InitType
<1>2. \A p \in Procs : Placed(p)
  BY IdleType DEF Init, Placed
<1>3. ASSUME NEW s \in Safes PROVE InDirectory(s)
  <2>1. <<s, "key">> # Access /\ <<s, "token">> # Access
    BY DEF Access
  <2>2. files \subseteq {Access} /\ keyOf[s] = 0 /\ whole = {}
    BY DEF Init
  <2> QED BY <2>1, <2>2 DEF InDirectory
<1> QED BY <1>1, <1>2, <1>3 DEF BaseInv

LEMMA BaseStep ==
  ASSUME BaseInv, NEW p \in Procs, Step(p)
  PROVE  BaseInv'
<1>0. /\ Writes(p) \/ Rotates(p) \/ Ignores(p)
      /\ \A q \in Procs : q # p => op'[q] = op[q]
  BY StepEffect
<1>1. TypeOK'
  BY StepType DEF BaseInv, Placed
<1>2. Placed(p)'
  <2>1. CASE Writes(p)
    BY <2>1 DEF Writes, SameCommand, BaseInv, Placed
  <2>2. CASE Rotates(p)
    BY <2>2, IdleType DEF Rotates, Placed
  <2>3. CASE Ignores(p)
    BY <2>3, IdleType DEF Ignores, Ends, SameCommand, BaseInv, Placed
  <2> QED BY <1>0, <2>1, <2>2, <2>3
<1>3. ASSUME NEW q \in Procs, q # p
      PROVE  Placed(q)'
  BY <1>0, <1>3 DEF BaseInv, Placed
<1>4. ASSUME NEW s \in Safes
      PROVE  InDirectory(s)'
  <2>0. /\ Root \notin Safes /\ keyOf \in [Safes -> 0..MaxKeys] /\ InDirectory(s)
        /\ op[p].step \in {"dirs", "config", "token", "key", "fill", "wrapped"} => op[p].place \in Safes
        /\ op[p].step = "fill" => op[p].made # 0
    BY ConstantsOk DEF BaseInv, TypeOK, Placed, ConstantsOk
  <2>1. CASE Writes(p) /\ op[p].step # "fill"
    <3>1. PICK f : /\ files' = files \union {f}
                   /\ f \in {<<s, "key">>, <<s, "token">>} => <<s, "dirs">> \in files
      <4>1. op[p].step \in {"token", "key"} /\ Usable(p) => <<op[p].place, "dirs">> \in files
        BY <2>0 DEF Usable
      <4>2. PICK kind, place :
               /\ files' = files \union {<<place, kind>>}
               /\ kind \in {"key", "token"} => place = op[p].place /\ <<place, "dirs">> \in files
        <5>1. PICK f : /\ files' = files \union {f}
                       /\ \/ f \in {<<op[p].place, "dirs">>, <<op[p].place, "config">>,
                                    <<op[p].place, "wrapped">>, Master, Access}
                          \/ /\ f \in {<<op[p].place, "token">>, <<op[p].place, "key">>}
                             /\ op[p].step \in {"token", "key"} /\ Usable(p)
          BY <2>1 DEF Writes
        <5>2. CASE \E k \in {"dirs", "config", "wrapped"} : f = <<op[p].place, k>>
          BY <5>1, <5>2
        <5>3. CASE \E k \in {"master", "access"} : f = <<Root, k>>
          BY <5>1, <5>3
        <5>4. CASE /\ \E k \in {"token", "key"} : f = <<op[p].place, k>>
                   /\ op[p].step \in {"token", "key"} /\ Usable(p)
          BY <4>1, <5>1, <5>4
        <5> QED BY <5>1, <5>2, <5>3, <5>4 DEF Master, Access
      <4>3. <<place, kind>> \in {<<s, "key">>, <<s, "token">>} => place = s /\ kind \in {"key", "token"}
        OBVIOUS
      <4> QED BY <4>2, <4>3
    <3>2. keyOf'[s] # 0 \/ s \in whole' => <<s, "key">> \in files'
      <4>0. whole' = whole
        BY <2>1 DEF Writes
      <4>1. CASE keyOf' = keyOf
        BY <2>0, <3>1, <4>0, <4>1 DEF InDirectory
      <4>2. CASE keyOf' # keyOf
        <5>1. /\ files' = files \union {<<op[p].place, "key">>}
              /\ keyOf' = [keyOf EXCEPT ![op[p].place] = op'[p].made]
          BY <2>1, <4>2 DEF Writes
        <5> QED BY <2>0, <4>0, <5>1 DEF InDirectory
      <4> QED BY <4>1, <4>2
    <3> QED BY <2>0, <3>1, <3>2 DEF InDirectory
  <2>2. CASE Writes(p) /\ op[p].step = "fill"
    <3>1. /\ UNCHANGED <<files, keyOf>>
          /\ whole' = IF keyOf[op[p].place] = op[p].made THEN whole \union {op[p].place} ELSE whole
      BY <2>2 DEF Writes
    <3> QED BY <2>0, <2>2, <3>1 DEF InDirectory
  <2>3. CASE Rotates(p)
    <3>1. Master # <<s, "key">> /\ Master # <<s, "token">>
      BY DEF Master
    <3> QED BY <2>0, <2>3, <3>1 DEF Rotates, InDirectory
  <2>4. CASE Ignores(p)
    BY <2>0, <2>4 DEF Ignores, InDirectory
  <2> QED BY <1>0, <2>1, <2>2, <2>3, <2>4
<1> QED BY <1>1, <1>2, <1>3, <1>4 DEF BaseInv

LEMMA BaseStop ==
  ASSUME BaseInv, NEW p \in Procs, Refuse(p) \/ Fail(p) \/ Kill(p)
  PROVE  BaseInv'
<1>1. TypeOK'
  BY StopType DEF BaseInv
<1>2. \A q \in Procs : Placed(q)'
  BY StopEffect, IdleType DEF BaseInv, Placed
<1>3. ASSUME NEW s \in Safes
      PROVE  InDirectory(s)'
  <2>1. CASE UNCHANGED <<files, keyOf, whole>>
    BY <2>1 DEF BaseInv, InDirectory
  <2>2. CASE ~UNCHANGED <<files, keyOf, whole>>
    <3>1. /\ op[p].place \in Safes /\ files' = files \ Directory(op[p].place)
          /\ keyOf' = [keyOf EXCEPT ![op[p].place] = 0] /\ whole' = whole \ {op[p].place}
      BY <2>2, StopEffect DEF BaseInv, Placed
    <3>2. keyOf \in [Safes -> 0..MaxKeys] /\ InDirectory(s)
      BY DEF BaseInv, TypeOK
    <3>3. CASE s = op[p].place
      BY <3>1, <3>2, <3>3 DEF Directory, InDirectory
    <3>4. CASE s # op[p].place
      <4>1. keyOf'[s] = keyOf[s] /\ (s \in whole' <=> s \in whole) /\ \A k \in Kinds : <<s, k>> \in files' <=> <<s, k>> \in files
        BY <3>1, <3>2, <3>4 DEF Directory
      <4> QED BY <3>2, <4>1 DEF InDirectory, Kinds
    <3> QED BY <3>3, <3>4
  <2> QED BY <2>1, <2>2
<1> QED BY <1>1, <1>2, <1>3 DEF BaseInv

LEMMA BaseNext == ASSUME BaseInv, [Next]_vars PROVE BaseInv'
<1>1. ASSUME NEW p \in Procs, Command(p)
      PROVE  BaseInv'
  <2>1. TypeOK'
    BY <1>1, CommandType DEF BaseInv
  <2>2. UNCHANGED <<files, keyOf, whole>> /\ Placed(p)'
    BY <1>1, CommandBegins
  <2>3. ASSUME NEW q \in Procs, q # p
        PROVE  Placed(q)'
    <3> DEFINE met == op[q].met \/ (op'[p].cmd = "add" /\ Adds(op[q], op'[p].place))
    <3>1. op'[q] = [op[q] EXCEPT !.met = met]
      BY <1>1, <2>3, CommandBegins
    <3>2. op[q] \in Op /\ Placed(q)
      BY DEF BaseInv, TypeOK
    <3>3. op[q].step = "idle" => op'[q] = Idle
      <4>1. SUFFICES ASSUME op[q] = Idle PROVE op'[q] = Idle
        BY <3>2 DEF Placed
      <4>2. met = FALSE
        BY <4>1 DEF Idle, Adds
      <4> HIDE DEF met
      <4>3. \A o \in Op : [o EXCEPT !.met = o.met] = o
        BY DEF Op
      <4>4. Idle.met = FALSE
        BY DEF Idle
      <4> QED BY <3>1, <3>2, <4>1, <4>2, <4>3, <4>4
    <3> HIDE DEF met
    <3>4. /\ op'[q].cmd = op[q].cmd /\ op'[q].place = op[q].place /\ op'[q].made = op[q].made
          /\ op'[q].step = op[q].step /\ op'[q].lines = op[q].lines
      BY <3>1, <3>2 DEF Op
    <3> QED BY <3>2, <3>3, <3>4 DEF Placed
  <2>4. \A s \in Safes : InDirectory(s)'
    BY <2>2 DEF BaseInv, InDirectory
  <2> QED BY <2>1, <2>2, <2>3, <2>4 DEF BaseInv
<1>2. CASE \/ Commit \/ \E p \in Procs : NothingToDo(p)
           \/ \E s \in Safes : MakeDirectory(s) \/ RemoveConfig(s) \/ WriteSecret(s)
  <2>1. TypeOK'
    BY <1>2, UserType DEF BaseInv
  <2>2. /\ UNCHANGED <<keyOf, whole, op>>
        /\ \A s \in Safes : \A kind \in {"dirs", "token", "key", "wrapped"} :
              <<s, kind>> \in files' <=> <<s, kind>> \in files
    BY <1>2, UserEffect
  <2> QED BY <2>1, <2>2 DEF BaseInv, Placed, InDirectory
<1>3. CASE UNCHANGED vars
  BY <1>3 DEF vars, keyVars, ignoreVars, BaseInv, TypeOK, Placed, InDirectory
<1> QED BY <1>1, <1>2, <1>3, BaseStep, BaseStop DEF Next, Command

\* Every variable keeps its shape.
THEOREM TypeCorrect == Spec => []TypeOK
<1>1. BaseInv => TypeOK
  BY DEF BaseInv
<1> QED BY <1>1, BaseInit, BaseNext, PTL DEF Spec

-----------------------------------------------------------------------------
(* What keeps private files out of git: as long as all is in order, a      *)
(* private file is in .gitignore or a command has yet to see to it.        *)

\* No command stopped early, no entry is behind blanks, no revoke stored a
\* master key where there was none.
InOrder == stops = 0 /\ indented = {} /\ ~bare

\* A command at one of these steps has f among the entries it is to make.
Owed(f, steps) ==
    f \in ignored \/ \E q \in Procs : op[q].step \in steps /\ f \in op[q].lines

KeySteps == {"fill", "wrapped", "ignore", "append"}
TokenSteps == {"key", "fill", "wrapped", "ignore", "append"}
MasterSteps == {"access", "ignore", "append"}

\* A line is appended behind a line that has been ended.
WholeLines(p) == op[p].step = "append" /\ ~op[p].newline => tail # "text"

Accounted(s) ==
    /\ <<s, "key">> \in files => \A e \in Entries(s) : Owed(e, KeySteps)
    /\ <<s, "token">> \in files => Owed(<<s, "token">>, TokenSteps)
    /\ <<s, "secret">> \in files => <<s, "secret">> \in ignored

AllAccounted ==
    /\ \A p \in Procs : WholeLines(p)
    /\ \A s \in Safes : Accounted(s)
    /\ Master \in files => Owed(Master, MasterSteps)
    /\ PrivateStaysOut

IgnoreInv == BaseInv /\ (InOrder => AllAccounted)

LEMMA IgnoreInit == ASSUME Init PROVE IgnoreInv
<1>1. files \subseteq {Access} /\ committed = {}
  BY DEF Init
<1>2. \A s \in Safes : \A k \in {"key", "token", "secret"} : <<s, k>> # Access
  BY DEF Access
<1>3. Master # Access /\ Access \notin Private
  BY DEF Access, Master, Private
<1>4. \A p \in Procs : WholeLines(p)
  BY IdleType DEF Init, WholeLines
<1> QED BY <1>1, <1>2, <1>3, <1>4, BaseInit DEF IgnoreInv, AllAccounted, Accounted, PrivateStaysOut

\* A step of a command that is to make an entry makes it or is still to.
LEMMA OwedStays ==
  ASSUME BaseInv, NEW p \in Procs, WholeLines(p), Step(p), indented' = {},
         NEW f \in Private, NEW steps \in {KeySteps, TokenSteps, MasterSteps},
         Owed(f, steps)
  PROVE  Owed(f, steps)'
<1>1. /\ Writes(p) \/ Rotates(p) \/ Ignores(p)
      /\ \A q \in Procs : q # p => op'[q] = op[q]
  BY StepEffect
<1>2. ignored \subseteq ignored' /\ indented = {}
  BY <1>1 DEF Writes, Rotates, Ignores
<1>3. CASE f \in ignored
  BY <1>2, <1>3 DEF Owed
<1>4. CASE \E q \in Procs : q # p /\ op[q].step \in steps /\ f \in op[q].lines
  BY <1>1, <1>4 DEF Owed
<1>5. CASE op[p].step \in steps /\ f \in op[p].lines
  <2>1. CASE Writes(p)
    <3>1. op[p].cmd # "revoke"
      BY <1>5 DEF BaseInv, Placed
    <3>2. op'[p].lines = op[p].lines /\ op'[p].step \in steps
      BY <1>5, <2>1, <3>1 DEF Writes, KeySteps, TokenSteps, MasterSteps
    <3> QED BY <1>5, <3>2 DEF Owed
  <2>2. CASE Rotates(p)
    BY <1>5, <2>2 DEF Rotates, KeySteps, TokenSteps, MasterSteps
  <2>3. CASE Ignores(p)
    <3>1. {"ignore", "append"} \subseteq steps
      BY DEF KeySteps, TokenSteps, MasterSteps
    <3>2. f \in ignored' \/ (op'[p].step = "append" /\ f \in op'[p].lines)
      <4>1. CASE op[p].step = "ignore"
        BY <1>2, <1>5, <2>3, <4>1 DEF Ignores, Ends
      <4>2. CASE op[p].step = "append" /\ op'[p].lines = op[p].lines /\ op'[p].step = "append"
        BY <1>5, <4>2
      <4>3. CASE \E e \in Private :
                   /\ ignored' = IF tail = "ended" THEN ignored \union {e} ELSE ignored
                   /\ indented' = IF tail = "blank" THEN indented \union {e} ELSE indented
                   /\ op[p].step = "append" /\ ~op[p].newline
                   /\ \/ op[p].lines = {e}
                      \/ op'[p].lines = op[p].lines \ {e} /\ op'[p].step = "append"
        <5>1. tail = "ended"
          BY <4>3 DEF BaseInv, TypeOK, WholeLines
        <5> QED BY <1>5, <4>3, <5>1
      <4> QED BY <2>3, <4>1, <4>2, <4>3 DEF Ignores, Ends
    <3> QED BY <3>1, <3>2 DEF Owed
  <2> QED BY <1>1, <2>1, <2>2, <2>3
<1> QED BY <1>3, <1>4, <1>5 DEF Owed

LEMMA IgnoreStep ==
  ASSUME IgnoreInv, InOrder, InOrder', NEW p \in Procs, Step(p)
  PROVE  AllAccounted'
<1>0. /\ BaseInv /\ AllAccounted /\ Placed(p)
      /\ Writes(p) \/ Rotates(p) \/ Ignores(p)
      /\ UNCHANGED committed /\ \A q \in Procs : q # p => op'[q] = op[q]
      /\ indented' = {} /\ ~bare'
  BY StepEffect DEF IgnoreInv, BaseInv, InOrder
<1>1. \A f \in Private, steps \in {KeySteps, TokenSteps, MasterSteps} :
         Owed(f, steps) => Owed(f, steps)'
  BY <1>0, OwedStays DEF AllAccounted
<1>2. ASSUME NEW q \in Procs
      PROVE  WholeLines(q)'
  <2>1. CASE tail' = "ended"
    BY <2>1 DEF WholeLines
  <2>2. CASE UNCHANGED tail /\ q # p
    BY <1>0, <2>2 DEF AllAccounted, WholeLines
  <2>3. CASE UNCHANGED tail /\ q = p
    BY <1>0, <2>3, IdleType DEF Writes, Rotates, Ignores, Ends, AllAccounted, WholeLines
  <2> QED BY <1>0, <2>1, <2>2, <2>3 DEF Writes, Rotates, Ignores
<1>3. PICK f : /\ files' \subseteq files \union {f}
               /\ \/ f \in files \/ f \notin Private
                  \/ f = Master /\ op'[p].step \in MasterSteps /\ op'[p].lines = {Master}
                  \/ \E s \in Safes :
                       /\ op'[p].lines = Entries(s)
                       /\ \/ f = <<s, "key">> /\ op'[p].step \in KeySteps
                          \/ f = <<s, "token">> /\ op'[p].step \in TokenSteps /\ s \in VaultSafes
  <2>1. CASE Ignores(p)
    <3>1. files' \subseteq files \union {Access} /\ Access \notin Private
      BY <2>1 DEF Ignores, Access, Private, Master
    <3> QED BY <3>1
  <2>2. CASE Rotates(p)
    BY <1>0, <2>2 DEF Rotates
  <2>3. CASE Writes(p)
    <3> DEFINE s == op[p].place
    <3>1. op[p].step \in {"dirs", "config", "token", "key", "wrapped"} =>
            s \in Safes /\ op'[p].lines = Entries(s)
      BY <1>0, <2>3 DEF Placed, Writes
    <3>2. op[p].step = "token" => s \in VaultSafes
      BY <1>0 DEF Placed
    <3>3. op[p].step = "store" => op'[p].lines = {Master}
      BY <1>0, <2>3 DEF Placed, Writes
    <3>4. /\ Access \notin Private
          /\ \A k \in {"dirs", "config", "wrapped"} : <<s, k>> \notin Private
      BY DEF Access, Private, Master
    <3>5. CASE op[p].step \in {"dirs", "config", "fill", "wrapped", "access"}
      <4>1. PICK g \in {<<s, "dirs">>, <<s, "config">>, <<s, "wrapped">>, Access} :
              files' \subseteq files \union {g}
        BY <2>3, <3>5 DEF Writes
      <4> QED BY <3>4, <4>1
    <3>6. CASE op[p].step = "token"
      <4>1. files' \subseteq files \union {<<s, "token">>} /\ op'[p].step \in TokenSteps
        BY <2>3, <3>6 DEF Writes, TokenSteps
      <4> QED BY <3>1, <3>2, <3>6, <4>1
    <3>7. CASE op[p].step = "key"
      <4>1. files' \subseteq files \union {<<s, "key">>} /\ op'[p].step \in KeySteps
        BY <2>3, <3>7 DEF Writes, KeySteps
      <4> QED BY <3>1, <3>7, <4>1
    <3>8. CASE op[p].step = "store"
      <4>1. files' \subseteq files \union {Master} /\ op'[p].step \in MasterSteps
        BY <2>3, <3>8 DEF Writes, MasterSteps
      <4> QED BY <3>3, <3>8, <4>1
    <3> HIDE DEF s
    <3> QED BY <2>3, <3>5, <3>6, <3>7, <3>8 DEF Writes
  <2> QED BY <1>0, <2>1, <2>2, <2>3
<1>4. ASSUME NEW s \in Safes
      PROVE  Accounted(s)'
  <2>1. /\ Entries(s) \subseteq Private /\ <<s, "token">> \in Private
        /\ <<s, "key">> \in Private /\ <<s, "secret">> \in Private
        /\ s \in VaultSafes => <<s, "token">> \in Entries(s)
    BY EntriesType DEF Private
  <2>2. Accounted(s) /\ ignored \subseteq ignored'
    BY <1>0 DEF AllAccounted, Writes, Rotates, Ignores
  <2>3. <<s, "key">> # Master /\ <<s, "token">> # Master /\ <<s, "secret">> # Master
    BY DEF Master
  <2>4. ASSUME <<s, "key">> \in files' PROVE \A e \in Entries(s) : Owed(e, KeySteps)'
    <3>1. CASE <<s, "key">> \in files
      BY <1>1, <2>1, <2>2, <3>1 DEF Accounted
    <3>2. CASE <<s, "key">> \notin files
      <4>1. op'[p].step \in KeySteps /\ op'[p].lines = Entries(s)
        BY <1>3, <2>1, <2>3, <2>4, <3>2
      <4> QED BY <4>1 DEF Owed
    <3> QED BY <3>1, <3>2
  <2>5. ASSUME <<s, "token">> \in files' PROVE Owed(<<s, "token">>, TokenSteps)'
    <3>1. CASE <<s, "token">> \in files
      BY <1>1, <2>1, <2>2, <3>1 DEF Accounted
    <3>2. CASE <<s, "token">> \notin files
      <4>1. op'[p].step \in TokenSteps /\ op'[p].lines = Entries(s) /\ s \in VaultSafes
        BY <1>3, <2>1, <2>3, <2>5, <3>2
      <4> QED BY <2>1, <4>1 DEF Owed
    <3> QED BY <3>1, <3>2
  <2>6. <<s, "secret">> \in files' => <<s, "secret">> \in ignored'
    BY <1>3, <2>1, <2>2, <2>3 DEF Accounted
  <2> QED BY <2>4, <2>5, <2>6 DEF Accounted, Entries
<1>5. Master \in files' => Owed(Master, MasterSteps)'
  <2>1. CASE Master \in files
    BY <1>0, <1>1, <2>1, IdleType DEF AllAccounted
  <2>2. CASE Master \in files' /\ Master \notin files
    <3>1. \A s \in Safes : Master \notin {<<s, "key">>, <<s, "token">>}
      BY DEF Master
    <3>2. op'[p].step \in MasterSteps /\ op'[p].lines = {Master}
      BY <1>3, <2>2, <3>1, IdleType
    <3> QED BY <3>2 DEF Owed
  <2> QED BY <2>1, <2>2
<1>6. PrivateStaysOut'
  BY <1>0 DEF AllAccounted, PrivateStaysOut
<1> QED BY <1>2, <1>4, <1>5, <1>6 DEF AllAccounted, MasterSteps

\* A command that begins owes nothing that is there yet, and the others go on
\* owing what they owed.
LEMMA IgnoreCommand ==
  ASSUME IgnoreInv, InOrder, NEW p \in Procs, Command(p)
  PROVE  AllAccounted'
<1>1. /\ BaseInv /\ AllAccounted /\ UNCHANGED <<files, ignored, tail, committed>>
      /\ op[p].step = "idle" /\ op'[p].step # "append"
  BY CommandBegins, IdleType DEF IgnoreInv
<1>2. ASSUME NEW q \in Procs, q # p
      PROVE  /\ op'[q].step = op[q].step /\ op'[q].lines = op[q].lines
             /\ op'[q].newline = op[q].newline
  <2> DEFINE met == op[q].met \/ (op'[p].cmd = "add" /\ Adds(op[q], op'[p].place))
  <2>1. op'[q] = [op[q] EXCEPT !.met = met]
    BY <1>1, <1>2, CommandBegins
  <2>2. op[q] \in Op
    BY <1>1 DEF BaseInv, TypeOK
  <2> HIDE DEF met
  <2> QED BY <2>1, <2>2 DEF Op
<1>3. ASSUME NEW f, NEW steps \in {KeySteps, TokenSteps, MasterSteps}, Owed(f, steps)
      PROVE  Owed(f, steps)'
  <2>1. "idle" \notin steps
    BY DEF KeySteps, TokenSteps, MasterSteps
  <2> QED BY <1>1, <1>2, <1>3, <2>1 DEF Owed
<1>4. \A q \in Procs : WholeLines(q)'
  BY <1>1, <1>2 DEF AllAccounted, WholeLines
<1>5. ASSUME NEW s \in Safes PROVE Accounted(s)'
  BY <1>1, <1>3 DEF AllAccounted, Accounted, Entries
<1> QED BY <1>1, <1>3, <1>4, <1>5 DEF AllAccounted, PrivateStaysOut, Master

\* An add that is refused leaves its entries to nobody, but then the files
\* they are for are not there, or another add of the safe is to make them.
LEMMA IgnoreRefuse ==
  ASSUME IgnoreInv, InOrder, NEW p \in Procs, Refuse(p), UNCHANGED <<tail, stops>>
  PROVE  AllAccounted'
<1> DEFINE place == op[p].place
<1>0. /\ BaseInv /\ AllAccounted /\ UNCHANGED <<ignored, committed, tail>>
      /\ op'[p] = Idle /\ \A q \in Procs : q # p => op'[q] = op[q]
      /\ files' \subseteq files
  BY StopEffect DEF IgnoreInv
<1>1. /\ place \in Safes /\ op[p].lines = Entries(place) /\ InDirectory(place)
      /\ op[p].step \in {"config", "token", "key", "wrapped"}
      /\ Usable(p) => op[p].step = "key"
  BY <1>0 DEF Refuse, BaseInv, Placed
<1>2. ~Usable(p) => <<place, "key">> \notin files /\ <<place, "token">> \notin files
  BY <1>1 DEF Usable, InDirectory
<1>3. ASSUME NEW s \in Safes, <<s, "key">> \in files', NEW e \in Entries(s)
      PROVE  Owed(e, KeySteps)'
  <2>1. Owed(e, KeySteps)
    BY <1>0, <1>3 DEF AllAccounted, Accounted
  <2>2. op[p].step \in KeySteps => s # place
    BY <1>0, <1>1, <1>2, <1>3 DEF KeySteps
  <2>3. ~(op[p].step \in KeySteps /\ e \in op[p].lines)
    BY <1>1, <2>2 DEF Entries
  <2> QED BY <1>0, <2>1, <2>3 DEF Owed
<1>4. ASSUME NEW s \in Safes, <<s, "token">> \in files'
      PROVE  Owed(<<s, "token">>, TokenSteps)'
  <2>1. Owed(<<s, "token">>, TokenSteps)
    BY <1>0, <1>4 DEF AllAccounted, Accounted
  <2>2. CASE <<s, "token">> \in ignored
    BY <1>0, <2>2 DEF Owed
  <2>3. CASE \E q \in Procs : q # p /\ op[q].step \in TokenSteps /\ <<s, "token">> \in op[q].lines
    BY <1>0, <2>3 DEF Owed
  <2>4. CASE op[p].step \in TokenSteps /\ <<s, "token">> \in op[p].lines
    <3>1. s = place /\ s \in VaultSafes
      BY <1>1, <2>4 DEF Entries
    <3>2. op[p].step = "key" /\ Usable(p)
      BY <1>0, <1>1, <1>2, <1>4, <3>1
    <3>3. <<s, "key">> \in files
      BY <3>1, <3>2 DEF Refuse, KeyFree
    <3>4. Owed(<<s, "token">>, KeySteps)
      BY <1>0, <3>1, <3>3, EntriesType DEF AllAccounted, Accounted
    <3> QED BY <1>0, <3>2, <3>4 DEF Owed, KeySteps, TokenSteps
  <2> QED BY <2>1, <2>2, <2>3, <2>4 DEF Owed
<1>5. Master \in files' => Owed(Master, MasterSteps)'
  <2>1. Master \notin op[p].lines
    BY <1>1, EntriesType
  <2> QED BY <1>0, <2>1 DEF AllAccounted, Owed
<1>6. \A q \in Procs : WholeLines(q)'
  BY <1>0, IdleType DEF AllAccounted, WholeLines
<1>7. \A s \in Safes : <<s, "secret">> \in files' => <<s, "secret">> \in ignored'
  BY <1>0 DEF AllAccounted, Accounted
<1> QED BY <1>0, <1>3, <1>4, <1>5, <1>6, <1>7 DEF AllAccounted, Accounted, PrivateStaysOut, Entries

\* The user writes secrets and commits when no command is running: then what
\* is owed has been done.
LEMMA IgnoreUser ==
  ASSUME IgnoreInv, InOrder,
         \/ Commit \/ \E p \in Procs : NothingToDo(p)
         \/ \E s \in Safes : MakeDirectory(s) \/ RemoveConfig(s) \/ WriteSecret(s)
  PROVE  AllAccounted'
<1>0. /\ BaseInv /\ AllAccounted /\ UNCHANGED <<keyOf, ignored, tail, op>>
      /\ \A s \in Safes : \A kind \in {"key", "token"} :
            <<s, kind>> \in files' <=> <<s, kind>> \in files
      /\ Master \in files' <=> Master \in files
  BY UserEffect DEF IgnoreInv
<1>1. ASSUME Quiet, NEW f, NEW steps \in {KeySteps, TokenSteps, MasterSteps}, Owed(f, steps)
      PROVE  f \in ignored
  <2>1. "idle" \notin steps
    BY DEF KeySteps, TokenSteps, MasterSteps
  <2> QED BY <1>1, <2>1 DEF Owed, Quiet, Busy
<1>2. ASSUME NEW s \in Safes PROVE <<s, "secret">> \in files' => <<s, "secret">> \in ignored
  <2>1. CASE <<s, "secret">> \in files
    BY <1>0, <2>1 DEF AllAccounted, Accounted
  <2>2. CASE <<s, "secret">> \in files' /\ <<s, "secret">> \notin files
    <3>1. PICK t \in Safes : MakeDirectory(t) \/ RemoveConfig(t) \/ WriteSecret(t)
      BY <2>2 DEF Commit, NothingToDo
    <3>2. WriteSecret(s)
      <4>1. CASE MakeDirectory(t) \/ RemoveConfig(t)
        BY <2>2, <4>1 DEF MakeDirectory, RemoveConfig, Create
      <4>2. CASE WriteSecret(t)
        BY <2>2, <4>2 DEF WriteSecret, Create
      <4> QED BY <3>1, <4>1, <4>2
    <3>3. Quiet /\ Owed(<<s, "secret">>, KeySteps)
      <4>1. Quiet /\ <<s, "key">> \in files
        BY <1>0, <3>2 DEF WriteSecret, BaseInv, InDirectory
      <4> QED BY <1>0, <4>1, EntriesType DEF AllAccounted, Accounted
    <3> QED BY <1>1, <3>3
  <2> QED BY <2>1, <2>2
<1>3. PrivateStaysOut'
  <2>1. CASE UNCHANGED committed
    BY <1>0, <2>1 DEF AllAccounted, PrivateStaysOut
  <2>2. CASE ~UNCHANGED committed
    <3>1. Quiet /\ committed' = committed \union ((files \intersect Private) \ ignored)
      BY <2>2 DEF Commit, NothingToDo, MakeDirectory, RemoveConfig, WriteSecret
    <3>2. Master \in files => Master \in ignored
      BY <1>0, <1>1, <3>1 DEF AllAccounted
    <3>3. ASSUME NEW s \in Safes, NEW kind \in {"token", "key", "secret"}, <<s, kind>> \in files
          PROVE  <<s, kind>> \in ignored
      <4>1. CASE kind = "key"
        BY <1>0, <1>1, <3>1, <3>3, <4>1, EntriesType DEF AllAccounted, Accounted
      <4>2. CASE kind = "token"
        BY <1>0, <1>1, <3>1, <3>3, <4>2 DEF AllAccounted, Accounted
      <4>3. CASE kind = "secret"
        BY <1>0, <3>3, <4>3 DEF AllAccounted, Accounted
      <4> QED BY <3>3, <4>1, <4>2, <4>3
    <3>4. files \intersect Private \subseteq ignored
      <4>1. ASSUME NEW f \in files, f \in Safes \X {"token", "key", "secret"}
            PROVE  f \in ignored
        <5>1. PICK s \in Safes, kind \in {"token", "key", "secret"} : f = <<s, kind>>
          BY <4>1
        <5> QED BY <3>3, <5>1
      <4> QED BY <3>2, <4>1 DEF Private
    <3> QED BY <1>0, <3>1, <3>4 DEF AllAccounted, PrivateStaysOut
  <2> QED BY <2>1, <2>2
<1>4. \A s \in Safes : Accounted(s)'
  BY <1>0, <1>2 DEF AllAccounted, Accounted, Owed, Entries
<1>5. \A q \in Procs : WholeLines(q)'
  BY <1>0 DEF AllAccounted, WholeLines
<1>6. Master \in files' => Owed(Master, MasterSteps)'
  BY <1>0 DEF AllAccounted, Owed
<1> QED BY <1>3, <1>4, <1>5, <1>6 DEF AllAccounted

LEMMA IgnoreNext == ASSUME IgnoreInv, [Next]_vars PROVE IgnoreInv'
<1>1. BaseInv /\ BaseInv' /\ stops \in Nat
  BY BaseNext, ConstantsOk DEF IgnoreInv, BaseInv, TypeOK, ConstantsOk
<1>2. SUFFICES ASSUME InOrder' PROVE AllAccounted'
  BY <1>1 DEF IgnoreInv
<1>3. ASSUME NEW p \in Procs, Refuse(p) \/ Fail(p) \/ Kill(p)
      PROVE  AllAccounted'
  <2>1. InOrder /\ Refuse(p) /\ UNCHANGED <<tail, stops>>
    BY <1>1, <1>2, <1>3, StopEffect DEF InOrder
  <2> QED BY <2>1, IgnoreRefuse
<1>4. ASSUME NEW p \in Procs, Step(p)
      PROVE  AllAccounted'
  <2>1. stops' = stops /\ (bare => bare') /\ indented \subseteq indented'
    BY <1>1, <1>4, StepEffect DEF Writes, Rotates, Ignores
  <2>2. InOrder
    BY <1>2, <2>1 DEF InOrder
  <2> QED BY <1>2, <1>4, <2>2, IgnoreStep
<1>5. ASSUME NEW p \in Procs, Command(p)
      PROVE  AllAccounted'
  BY <1>1, <1>2, <1>5, CommandBegins, IgnoreCommand DEF InOrder
<1>6. CASE \/ Commit \/ \E p \in Procs : NothingToDo(p)
           \/ \E s \in Safes : MakeDirectory(s) \/ RemoveConfig(s) \/ WriteSecret(s)
  <2>1. UNCHANGED <<indented, stops, bare>>
    BY <1>1, <1>6, UserEffect
  <2> QED BY <1>2, <1>6, <2>1, IgnoreUser DEF InOrder
<1>7. CASE UNCHANGED vars
  BY <1>2, <1>7 DEF vars, keyVars, ignoreVars, InOrder, IgnoreInv, AllAccounted, WholeLines,
                    Accounted, Owed, PrivateStaysOut, Entries, Master
<1> QED BY <1>3, <1>4, <1>5, <1>6, <1>7 DEF Next, Command

\* No private file is committed as long as no command stops early, however
\* many commands append to .gitignore at once and however it ended before; but
\* for a .gitignore of blanks and a revoke that stores the first master.key.
THEOREM PrivateStaysOutHolds == Spec => []PrivateStaysOutUnlessStopped
<1>1. IgnoreInv => PrivateStaysOutUnlessStopped
  BY DEF IgnoreInv, InOrder, AllAccounted, PrivateStaysOutUnlessStopped
<1> QED BY <1>1, IgnoreInit, IgnoreNext, PTL DEF Spec

-----------------------------------------------------------------------------
(* Cleaning up, and what an add reported done *)

\* The steps of an add at which its key file is there, and is whole.
Opened == {"fill", "wrapped", "ignore", "append"}
Written == {"wrapped", "ignore", "append"}

\* An add that met no other is the only one of its safe: the key it made is in
\* place, and if it is to clean up, what is in the directory is its own.
Alone(p) ==
    LET s == op[p].place IN
    op[p].cmd = "add" /\ ~op[p].met =>
        /\ \A q \in Procs : Adds(op[q], s) => q = p
        /\ op[p].created => <<s, "own">> \notin files /\ keyOf[s] \in {0, op[p].made}
        /\ op[p].step \in Opened => keyOf[s] = op[p].made
        /\ op[p].step \in Written => s \in whole

\* A key that was issued is in place, and no add of its safe is to clean up.
Kept(i) ==
    /\ keyOf[i[1]] = i[2] /\ i[1] \in whole
    /\ \A q \in Procs : Adds(op[q], i[1]) => ~op[q].created

AloneInv == /\ BaseInv
            /\ \A p \in Procs : Alone(p)
            /\ \A i \in issued : Kept(i)

LEMMA IssuedType ==
  ASSUME TypeOK, NEW i \in issued
  PROVE  i[1] \in Safes
  BY DEF TypeOK

LEMMA AloneCommand ==
  ASSUME AloneInv, NEW p \in Procs, Command(p)
  PROVE  (\A q \in Procs : Alone(q)') /\ \A i \in issued' : Kept(i)'
<1>1. /\ BaseInv /\ UNCHANGED <<files, keyOf, whole, issued>> /\ op[p] = Idle /\ Placed(p)'
  BY CommandBegins DEF AloneInv
<1>2. ASSUME NEW q \in Procs, q # p
      PROVE  /\ op'[q].cmd = op[q].cmd /\ op'[q].place = op[q].place /\ op'[q].step = op[q].step
             /\ op'[q].created = op[q].created /\ op'[q].made = op[q].made
             /\ ~op'[q].met => ~op[q].met /\ ~(op'[p].cmd = "add" /\ Adds(op[q], op'[p].place))
  <2> DEFINE met == op[q].met \/ (op'[p].cmd = "add" /\ Adds(op[q], op'[p].place))
  <2>1. op'[q] = [op[q] EXCEPT !.met = met]
    BY <1>1, <1>2, CommandBegins
  <2>2. op[q] \in Op
    BY <1>1 DEF BaseInv, TypeOK
  <2> HIDE DEF met
  <2>3. /\ op'[q].cmd = op[q].cmd /\ op'[q].place = op[q].place /\ op'[q].met = met
        /\ op'[q].created = op[q].created /\ op'[q].made = op[q].made /\ op'[q].step = op[q].step
    BY <2>1, <2>2 DEF Op
  <2>4. ~met => ~op[q].met /\ ~(op'[p].cmd = "add" /\ Adds(op[q], op'[p].place))
    BY DEF met
  <2> QED BY <2>3, <2>4
<1>3. ASSUME NEW q \in Procs, q # p
      PROVE  Alone(q)'
  <2> SUFFICES ASSUME op'[q].cmd = "add", ~op'[q].met
               PROVE  /\ \A r \in Procs : Adds(op'[r], op'[q].place) => r = q
                      /\ op'[q].created => /\ <<op'[q].place, "own">> \notin files'
                                           /\ keyOf'[op'[q].place] \in {0, op'[q].made}
                      /\ op'[q].step \in Opened => keyOf'[op'[q].place] = op'[q].made
                      /\ op'[q].step \in Written => op'[q].place \in whole'
    BY DEF Alone, Adds, Opened, Written
  <2>1. Alone(q) /\ op[q].cmd = "add" /\ ~op[q].met
    BY <1>2, <1>3 DEF AloneInv
  <2>2. ~Adds(op'[p], op'[q].place)
    BY <1>2, <1>3 DEF Adds
  <2> QED BY <1>1, <1>2, <1>3, <2>1, <2>2 DEF Adds, Alone
<1>4. op'[p].cmd = "add" /\ op'[p].created =>
         /\ \A k \in Kinds : <<op'[p].place, k>> \notin files
         /\ op'[p].place \in Safes /\ keyOf[op'[p].place] = 0 /\ op'[p].place \notin whole
  <2>1. op'[p].cmd = "add" => op'[p].place \in Safes /\ InDirectory(op'[p].place)
    BY <1>1 DEF Placed, BaseInv
  <2>2. op'[p].cmd = "add" /\ op'[p].created => Directory(op'[p].place) = {}
    BY <1>1, CommandBegins
  <2> QED BY <2>1, <2>2 DEF Directory, InDirectory, Kinds
<1>5. Alone(p)'
  <2> SUFFICES ASSUME op'[p].cmd = "add", ~op'[p].met
               PROVE  /\ \A r \in Procs : Adds(op'[r], op'[p].place) => r = p
                      /\ op'[p].created => /\ <<op'[p].place, "own">> \notin files'
                                           /\ keyOf'[op'[p].place] \in {0, op'[p].made}
                      /\ op'[p].step \notin Opened
    BY DEF Alone, Adds, Opened, Written
  <2>1. \A r \in Procs : ~Adds(op[r], op'[p].place)
    BY CommandBegins DEF AloneInv
  <2>2. op'[p].step \notin Opened
    BY <1>1, CommandBegins DEF Placed, Opened
  <2> QED BY <1>1, <1>2, <1>4, <2>1, <2>2 DEF Adds, Kinds
<1>6. ASSUME NEW i \in issued'
      PROVE  Kept(i)'
  <2>1. Kept(i)
    BY <1>1, <1>6 DEF AloneInv
  <2>2. ASSUME NEW q \in Procs, Adds(op'[q], i[1])
        PROVE  ~op'[q].created
    <3>1. CASE q = p
      BY <1>4, <2>1, <2>2, <3>1 DEF Kept, Adds
    <3>2. CASE q # p
      BY <1>2, <2>1, <2>2, <3>2 DEF Kept, Adds
    <3> QED BY <3>1, <3>2
  <2> QED BY <1>1, <2>1, <2>2 DEF Kept
<1> QED BY <1>3, <1>5, <1>6

LEMMA AloneStep ==
  ASSUME AloneInv, NEW p \in Procs, Step(p)
  PROVE  (\A q \in Procs : Alone(q)') /\ \A i \in issued' : Kept(i)'
<1>1. /\ BaseInv /\ Placed(p)
      /\ Writes(p) \/ Rotates(p) \/ Ignores(p)
      /\ \A q \in Procs : q # p => op'[q] = op[q]
  BY StepEffect DEF AloneInv, BaseInv
<1>2. \/ op'[p] = Idle
      \/ /\ op'[p].cmd = op[p].cmd /\ op'[p].place = op[p].place
         /\ op'[p].created = op[p].created /\ op'[p].met = op[p].met
  BY <1>1 DEF Writes, Rotates, Ignores, Ends, SameCommand
<1>3. \A s \in Safes : <<s, "own">> \in files' => <<s, "own">> \in files
  <2>1. PICK f : files' \subseteq files \union {f} /\ \A s \in Safes : f # <<s, "own">>
    <3>1. \A place, s : \A k \in {"dirs", "config", "token", "key", "wrapped"} :
             <<place, k>> # <<s, "own">>
      OBVIOUS
    <3>2. \A s : Master # <<s, "own">> /\ Access # <<s, "own">>
      BY DEF Master, Access
    <3>3. CASE Writes(p)
      <4>1. PICK g : /\ files' \subseteq files \union {g}
                     /\ \/ g \in {Master, Access}
                        \/ \E k \in {"dirs", "config", "token", "key", "wrapped"} :
                              g = <<op[p].place, k>>
        BY <3>3 DEF Writes
      <4> QED BY <3>1, <3>2, <4>1
    <3>4. CASE Rotates(p) \/ Ignores(p)
      BY <3>2, <3>4 DEF Rotates, Ignores
    <3> QED BY <1>1, <3>3, <3>4
  <2> QED BY <2>1
\* What a step does to the keys: it opens one, writes one, or none.
<1>4. \/ /\ op[p].step = "key" /\ op[p].cmd = "add" /\ op'[p].step = "fill"
         /\ keyOf' = [keyOf EXCEPT ![op[p].place] = op'[p].made] /\ whole' = whole
         /\ <<op[p].place, "key">> \notin files /\ issued' = issued
         /\ op'[p].place = op[p].place
      \/ /\ op[p].step = "fill" /\ op'[p].step \in {"wrapped", "ignore"}
         /\ keyOf' = keyOf /\ issued' = issued /\ op'[p].made = op[p].made
         /\ whole' = IF keyOf[op[p].place] = op[p].made
                     THEN whole \union {op[p].place} ELSE whole
      \/ /\ UNCHANGED <<keyOf, whole, issued>>
         /\ op'[p] = Idle \/ (op'[p].made = op[p].made
                              /\ (op'[p].step \in Opened => op[p].cmd # "add" \/ op[p].step \in Written))
      \/ UNCHANGED <<keyOf, whole>> /\ Ends(p) /\ op[p].step \in {"ignore", "append"}
  BY <1>1 DEF Writes, Rotates, Ignores, SameCommand, Placed, Opened, Written
<1>5. keyOf \in [Safes -> 0..MaxKeys] /\ \A s \in Safes : InDirectory(s)
  BY <1>1 DEF BaseInv, TypeOK
<1>6. ASSUME NEW q \in Procs, op'[q].cmd = "add", ~op'[q].met
      PROVE  /\ \A r \in Procs : Adds(op'[r], op'[q].place) => r = q
             /\ op'[q].created => /\ <<op'[q].place, "own">> \notin files'
                                  /\ keyOf'[op'[q].place] \in {0, op'[q].made}
             /\ op'[q].step \in Opened => keyOf'[op'[q].place] = op'[q].made
             /\ op'[q].step \in Written => op'[q].place \in whole'
  <2>1. /\ op[q].cmd = "add" /\ ~op[q].met /\ op'[q].place = op[q].place
        /\ op'[q].created = op[q].created
    BY <1>1, <1>2, <1>6, IdleType
  <2>2. /\ \A r \in Procs : Adds(op[r], op[q].place) => r = q
        /\ op[q].created => /\ <<op[q].place, "own">> \notin files
                            /\ keyOf[op[q].place] \in {0, op[q].made}
        /\ op[q].step \in Opened => keyOf[op[q].place] = op[q].made
        /\ op[q].step \in Written => op[q].place \in whole
    BY <2>1 DEF AloneInv, Alone
  <2>3. op[q].place \in Safes
    BY <1>1, <2>1 DEF BaseInv, Placed
  <2>4. \A r \in Procs : Adds(op'[r], op'[q].place) => Adds(op[r], op[q].place)
    BY <1>1, <1>2, <2>1, IdleType DEF Adds
  <2>5. CASE q # p
    <3>1. op[p].cmd = "add" => op[p].place # op[q].place
      BY <2>2, <2>5 DEF Adds
    <3>2. keyOf'[op[q].place] = keyOf[op[q].place] /\ whole \subseteq whole'
      BY <1>4, <1>5, <2>3, <3>1
    <3>3. op'[q] = op[q]
      BY <1>1, <2>5
    <3> QED BY <1>3, <2>2, <2>3, <2>4, <3>2, <3>3
  <2>6. CASE q = p
    <3>0. op'[p] # Idle
      BY <1>6, <2>6, IdleType
    <3>1. op'[q].step \in Opened => keyOf'[op'[q].place] = op'[q].made
      BY <1>4, <1>5, <2>1, <2>2, <2>3, <2>6, <3>0 DEF Opened, Written, Ends
    <3>2. op'[q].step \in Written => op'[q].place \in whole'
      BY <1>4, <1>5, <2>1, <2>2, <2>3, <2>6, <3>0 DEF Opened, Written, Ends
    <3>3. op[q].created => keyOf'[op[q].place] \in {0, op'[q].made}
      BY <1>4, <1>5, <2>1, <2>2, <2>3, <2>6, <3>0 DEF Opened, Ends
    <3> QED BY <1>3, <2>1, <2>2, <2>3, <2>4, <3>1, <3>2, <3>3
  <2> QED BY <2>5, <2>6
<1>7. ASSUME NEW i \in issued'
      PROVE  Kept(i)'
  <2>1. CASE i \in issued
    <3>1. Kept(i) /\ i[1] \in Safes
      BY <1>1, <2>1, IssuedType DEF AloneInv, BaseInv
    <3>2. <<i[1], "key">> \in files
      BY <1>5, <3>1 DEF Kept, InDirectory
    <3>3. keyOf'[i[1]] = i[2] /\ i[1] \in whole'
      BY <1>4, <1>5, <3>1, <3>2 DEF Kept
    <3>4. \A q \in Procs : Adds(op'[q], i[1]) => ~op'[q].created
      BY <1>1, <1>2, <3>1, IdleType DEF Kept, Adds
    <3> QED BY <3>3, <3>4 DEF Kept
  <2>2. CASE i \notin issued
    <3>1. /\ UNCHANGED <<keyOf, whole>> /\ Ends(p) /\ op[p].step \in {"ignore", "append"}
          /\ op[p].cmd = "add" /\ ~op[p].met /\ i = <<op[p].place, op[p].made>>
      BY <1>4, <1>7, <2>2 DEF Ends
    <3>2. /\ keyOf[op[p].place] = op[p].made /\ op[p].place \in whole
          /\ \A q \in Procs : Adds(op[q], op[p].place) => q = p
      BY <3>1 DEF AloneInv, Alone, Opened, Written
    <3>3. \A q \in Procs : ~Adds(op'[q], i[1])
      BY <1>1, <3>1, <3>2, IdleType DEF Adds, Ends
    <3> QED BY <3>1, <3>2, <3>3 DEF Kept
  <2> QED BY <2>1, <2>2
<1> QED BY <1>6, <1>7 DEF Alone, Adds, Opened, Written

LEMMA AloneStop ==
  ASSUME AloneInv, NEW p \in Procs, Refuse(p) \/ Fail(p) \/ Kill(p)
  PROVE  (\A q \in Procs : Alone(q)') /\ \A i \in issued' : Kept(i)'
<1>1. /\ op'[p] = Idle /\ \A q \in Procs : q # p => op'[q] = op[q]
      /\ files' \subseteq files /\ BaseInv /\ issued' = issued
      /\ \/ UNCHANGED <<keyOf, whole>>
         \/ /\ op[p].cmd = "add" /\ op[p].created
            /\ keyOf' = [keyOf EXCEPT ![op[p].place] = 0] /\ whole' = whole \ {op[p].place}
  BY StopEffect DEF AloneInv
<1>2. keyOf \in [Safes -> 0..MaxKeys] /\ Idle.cmd = "none"
  BY <1>1, IdleType DEF BaseInv, TypeOK
<1>3. ASSUME NEW q \in Procs, op'[q].cmd = "add", ~op'[q].met
      PROVE  /\ \A r \in Procs : Adds(op'[r], op'[q].place) => r = q
             /\ op'[q].created => /\ <<op'[q].place, "own">> \notin files'
                                  /\ keyOf'[op'[q].place] \in {0, op'[q].made}
             /\ op'[q].step \in Opened => keyOf'[op'[q].place] = op'[q].made
             /\ op'[q].step \in Written => op'[q].place \in whole'
  <2>1. q # p /\ op'[q] = op[q]
    BY <1>1, <1>2, <1>3
  <2>2. /\ \A r \in Procs : Adds(op[r], op[q].place) => r = q
        /\ op[q].created => /\ <<op[q].place, "own">> \notin files
                            /\ keyOf[op[q].place] \in {0, op[q].made}
        /\ op[q].step \in Opened => keyOf[op[q].place] = op[q].made
        /\ op[q].step \in Written => op[q].place \in whole
    BY <1>3, <2>1 DEF AloneInv, Alone
  <2>3. op[q].place \in Safes
    BY <1>1, <1>3, <2>1 DEF BaseInv, Placed
  <2>4. \A r \in Procs : Adds(op'[r], op[q].place) => Adds(op[r], op[q].place)
    BY <1>1, <1>2 DEF Adds
  <2>5. op[p].cmd = "add" => op[p].place # op[q].place
    BY <2>1, <2>2 DEF Adds
  <2>6. keyOf'[op[q].place] = keyOf[op[q].place] /\ (op[q].place \in whole => op[q].place \in whole')
    BY <1>1, <1>2, <2>3, <2>5
  <2> QED BY <1>1, <2>1, <2>2, <2>4, <2>6
<1>4. ASSUME NEW i \in issued'
      PROVE  Kept(i)'
  <2>1. Kept(i) /\ i[1] \in Safes
    BY <1>1, <1>4, IssuedType DEF AloneInv, BaseInv
  <2>2. op[p].cmd = "add" /\ op[p].created => op[p].place # i[1]
    BY <2>1 DEF Kept, Adds
  <2>3. keyOf'[i[1]] = i[2] /\ i[1] \in whole'
    BY <1>1, <1>2, <2>1, <2>2 DEF Kept
  <2>4. \A q \in Procs : Adds(op'[q], i[1]) => ~op'[q].created
    BY <1>1, <1>2, <2>1 DEF Kept, Adds
  <2> QED BY <2>3, <2>4 DEF Kept
<1> QED BY <1>3, <1>4 DEF Alone, Adds, Opened, Written

LEMMA AloneUser ==
  ASSUME AloneInv,
         \/ Commit \/ \E p \in Procs : NothingToDo(p)
         \/ \E s \in Safes : MakeDirectory(s) \/ RemoveConfig(s) \/ WriteSecret(s)
  PROVE  (\A q \in Procs : Alone(q)') /\ \A i \in issued' : Kept(i)'
<1>1. BaseInv /\ UNCHANGED <<op, keyOf, whole, issued>>
  BY UserEffect DEF AloneInv
<1>2. \A i \in issued' : Kept(i)'
  BY <1>1 DEF AloneInv, Kept, Adds
<1>3. UNCHANGED files \/ Quiet
  BY DEF Commit, NothingToDo, MakeDirectory, RemoveConfig, WriteSecret
<1>4. CASE UNCHANGED files
  <2>1. \A q \in Procs : Alone(q)
    BY DEF AloneInv
  <2> QED BY <1>1, <1>2, <1>4, <2>1 DEF Alone, Adds
<1>5. CASE Quiet
  <2>1. \A q \in Procs : op'[q].cmd = "none"
    BY <1>1, <1>5, IdleType DEF Quiet, Busy, BaseInv, Placed
  <2> QED BY <1>2, <2>1 DEF Alone
<1> QED BY <1>3, <1>4, <1>5

LEMMA AloneInit == ASSUME Init PROVE AloneInv
  BY BaseInit, IdleType DEF AloneInv, Alone, Init

LEMMA AloneNext == ASSUME AloneInv, [Next]_vars PROVE AloneInv'
<1>1. BaseInv'
  BY BaseNext DEF AloneInv
<1>2. CASE UNCHANGED vars
  BY <1>1, <1>2 DEF vars, keyVars, AloneInv, Alone, Kept, Adds
<1> QED BY <1>1, <1>2, AloneCommand, AloneStep, AloneStop, AloneUser DEF Next, Command, AloneInv

\* The key an add reported done stays in its place, in full, whatever adds of
\* the safe come after it and however they end.
THEOREM KeysStayHolds == Spec => []KeysStay
<1>1. AloneInv => KeysStay
  BY DEF AloneInv, Kept, KeysStay
<1> QED BY <1>1, AloneInit, AloneNext, PTL DEF Spec

\* Cleaning up after a failed add takes away only what that add made, unless
\* another add of the safe ran meanwhile.
THEOREM PreexistingKeptHolds == Spec => PreexistingKept
<1>1. ASSUME AloneInv, Next, NEW s \in Safes, NEW p \in Procs,
             Adds(op[p], s), op'[p] # op[p], ~op[p].met
      PROVE  /\ <<s, "own">> \in files => <<s, "own">> \in files'
             /\ keyOf[s] # 0 /\ keyOf'[s] = 0 => op[p].made = keyOf[s]
  <2>0. BaseInv /\ op[p].cmd = "add" /\ op[p].place = s /\ keyOf \in [Safes -> 0..MaxKeys]
    BY <1>1 DEF AloneInv, BaseInv, TypeOK, Adds
  <2>1. ASSUME NEW q \in Procs, Command(q)
        PROVE  UNCHANGED <<files, keyOf>>
    BY <2>0, <2>1, CommandBegins
  <2>2. ASSUME NEW q \in Procs, Step(q)
        PROVE  /\ files \subseteq files'
               /\ keyOf[s] # 0 => keyOf'[s] # 0
    <3>1. Writes(q) \/ Rotates(q) \/ Ignores(q)
      BY <2>0, <2>2, StepEffect
    <3>2. files \subseteq files'
      BY <3>1 DEF Writes, Rotates, Ignores
    <3>3. keyOf' = keyOf \/ (keyOf' = [keyOf EXCEPT ![op[q].place] = op'[q].made] /\ op'[q].made # 0)
      BY <3>1 DEF Writes, Rotates, Ignores
    <3> QED BY <2>0, <3>2, <3>3
  <2>3. ASSUME NEW q \in Procs, Refuse(q) \/ Fail(q) \/ Kill(q)
        PROVE  \/ UNCHANGED <<files, keyOf>>
               \/ op[p].created
    <3>1. q = p
      BY <1>1, <2>0, <2>3, StopEffect
    <3> QED BY <2>0, <2>3, <3>1, StopEffect
  <2>4. CASE op[p].created
    <3>1. <<s, "own">> \notin files /\ keyOf[s] \in {0, op[p].made}
      BY <1>1, <2>0, <2>4 DEF AloneInv, Alone
    <3> QED BY <3>1
  <2>5. CASE \/ Commit \/ \E q \in Procs : NothingToDo(q)
             \/ \E t \in Safes : MakeDirectory(t) \/ RemoveConfig(t) \/ WriteSecret(t)
    BY <1>1, <2>0, <2>5, UserEffect
  <2> QED BY <1>1, <2>1, <2>2, <2>3, <2>4, <2>5 DEF Next, Command
<1>2. ASSUME AloneInv, [Next]_vars
      PROVE  [\A s \in Safes, p \in Procs : Adds(op[p], s) /\ op'[p] # op[p] /\ ~op[p].met =>
                 /\ <<s, "own">> \in files => <<s, "own">> \in files'
                 /\ keyOf[s] # 0 /\ keyOf'[s] = 0 => op[p].made = keyOf[s]]_vars
  BY <1>1, <1>2
<1> QED BY <1>2, AloneInit, AloneNext, PTL DEF Spec, PreexistingKept
=============================================================================
