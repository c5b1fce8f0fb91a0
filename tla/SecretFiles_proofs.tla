------------------------- MODULE SecretFiles_proofs -------------------------
(***************************************************************************)
(* Proofs about SecretFiles for every number of secrets, contents and      *)
(* killed commands, if one command runs at a time and a kill leaves no     *)
(* plaintext file cut short.                                               *)
(***************************************************************************)
EXTENDS SecretFiles, TLAPS

-----------------------------------------------------------------------------
(* Types *)

LEMMA EncryptedType ==
  ASSUME ConstantsOk, NEW c \in Contents, NEW old
  PROVE  /\ Encrypted(c, old) \in Ciphertexts /\ Encrypted(c, old).content = c
         /\ Decrypts(Encrypted(c, old))
<1>1. Encrypted(c, old) \in Ciphertexts /\ Encrypted(c, old).content = c
  BY DEF Encrypted, Ciphertexts, Salts
<1>2. \A e \in Ciphertexts : e # TornCiphertext
  BY DEF Ciphertexts, TornCiphertext, Salts
<1> QED BY <1>1, <1>2, NoneIsNoFile DEF Decrypts

LEMMA DecryptsType ==
  ASSUME NEW e \in EncFiles, Decrypts(e)
  PROVE  e \in Ciphertexts /\ e.content \in Contents
  BY DEF EncFiles, Decrypts, Ciphertexts

\* What the ends of a step do to the record of its shell.
LEMMA OpAfter ==
  ASSUME ConstantsOk, TypeOK, NEW p \in Shells
  PROVE  /\ \A step \in Steps : Goto(p, step) =>
               /\ op' \in [Shells -> Op]
               /\ op'[p].cmd = op[p].cmd /\ op'[p].step = step
               /\ op'[p].file = op[p].file /\ op'[p].data = op[p].data
         /\ Stop(p) => op' \in [Shells -> Op] /\ op'[p] = Idle
         /\ NextFile(p) => op' \in [Shells -> Op] /\ op'[p].step \in {"idle", "next"}
<1>i. Idle \in Op /\ Idle.step = "idle"
  BY DEF Idle, Op, Steps, Contents, Torn, ConstantsOk
<1>o. op[p] \in Op
  BY DEF TypeOK
<1>1. ASSUME NEW step \in Steps, Goto(p, step)
      PROVE  /\ op' \in [Shells -> Op]
             /\ op'[p].cmd = op[p].cmd /\ op'[p].step = step
             /\ op'[p].file = op[p].file /\ op'[p].data = op[p].data
  <2>1. op' = [op EXCEPT ![p] = [op[p] EXCEPT !.step = step]]
    BY <1>1 DEF Goto, TypeOK
  <2>2. [op[p] EXCEPT !.step = step] \in Op
    BY <1>o DEF Op
  <2> QED BY <1>o, <2>1, <2>2 DEF TypeOK, Op
<1>2. ASSUME Stop(p)
      PROVE  op' \in [Shells -> Op] /\ op'[p] = Idle
  BY <1>2, <1>i DEF Stop, TypeOK
<1>3. ASSUME NextFile(p)
      PROVE  op' \in [Shells -> Op] /\ op'[p].step \in {"idle", "next"}
  <2>1. CASE op[p].todo = {op[p].file}
    BY <1>2, <1>3, <1>i, <2>1 DEF NextFile
  <2>2. CASE op[p].todo # {op[p].file}
    <3> DEFINE o == [op[p] EXCEPT !.step = "next", !.todo = @ \ {op[p].file}]
    <3>1. op' = [op EXCEPT ![p] = o]
      BY <1>3, <2>2 DEF NextFile, TypeOK
    <3>2. o \in Op /\ o.step = "next"
      BY <1>o DEF Op, Steps
    <3> HIDE DEF o
    <3> QED BY <3>1, <3>2 DEF TypeOK
  <2> QED BY <2>1, <2>2
<1> QED BY <1>1, <1>2, <1>3

LEMMA InitType == ASSUME ConstantsOk, Init PROVE TypeOK
  BY DEF ConstantsOk, Init, TypeOK, EncFiles, Contents, Idle, Op, Steps, Torn

LEMMA StartType ==
  ASSUME ConstantsOk, TypeOK, NEW p \in Shells, Encrypt(p) \/ Decrypt(p)
  PROVE  TypeOK' /\ op'[p].step = "next" /\ UNCHANGED Files
<1>1. PICK cmd \in {"encrypt", "decrypt"}, todo \in SUBSET Secrets : Start(p, cmd, todo)
  BY DEF Encrypt, Decrypt
<1> DEFINE o == [Idle EXCEPT !.cmd = cmd, !.step = "next", !.todo = todo]
<1>2. o \in Op /\ o.step = "next"
  <2>1. Idle \in Op
    BY DEF Idle, Op, Steps, Contents, Torn, ConstantsOk
  <2> QED BY <2>1 DEF Op, Steps
<1>3. op' = [op EXCEPT ![p] = o] /\ UNCHANGED Files
  BY <1>1 DEF Start
<1> HIDE DEF o
<1>4. op' \in [Shells -> Op] /\ op'[p].step = "next"
  BY <1>2, <1>3 DEF TypeOK
<1> QED BY <1>3, <1>4 DEF TypeOK, Files

LEMMA StepType ==
  ASSUME ConstantsOk, TypeOK, NEW p \in Shells, Step(p)
  PROVE  TypeOK'
<1> {"compare", "remove", "write", "restore"} \subseteq Steps
  BY DEF Steps
<1>0. op[p] \in Op /\ op[p].data \in Contents /\ op[p].todo \subseteq Secrets
  BY DEF TypeOK, Op
<1>1. ASSUME op' \in [Shells -> Op], UNCHANGED Files
      PROVE  TypeOK'
  BY <1>1 DEF TypeOK, Files
<1>2. CASE ReadPlain(p) \/ ReadEnc(p)
  <2>1. PICK f \in Secrets, c \in Contents, step \in {"compare", "look"} :
          Stop(p) \/ op' = [op EXCEPT ![p].step = step, ![p].file = f, ![p].data = c]
    BY <1>0, <1>2, DecryptsType DEF ReadPlain, ReadEnc, TypeOK
  <2>2. CASE Stop(p)
    BY <1>1, <1>2, <2>2, OpAfter DEF ReadPlain, ReadEnc
  <2>3. CASE op' = [op EXCEPT ![p].step = step, ![p].file = f, ![p].data = c]
    <3> DEFINE o == [op[p] EXCEPT !.step = step, !.file = f, !.data = c]
    <3>1. op' = [op EXCEPT ![p] = o]
      BY <2>3 DEF TypeOK
    <3>2. o \in Op
      BY <1>0 DEF Op, Steps
    <3> HIDE DEF o
    <3>3. op' \in [Shells -> Op]
      BY <3>1, <3>2 DEF TypeOK
    <3> QED BY <1>1, <1>2, <3>3 DEF ReadPlain, ReadEnc
  <2> QED BY <2>1, <2>2, <2>3
<1>3. CASE Compare(p) \/ Look(p)
  <2>1. op' \in [Shells -> Op]
    BY <1>3, OpAfter DEF Compare, Look
  <2> QED BY <1>1, <1>3, <2>1 DEF Compare, Look
<1>4. CASE WriteEnc(p)
  <2>1. op' \in [Shells -> Op] /\ UNCHANGED <<plain, head, history, wrote, touched, contents, kills>>
    BY <1>4, OpAfter DEF WriteEnc
  <2>2. enc' \in [Secrets -> EncFiles]
    BY <1>0, <1>4, EncryptedType DEF WriteEnc, TypeOK, EncFiles
  <2> QED BY <2>1, <2>2 DEF TypeOK
<1>5. CASE RemovePlain(p)
  <2>1. op' \in [Shells -> Op] /\ UNCHANGED <<enc, head, history, wrote, contents, kills>>
    BY <1>5, OpAfter DEF RemovePlain
  <2>2. plain' \in [Secrets -> Contents \union {None}] /\ touched' \in [Secrets -> BOOLEAN]
    BY <1>5 DEF RemovePlain, TypeOK
  <2> QED BY <2>1, <2>2 DEF TypeOK
<1>6. CASE WritePlain(p)
  <2>1. op' \in [Shells -> Op] /\ UNCHANGED <<enc, head, history, wrote, touched, contents, kills>>
    BY <1>6, OpAfter DEF WritePlain
  <2>2. plain' \in [Secrets -> Contents \union {None}]
    BY <1>0, <1>6 DEF WritePlain, TypeOK
  <2> QED BY <2>1, <2>2 DEF TypeOK
<1> QED BY <1>2, <1>3, <1>4, <1>5, <1>6 DEF Step

LEMMA KillType ==
  ASSUME ConstantsOk, TypeOK, NEW p \in Shells, Kill(p)
  PROVE  TypeOK'
<1>1. op' \in [Shells -> Op] /\ kills' \in 0..MaxKills
      /\ UNCHANGED <<head, history, wrote, touched, contents>>
  BY OpAfter DEF Kill, TypeOK, ConstantsOk
<1>2. Torn \in Contents /\ TornCiphertext \in EncFiles
  BY DEF Torn, Contents, EncFiles, ConstantsOk
<1>3. /\ plain' \in {plain, [plain EXCEPT ![op[p].file] = Torn]}
      /\ enc' \in {enc, [enc EXCEPT ![op[p].file] = TornCiphertext]}
  BY DEF Kill
<1>4. plain' \in [Secrets -> Contents \union {None}] /\ enc' \in [Secrets -> EncFiles]
  BY <1>2, <1>3 DEF TypeOK
<1> QED BY <1>1, <1>4 DEF TypeOK

LEMMA UserType ==
  ASSUME ConstantsOk, TypeOK, NEW f \in Secrets,
         Edit(f) \/ GiveUp(f) \/ Commit(f) \/ Pull(f)
  PROVE  TypeOK'
<1>1. CASE Edit(f)
  BY <1>1 DEF Edit, TypeOK, Contents, ConstantsOk
<1>2. CASE GiveUp(f)
  BY <1>2 DEF GiveUp, TypeOK, Contents, ConstantsOk
<1>3. CASE Commit(f)
  <2>1. enc[f].content \in Contents
    BY <1>3, DecryptsType DEF Commit, TypeOK
  <2> QED BY <1>3, <2>1 DEF Commit, TypeOK
<1>4. CASE Pull(f)
  <2>1. contents + 1 \in Contents
    BY <1>4 DEF Pull, TypeOK, Contents, ConstantsOk
  <2>2. Encrypted(contents + 1, enc[f]) \in EncFiles
    BY <2>1, EncryptedType DEF EncFiles
  <2> QED BY <1>4, <2>1, <2>2 DEF Pull, TypeOK
<1> QED BY <1>1, <1>2, <1>3, <1>4

\* Every variable of SecretFiles keeps its shape.
THEOREM TypeCorrect == Spec => []TypeOK
<1>1. Init => TypeOK
  BY ConstantsOk, InitType
<1>2. ASSUME TypeOK, [Next]_vars
      PROVE  TypeOK'
  <2>1. CASE UNCHANGED vars
    BY <1>2, <2>1 DEF vars, TypeOK
  <2> QED BY <1>2, <2>1, ConstantsOk, StartType, StepType, KillType, UserType DEF Next
<1> QED BY <1>1, <1>2, PTL DEF Spec

-----------------------------------------------------------------------------
(* Where an edit is while a command runs. With two commands at once, or a  *)
(* plaintext file cut short, an edit can be lost: the theorems exclude     *)
(* both.                                                                   *)

OneShell == \A p, q \in Shells : p = q
PlaintextWhole == "restore" \notin TornAt

\* What a command still knows of the file it is at.
AtFile(p) ==
    LET f == op[p].file IN
    /\ op[p].step \notin {"idle", "next"} => f \in Secrets
    /\ op[p].step \in {"compare", "write", "remove"} => plain[f] = op[p].data
    /\ op[p].step = "write" => ~Matches(enc[f], op[p].data)
    /\ op[p].step \in {"remove", "look", "restore"} => Matches(enc[f], op[p].data)
    /\ op[p].step = "restore" => plain[f] = None

\* What the user last wrote was committed, or is in the plaintext file, or in
\* the .enc file if there is no plaintext one; and plaintext that nobody
\* edited is in the .enc file.
Kept(f) ==
    /\ Decrypts(head[f]) => head[f].content \in history[f]
    /\ wrote[f] # 0 /\ wrote[f] \notin history[f] =>
          IF plain[f] = None THEN Matches(enc[f], wrote[f]) ELSE plain[f] = wrote[f]
    /\ ~PullOverPlaintext /\ ~touched[f] /\ plain[f] # None => Matches(enc[f], plain[f])

EditInv == TypeOK /\ (\A p \in Shells : AtFile(p)) /\ (\A f \in Secrets : Kept(f))

\* A step that leaves all files but one's as they are.
LEMMA OthersKept ==
  ASSUME EditInv, NEW f,
         \A g \in Secrets : g # f =>
            /\ plain'[g] = plain[g] /\ enc'[g] = enc[g] /\ head'[g] = head[g]
            /\ history'[g] = history[g] /\ wrote'[g] = wrote[g] /\ touched'[g] = touched[g],
         \A g \in Secrets : g = f => Kept(g)'
  PROVE  \A g \in Secrets : Kept(g)'
<1> SUFFICES ASSUME NEW g \in Secrets, g # f
             PROVE  Kept(g)'
  OBVIOUS
<1> QED BY DEF EditInv, Kept, Matches, Decrypts

LEMMA StepKeeps ==
  ASSUME ConstantsOk, OneShell, EditInv, NEW p \in Shells, Step(p)
  PROVE  AtFile(p)' /\ \A f \in Secrets : Kept(f)'
<1> DEFINE f == op[p].file
<1> {"compare", "remove", "write", "restore"} \subseteq Steps
  BY DEF Steps
<1>0. /\ TypeOK /\ AtFile(p) /\ \A g \in Secrets : Kept(g)
      /\ op[p] \in Op /\ op[p].data \in Contents /\ op[p].todo \subseteq Secrets
  BY DEF EditInv, TypeOK, Op
<1>n. None \notin Contents /\ Idle.step = "idle"
  BY NoneIsNoFile DEF Idle
<1>1. ASSUME UNCHANGED Files
      PROVE  \A g \in Secrets : Kept(g)'
  <2>1. UNCHANGED <<plain, enc, head, history, wrote, touched>>
    BY <1>1 DEF Files
  <2> QED BY <1>0, <2>1 DEF Kept, Matches, Decrypts
<1>2. ASSUME op'[p].step \in {"idle", "next"}
      PROVE  AtFile(p)'
  BY <1>2 DEF AtFile
<1>3. CASE ReadPlain(p) \/ ReadEnc(p)
  <2>1. PICK g \in op[p].todo :
          \/ Stop(p)
          \/ /\ op' = [op EXCEPT ![p].step = "compare", ![p].file = g, ![p].data = plain[g]]
             /\ plain[g] # None
          \/ /\ op' = [op EXCEPT ![p].step = "look", ![p].file = g, ![p].data = enc[g].content]
             /\ Decrypts(enc[g])
    BY <1>3 DEF ReadPlain, ReadEnc
  <2>2. UNCHANGED Files /\ UNCHANGED <<plain, enc>>
    BY <1>3 DEF ReadPlain, ReadEnc, Files
  <2>3. \/ op'[p].step \in {"idle", "next"}
        \/ op'[p].step = "compare" /\ op'[p].file = g /\ op'[p].data = plain[g]
        \/ op'[p].step = "look" /\ op'[p].file = g /\ op'[p].data = enc[g].content
                                                   /\ Decrypts(enc[g])
    BY <1>0, <1>n, <2>1, OpAfter DEF TypeOK, Op
  <2>4. AtFile(p)'
    BY <1>0, <2>1, <2>2, <2>3 DEF AtFile, Matches, Decrypts
  <2> QED BY <1>1, <2>2, <2>4
<1>4. CASE Compare(p)
  <2>1. UNCHANGED Files /\ UNCHANGED <<plain, enc>>
    BY <1>4 DEF Compare, Files
  <2>2. /\ op[p].step = "compare" /\ op'[p].file = f /\ op'[p].data = op[p].data
        /\ op'[p].step = IF Matches(enc[f], op[p].data) THEN "remove" ELSE "write"
    BY <1>0, <1>4, OpAfter DEF Compare
  <2>3. AtFile(p)'
    BY <1>0, <2>1, <2>2 DEF AtFile, Matches, Decrypts
  <2> QED BY <1>1, <2>1, <2>3
<1>5. CASE WriteEnc(p)
  <2>1. /\ op[p].step = "write" /\ op'[p].file = f /\ op'[p].data = op[p].data
        /\ op'[p].step = "remove"
        /\ UNCHANGED <<plain, head, history, wrote, touched>>
        /\ \A g \in Secrets : g # f => enc'[g] = enc[g]
    BY <1>0, <1>5, OpAfter DEF WriteEnc, TypeOK
  <2>2. f \in Secrets /\ plain[f] = op[p].data
    BY <1>0, <2>1 DEF AtFile
  <2>3. Matches(enc'[f], op[p].data)
    BY <1>0, <1>5, <2>2, EncryptedType DEF WriteEnc, Matches, TypeOK
  <2>4. AtFile(p)'
    BY <1>0, <2>1, <2>2, <2>3 DEF AtFile, Matches, Decrypts
  <2>5. \A g \in Secrets : g = f => Kept(g)'
    BY <1>0, <1>n, <2>1, <2>2, <2>3 DEF Kept, Matches, Decrypts
  <2> QED BY <2>1, <2>4, <2>5, OthersKept
<1>6. CASE RemovePlain(p)
  <2>1. /\ op[p].step = "remove" /\ UNCHANGED <<enc, head, history, wrote>>
        /\ \A g \in Secrets : g # f => plain'[g] = plain[g] /\ touched'[g] = touched[g]
    BY <1>0, <1>6 DEF RemovePlain, TypeOK
  <2>2. f \in Secrets /\ plain[f] = op[p].data /\ Matches(enc[f], op[p].data)
    BY <1>0, <2>1 DEF AtFile
  <2>3. plain'[f] = None /\ op'[p].step \in {"idle", "next"}
    BY <1>0, <1>6, <1>n, <2>2, OpAfter DEF RemovePlain, TypeOK
  <2>4. \A g \in Secrets : g = f => Kept(g)'
    BY <1>0, <1>n, <2>1, <2>2, <2>3 DEF Kept, Matches, Decrypts
  <2> QED BY <1>2, <2>1, <2>3, <2>4, OthersKept
<1>7. CASE Look(p)
  <2>1. UNCHANGED Files /\ UNCHANGED <<plain, enc>>
    BY <1>7 DEF Look, Files
  <2>2. /\ op[p].step = "look"
        /\ \/ op'[p].step \in {"idle", "next"}
           \/ /\ op'[p].file = f /\ op'[p].data = op[p].data
              /\ op'[p].step = "restore" /\ plain[f] = None
    BY <1>0, <1>7, <1>n, OpAfter DEF Look
  <2>3. AtFile(p)'
    BY <1>0, <2>1, <2>2 DEF AtFile, Matches, Decrypts
  <2> QED BY <1>1, <2>1, <2>3
<1>8. CASE WritePlain(p)
  <2>1. /\ op[p].step = "restore" /\ UNCHANGED <<enc, head, history, wrote, touched>>
        /\ \A g \in Secrets : g # f => plain'[g] = plain[g]
        /\ op'[p].step \in {"idle", "next"}
    BY <1>0, <1>8, OpAfter DEF WritePlain, TypeOK
  <2>2. f \in Secrets /\ plain[f] = None /\ Matches(enc[f], op[p].data)
    BY <1>0, <2>1 DEF AtFile
  <2>3. plain'[f] = op[p].data
    BY <1>0, <1>8, <2>2 DEF WritePlain, TypeOK
  <2>4. \A g \in Secrets : g = f => Kept(g)'
    BY <1>0, <1>n, <2>1, <2>2, <2>3 DEF Kept, Matches, Decrypts
  <2> QED BY <1>2, <2>1, <2>4, OthersKept
<1> QED BY <1>3, <1>4, <1>5, <1>6, <1>7, <1>8 DEF Step

LEMMA KillKeeps ==
  ASSUME ConstantsOk, PlaintextWhole, EditInv, NEW p \in Shells, Kill(p)
  PROVE  AtFile(p)' /\ \A f \in Secrets : Kept(f)'
<1> DEFINE f == op[p].file
<1>0. TypeOK /\ AtFile(p) /\ \A g \in Secrets : Kept(g)
  BY DEF EditInv
<1>1. AtFile(p)'
  BY <1>0, OpAfter DEF Kill, AtFile, Idle
<1>2. /\ UNCHANGED <<plain, head, history, wrote, touched>>
      /\ \A g \in Secrets : g # f => enc'[g] = enc[g]
      /\ enc' # enc => op[p].step = "write"
  BY <1>0 DEF Kill, PlaintextWhole, TypeOK
<1>3. CASE enc' = enc
  BY <1>0, <1>1, <1>2, <1>3 DEF Kept, Matches, Decrypts
<1>4. CASE op[p].step = "write"
  <2>1. f \in Secrets /\ plain[f] = op[p].data /\ ~Matches(enc[f], plain[f]) /\ plain[f] # None
    BY <1>0, <1>4, NoneIsNoFile DEF AtFile, TypeOK, Op
  <2>2. \A g \in Secrets : g = f => Kept(g)'
    BY <1>0, <1>2, <2>1 DEF Kept, Matches, Decrypts
  <2> QED BY <1>1, <1>2, <2>2, OthersKept
<1> QED BY <1>2, <1>3, <1>4

LEMMA UserKeeps ==
  ASSUME ConstantsOk, EditInv, NEW f \in Secrets,
         Edit(f) \/ GiveUp(f) \/ Commit(f) \/ Pull(f)
  PROVE  (\A p \in Shells : AtFile(p)') /\ (\A g \in Secrets : Kept(g)')
<1>0. TypeOK /\ Kept(f)
  BY DEF EditInv
<1>n. None \notin Contents
  BY NoneIsNoFile
<1>1. \A p \in Shells : AtFile(p)'
  <2>1. \A p \in Shells : op'[p].step = "idle"
    BY DEF Edit, GiveUp, Commit, Pull, Quiet, Busy
  <2> QED BY <2>1 DEF AtFile
<1>2. CASE Edit(f)
  <2>1. /\ UNCHANGED <<enc, head, history>>
        /\ \A g \in Secrets : g # f => /\ plain'[g] = plain[g] /\ wrote'[g] = wrote[g]
                                       /\ touched'[g] = touched[g]
        /\ plain'[f] = wrote'[f] /\ plain'[f] \in 1..MaxContents /\ touched'[f] = TRUE
    BY <1>0, <1>2 DEF Edit, TypeOK
  <2>2. plain'[f] # None
    BY <1>n, <2>1 DEF Contents, ConstantsOk
  <2>3. Kept(f)'
    BY <1>0, <2>1, <2>2 DEF Kept, Matches, Decrypts
  <2> QED BY <1>1, <2>1, <2>3, OthersKept
<1>3. CASE GiveUp(f)
  <2>1. /\ UNCHANGED <<enc, head, history>>
        /\ \A g \in Secrets : g # f => /\ plain'[g] = plain[g] /\ wrote'[g] = wrote[g]
                                       /\ touched'[g] = touched[g]
        /\ plain'[f] = None /\ wrote'[f] = 0
    BY <1>0, <1>3 DEF GiveUp, TypeOK
  <2>2. Kept(f)'
    BY <1>0, <2>1 DEF Kept, Matches, Decrypts
  <2> QED BY <1>1, <2>1, <2>2, OthersKept
<1>4. CASE Commit(f)
  <2>1. /\ UNCHANGED <<plain, enc, wrote, touched>>
        /\ \A g \in Secrets : g # f => head'[g] = head[g] /\ history'[g] = history[g]
        /\ head'[f] = enc[f] /\ history'[f] = history[f] \union {enc[f].content}
    BY <1>0, <1>4 DEF Commit, TypeOK
  <2>2. Kept(f)'
    BY <1>0, <2>1 DEF Kept, Matches, Decrypts
  <2> QED BY <1>1, <2>1, <2>2, OthersKept
<1>5. CASE Pull(f)
  <2>1. contents + 1 \in Contents
    BY <1>0, <1>5 DEF Pull, TypeOK, Contents, ConstantsOk
  <2>2. /\ UNCHANGED <<plain, wrote, touched>> /\ enc[f] = head[f]
        /\ \A g \in Secrets : g # f =>
              enc'[g] = enc[g] /\ head'[g] = head[g] /\ history'[g] = history[g]
        /\ head'[f] = enc'[f] /\ enc'[f] = Encrypted(contents + 1, enc[f])
        /\ history'[f] = history[f] \union {contents + 1}
        /\ PullOverPlaintext \/ plain[f] = None
    BY <1>0, <1>5 DEF Pull, TypeOK
  <2>3. enc'[f].content = contents + 1 /\ Decrypts(enc'[f])
    BY <2>1, <2>2, EncryptedType
  <2>4. Matches(enc[f], wrote[f]) => wrote[f] \in history[f]
    BY <1>0, <2>2 DEF Kept, Matches
  <2>5. Kept(f)'
    BY <1>0, <2>2, <2>3, <2>4 DEF Kept, Matches, Decrypts
  <2> QED BY <1>1, <2>2, <2>5, OthersKept
<1> QED BY <1>2, <1>3, <1>4, <1>5

LEMMA NextKeeps ==
  ASSUME ConstantsOk, OneShell, PlaintextWhole, EditInv, TypeOK', [Next]_vars
  PROVE  EditInv'
<1>1. ASSUME NEW p \in Shells, Encrypt(p) \/ Decrypt(p)
      PROVE  EditInv'
  <2>1. op'[p].step = "next" /\ UNCHANGED <<plain, enc, head, history, wrote, touched>>
    BY <1>1, StartType DEF EditInv, Files
  <2>2. \A q \in Shells : AtFile(q)'
    BY <2>1 DEF OneShell, AtFile
  <2>3. \A f \in Secrets : Kept(f)'
    BY <2>1 DEF EditInv, Kept, Matches, Decrypts
  <2> QED BY <2>2, <2>3 DEF EditInv
<1>2. ASSUME NEW p \in Shells, Step(p) \/ Kill(p)
      PROVE  EditInv'
  <2>1. AtFile(p)' /\ \A f \in Secrets : Kept(f)'
    BY <1>2, StepKeeps, KillKeeps
  <2>2. \A q \in Shells : q = p
    BY DEF OneShell
  <2> QED BY <2>1, <2>2 DEF EditInv
<1>3. ASSUME NEW f \in Secrets, Edit(f) \/ GiveUp(f) \/ Commit(f) \/ Pull(f)
      PROVE  EditInv'
  BY <1>3, UserKeeps DEF EditInv
<1>4. CASE UNCHANGED vars
  BY <1>4 DEF vars, EditInv, AtFile, Kept, Matches, Decrypts
<1> QED BY <1>1, <1>2, <1>3, <1>4 DEF Next

LEMMA EditInvHolds == ASSUME OneShell, PlaintextWhole PROVE Spec => []EditInv
<1>1. Init => EditInv
  <2>1. ASSUME Init
        PROVE  (\A p \in Shells : AtFile(p)) /\ (\A f \in Secrets : Kept(f))
    BY <2>1 DEF Init, AtFile, Kept, Matches, Decrypts, Idle
  <2> QED BY <2>1, ConstantsOk, InitType DEF EditInv
<1>2. TypeOK' /\ EditInv /\ [Next]_vars => EditInv'
  BY ConstantsOk, NextKeeps
<1> QED BY <1>1, <1>2, TypeCorrect, PTL DEF Spec

-----------------------------------------------------------------------------
(* The results *)

\* What the user last wrote is in the plaintext file, the .enc file or a
\* commit, wherever encrypt or decrypt was killed, also in the middle of
\* writing an .enc file, and even if the user pulls over old plaintext.
THEOREM NoEditIsLost ==
  ASSUME OneShell, PlaintextWhole PROVE Spec => []NoEditLost
<1>1. EditInv => NoEditLost
  BY DEF EditInv, Kept, NoEditLost
<1> QED BY <1>1, EditInvHolds, PTL

\* An encryption writes a file that differs from the plaintext.
LEMMA EncryptingFile ==
  ASSUME ConstantsOk, OneShell, EditInv, [Next]_vars, NEW f \in Secrets, Encrypting(f)
  PROVE  plain[f] \in Contents /\ ~Matches(enc[f], plain[f])
<1>1. PICK p \in Shells : op[p].step = "write" /\ op[p].file = f /\ op'[p].step = "remove"
  BY DEF Encrypting
<1>2. \A q \in Shells : q = p
  BY DEF OneShell
<1>3. WriteEnc(p)
  <2>1. op' # op /\ ~Quiet
    BY <1>1 DEF Quiet, Busy
  <2>2. Encrypt(p) \/ Decrypt(p) \/ Step(p) \/ Kill(p)
    BY <1>2, <2>1 DEF Next, vars, Edit, GiveUp, Commit, Pull
  <2>3. ~Encrypt(p) /\ ~Decrypt(p)
    BY <1>1 DEF Encrypt, Decrypt, Start, Busy
  <2>4. ~Kill(p)
    BY <1>1, OpAfter DEF Kill, EditInv, Idle
  <2> QED BY <1>1, <2>2, <2>3, <2>4
          DEF Step, ReadPlain, Compare, RemovePlain, ReadEnc, Look, WritePlain
<1>4. plain[f] = op[p].data /\ ~Matches(enc[f], plain[f]) /\ op[p].data \in Contents
  BY <1>1 DEF EditInv, AtFile, TypeOK, Op
<1> QED BY <1>4

\* A secret that was decrypted and not edited keeps its .enc file, provided
\* that nothing is pulled while plaintext lies around.
THEOREM UntouchedIsKept ==
  ASSUME OneShell, PlaintextWhole, ~PullOverPlaintext PROVE Spec => UntouchedKept
<1>1. ASSUME EditInv, [Next]_vars, NEW f \in Secrets, Encrypting(f)
      PROVE  touched[f]
  BY <1>1, ConstantsOk, EncryptingFile, NoneIsNoFile DEF EditInv, Kept
<1>2. EditInv /\ [Next]_vars => [\A f \in Secrets : Encrypting(f) => touched[f]]_vars
  BY <1>1
<1> QED BY <1>2, EditInvHolds, PTL DEF Spec, UntouchedKept
=============================================================================
