---------------------------- MODULE SecretFiles ----------------------------
(***************************************************************************)
(* The secret files of one safe under `penhan encrypt` and `decrypt`:      *)
(* each secret may have a plaintext file, which git ignores, and an .enc   *)
(* file, which git tracks. The user edits plaintext, commits, and pulls    *)
(* what others pushed; commands run in shells, one system call per step.   *)
(*                                                                         *)
(* A content is a number; each edit may write one never seen before. The   *)
(* cipher is randomized: an .enc file is a content and a salt, and         *)
(* encrypting again never gives the bytes that were there.                 *)
(***************************************************************************)
EXTENDS Naturals

CONSTANTS
    Secrets,            \* the secrets of the safe
    Shells,             \* shells in which encrypt and decrypt run
    None,               \* no such file
    MaxContents,        \* bound on the contents ever written
    MaxKills,           \* bound on killed commands
    TornAt,             \* the writes a kill can leave incomplete
    PullOverPlaintext   \* whether the user pulls while plaintext lies around

ASSUME ConstantsOk ==
    /\ MaxContents \in Nat /\ MaxKills \in Nat
    /\ TornAt \subseteq {"write", "restore"} /\ PullOverPlaintext \in BOOLEAN

VARIABLES
    plain,     \* plaintext files
    enc,       \* .enc files in the work tree
    head,      \* .enc files of the last commit
    history,   \* contents that are in some commit
    wrote,     \* what the user last wrote and did not give up; 0 if nothing
    touched,   \* the user edited the plaintext file that is there
    op,        \* the command running in each shell
    contents,  \* how many contents were written so far
    kills      \* how many commands were killed

vars == <<plain, enc, head, history, wrote, touched, op, contents, kills>>

\* Content 0 is the torn one: what is left of a plaintext cut short. A torn
\* .enc file fails authentication, so it is not a ciphertext of anything.
Torn == 0
Contents == 0..MaxContents
Salts == {0, 1}
Ciphertexts == [content : Contents, salt : Salts]
TornCiphertext == [content |-> 0, salt |-> 2]

ASSUME NoneIsNoFile ==
    None \notin Secrets \union Contents \union Ciphertexts \union {TornCiphertext}

EncFiles == Ciphertexts \union {None, TornCiphertext}

Decrypts(e) == e \notin {None, TornCiphertext}

\* Mutant of Encrypted: the nonce is counted up, and runs out of its width.
EncryptedCounting(c, old) == [content |-> c, salt |-> IF old # None THEN old.salt + 1 ELSE 0]

\* Encrypt with a fresh nonce or session key.
Encrypted(c, old) == [content |-> c, salt |-> IF old # None /\ old.salt = 0 THEN 1 ELSE 0]

Steps == {"idle", "next", "compare", "write", "remove", "look", "restore"}
Idle == [cmd |-> "none", step |-> "idle", todo |-> {}, file |-> None, data |-> Torn]
Op == [cmd : {"none", "encrypt", "decrypt"}, step : Steps, todo : SUBSET Secrets,
       file : Secrets \union {None}, data : Contents]

Busy(p) == op[p].step # "idle"
Quiet == \A p \in Shells : ~Busy(p)

-----------------------------------------------------------------------------
(* runCrypt: walk over the named files, or all, and stop at the first error *)

Files == <<plain, enc, head, history, wrote, touched, contents, kills>>

Start(p, cmd, todo) ==
    /\ ~Busy(p)
    /\ todo # {}
    /\ op' = [op EXCEPT ![p] = [Idle EXCEPT !.cmd = cmd, !.step = "next", !.todo = todo]]
    /\ UNCHANGED Files

Encrypt(p) == \E todo \in SUBSET {f \in Secrets : plain[f] # None} : Start(p, "encrypt", todo)
Decrypt(p) == \E todo \in SUBSET {f \in Secrets : enc[f] # None} : Start(p, "decrypt", todo)

Goto(p, step) == op' = [op EXCEPT ![p].step = step]
Stop(p) == op' = [op EXCEPT ![p] = Idle]
NextFile(p) == IF op[p].todo = {op[p].file} THEN Stop(p)
               ELSE op' = [op EXCEPT ![p].step = "next", ![p].todo = @ \ {op[p].file}]

-----------------------------------------------------------------------------
(* encryptFile *)

ReadPlain(p) ==
    /\ op[p].cmd = "encrypt" /\ op[p].step = "next"
    /\ \E f \in op[p].todo :
          IF plain[f] = None THEN Stop(p)
          ELSE op' = [op EXCEPT ![p].step = "compare", ![p].file = f, ![p].data = plain[f]]
    /\ UNCHANGED Files

\* Mutant of Matches: encrypt always encrypts again.
MatchesNever(e, data) == e = None /\ data = Torn

\* encryptedCopyMatches
Matches(e, data) == Decrypts(e) /\ e.content = data

Compare(p) ==
    /\ op[p].step = "compare"
    /\ Goto(p, IF Matches(enc[op[p].file], op[p].data) THEN "remove" ELSE "write")
    /\ UNCHANGED Files

WriteEnc(p) ==
    LET f == op[p].file IN
    /\ op[p].step = "write"
    /\ enc' = [enc EXCEPT ![f] = Encrypted(op[p].data, @)]
    /\ Goto(p, "remove")
    /\ UNCHANGED <<plain, head, history, wrote, touched, contents, kills>>

RemovePlain(p) ==
    LET f == op[p].file IN
    /\ op[p].step = "remove"
    /\ IF plain[f] = None
       THEN Stop(p) /\ UNCHANGED <<plain, touched>>
       ELSE /\ plain' = [plain EXCEPT ![f] = None]
            /\ touched' = [touched EXCEPT ![f] = FALSE]
            /\ NextFile(p)
    /\ UNCHANGED <<enc, head, history, wrote, contents, kills>>

-----------------------------------------------------------------------------
(* decryptFile *)

ReadEnc(p) ==
    /\ op[p].cmd = "decrypt" /\ op[p].step = "next"
    /\ \E f \in op[p].todo :
          IF ~Decrypts(enc[f]) THEN Stop(p)
          ELSE op' = [op EXCEPT ![p].step = "look", ![p].file = f, ![p].data = enc[f].content]
    /\ UNCHANGED Files

\* Mutant of Look: a plaintext file that differs is overwritten.
LookOverwriting(p) ==
    /\ op[p].step = "look"
    /\ IF plain[op[p].file] = op[p].data THEN NextFile(p) ELSE Goto(p, "restore")
    /\ UNCHANGED Files

\* A plaintext file is kept: it is the same, or it stops the command.
Look(p) ==
    LET existing == plain[op[p].file] IN
    /\ op[p].step = "look"
    /\ CASE existing = None       -> Goto(p, "restore")
         [] existing = op[p].data -> NextFile(p)
         [] OTHER                 -> Stop(p)
    /\ UNCHANGED Files

WritePlain(p) ==
    LET f == op[p].file IN
    /\ op[p].step = "restore"
    /\ plain' = [plain EXCEPT ![f] = op[p].data]
    /\ NextFile(p)
    /\ UNCHANGED <<enc, head, history, wrote, touched, contents, kills>>

Step(p) == \/ ReadPlain(p) \/ Compare(p) \/ WriteEnc(p) \/ RemovePlain(p)
           \/ ReadEnc(p) \/ Look(p) \/ WritePlain(p)

\* The process is killed; os.WriteFile may have truncated its file by then.
Kill(p) ==
    LET f == op[p].file IN
    /\ Busy(p) /\ kills < MaxKills /\ kills' = kills + 1
    /\ Stop(p)
    /\ \E torn \in SUBSET (TornAt \intersect {op[p].step}) :
          /\ enc' = IF "write" \in torn THEN [enc EXCEPT ![f] = TornCiphertext] ELSE enc
          /\ plain' = IF "restore" \in torn THEN [plain EXCEPT ![f] = Torn] ELSE plain
    /\ UNCHANGED <<head, history, wrote, touched, contents>>

-----------------------------------------------------------------------------
(* The user, between commands *)

\* Write a plaintext file: a new content, or go back to an earlier one.
Edit(f) ==
    /\ Quiet
    /\ \E c \in 1..MaxContents :
          /\ c <= contents + 1 /\ c # plain[f]
          /\ plain' = [plain EXCEPT ![f] = c]
          /\ wrote' = [wrote EXCEPT ![f] = c]
          /\ contents' = IF c > contents THEN c ELSE contents
    /\ touched' = [touched EXCEPT ![f] = TRUE]
    /\ UNCHANGED <<enc, head, history, op, kills>>

\* Remove a plaintext file: its edits are given up.
GiveUp(f) ==
    /\ Quiet /\ plain[f] # None
    /\ plain' = [plain EXCEPT ![f] = None]
    /\ wrote' = [wrote EXCEPT ![f] = 0]
    /\ touched' = [touched EXCEPT ![f] = FALSE]
    /\ UNCHANGED <<enc, head, history, op, contents, kills>>

Commit(f) ==
    /\ Quiet /\ Decrypts(enc[f]) /\ head[f] # enc[f]
    /\ head' = [head EXCEPT ![f] = enc[f]]
    /\ history' = [history EXCEPT ![f] = @ \union {enc[f].content}]
    /\ UNCHANGED <<plain, enc, wrote, touched, op, contents, kills>>

\* git pull brings a newer .enc; git refuses over uncommitted changes to it,
\* and knows nothing of the plaintext.
Pull(f) ==
    /\ Quiet /\ contents < MaxContents
    /\ enc[f] = head[f]
    /\ PullOverPlaintext \/ plain[f] = None
    /\ contents' = contents + 1
    /\ enc' = [enc EXCEPT ![f] = Encrypted(contents + 1, @)]
    /\ head' = [head EXCEPT ![f] = enc'[f]]
    /\ history' = [history EXCEPT ![f] = @ \union {contents + 1}]
    /\ UNCHANGED <<plain, wrote, touched, op, kills>>

-----------------------------------------------------------------------------
Init ==
    /\ plain = [f \in Secrets |-> None] /\ enc = [f \in Secrets |-> None]
    /\ head = enc /\ history = [f \in Secrets |-> {}]
    /\ wrote = [f \in Secrets |-> 0] /\ touched = [f \in Secrets |-> FALSE]
    /\ op = [p \in Shells |-> Idle]
    /\ contents = 0 /\ kills = 0

Next ==
    \/ \E p \in Shells : Encrypt(p) \/ Decrypt(p) \/ Step(p) \/ Kill(p)
    \/ \E f \in Secrets : Edit(f) \/ GiveUp(f) \/ Commit(f) \/ Pull(f)

Spec == Init /\ [][Next]_vars

-----------------------------------------------------------------------------
(* Properties *)

\* Every variable keeps its shape.
TypeOK ==
    /\ plain \in [Secrets -> Contents \union {None}]
    /\ enc \in [Secrets -> EncFiles] /\ head \in [Secrets -> EncFiles]
    /\ history \in [Secrets -> SUBSET Contents]
    /\ wrote \in [Secrets -> Contents] /\ touched \in [Secrets -> BOOLEAN]
    /\ op \in [Shells -> Op]
    /\ contents \in Contents /\ kills \in 0..MaxKills

\* Local edits are never lost: what the user last wrote is in the plaintext
\* file, in the .enc file or in a commit, whatever runs or is killed.
NoEditLost ==
    \A f \in Secrets : wrote[f] # 0 =>
        \/ plain[f] = wrote[f]
        \/ Matches(enc[f], wrote[f])
        \/ wrote[f] \in history[f]

Encrypting(f) == \E p \in Shells : op[p].step = "write" /\ op[p].file = f
                                     /\ op'[p].step = "remove"

\* Secrets that were decrypted but not changed keep their .enc files.
UntouchedKept ==
    [][\A f \in Secrets : Encrypting(f) => touched[f]]_vars

=============================================================================
