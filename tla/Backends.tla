------------------------------ MODULE Backends ------------------------------
(***************************************************************************)
(* `penhan push` from one clone of a safe to a Vault server, or to a       *)
(* directory of encrypted files, which others write as well: other clones, *)
(* people, git. `penhan check` is its first half. One request, or one      *)
(* system call on a file of the directory, is one step.                    *)
(*                                                                         *)
(* A secret may have several files in the clone: plaintext or encrypted,   *)
(* in YAML or JSON. They have one path in the backend, and push chooses.   *)
(***************************************************************************)
EXTENDS Naturals

CONSTANTS
    Files,       \* names of the secret files
    Enc,         \* those that end in .enc
    PathOf,      \* the backend path of each: the name without its extensions
    Before,      \* the order of strings on names and paths, as a set of pairs
    Contents,    \* canonical contents of a secret
    None,        \* no file, no secret
    Broken       \* a file that is cut short, or cannot be decrypted or parsed

Paths == {PathOf[n] : n \in Files}

ASSUME ConstantsOk ==
    /\ Enc \subseteq Files
    /\ {None, Broken} \intersect Contents = {} /\ None # Broken
    /\ \A n, m \in Files : <<n, m>> \in Before /\ <<m, n>> \in Before => n = m
    /\ \A S \in (SUBSET Files) \union (SUBSET Paths) :
          S # {} => /\ \E f \in S : \A g \in S : <<f, g>> \in Before
                    /\ \E f \in S : \A g \in S : <<g, f>> \in Before

VARIABLES
    kind,      \* the backend of the safe, in penhan.yaml
    files,     \* the secret files of the clone
    store,     \* what the backend holds at each path
    op,        \* the command that runs
    settled    \* from now on nothing changes or fails, except by a push

vars == <<kind, files, store, op, settled>>

-----------------------------------------------------------------------------
(* collectLocalSecrets *)

First(S) == CHOOSE f \in S : \A g \in S : <<f, g>> \in Before
Last(S) == CHOOSE f \in S : \A g \in S : <<g, f>> \in Before

\* Mutant of Reads: the encrypted copy is read behind its plaintext.
ReadsAll(fs, n) == n \in Files /\ fs[n] # None

\* The walk goes through the names in order. An encrypted file is passed over
\* when a file of the same path came before it.
Reads(fs, n) ==
    /\ fs[n] # None
    /\ n \in Enc => \A m \in Files \ {n} :
          PathOf[m] = PathOf[n] /\ <<m, n>> \in Before => fs[m] = None

\* One file that cannot be decrypted or parsed fails the command.
Collectable(fs) == \A n \in Files : Reads(fs, n) => fs[n] # Broken

\* The file that is read last gives the content of the path.
Collected(fs) == [f \in Paths |->
    LET read == {n \in Files : PathOf[n] = f /\ Reads(fs, n)} IN
    IF read = {} THEN None ELSE fs[Last(read)]]

Wanted(want) == {f \in Paths : want[f] # None}

-----------------------------------------------------------------------------
(* runPush *)

\* todo: what checkSecrets has still to compare; need: what NeedsPush; others:
\* the secrets others have written in the backend since the command began.
Steps == {"idle", "check", "push", "resend", "fill"}
Idle == [step |-> "idle", want |-> [f \in Paths |-> None], todo |-> {}, need |-> {},
         others |-> {}]
Op == [step : Steps, want : [Paths -> Contents \union {None}],
       todo : SUBSET Paths, need : SUBSET Paths, others : SUBSET Paths]

Become(o) == op' = o
Stop == Become(Idle)

Push ==
    /\ op.step = "idle" /\ Collectable(files)
    /\ Wanted(Collected(files)) # {}
    /\ Become([Idle EXCEPT !.step = "check", !.want = Collected(files),
                           !.todo = Wanted(Collected(files))])
    /\ UNCHANGED <<kind, files, store, settled>>

\* Mutants of NeedsPush: a changed secret counts as unchanged, and an
\* unchanged one as changed.
NeedsPushNew(f) == f \in Paths /\ store[f] = None
NeedsPushAll(f) == f \in Paths /\ op.want[f] # None

\* The hash of what Pull returns, "" for nothing, against the local one.
NeedsPush(f) == store[f] # op.want[f]

\* checkSecrets: a copy that Pull cannot decrypt fails the command.
Check ==
    /\ op.step = "check" /\ op.todo # {}
    /\ LET f == First(op.todo) IN
       IF store[f] = Broken THEN Stop
       ELSE Become([op EXCEPT !.todo = @ \ {f},
                              !.need = IF NeedsPush(f) THEN @ \union {f} ELSE @])
    /\ UNCHANGED <<kind, files, store, settled>>

Checked ==
    /\ op.step = "check" /\ op.todo = {}
    /\ Become([op EXCEPT !.step = "push"])
    /\ UNCHANGED <<kind, files, store, settled>>

Put(f, x) == store' = [store EXCEPT ![f] = x]

\* Mutant of Done: the loop does not come back to its head.
DoneStaying(f) == [op EXCEPT !.need = @ \ {f}]

\* The loop of runPush goes on behind f.
Done(f) == [op EXCEPT !.step = "push", !.need = @ \ {f}]

\* Vault replaces the secret as a whole. Its answer may be lost: the client,
\* of Vault's DefaultConfig, then sends the write again, or gives up.
Write ==
    /\ op.step \in {"push", "resend"} /\ op.need # {} /\ kind = "vault"
    /\ LET f == First(op.need) IN
       /\ Put(f, op.want[f])
       /\ \/ Become(Done(f))
          \/ ~settled /\ Become([op EXCEPT !.step = "resend"])
          \/ ~settled /\ Stop
    /\ UNCHANGED <<kind, files, settled>>

\* os.WriteFile empties the file, or makes it ...
Open ==
    /\ op.step = "push" /\ op.need # {} /\ kind = "file"
    /\ Put(First(op.need), Broken)
    /\ Become([op EXCEPT !.step = "fill"])
    /\ UNCHANGED <<kind, files, settled>>

\* ... and writes it. If somebody else has written it since, the rest of a
\* longer one stays behind; if it was deleted or replaced, this is for nothing.
Fill ==
    /\ op.step = "fill"
    /\ LET f == First(op.need) IN
       /\ \/ Put(f, op.want[f])
          \/ store[f] # Broken /\ \E x \in {Broken, store[f]} : Put(f, x)
       /\ Become(Done(f))
    /\ UNCHANGED <<kind, files, settled>>

Complete ==
    /\ op.step = "push" /\ op.need = {}
    /\ Stop
    /\ UNCHANGED <<kind, files, store, settled>>

\* A request or a write fails, or the process dies: what is done is done.
Fail ==
    /\ ~settled /\ op.step # "idle"
    /\ Stop
    /\ UNCHANGED <<kind, files, store, settled>>

-----------------------------------------------------------------------------
(* Everybody else *)

\* The user, encrypt, decrypt or git changes a secret file. A push has read
\* them all: to it, a change while it runs is one made after it.
Edit(n) ==
    /\ ~settled /\ op.step = "idle"
    /\ \E x \in Contents \union {None, Broken} : files' = [files EXCEPT ![n] = x]
    /\ UNCHANGED <<kind, store, op, settled>>

\* Another clone pushes, a person writes or deletes, git brings another copy.
\* A file may be cut short, or be encrypted with another key.
OthersWrite(f) ==
    /\ ~settled
    /\ \E x \in Contents \union {None} \union (IF kind = "file" THEN {Broken} ELSE {}) :
          Put(f, x)
    /\ Become(IF op.step = "idle" THEN op ELSE [op EXCEPT !.others = @ \union {f}])
    /\ UNCHANGED <<kind, files, settled>>

Settle ==
    /\ settled' = TRUE
    /\ UNCHANGED <<kind, files, store, op>>

-----------------------------------------------------------------------------
Init ==
    /\ kind \in {"vault", "file"}
    /\ files = [n \in Files |-> None]
    /\ store = [f \in Paths |-> None]
    /\ op = Idle
    /\ settled = FALSE

Command == Push \/ Check \/ Checked \/ Write \/ Open \/ Fill \/ Complete

Next ==
    \/ Command \/ Fail \/ Settle
    \/ \E n \in Files : Edit(n)
    \/ \E f \in Paths : OthersWrite(f)

Spec == Init /\ [][Next]_vars

\* A command that runs goes on, and the user runs push again.
LiveSpec == Spec /\ WF_vars(Command)

-----------------------------------------------------------------------------
(* Properties *)

\* Every variable keeps its shape; a secret to be pushed has a content, and
\* what is being written is the first of them.
TypeOK ==
    /\ kind \in {"vault", "file"}
    /\ files \in [Files -> Contents \union {None, Broken}]
    /\ store \in [Paths -> Contents \union {None, Broken}]
    /\ kind = "vault" => \A f \in Paths : store[f] # Broken
    /\ op \in Op
    /\ op.todo \union op.need \subseteq Wanted(op.want)
    /\ op.step = "fill" => kind = "file" /\ op.need # {}
    /\ op.step = "resend" => kind = "vault" /\ op.need # {}
    /\ settled \in BOOLEAN

\* A push that completes has every secret it read in the backend, the ones it
\* wrote and the ones it skipped (push.go:45-55), but for those that others
\* wrote meanwhile; whatever they do to the other secrets.
PushedInSync ==
    op.step = "push" /\ op.need = {} =>
        \A f \in Wanted(op.want) \ op.others : store[f] = op.want[f]

\* "Secrets whose hash already matches the backend are skipped" (push.go:13):
\* what push is still to write and nobody else writes is not there yet, also
\* after earlier pushes that stopped halfway. No secret in Vault gets a
\* version, and no file new bytes, for the same content, but for a write that
\* the client sends again because its answer was lost.
MatchingSkipped ==
    op.step \in {"check", "push"} =>
        \A f \in op.need \ op.others : store[f] # op.want[f]

\* "The plaintext wins (it is the editable copy)", sync.go:113: whatever
\* formats and copies there are, an edit is never passed over for the
\* encrypted copy it is to replace.
PlaintextWins == [][op.step = "idle" /\ op'.step = "check" =>
    \A n \in Files \ Enc : files[n] # None =>
        \E m \in Files \ Enc : PathOf[m] = PathOf[n] /\ op'.want[PathOf[n]] = files[m]]_vars

\* Both backends are the store that push promises. To it, a file is cut short
\* between the two system calls of a write.
Store == INSTANCE SecretStore WITH
    Partial <- {Broken}, want <- op.want, others <- op.others,
    done <- op.step = "push" /\ op.need = {}
ImplementsStore == Store!Spec

InSync == LET want == Collected(files) IN \A f \in Wanted(want) : store[f] = want[f]

\* No push gets through: a file of the clone, or the copy in the directory of
\* a secret to be pushed, is broken, and somebody has to repair it.
Blocked == \/ ~Collectable(files)
           \/ LET want == Collected(files) IN \E f \in Wanted(want) : store[f] = Broken

\* Whatever was written, failed or was killed before: once it is quiet, the
\* pushes that follow end with all secrets in the backend, or find themselves
\* blocked: not just while one of them is writing a file.
PushConverges == settled ~> op.step = "idle" /\ (InSync \/ Blocked)
=============================================================================
