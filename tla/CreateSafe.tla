----------------------------- MODULE CreateSafe -----------------------------
(***************************************************************************)
(* How `penhan add` builds a safe, how `access grant` and `unlock` place   *)
(* the master key, and how each of them keeps the private files it made    *)
(* out of git with .gitignore: which files a project has, which of them    *)
(* git ignores, and which have been committed.                             *)
(*                                                                         *)
(* A file is a pair of a place (a safe's directory or the project root)    *)
(* and a kind; a .gitignore entry is the file it matches (the three        *)
(* patterns for plaintext secrets are one entry). Commands make one write  *)
(* per step; one can fail, and then cleans up, or be killed, and does not. *)
(***************************************************************************)
EXTENDS Naturals

CONSTANTS
    Safes, Root,   \* safe names, and the place of the project's own files
    VaultSafes,    \* the safes whose backend is Vault: they hold a token
    Procs,         \* shells, and those that have $PENHAN_MASTER_KEY
    Environment,
    Tails,         \* how the user may have left .gitignore, see tail
    MaxKeys,       \* bound on the keys generated
    MaxStops       \* bound on commands that fail or are killed

ASSUME ConstantsOk ==
    /\ Root \notin Safes /\ VaultSafes \subseteq Safes
    /\ Environment \subseteq Procs /\ Tails \subseteq {"ended", "text", "blank"}
    /\ MaxKeys \in Nat /\ MaxStops \in Nat

VARIABLES
    files,      \* the files that exist
    keyOf,      \* per safe, the key of its key file; 0 when there is none
    whole,      \* the safes whose key file holds its key in full
    ignored,    \* the files .gitignore has an entry for
    indented,   \* the entries penhan reads there and git does not: behind blanks
    tail,       \* .gitignore ends in the middle of a line ("text"), or is
                \* nothing but blanks ("blank")
    committed,  \* the private files that have ever been committed
    op,         \* per shell, the command in progress
    issued,     \* history: the safes and keys of the adds that succeeded
                \* without another add of the safe meanwhile
    keys,       \* how many keys were generated
    stops,      \* how many commands failed or were killed
    trouble,    \* the last command failed: the user has yet to sort it out
    bare        \* a revoke stored the master key where there was none

keyVars == <<keyOf, whole, keys>>
ignoreVars == <<ignored, indented, tail>>
vars == <<files, keyVars, ignoreVars, committed, op, issued, stops, trouble, bare>>

Master == <<Root, "master">>   \* .penhan/master.key
Access == <<Root, "access">>   \* .penhan/access.yaml, with master.age

\* "own" stands for what the user put in a directory made before `add`.
Kinds == {"own", "dirs", "config", "token", "key", "wrapped", "secret"}
Paths == (Safes \X Kinds) \union {Master, Access}
Private == (Safes \X {"token", "key", "secret"}) \union {Master}

Directory(s) == {f \in files : f[1] = s}

-----------------------------------------------------------------------------
(* Commands *)

Steps == {"idle", "dirs", "config", "token", "key", "fill", "wrapped",
          "store", "access", "ignore", "append"}

Idle == [cmd |-> "none", step |-> "idle", place |-> Root, created |-> FALSE,
         wrap |-> FALSE, made |-> 0, met |-> FALSE, lines |-> {}, newline |-> FALSE]

Op == [cmd : {"none", "add", "grant", "revoke", "unlock"}, step : Steps,
       place : Safes \union {Root}, created : BOOLEAN, wrap : BOOLEAN,
       made : 0..MaxKeys,   \* history: the key this command generated, and
       met : BOOLEAN,       \* whether another add of the safe ran meanwhile
       lines : SUBSET Private, newline : BOOLEAN]

Busy(p) == op[p].step # "idle"
Quiet == \A p \in Procs : ~Busy(p)

\* Mutants of Entries: the Vault token is forgotten; the pattern for the key
\* also matches the wrapped key, which is to be committed.
EntriesWithoutToken(s) == {<<s, "secret">>, <<s, "key">>}
EntriesTooWide(s) == {<<s, "secret">>, <<s, "key">>, <<s, "wrapped">>}

\* gitignoreEntries of a safe, and ignoreMasterKey's entry.
Entries(s) == {<<s, "secret">>, <<s, "key">>}
                \union IF s \in VaultSafes THEN {<<s, "token">>} ELSE {}

\* The order of a safe's entries.
Before(d, e) == \/ d[2] = "secret" /\ e[2] \in {"key", "token"}
                \/ d[2] = "key" /\ e[2] = "token"

Adds(o, s) == o.cmd = "add" /\ o.place = s
Begin(p, o) ==
    /\ ~Busy(p)
    /\ op' = [q \in Procs |->
                IF q = p
                THEN [o EXCEPT !.met = o.cmd = "add" /\ \E r \in Procs : Adds(op[r], o.place)]
                ELSE [op[q] EXCEPT !.met = @ \/ (o.cmd = "add" /\ Adds(op[q], o.place))]]
Continue(p, step) == op' = [op EXCEPT ![p].step = step]
Finish(p) == op' = [op EXCEPT ![p] = Idle]
Complete(p) ==
    /\ Finish(p) /\ trouble' = FALSE
    /\ issued' = issued \union (IF op[p].cmd = "add" /\ ~op[p].met
                                THEN {<<op[p].place, op[p].made>>} ELSE {})

\* LoadMaster finds the master key, in the clone or in the environment.
HasMaster(p) == Master \in files \/ p \in Environment

\* The checks at the top of createSafe. An unlocked master key is needed if
\* the project has one; `created` decides about cleaning up later.
Add(p, s) ==
    /\ Access \in files => HasMaster(p)
    /\ <<s, "config">> \notin files
    /\ Begin(p, [Idle EXCEPT !.cmd = "add", !.step = "dirs", !.place = s,
                             !.created = Directory(s) = {},
                             !.wrap = Access \in files, !.lines = Entries(s)])
    /\ UNCHANGED <<files, keyVars, ignoreVars, committed, issued, stops, trouble, bare>>

\* The first grant creates the master key; a later one that changes something
\* needs it, and leaves the file alone.
Grant(p) ==
    /\ Access \in files => HasMaster(p)
    /\ Begin(p, [Idle EXCEPT !.cmd = "grant", !.lines = {Master},
                             !.step = IF Access \in files THEN "access" ELSE "store"])
    /\ UNCHANGED <<files, keyVars, ignoreVars, committed, issued, stops, trouble, bare>>

\* A revoke needs the master key too, and stores the new one last. Of all the
\* commands that store it, it alone does not see to .gitignore.
Revoke(p) ==
    /\ Access \in files /\ HasMaster(p)
    /\ Begin(p, [Idle EXCEPT !.cmd = "revoke", !.step = "access"])
    /\ UNCHANGED <<files, keyVars, ignoreVars, committed, issued, stops, trouble, bare>>

Unlock(p) ==
    /\ Access \in files
    /\ Begin(p, [Idle EXCEPT !.cmd = "unlock", !.step = "store", !.lines = {Master}])
    /\ UNCHANGED <<files, keyVars, ignoreVars, committed, issued, stops, trouble, bare>>

\* A grant to somebody who already has access, and an add of a safe that is
\* already initialized, end there: neither looks at .gitignore.
NothingToDo(p) ==
    /\ ~Busy(p) /\ trouble
    /\ \/ Access \in files /\ HasMaster(p)
       \/ \E s \in Safes : <<s, "config">> \in files
    /\ trouble' = FALSE
    /\ UNCHANGED <<files, keyVars, ignoreVars, committed, op, issued, stops, bare>>

-----------------------------------------------------------------------------
(* The writes, in the order of the code *)

Create(f) == files' = files \union {f}

\* Writing into a directory fails when another shell has removed it.
Usable(p) == op[p].place = Root \/ <<op[p].place, "dirs">> \in files

MakeDirs(p) ==
    /\ op[p].step = "dirs"
    /\ Create(<<op[p].place, "dirs">>) /\ Continue(p, "config")
    /\ UNCHANGED <<keyVars, ignoreVars, committed, issued, stops, trouble, bare>>

SaveConfig(p) ==
    /\ op[p].step = "config" /\ Usable(p)
    /\ Create(<<op[p].place, "config">>)
    /\ Continue(p, IF op[p].place \in VaultSafes THEN "token" ELSE "key")
    /\ UNCHANGED <<keyVars, ignoreVars, committed, issued, stops, trouble, bare>>

WriteToken(p) ==
    /\ op[p].step = "token" /\ Usable(p)
    /\ Create(<<op[p].place, "token">>) /\ Continue(p, "key")
    /\ UNCHANGED <<keyVars, ignoreVars, committed, issued, stops, trouble, bare>>

\* Mutant of KeyFree: the file is opened without O_EXCL.
KeyFreeAlways(s) == s \in Safes

\* writeKey opens the file with O_EXCL: it creates a key, it never replaces
\* one. What it opened it writes to, wherever the directory is by then.
KeyFree(s) == <<s, "key">> \notin files

OpenKey(p) ==
    LET s == op[p].place IN
    /\ op[p].step = "key" /\ Usable(p) /\ KeyFree(s) /\ keys < MaxKeys
    /\ Create(<<s, "key">>)
    /\ keys' = keys + 1
    /\ keyOf' = [keyOf EXCEPT ![s] = keys + 1]
    /\ op' = [op EXCEPT ![p].step = "fill", ![p].made = keys + 1]
    /\ UNCHANGED <<whole, ignoreVars, committed, issued, stops, trouble, bare>>

WriteKey(p) ==
    /\ op[p].step = "fill"
    /\ whole' = IF keyOf[op[p].place] = op[p].made
                THEN whole \union {op[p].place} ELSE whole
    /\ Continue(p, IF op[p].wrap THEN "wrapped" ELSE "ignore")
    /\ UNCHANGED <<files, keyOf, keys, ignoreVars, committed, issued, stops, trouble, bare>>

\* wrapSafe reads penhan.yaml and the key again. It fails (Fail) when another
\* add has taken them away, or has made a key that is not written yet.
WriteWrapped(p) ==
    LET s == op[p].place IN
    /\ op[p].step = "wrapped" /\ Usable(p)
    /\ {<<s, "config">>, <<s, "key">>} \subseteq files /\ s \in whole
    /\ Create(<<s, "wrapped">>) /\ Continue(p, "ignore")
    /\ UNCHANGED <<keyVars, ignoreVars, committed, issued, stops, trouble, bare>>

StoreMaster(p) ==
    /\ op[p].step = "store"
    /\ Create(Master)
    /\ bare' = (bare \/ (op[p].cmd = "revoke" /\ Master \notin files))
    /\ IF op[p].cmd = "revoke" THEN Complete(p)
       ELSE /\ Continue(p, IF op[p].cmd = "grant" THEN "access" ELSE "ignore")
            /\ UNCHANGED <<issued, trouble>>
    /\ UNCHANGED <<keyVars, ignoreVars, committed, stops>>

SaveAccess(p) ==
    /\ op[p].step = "access"
    /\ Create(Access)
    /\ Continue(p, IF op[p].cmd = "revoke" THEN "store" ELSE "ignore")
    /\ UNCHANGED <<keyVars, ignoreVars, committed, issued, stops, trouble, bare>>

\* appendGitignoreAt reads the file once: it keeps the entries that are
\* missing, and notes whether the last line must be ended first, which it does
\* not do for a file of blanks.
ReadIgnore(p) ==
    /\ op[p].step = "ignore"
    /\ LET missing == op[p].lines \ (ignored \union indented) IN
       IF missing = {} THEN Complete(p)
       ELSE /\ op' = [op EXCEPT ![p].step = "append", ![p].lines = missing,
                                ![p].newline = tail = "text"]
            /\ UNCHANGED <<issued, trouble>>
    /\ UNCHANGED <<files, keyVars, ignoreVars, committed, stops, bare>>

EndLine(p) ==
    /\ op[p].step = "append" /\ op[p].newline
    /\ tail' = "ended"
    /\ op' = [op EXCEPT ![p].newline = FALSE]
    /\ UNCHANGED <<files, keyVars, ignored, indented, committed, issued, stops, trouble, bare>>

\* The next line. Behind an open line it becomes part of it, and matches nothing.
AppendLine(p, e) ==
    /\ op[p].step = "append" /\ ~op[p].newline /\ e \in op[p].lines
    /\ \A d \in op[p].lines : ~Before(d, e)
    /\ ignored' = IF tail = "ended" THEN ignored \union {e} ELSE ignored
    /\ indented' = IF tail = "blank" THEN indented \union {e} ELSE indented
    /\ tail' = "ended"
    /\ IF op[p].lines = {e} THEN Complete(p)
       ELSE op' = [op EXCEPT ![p].lines = @ \ {e}] /\ UNCHANGED <<issued, trouble>>
    /\ UNCHANGED <<files, keyVars, committed, stops, bare>>

Step(p) == \/ MakeDirs(p) \/ SaveConfig(p) \/ WriteToken(p) \/ OpenKey(p)
           \/ WriteKey(p) \/ WriteWrapped(p) \/ StoreMaster(p) \/ SaveAccess(p)
           \/ ReadIgnore(p) \/ EndLine(p) \/ \E e \in Private : AppendLine(p, e)

-----------------------------------------------------------------------------
(* Failure *)

\* Mutant of CleanUp: the directory goes even if it was there before.
CleanUpAlways(p) ==
    IF op[p].cmd = "add"
    THEN /\ files' = files \ Directory(op[p].place)
         /\ keyOf' = [keyOf EXCEPT ![op[p].place] = 0] /\ whole' = whole \ {op[p].place}
    ELSE UNCHANGED <<files, keyOf, whole>>

\* createSafe's deferred RemoveAll: the directory goes if this command found
\* none. Other commands clean up nothing.
CleanUp(p) ==
    LET s == op[p].place IN
    IF op[p].cmd = "add" /\ op[p].created
    THEN /\ files' = files \ Directory(s)
         /\ keyOf' = [keyOf EXCEPT ![s] = 0] /\ whole' = whole \ {s}
    ELSE UNCHANGED <<files, keyOf, whole>>

\* The errors the state itself causes: the key exists, or the directory does
\* not any more.
Refuse(p) ==
    /\ \/ op[p].step = "key" /\ Usable(p) /\ ~KeyFree(op[p].place)
       \/ op[p].step \in {"config", "token", "key", "wrapped"} /\ ~Usable(p)
    /\ CleanUp(p) /\ Finish(p) /\ trouble' = TRUE
    /\ UNCHANGED <<keys, ignoreVars, committed, issued, stops, bare>>

\* Any other error of a read or write.
Fail(p) ==
    /\ Busy(p) /\ stops < MaxStops /\ stops' = stops + 1
    /\ CleanUp(p) /\ Finish(p) /\ trouble' = TRUE
    /\ UNCHANGED <<keys, ignoreVars, committed, issued, bare>>

\* A kill, possibly in the middle of a line of .gitignore.
Kill(p) ==
    /\ Busy(p) /\ stops < MaxStops /\ stops' = stops + 1
    /\ \/ tail' = tail
       \/ op[p].step = "append" /\ ~op[p].newline /\ tail' = "text"
    /\ Finish(p) /\ trouble' = TRUE
    /\ UNCHANGED <<files, keyVars, ignored, indented, committed, issued, bare>>

-----------------------------------------------------------------------------
(* The user: a directory made beforehand, a safe whose penhan.yaml is      *)
(* removed to set it up again, plaintext secrets, and git.                 *)

MakeDirectory(s) ==
    /\ Quiet /\ Directory(s) = {}
    /\ Create(<<s, "own">>)
    /\ UNCHANGED <<keyVars, ignoreVars, committed, op, issued, stops, trouble, bare>>

RemoveConfig(s) ==
    /\ Quiet /\ <<s, "config">> \in files
    /\ files' = files \ {<<s, "config">>}
    /\ UNCHANGED <<keyVars, ignoreVars, committed, op, issued, stops, trouble, bare>>

WriteSecret(s) ==
    /\ Quiet /\ <<s, "config">> \in files /\ s \in whole
    /\ <<s, "secret">> \notin files
    /\ Create(<<s, "secret">>)
    /\ UNCHANGED <<keyVars, ignoreVars, committed, op, issued, stops, trouble, bare>>

\* git add of everything, and a commit, once the commands say all is well.
Commit ==
    /\ Quiet /\ ~trouble
    /\ committed' = committed \union ((files \intersect Private) \ ignored)
    /\ committed' # committed
    /\ UNCHANGED <<files, keyVars, ignoreVars, op, issued, stops, trouble, bare>>

-----------------------------------------------------------------------------
\* A new project, or a clone of one with a master key that is not unlocked
\* yet; .gitignore as the user left it.
Init ==
    /\ \/ files = {} /\ ignored = {}
       \/ files = {Access} /\ ignored \in SUBSET {Master}
    /\ tail \in Tails /\ (tail = "blank" => ignored = {}) /\ indented = {}
    /\ keyOf = [s \in Safes |-> 0] /\ whole = {}
    /\ committed = {}
    /\ op = [p \in Procs |-> Idle]
    /\ issued = {} /\ keys = 0 /\ stops = 0 /\ trouble = FALSE /\ bare = FALSE

Next ==
    \/ \E p \in Procs : \/ \E s \in Safes : Add(p, s)
                        \/ Grant(p) \/ Revoke(p) \/ Unlock(p) \/ NothingToDo(p)
                        \/ Step(p) \/ Refuse(p) \/ Fail(p) \/ Kill(p)
    \/ \E s \in Safes : MakeDirectory(s) \/ RemoveConfig(s) \/ WriteSecret(s)
    \/ Commit

Spec == Init /\ [][Next]_vars

-----------------------------------------------------------------------------
(* Properties *)

\* Every variable keeps its shape.
TypeOK ==
    /\ files \subseteq Paths /\ committed \subseteq Private
    /\ ignored \subseteq Private /\ indented \subseteq Private
    /\ tail \in {"ended", "text", "blank"}
    /\ keyOf \in [Safes -> 0..MaxKeys] /\ whole \subseteq Safes
    /\ issued \subseteq Safes \X (0..MaxKeys)
    /\ op \in [Procs -> Op]
    /\ keys \in 0..MaxKeys /\ stops \in 0..MaxStops /\ trouble \in BOOLEAN
    /\ bare \in BOOLEAN

\* What the documentation says: plaintext secrets, keys, tokens and the master
\* key never reach git.
PrivateStaysOut == committed = {}

\* What holds (add.go:307-312, access.go:191-193): they stay out as long as no
\* command fails or is killed, whatever several commands append to .gitignore
\* at the same time, and whether or not the user ended its last line; but for
\* a .gitignore of nothing but blanks, and for a revoke with the master key of
\* the environment, which writes master.key without an entry for it.
PrivateStaysOutUnlessStopped == stops = 0 /\ indented = {} /\ ~bare => PrivateStaysOut

\* What an add reports done stays: the key it generated is in the safe's key
\* file, in full, through every later add of the safe (set up again, refused,
\* failed, killed), so what is encrypted with it stays readable
\* (provider.go:30, add.go:240-250). Not for adds that ran at the same time:
\* the one that loses takes the other's directory away.
KeysStay == \A i \in issued : keyOf[i[1]] = i[2] /\ i[1] \in whole

\* Cleaning up after a failed add takes away what that add made: never what was
\* in a directory that was there before, nor the key of another add, unless
\* the two ran at the same time (add.go:240-250).
PreexistingKept ==
    [][\A s \in Safes, p \in Procs : Adds(op[p], s) /\ op'[p] # op[p] /\ ~op[p].met =>
          /\ <<s, "own">> \in files => <<s, "own">> \in files'
          /\ keyOf[s] # 0 /\ keyOf'[s] = 0 => op[p].made = keyOf[s]]_vars

=============================================================================
