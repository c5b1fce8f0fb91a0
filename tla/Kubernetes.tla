----------------------------- MODULE Kubernetes -----------------------------
(***************************************************************************)
(* The Secrets of one Kubernetes namespace under `penhan push` and         *)
(* `penhan import`, run in clones of safes that share the namespace, while *)
(* people and other tools create, change, take over and delete Secrets.    *)
(* One request to the API server, or one file written, is one step.        *)
(*                                                                         *)
(* The resourceVersion that an Update carries is modelled by what it       *)
(* decides: whether anybody wrote the Secret since it was read (current).  *)
(***************************************************************************)
CONSTANTS
    Paths,       \* the secret paths of the safes
    Before,      \* the order of strings on them, as a set of pairs
    NameOf,      \* the Secret name of each path: "/" becomes "-"
    Safes,       \* safes that use the namespace
    Clones,      \* clones in which one command at a time runs
    SafeOf,      \* the safe a clone's shell is in
    Contents,    \* canonical contents of a secret
    None,        \* no file, no Secret
    Faults       \* among "kill", "refused", "lost", "disk" and "remove"

Names == {NameOf[f] : f \in Paths}

\* A path without "/" is its own Secret name, and import makes such paths.
ASSUME ConstantsOk ==
    /\ \A S \in SUBSET Paths : S # {} => \E f \in S : \A g \in S : <<f, g>> \in Before
    /\ None \notin Contents \union Safes
    /\ \A n \in Names : n \in Paths /\ NameOf[n] = n
    /\ SafeOf \in [Clones -> Safes]
    /\ Faults \subseteq {"kill", "refused", "lost", "disk", "remove"}

VARIABLES
    cluster,   \* the Secret of each name
    local,     \* the content of each secret file in each clone
    op,        \* the command running in each clone
    current,   \* clones whose last Get is still what the cluster holds
    others,    \* the Secrets others have written since the last push of a clone began
    unread     \* names whose data others wrote and penhan has not imported

vars == <<cluster, local, op, current, others, unread>>

Torn == "torn"      \* a file cut short: neither decrypts nor parses

\* Who a Secret belongs to: nobody, something import must not take it from
\* (a controller, Helm, Argo CD, another managed-by label, another type,
\* binary data), or the path of a safe, as the annotations say.
Managed == [safe : Safes, path : Paths]
Hand == [safe |-> None, path |-> "hand"]
Tool == [safe |-> None, path |-> "tool"]
Secret == [owner : Managed \union {Hand, Tool}, data : Contents]

ASSUME NoneIsNoSecret == None \notin Secret

Steps == {"idle", "check", "push", "create", "update", "import", "write", "adopt",
          "mark", "cleanup", "killed"}
\* todo: what checkSecrets or runImport has still to do; need: what NeedsPush.
Idle == [step |-> "idle", todo |-> {}, need |-> {}, data |-> None]
Op == [step : Steps, todo : SUBSET Paths, need : SUBSET Paths, data : Contents \union {None}]

\* No command runs in the clone: the last one ended, or was killed.
AtRest(c) == op[c].step \in {"idle", "killed"}

\* The first of a set of paths in the order the commands go through them.
First(S) == CHOOSE f \in S : \A g \in S : <<f, g>> \in Before

Exists(n) == cluster[n] # None
Owner(c, f) == [safe |-> SafeOf[c], path |-> f]

\* Mutant of Owns: the path annotation is not compared.
OwnsAnyPath(c, f) == cluster[NameOf[f]].owner.safe = SafeOf[c]

\* checkOwnership: the Secret is this safe's copy of path f.
Owns(c, f) == cluster[NameOf[f]].owner = Owner(c, f)

\* importBlocker(secret) may be "": nobody has it, or this safe has it as path n.
MayImport(c, n) == cluster[n].owner \in {Hand, Owner(c, n)}

\* It may give a reason: the Secret is someone else's, or carries, besides the
\* marks of this safe, something import does not take (marks of Helm, binary
\* data, ...), which the model does not follow in a Secret the safe has.
MayRefuse(c, n) == cluster[n].owner # Hand

LocalFiles(c) == {f \in Paths : local[c][f] # None}

\* The path a command is at.
PathAt(o) == First(IF o.step \in {"create", "update"} THEN o.need ELSE o.todo)
At(c) == PathAt(op[c])

-----------------------------------------------------------------------------
Become(c, o) == op' = [op EXCEPT ![c] = o]
Goto(c, step) == Become(c, [op[c] EXCEPT !.step = step])
Stop(c) == Become(c, Idle)

\* A request that reads, and a step that sends none.
ReadOnly == UNCHANGED <<cluster, local, current, others, unread>>

\* Get of a Secret that a later Update is to be based on.
GetForUpdate(c) ==
    /\ current' = current \union {c}
    /\ UNCHANGED <<cluster, local, others, unread>>

\* The API server stores s as Secret n: a Get of it that came before is no
\* longer current. `by` is who asked for it.
Store(n, s, by) ==
    /\ cluster' = [cluster EXCEPT ![n] = s]
    /\ current' = {c \in current : op[c].step \in {"update", "mark"} /\ NameOf[At(c)] # n}
    /\ others' = [c \in Clones |-> IF c \in by THEN others[c] ELSE others[c] \union {n}]

-----------------------------------------------------------------------------
(* push *)

\* runPush, collectLocalSecrets: every file is read and decrypted, or nothing
\* is pushed.
Push(c) ==
    /\ AtRest(c)
    /\ \A f \in Paths : local[c][f] # Torn
    /\ LocalFiles(c) # {}
    /\ Become(c, [Idle EXCEPT !.step = "check", !.todo = LocalFiles(c)])
    /\ others' = [others EXCEPT ![c] = {}]
    /\ UNCHANGED <<cluster, local, current, unread>>

\* Mutant of NeedsPush: a changed secret counts as unchanged.
NeedsPushNew(c, f) == c \in Clones /\ ~Exists(NameOf[f])

\* Whether the secret at f is new or changed: hashes stand for contents.
NeedsPush(c, f) ==
    \/ ~Exists(NameOf[f])
    \/ cluster[NameOf[f]].data # local[c][f]

\* checkSecrets, remoteHash, Pull: one Get for each secret; a Secret that is
\* not this safe's copy of the path stops the command.
Check(c) ==
    /\ op[c].step = "check" /\ op[c].todo # {}
    /\ LET f == First(op[c].todo) IN
           IF Exists(NameOf[f]) /\ ~Owns(c, f)
           THEN Stop(c)
           ELSE Become(c, [op[c] EXCEPT
                    !.todo = @ \ {f},
                    !.need = IF NeedsPush(c, f) THEN @ \union {f} ELSE @])
    /\ ReadOnly

Checked(c) ==
    /\ op[c].step = "check" /\ op[c].todo = {}
    /\ Goto(c, "push")
    /\ ReadOnly

\* Mutant of PushGet: that checkSecrets looked at the owner is thought enough.
PushGetAnyOwner(c) ==
    /\ op[c].step = "push" /\ op[c].need # {}
    /\ IF Exists(NameOf[First(op[c].need)])
       THEN Goto(c, "update") /\ GetForUpdate(c)
       ELSE Goto(c, "create") /\ ReadOnly

\* Push: Get decides between Create, refusal and Update.
PushGet(c) ==
    /\ op[c].step = "push" /\ op[c].need # {}
    /\ LET f == First(op[c].need) IN
       \/ ~Exists(NameOf[f]) /\ Goto(c, "create") /\ ReadOnly
       \/ Exists(NameOf[f]) /\ Owns(c, f) /\ Goto(c, "update") /\ GetForUpdate(c)
       \/ Exists(NameOf[f]) /\ ~Owns(c, f) /\ Stop(c) /\ ReadOnly

\* The request was carried out; its answer may still be lost on the way.
Answered(c, o) ==
    \/ Become(c, o)
    \/ "lost" \in Faults /\ Stop(c)

\* Mutant of StorePushed: the loop does not come back to its head.
StorePushedStaying(c, f) ==
    /\ Store(NameOf[f], [owner |-> Owner(c, f), data |-> local[c][f]], {c})
    /\ Answered(c, [op[c] EXCEPT !.need = @ \ {f}])
    /\ UNCHANGED <<local, unread>>

StorePushed(c, f) ==
    /\ Store(NameOf[f], [owner |-> Owner(c, f), data |-> local[c][f]], {c})
    /\ Answered(c, [op[c] EXCEPT !.step = "push", !.need = @ \ {f}])
    /\ UNCHANGED <<local, unread>>

\* Create: AlreadyExists when somebody was faster.
Create(c) ==
    /\ op[c].step = "create"
    /\ \/ ~Exists(NameOf[At(c)]) /\ StorePushed(c, At(c))
       \/ Exists(NameOf[At(c)]) /\ Stop(c) /\ ReadOnly

\* Update: Conflict, or NotFound, when the Secret is not the one that was read.
Update(c) ==
    /\ op[c].step = "update"
    /\ \/ c \in current /\ StorePushed(c, At(c))
       \/ c \notin current /\ Stop(c) /\ ReadOnly

PushComplete(c) ==
    /\ op[c].step = "push" /\ op[c].need = {}
    /\ Stop(c)
    /\ ReadOnly

-----------------------------------------------------------------------------
(* import *)

StartImport(c, names) ==
    /\ AtRest(c)
    /\ names # {}
    /\ Become(c, [Idle EXCEPT !.step = "import", !.todo = names])
    /\ ReadOnly

\* `penhan import <name>`; several names are several of these commands, up to
\* the first that fails.
Import(c, n) == StartImport(c, {n})

\* `penhan import --all`: what List returns, where nothing is in the way.
ImportAll(c) ==
    LET free == {n \in Names : Exists(n) /\ MayImport(c, n) /\ local[c][n] = None} IN
    \E refused \in SUBSET {n \in free : MayRefuse(c, n)} : StartImport(c, free \ refused)

\* importSecret, ReadForImport
ReadForImport(c) ==
    /\ op[c].step = "import" /\ op[c].todo # {}
    /\ LET n == First(op[c].todo) IN
       \/ /\ local[c][n] = None /\ Exists(n) /\ MayImport(c, n)
          /\ Become(c, [op[c] EXCEPT !.step = "write", !.data = cluster[n].data])
       \/ /\ local[c][n] = None /\ Exists(n) => MayRefuse(c, n)
          /\ Stop(c)
    /\ ReadOnly

\* os.WriteFile of the .enc file, which may run out of disk.
WriteEnc(c) ==
    /\ op[c].step = "write"
    /\ \/ /\ local' = [local EXCEPT ![c][At(c)] = op[c].data]
          /\ Goto(c, "adopt")
       \/ /\ "disk" \in Faults
          /\ local' = [local EXCEPT ![c][At(c)] = Torn]
          /\ Stop(c)
    /\ UNCHANGED <<cluster, current, others, unread>>

\* Mutant of Adopt: the content is not compared with what was imported.
AdoptAnyContent(c) ==
    /\ op[c].step = "adopt"
    /\ LET n == At(c) IN
       \/ Exists(n) /\ MayImport(c, n) /\ Goto(c, "mark") /\ GetForUpdate(c)
       \/ (Exists(n) => MayRefuse(c, n)) /\ Goto(c, "cleanup") /\ ReadOnly

\* Adopt reads the Secret again: it must still be free and hold the content.
Adopt(c) ==
    /\ op[c].step = "adopt"
    /\ LET n == At(c) IN
       \/ /\ Exists(n) /\ MayImport(c, n) /\ cluster[n].data = op[c].data
          /\ Goto(c, "mark") /\ GetForUpdate(c)
       \/ /\ Exists(n) /\ cluster[n].data = op[c].data => MayRefuse(c, n)
          /\ Goto(c, "cleanup") /\ ReadOnly

\* Adopt: the Update that sets label and annotations, and leaves the data.
Mark(c) ==
    /\ op[c].step = "mark"
    /\ LET n == At(c)
           next == [op[c] EXCEPT !.step = "import", !.todo = @ \ {n}, !.data = None] IN
       \/ /\ c \in current
          /\ Store(n, [cluster[n] EXCEPT !.owner = Owner(c, n)], {c})
          /\ \/ /\ Become(c, next)
                /\ unread' = IF local[c][n] = cluster[n].data THEN unread \ {n} ELSE unread
             \/ /\ "lost" \in Faults
                /\ Goto(c, "cleanup")
                /\ UNCHANGED unread
          /\ UNCHANGED local
       \/ c \notin current /\ Goto(c, "cleanup") /\ ReadOnly

\* Mutant of CleanUp: the file stays.
CleanUpNothing(c) ==
    /\ op[c].step = "cleanup"
    /\ Stop(c)
    /\ ReadOnly

\* importSecret: Adopt failed, so the file goes again. An error of os.Remove
\* is not looked at.
CleanUp(c) ==
    /\ op[c].step = "cleanup"
    /\ \/ local' = [local EXCEPT ![c][At(c)] = None]
       \/ "remove" \in Faults /\ UNCHANGED local
    /\ Stop(c)
    /\ UNCHANGED <<cluster, current, others, unread>>

ImportComplete(c) ==
    /\ op[c].step = "import" /\ op[c].todo = {}
    /\ Stop(c)
    /\ ReadOnly

-----------------------------------------------------------------------------
(* what fails, and what others do *)

\* A request is refused, or never arrives, and changes nothing.
Refused(c) ==
    /\ "refused" \in Faults
    /\ \/ op[c].step \in {"adopt", "mark"} /\ Goto(c, "cleanup")
       \/ op[c].step \in {"check", "push", "create", "update", "import"} /\ Stop(c)
    /\ ReadOnly

\* The process dies: no clean-up, and the file being written may be cut short.
Kill(c) ==
    /\ "kill" \in Faults
    /\ ~AtRest(c)
    /\ Become(c, [Idle EXCEPT !.step = "killed"])
    /\ \/ UNCHANGED local
       \/ op[c].step = "write" /\ local' = [local EXCEPT ![c][At(c)] = Torn]
    /\ UNCHANGED <<cluster, current, others, unread>>

\* Between two commands the user, or git, changes or removes a secret file.
Edit(c, f) ==
    /\ AtRest(c)
    /\ \E x \in Contents \union {None} : local' = [local EXCEPT ![c][f] = x]
    /\ UNCHANGED <<cluster, op, current, others, unread>>

\* Somebody writes Secret n: creates it, changes it, makes it his or frees it.
\* Whoever changes the data of a Secret and leaves it to penhan has `penhan
\* check` to report it as changed.
OthersWrite(n) ==
    \E o \in {Hand, Tool} \union (IF Exists(n) THEN {cluster[n].owner} ELSE {}), x \in Contents :
        /\ Store(n, [owner |-> o, data |-> x], {})
        /\ unread' = IF o \in {Hand, Tool} THEN unread \union {n} ELSE unread
        /\ UNCHANGED <<local, op>>

OthersDelete(n) ==
    /\ Exists(n)
    /\ Store(n, None, {})
    /\ unread' = unread \ {n}
    /\ UNCHANGED <<local, op>>

-----------------------------------------------------------------------------
Init ==
    /\ cluster = [n \in Names |-> None]
    /\ local = [c \in Clones |-> [f \in Paths |-> None]]
    /\ op = [c \in Clones |-> Idle]
    /\ current = {}
    /\ others = [c \in Clones |-> {}]
    /\ unread = {}

Step(c) ==
    \/ Push(c) \/ Check(c) \/ Checked(c) \/ PushGet(c) \/ Create(c) \/ Update(c)
    \/ PushComplete(c)
    \/ ImportAll(c) \/ ReadForImport(c) \/ WriteEnc(c) \/ Adopt(c) \/ Mark(c)
    \/ CleanUp(c) \/ ImportComplete(c)
    \/ Refused(c) \/ Kill(c)

Next ==
    \/ \E c \in Clones : Step(c)
    \/ \E c \in Clones, n \in Names : Import(c, n)
    \/ \E c \in Clones, f \in Paths : Edit(c, f)
    \/ \E n \in Names : OthersWrite(n) \/ OthersDelete(n)

Spec == Init /\ [][Next]_vars

-----------------------------------------------------------------------------
\* A command that works on a path has one left, and import names Secrets.
Placed(o) ==
    /\ o.step \in {"create", "update"} => o.need # {}
    /\ o.step \in {"import", "write", "adopt", "mark", "cleanup"} => o.todo \subseteq Names
    /\ o.step \in {"write", "adopt", "mark", "cleanup"} => o.todo # {} /\ o.data \in Contents

\* The variables keep their shape.
TypeOK ==
    /\ cluster \in [Names -> Secret \union {None}]
    /\ local \in [Clones -> [Paths -> Contents \union {None, Torn}]]
    /\ op \in [Clones -> Op]
    /\ current \subseteq Clones
    /\ others \in [Clones -> SUBSET Names]
    /\ unread \subseteq Names
    /\ \A c \in Clones : Placed(op[c])

\* What a command may do to a Secret: create it as its own, rewrite its own,
\* or mark one that is free, data as it is. Two paths of one name, two safes
\* in one namespace and every other tool's Secret are told apart even when
\* the Secret changes hands between the Get and the write.
OwnershipRespected ==
    [][\A c \in Clones, n \in Names :
        op'[c] # op[c] /\ cluster'[n] # cluster[n] =>
            LET o == cluster'[n].owner IN
            /\ o.safe = SafeOf[c]
            /\ NameOf[o.path] = n
            /\ Exists(n) => \/ cluster[n].owner = o
                            \/ /\ cluster[n].owner = Hand
                               /\ o.path = n
                               /\ cluster'[n].data = cluster[n].data]_vars

\* Data that somebody wrote into a Secret penhan did not manage is never
\* replaced by a command before an import has brought it into a clone: "a
\* change made in the cluster during import is never silently reverted".
NothingReverted ==
    [][\A c \in Clones, n \in unread :
        op'[c] # op[c] => cluster'[n] # None /\ cluster'[n].data = cluster[n].data]_vars

\* A push that completes leaves every secret of the clone in the cluster, under
\* its own path, but for Secrets that others wrote while it ran; whatever they
\* do to the other Secrets, and whatever else there is of the same name.
PushedInSync ==
    \A c \in Clones : op[c].step = "push" /\ op[c].need = {} =>
        \A f \in LocalFiles(c) : NameOf[f] \notin others[c] =>
            cluster[NameOf[f]] = [owner |-> Owner(c, f), data |-> local[c][f]]

\* An import that fails after it wrote the file leaves none behind, unless it
\* is killed or the file cannot be removed: the next import of the Secret is
\* not refused.
FailedImportLeavesNoFile ==
    [][\A c \in Clones :
        /\ op[c].step \in {"adopt", "mark", "cleanup"} /\ op'[c].step = "idle"
        /\ "remove" \notin Faults
        => local'[c][At(c)] = None]_vars

-----------------------------------------------------------------------------
(* The store that push promises, as a clone sees it *)

Pushing == {"check", "push", "create", "update"}

\* What the clone would read at each path: a Secret that is not its copy of
\* the path is none.
View(c) == [f \in Paths |->
    IF Exists(NameOf[f]) /\ Owns(c, f) THEN cluster[NameOf[f]].data ELSE None]

Wanted(c) == IF op[c].step \in Pushing THEN local[c] ELSE [f \in Paths |-> None]

Elsewhere(c) == {f \in Paths : op[c].step \in Pushing /\ NameOf[f] \in others[c]}

StoreOf(c) == INSTANCE SecretStore WITH
    Partial <- {}, store <- View(c), want <- Wanted(c), others <- Elsewhere(c),
    done <- op[c].step = "push" /\ op[c].need = {}

\* The namespace is such a store to every clone at the same time: what one of
\* them, of this safe or another, does to it is to the others a write by
\* somebody else. Secrets are never cut short.
ImplementsStore ==
    /\ \A c \in Clones : StoreOf(c)!Init
    /\ [][\A c \in Clones : UNCHANGED StoreOf(c)!vars \/ StoreOf(c)!Next]_vars
=============================================================================
