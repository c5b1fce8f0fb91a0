# A verification development for penhan

penhan keeps secrets in a git repository. Each directory of secrets, a *safe*,
has a key of its own; secret files are encrypted with it and committed. A
project may have a *master key* that wraps the safe keys, itself encrypted to
the SSH keys of the project's users. Secrets are pushed to a backend: a Vault
server, a directory of encrypted files, or the Secrets of a Kubernetes
namespace, from which they can also be imported.

penhan has no server and no locks. Each command reads files, thinks, and then
writes files or sends requests one at a time. What is hard about it is what
happens between two of those steps: another shell, another clone, git, another
tool in the cluster, a full disk or a kill. The models here are about that.

## The system

| Component | State | Operations | Interacts with |
|---|---|---|---|
| Master key and access (`internal/access`, `commands/access.go`, `commands/wrap.go`) | committed `access.yaml`, `master.age`, `<safe>/.penhan/<method>.key.enc`; ignored `.penhan/master.key`; `$PENHAN_MASTER_KEY` | `access grant`, `access revoke`, `access list`, `unlock`, `wrap` | GitHub for SSH keys; git carries the committed files between clones; `add` wraps the new safe's key |
| Creating a safe (`commands/add.go`, `crypto/provider.go`, `config`) | the safe's directory: `penhan.yaml`, key, token, wrapped key; the project's `.gitignore` | `add`; the end of `grant` and `unlock` | the master key; git, which commits whatever `.gitignore` does not name |
| Secret files (`commands/crypt.go`) | plaintext and `.enc` file of each secret | `encrypt`, `decrypt` | the user's editor, git |
| Kubernetes backend (`backends/kubernetes.go`, `commands/push.go`, `check.go`, `import.go`, `sync.go`) | Secrets of a namespace: data, label and annotations that say who owns them | `push`, `check`, `import` | other safes, people and tools that write the same namespace |
| File and Vault backends (`backends/file.go`, `backends/vault.go`, `commands/push.go`, `check.go`, `sync.go`) | a directory of encrypted files; a key-value mount | `push`, `check` | other clones, people, git |
| Self-update (`internal/update`, `commands/update.go`) | the installed binary and temporary files next to it | `update` | GitHub releases; the user's own builds |
| Update notice (`update/notify.go`, `commands/root.go`) | the cache file of the last check | a check in the background of every command, a notice at its end | GitHub; the other commands of the same user |
| Secret format (`internal/secrets`) | none | parsing, path mapping | used by all of the above |
| Command line, prompts, version | none | | |

What is hard in each of them, and what makes it correct:

* *Master key.* Grant and revoke write up to four kinds of file, one at a time,
  and the master key rotates while other clones hold copies of it. Correct: the
  published files always agree with each other; every wrapped key opens with the
  current master key; after a revoke no SSH key but those of the users who stay can open
  the new master key from anything published.
* *Creating a safe.* About ten writes of which the last makes git ignore the
  others, with a clean-up that removes directories. Correct: private files are
  never committed; the key of a safe whose `add` succeeded stays; nothing is removed
  that the command did not make.
* *Secret files.* Each command reads, compares, writes and removes, with only the
  content of files to tell an edit from an old copy. Correct: an edit is always
  somewhere; a secret that was not edited keeps its `.enc` file.
* *Kubernetes.* A push is a comparison followed by a Get and a write for each
  secret; import is a Get, a file, another Get and an Update. Correct: a command
  writes only Secrets of its own safe and path, or marks free ones; nobody's data
  is lost; a push that completes has pushed.
* *File and Vault backends.* The same push without ownership: the files of a secret
  are collected (plaintext, encrypted, YAML, JSON), compared, and the different ones
  written, into a directory in two system calls each. Correct: an edit is what gets
  pushed; a completed push has pushed; what is there is not written again; whatever
  went wrong, pushing again repairs it.
* *Self-update.* A decision by version strings, then downloads of minutes, then a rename,
  with other updates and builds at the same time. Correct: the binary always runs and is
  one somebody made; no update installs a release older than the build that runs it.
* *Update notice.* A check that is killed by the end of its command, and a cache file
  shared without a lock. Correct: GitHub is not asked again and again; the user hears of
  each release in the end.

## The modules

| Module | What it is |
|---|---|
| `MasterKey` | grant, revoke, unlock, wrap, add in several clones, with git |
| `AccessPolicy` | what the published access files promise; `MasterKey` implements it |
| `MasterKey_proofs` | theorems about `MasterKey`: types, consistency of the published files |
| `Policy_proofs` | more of them, on top: `MasterKey` implements `AccessPolicy`, revoke and unlock |
| `CreateSafe` | add, and how grant and unlock keep `master.key` ignored |
| `CreateSafe_proofs` | theorems about `CreateSafe` |
| `SecretFiles` | encrypt and decrypt |
| `SecretFiles_proofs` | theorems about `SecretFiles` |
| `SecretStore` | what `push` promises of a backend; `Kubernetes` and `Backends` implement it |
| `Kubernetes` | push and import against a shared namespace |
| `Kubernetes_proofs` | theorems about `Kubernetes`, the refinement among them |
| `Backends` | push and check with a directory of files or a Vault server |
| `Backends_proofs` | theorems about `Backends`, the refinement among them |
| `Versions` | versions and their comparison, used by the next two |
| `Update` | `penhan update`: download, verify, try, rename |
| `Update_proofs` | theorems about `Versions` and `Update` |
| `UpdateNotice` | the check in the background and its cache |
| `UpdateNotice_proofs` | theorems about `UpdateNotice` |
| `MC...` | instances for TLC: values of constants, symmetry |

Definitions named "Mutant of X" stand before X. They are X with a plausible bug,
used to see that a property notices it; no specification uses them.

### MasterKey

The work tree of a clone is a record: the key `access.yaml` names (`check`, its
`master_check`), the users and their pinned keys, the key inside `master.age` and
the SSH keys it is encrypted to, and for each safe the master key its wrapped key
opens with. Master keys are model values; `Check` of a key is a fingerprint, so the
key itself stands for it. A file cut short holds `Torn`.

A command (`GrantFirst`, `Grant`, `Revoke`, `Unlock`, `Wrap`, `Add`) does its reading,
checking and computing in one step and leaves in `op` what it is going to write;
`StoreMaster`, `Rewrap`, `WriteSealed`, `SaveAccess`, `GenerateSafeKey` and `WrapSafe`
are the writes, in the order of the code. `Abort` is a kill or an error at any of
them, which may leave the file being written torn: `Torn`, or, for an `access.yaml` that is
cut where it still parses, `Shortened`, the new check value with fewer users or keys.
`RollBack` is createSafe's deferred
`RemoveAll`. `Publish`, `Pull`, `Restore` and `Configure` are not penhan: they are git
and the settings of a pipeline.

Assumptions about the user: commits, pulls and pushes happen between commands, the
files of one commit go together, and after a command that stopped halfway the work
tree is restored before it is shared (its untracked `master.key` stays). Git merges
file by file; when both sides changed the access files there is a conflict, which is
resolved by dropping the own changes.

A user whose key set in `access.yaml` is empty is not listed: neither
`FetchGitHubKeys` nor `selectKeys` returns an empty list.

### CreateSafe

A file is a place and a kind; `ignored` is the set of files `.gitignore` has an entry for.
`tail` says how it ends: with a newline, in the middle of a line, to which the next entry
would be glued, or, a file of nothing but blanks, with an indent, which penhan takes for an
empty file and does not end. An entry behind an indent is in `indented`: penhan, which trims
lines, finds it there ever after, and git does not. `Add`, `Grant`, `Revoke` and `Unlock`
are the checks at the top of the commands, then each write is a step; the key file is opened
(`OpenKey`, with `O_EXCL`) and written (`WriteKey`) in two, and is `whole` after the second.
A shell in `Environment` has `$PENHAN_MASTER_KEY`, so its commands need no `master.key`. Of
a revoke the module keeps what concerns `.gitignore`: it stores the new master key and adds
no entry; `bare` says that it did so where there was no `master.key` before. `Fail` is an
error, which cleans up (`CleanUp`), `Kill` is not. `trouble` is true after a command that
failed or was killed, until one succeeds: a user does not commit everything right after an
error, but does once the command says all is well, even when it said so by an early return
(`NothingToDo`). `made`, `met` and `issued` are history: the key a command generated,
whether another `add` of the safe was running at some time during this one, and the keys of
the adds that succeeded without meeting another.

### SecretFiles

A content is a number, an `.enc` file a content and a salt, so that encrypting again
gives other bytes. `encrypt` is `ReadPlain`, `Compare`, `WriteEnc`, `RemovePlain`;
`decrypt` is `ReadEnc`, `Look`, `WritePlain`; each is one system call. `Edit`,
`GiveUp`, `Commit` and `Pull` happen between commands. `Kill` also stands for a read or
write that fails, and may leave the file being written cut short. `wrote` and `touched` are
history: what the user last wrote, and whether the plaintext that is there was edited.

### SecretStore

The abstract specification of a backend as one clone knows it: a map from paths to
contents, written by the clone's push and by everybody else. A push takes the contents
it has read (`Begin`), writes only a secret that differs from what it read, unless others
wrote that secret meanwhile (`Write`), says that it is complete only when every secret that
others have not written is there (`Finish`), and may end anywhere, with what it has written
left in place (`End`). A write may be cut short (`Partial`), and its answer may be lost: the
push then ends with the write done.
`Otherwise` is everybody else. Comparing, collecting, resource versions and owners are
not part of it: that is how the backends come to keep the promise.

### Kubernetes

Each request is a step. An Update carries the resourceVersion of the Get before it; the
model keeps the one thing it decides, whether anybody wrote the Secret since (`current`).
`Managed` owners are the three marks penhan sets; `Hand` is a Secret nobody manages, `Tool`
one that `importBlocker` refuses. It may refuse a Secret of the safe itself, which can hold
binary data or the marks of Helm besides; the model does not follow that and lets either
happen (`MayRefuse`). `Faults` chooses what can go wrong: a kill, a request refused, an
answer lost after the request was carried out, a disk that fills up during the write, a file
that cannot be removed again. `unread` is history: Secrets whose data others wrote while
penhan did not manage them, until an import has kept it. One command runs in a clone at a
time; two safes may share the namespace. `others` is history too: for each clone, the
Secrets that somebody else wrote since its last push began, another clone included.

To a clone, the namespace is a `SecretStore` through `View`: a path holds the data of its
Secret if the Secret is the safe's copy of that path, and nothing otherwise. Each clone
has a view of its own, and a step of one is a write by somebody else in the views of the rest,
so `ImplementsStore` speaks of all of them at once.

Two paths may have one name (`db/main` and `db-main`). Import makes files only at
paths without `/`, which are their own names: `ConstantsOk` asks that.

### Backends

A secret file is a name with a path (`PathOf`) and holds a content, nothing, or is `Broken`:
cut short, or of another key, or no flat map. `Reads`, `Collected` and `Collectable` are
`collectLocalSecrets`: the walk goes through the names in order, an encrypted file is
skipped when its path was seen, any other file replaces what was read before. The collection
is one step, so edits happen between commands. `Check` compares one path, `Write` is a
request to Vault, which replaces a secret as a whole. When its answer is lost the client,
made from Vault's `DefaultConfig`, may send it again within the same push (`resend`), or
give up. `Open` and `Fill` are the two halves of `os.WriteFile`. `Fail` is an error or a
kill anywhere. `OthersWrite` is everybody else, in any state of the push. The field `others`
is history: the secrets somebody else wrote since the push began.

Either backend is a `SecretStore`: its `store` is the one here, `want` what
`collectLocalSecrets` has read, and a file between `Open` and `Fill` is `Partial`.

### Versions, Update

`Newer` and `IsDowngrade` are the functions of that name on versions as numbers: a
release, what `git describe` says of a later commit, or `Unknown`. `Atoi` is
`strconv.Atoi` with its error ignored, which is the largest int for too long a number.

`Update` gives these versions a meaning: the project's history is a line of commits,
some of them tagged with rising versions (`HistoryOk`), a binary was built at one of
them, and `Describe` is what the Makefile stamps into it. The commands see only the
versions; the properties speak of the commits. `Start` to `Rename` are the steps of one
update, each a request or a system call. What `Archive` gets may not be what was
published; a release may not run on this machine (`Broken`). `Point` makes any release
the latest one, also an earlier one: releases can be withdrawn. `Build` is the user, who
installs a build of any commit at any time.

### UpdateNotice

Time is the age of things in ticks, up to the interval, after which it makes no
difference. `Check` is the start of a command, which reads the cache and, when it is
old, asks GitHub; `Succeed` or `NoAnswer`, then `Open` and `Fill` record the attempt;
`Tell` prints the notice. `Leave` ends the command before its check, at any step.
`Fill` over what another command wrote meanwhile may leave a mixture (`Garbled`). A
file that is empty, garbled or not there reads as a check made long ago. `asked` is
history: when GitHub was last asked, and whether the record of it may be missing.

## Runs

Deadlock is not checked except in `MCUpdate` and `MCUpdateNotice`: `MaxStops`,
`MasterKeys` and the like are bounds, and a project in which nobody types a command is
at rest.

| Run | Instance | Shows |
|---|---|---|
| `MCMasterKey` | 2 users, 1 safe, 2 clones, one shell each, 2 master keys (one rotation), a pipeline with the variable, 1 stop, no merges | `SealedMatchesAccess`, `WrappedOpens`, `UnlockSuffices` |
| `MCMasterKeyKeys` | no safe, merges, a user whose key changes to one another user has too, a pipeline, no stop | `TypeOK`, `SealedMatchesAccess`, `RevokedCutOff`, `ImplementsPolicy` |
| `MCMasterKeyLost` | 1 safe, merges | violates `WrappedOpens` |
| `MCCreateSafe` | 1 safe with a Vault token, 2 shells with the master key in the environment, any end of `.gitignore`, 2 keys, 1 failure or kill | `TypeOK`, `PrivateStaysOutUnlessStopped`, `KeysStay`, `PreexistingKept` |
| `MCCreateSafeStopped` | no safe, 1 failure or kill | violates `PrivateStaysOut` |
| `MCSecretFiles` | 2 secrets, 1 shell, 2 contents, 1 kill, torn `.enc` writes | `TypeOK`, `NoEditLost`, `UntouchedKept` |
| `MCSecretFilesPull` | 1 secret, pulls while plaintext lies around | violates `UntouchedKept` |
| `MCKubernetes` | 2 safes in 2 clones, 2 paths of one name, kills, full disk, refused requests | `TypeOK`, `PushedInSync`, `OwnershipRespected`, `NothingReverted`, `FailedImportLeavesNoFile`, `ImplementsStore` |
| `MCKubernetesLost` | 1 clone, answers lost | violates `NothingReverted` |
| `MCBackends` | 2 secrets, one with 3 files, either backend, failures and lost answers until it settles | `TypeOK`, `PushedInSync`, `MatchingSkipped`, `PlaintextWins`, `ImplementsStore`, `PushConverges` |
| `MCUpdate` | 4 commits, 3 of them releases, one of which does not run, 2 shells | `TypeOK`, `BinaryRuns`, `NeverOlder` |
| `MCUpdateNotice` | 2 releases, 2 terminals, an interval of 2 ticks | `TypeOK`, `OnceUnlessSpoilt`, `NoticeArrives` |

Why these bounds are enough to be interesting: two clones and two master keys are what a
rotation needs to overtake somebody; one stop, because a stopped clone is restored before it
matters again and a second stop begins from a state of the same kind; two contents tell an
edit from what was there; two paths of one name, in two safes, are all the ways a name can
be shared; three files of one secret are a plaintext one with an encrypted one before and
after it in the order of names; four commits have a release, a build between releases, a
later release and a broken one, with one number at `MaxInt` and `v0.10.0` after `v0.9.1`;
two ticks tell a fresh check, an aging one and an old one. The proofs below do not depend on
the bounds.

### Fairness

Most commands are started by a person and retried by nobody, so most modules assume no
fairness and state no liveness. Two do.

`Backends`: `WF_vars(Command)` says that a push that runs goes on and that the user runs
push again. What `PushConverges` promises begins at `settled`, from when on no request or
write fails and nobody else writes: without that no retry helps. From any state earlier
failures left, the pushes come to a state where no push runs and every secret is in the
backend, unless they are `Blocked`: a secret file of the clone cannot be read, or the
directory's copy of a secret that is to be pushed is broken. A file that is broken only because
a push is writing it does not count, since a push is running then. That
exception is real: a file of the directory that was cut short is not repaired by pushing
again, it has to be removed.

`UpdateNotice`: time passes; the user goes on running commands in each terminal (`WF` of
`Check`); the steps of a check go on (`WF`), though at each of them the command may end
instead (`Leave`). What needs `SF` is what a user can be unlucky with again and again: that
a request is answered, and that a check which has the latest release gets to record and
print it. Were every command over before its check, no notice would ever be printed, and
that is what the code does: the check is not waited for beyond half a second. The fairness
says no more than that this is not always so.


### What the four violations mean

* `MCMasterKeyLost`. A safe is wrapped in one clone while the other revokes. The wrapped
  key is a new file, so git merges the two without a conflict, and the branch has a safe
  key under the old master key. The help of `revoke` says that the old key opens
  nothing committed afterwards.
* `MCCreateSafeStopped`. `unlock`, and the first grant, write `master.key` first and
  `.gitignore` last. Stopped in between, the key is there and everything works; a grant to
  somebody who has access already, the same first grant run again for one, says "already
  has access" and returns before it comes to `.gitignore`. The docs say the file is
  ignored.
* `MCSecretFilesPull`. A plaintext left from an old decrypt is taken for an edit after a
  pull brought a newer `.enc`, and encrypt writes the old content back. The docs say that
  secrets decrypted but not changed keep their `.enc` files.
* `MCKubernetesLost`. The update that marks a Secret times out but is carried out. Import
  removes its file; the Secret stays marked as the safe's, and a later push replaces
  data that something else created.

Outside the runs, the constants show why the passing runs are restricted as they are.

* With two shells in one clone (`CloneOf` constant) a revoke overtakes a grant or `wrap`
  that has checked the master key and waits for an answer: the old key is then sealed to the
  users, or wraps a safe key, under an `access.yaml` that names the new one. `WrappedOpens`
  fails for the latter, and `SealedMatchesAccess` and `ImplementsPolicy` also without a
  revoke: two grants each write `master.age` and then `access.yaml`, and interleaved they
  leave the one sealed to the users of one grant and the other listing those of the other;
  when the one saves entirely after the other, the other's user is dropped.
* `PreexistingKept` and `KeysStay` say nothing of two adds of one safe that meet: the one
  that finds the key file there removes the directory of the other, with the key, also when
  the other has reported success by then. `PrivateStaysOut` fails for
  safes as well once an `add` is killed: `.gitignore` comes last there too.
* `PrivateStaysOutUnlessStopped` leaves out two cases in which private files get into git
  and no command stopped. A `.gitignore` of blanks without a newline indents the first entry
  (`add.go:409` looks whether any line is left after trimming), and penhan takes it to be
  there. And a revoke with `$PENHAN_MASTER_KEY`, in a clone that was never unlocked and
  whose `.gitignore` does not name it, writes `.penhan/master.key` and leaves it at that
  (`access.go:278-282`; grant and unlock call `ignoreMasterKey`).
* With two shells, `NoEditLost` fails between a decrypt's look and its write. With
  `"restore"` in `TornAt`, both `UntouchedKept` and `NoEditLost` fail: a plaintext that
  decrypt left cut short passes for an edit, and the next encrypt puts it in place of the
  `.enc` file, which need not have been committed.
* With `"disk"` in `Faults`, an import can leave a torn file: an error of the write itself
  does not remove it. `FailedImportLeavesNoFile` is about the errors after it, and says
  nothing with `"remove"` in `Faults`: `importSecret` drops the error of `os.Remove`.
* With `Unstamped = TRUE`, `NeverOlder` fails: a build that calls itself `dev`, or by a
  pseudo-version, is replaced under `--force` by whatever is the latest release. The
  comment on `IsDowngrade` says so; the help of `update` and `docs/commands.md:126` say
  "never with a release older than the build itself".
* `NeverOlder` compares with the build that runs the update. Between two updates, the one
  that decided earlier may rename last, and put back a release older than the one the
  other has just installed, though not older than the one they began with.
* `OnceUnlessSpoilt` is weaker than "at most once a day" (`docs/commands.md:128`,
  `notify.go:11`). An attempt is recorded only after the request, which may take three seconds; a
  command waits half a second for it, and one that fails does not wait at all. What is
  cut off is asked again.

## Proofs

The eight `_proofs` modules are checked by TLAPS from nothing, for any users, keys,
safes, clones, paths, contents, shells and histories, with the assumptions the modules
state about their constants (`ConstantsOk`, `NoneIsNoSecret`, `VersionsOk`, `HistoryOk`,
`NoticeOk`). What a theorem assumes beyond that it says in its `ASSUME`.

*MasterKey.* `TypeCorrect` says that the types are invariant. The other two theorems
also assume `OneShellPerClone` (`CloneOf` is injective), without which they are false.
`SealedMatchesAccessHolds` holds with and without merges;
`WrappedOpensHolds` needs `~MayMerge`, as `MCMasterKeyLost` shows. All come from
one invariant, `ConsistencyInv`, which says of each clone what `SealedFor` and
`WrappedFor` say of the published tree, or else how far a command has come: what was
written, what is still in `op`, or that the clone is in `failed`. The published tree
alone is not inductive: `Publish` copies a work tree, so the work trees that may be
published must be known to be consistent, and they are only when the last command there has
finished. `Merged` preserves consistency of the access files because it takes them
from one side as a whole. `Current` says why a write made long after the check is still
right: in a clone with one shell nothing replaces `access.yaml` meanwhile.

*Policy.* `Policy_proofs` goes on from there, also with one shell per clone.
`PolicyImplemented` is the refinement `Spec => ImplementsPolicy`: only `Publish` changes
what is published, and it publishes the work tree of a clone that is at the tip. `KnownKeys`
says where master keys come from, and that a key which was never generated was never sealed
to anybody. `NewKeysExclusive` says that a key a clone did not get from the branch is its
own, still sealed to nobody: a publication that changes the key is a `Rotate`. `UsersKept`
carries "under the published key nobody is dropped" from the moment a grant or revoke
computes its users, through its writes, to the publication: one that keeps the key is an
`Amend`. `RevokedCutOffHolds` says that when a publication drops a user, all SSH keys that
the new master key was ever published sealed to are pinned for users who stay; so no key
that the dropped user had, or that a re-grant had replaced, is among them, unless a user who
stays has it too. It follows from the same invariants: a user disappears only with a
rotation, and the new key had not been published before. `UnlockSufficesHolds` needs only
`UnlockInv`: an unlock on its way stores the key that `access.yaml` names.

*CreateSafe.* Nothing is assumed. `StepEffect` says once what the ten writes do, and
everything else is argued from it. `BaseInv` adds to the types what a command is about at
each step (`Placed`) and that a key is in a directory that is there (`InDirectory`), which
the rest is built on. `PrivateStaysOutHolds` comes from `IgnoreInv`: as long as nothing has
stopped early, every private file is in `.gitignore`, or some command is at a step from
which it will still get there with that entry among its `lines` (`Owed`); and a command that
appends does so behind a line that has been ended (`WholeLines`), whoever ended it. Refusals
are part of it: an add that finds the key file there drops its entries, but then the add
that made the key owes them. `PreexistingKeptHolds` comes from `AloneInv`: an add that met
no other is the only one of its safe, and if it is to clean up, the key in the directory is
its own. So does `KeysStayHolds`: of a safe whose key was issued no add on its way is one
that would clean up (`Kept`), because the directory was there when it began; and a new key
is never written, because the file is opened with `O_EXCL`.

*SecretFiles.* `TypeCorrect` assumes nothing. The other two assume one shell
(`OneShell`) and that a kill leaves no plaintext cut short (`PlaintextWhole`), as
`MCSecretFiles` does and for the reasons under "Outside the runs"; `UntouchedIsKept` also
that nobody pulls over plaintext, which `MCSecretFilesPull` shows to be necessary. `EditInv` says
for each step which file has the edit (`AtFile`), and between the steps that a plaintext the
user did not touch is what the `.enc` file says (`Kept`).

*Kubernetes.* `TypeCorrect`, `OwnershipIsRespected` and `NothingIsReverted` come from
`OwnershipInv`: a clone at `update` or `mark` whose Get is still current finds the Secret as
it found it then (`Got`), an import that has written its file has what it read there
(`Held`), a push has nothing to do that it could not decrypt (`Readable`), and a Secret that
is `unread` does not belong to a safe (`UnreadIsForeign`). Neither action property is
implied by types alone: what the command knew at the Get has to be carried to the Update,
through everything others do meanwhile, and that is what the resourceVersion is for.
`NothingIsReverted` assumes that no answer is lost, without which `MCKubernetesLost` refutes
it. `FailedImportLeavesNone` is another consequence of `OwnershipInv`. `PushedIsInSync`
comes from `PushInv`. It says that a push works on the secrets of its clone, of which none
was broken and none is both to be compared and to be pushed (`Loaded`), and, of each secret
that has been compared and that others have not written since the push began, that it is to
be pushed exactly if the cluster does not hold the clone's copy of it (`Compared`). It is
not enough to say this of a push as a whole, "as long as nobody else writes": one foreign
write would then excuse every secret of the push. Two paths of one name are where the
invariant needs the owners: writing the one must not undo the other, and it cannot, since
push does not write a Secret that is the copy of another path (`CopiesApart`).

`StoreImplemented` is the refinement `Spec => ImplementsStore`, each step of `Kubernetes` in
the view of each clone. A push that starts is `Begin`. A `Create` or `Update` of the clone
is `Write`: by `Compared` the secret differs or others wrote it, and no other path of the
view changes with it. The step that leaves nothing to be pushed makes `done` true, and
`MapsComplete` shows from `Compared` that all is there then. Every write of another clone,
an import there, a person or a deletion is `Otherwise` of the paths with that name, since
`Store` adds the Secret to the `others` of everybody but the writer. The clone's own import
is `Otherwise` as well: no push of the clone runs beside it.

*Backends.* `PushedIsInSync`, `MatchingIsSkipped` and `PlaintextIsTaken` come from
`PushInv`: the types, what the push knows of each secret that others have not written since
it began (`Knowledge`), that what is checked and what is to be checked are apart
(`Disjoint`), and that there is a push only with secrets to push (`InSession`).
`PlaintextIsTaken` rests on `CollectedPlaintext`, about the walk over the names for any
files in any order. `StoreImplemented` is the refinement: `Write`, `Open` and `Fill` are
each a `Write` of the abstract store, except a `Fill` that is for nothing because the file
was replaced meanwhile, which is `Finish` or a stutter; that the secret differs from what is
wanted, or others wrote it, is what `Knowledge` says of `need`.

*Update.* `NewerIsTheOrder`: on numbers that fit an int, `Newer` is the lexicographic order.
`DowngradeMeansOlder`: for every history, what `IsDowngrade` decides from two version
strings is what the commits say. With it, `UpdateInv` (an update on its way has a release
that is no older than its build, and a file that is what it says) gives `BinaryAlwaysRuns`
and, with `Unstamped = FALSE`, `NeverAnOlder`.

*UpdateNotice.* `OncePerInterval` comes from `Recorded`: as long as nothing has spoilt
the record of the last request, its check is the only one under way and counts its age,
or, when it is over, the cache does.

Only model-checked: the two liveness properties, `PushConverges` and `NoticeArrives`.
Fairness and `ENABLED` are out of the prover's reach. Every other property of a passing run
has a theorem.

## Not modelled

`access list`, `check`, `version` and `update --check` change nothing (`check` is the first
half of `push`). The formats of files, YAML and JSON, age and the ciphers are taken for
what they guarantee: a sealed key opens for its recipients and nobody else, a ciphertext
opens with its key and fails authentication when torn; a secret file parses to a content
or fails. SSH identities and GitHub's answer are constants (`Identity`, `GitHub`). The
questions commands ask, argument parsing and printing have no state; an answer is a choice
of the action that asks for it.

A safe has one key in `MasterKey`. A name that is used for two safes (removed and added again
elsewhere, or added in two clones of which one pushes first) has two: the plaintext key of
the first is ignored by git and stays, and wins over the wrapped key of the second
(`loadCryptoProvider`). `wrap` refuses when they differ, the other commands do not compare
them, so that `encrypt` on that machine writes files that nobody else can read.

A decrypt in another shell while push reads the plaintext files is outside `Backends`:
the file is there, empty, between the two system calls of `os.WriteFile`, and an empty YAML
file is an empty secret.

## Plan

Every component with state of its own is modelled. What could be added:

1. Secret paths: `IsSecretFile`, `RemotePath` and `SecretName` as functions on short paths,
   and which files collide.
2. Safe keys told apart, for a name that is used again.
3. `SecretFiles` and `Backends` together, for a push beside a decrypt.
