------------------------------- MODULE Update -------------------------------
(***************************************************************************)
(* `penhan update`: the binary of one machine, replaced by releases that   *)
(* GitHub serves, by several updates at a time, while the latest release   *)
(* changes (it may be withdrawn), and the user builds from source.         *)
(*                                                                         *)
(* The history of penhan's repository is a line of commits, some of them   *)
(* tagged as they are made; where on it a binary was built says which of   *)
(* two is the older. Commands see only what git describe makes of it.      *)
(***************************************************************************)
EXTENDS Versions

CONSTANTS
    LastCommit,   \* the commits are 1..LastCommit
    Tags,         \* the release each tagged commit is tagged with
    Broken,       \* tags whose build for this platform does not run
    Shells,       \* shells in which update runs
    Unstamped     \* whether builds without a described version get installed

Commits == 1..LastCommit
Tagged == DOMAIN Tags

ASSUME HistoryOk ==
    /\ LastCommit \in Nat
    /\ Tagged \subseteq Commits /\ Broken \subseteq Tagged
    /\ \A k \in Tagged : Tags[k] \in [1..3 -> 0..MaxInt]
    /\ \A k, m \in Tagged : k < m => Precedes(Tags[k], Tags[m])
    /\ Unstamped \in BOOLEAN

VARIABLES
    latest,     \* the tag that releases/latest redirects to; 0 before there is one
    exe,        \* the installed binary
    tmp,        \* per shell, the temporary file of its last update
    op          \* per shell, the update in progress

vars == <<latest, exe, tmp, op>>

-----------------------------------------------------------------------------
(* Binaries *)

\* A published archive's binary, one built from source, a download that is
\* not what was published, and a file that is not complete.
Binary == [kind : {"release", "source", "tampered", "torn"}, at : 0..LastCommit,
           dirty : BOOLEAN, stamped : BOOLEAN]
NoFile == [kind |-> "none"]
Torn == [kind |-> "torn", at |-> 0, dirty |-> FALSE, stamped |-> FALSE]
Tampered == [kind |-> "tampered", at |-> 0, dirty |-> FALSE, stamped |-> FALSE]
Published(k) == [kind |-> "release", at |-> k, dirty |-> FALSE, stamped |-> TRUE]
Built(k, dirty, stamped) ==
    [kind |-> "source", at |-> k, dirty |-> dirty, stamped |-> stamped]

\* git describe --tags --always --dirty: the last tag, and the commits since.
IsBase(t, k) == t \in Tagged /\ t <= k /\ \A m \in Tagged : m <= t \/ m > k
Describe(k, dirty) ==
    IF \E t \in Tagged : t <= k
    THEN LET t == CHOOSE t \in Tagged : IsBase(t, k) IN
         [base |-> Tags[t], commits |-> k - t, dirty |-> dirty]
    ELSE Unknown

\* version.Version of a binary.
Version(b) == IF b.stamped THEN Describe(b.at, b.dirty) ELSE Unknown

\* `penhan version` succeeds.
Runs(b) == b.kind \in {"release", "source", "tampered"}
             /\ ~(b.kind = "release" /\ b.at \in Broken)

Genuine(b) == b.kind \in {"release", "source"}

-----------------------------------------------------------------------------
(* Commands *)

Steps == {"idle", "latest", "sums", "archive", "create", "fill", "try", "rename"}
Idle == [step |-> "idle", running |-> Torn, force |-> FALSE, rel |-> 0, data |-> Torn]
Op == [step : Steps, running : Binary, force : BOOLEAN, rel : Tagged \union {0},
       data : Binary]

Goto(p, step) == op' = [op EXCEPT ![p].step = step]

\* replaceBinary's deferred Remove: the update ends without its temporary file.
Stop(p) == op' = [op EXCEPT ![p] = Idle] /\ tmp' = [tmp EXCEPT ![p] = NoFile]

\* runUpdate: the binary that runs is the one installed now. A file that a
\* killed update left has a name that no other uses: it is forgotten.
Start(p, force) ==
    /\ op[p].step = "idle"
    /\ op' = [op EXCEPT ![p] = [Idle EXCEPT !.step = "latest", !.running = exe,
                                            !.force = force]]
    /\ tmp' = [tmp EXCEPT ![p] = NoFile]
    /\ UNCHANGED <<latest, exe>>

\* Whether runUpdate goes on to install release l over `current`.
Wanted(l, current, force) ==
    /\ ~IsDowngrade(l, current)
    /\ Newer(l, current) \/ force

\* Mutant of Latest: an answer that names no tag is taken for a release.
LatestUnchecked(p) ==
    /\ op[p].step = "latest"
    /\ IF latest = 0 \/ Wanted(Plain(Tags[latest]), Version(op[p].running), op[p].force)
       THEN op' = [op EXCEPT ![p].step = "sums", ![p].rel = latest] /\ tmp' = tmp
       ELSE Stop(p)
    /\ UNCHANGED <<latest, exe>>

\* Latest, which fails unless it is redirected to a tag, and runUpdate's decision.
Latest(p) ==
    /\ op[p].step = "latest" /\ latest # 0
    /\ IF Wanted(Plain(Tags[latest]), Version(op[p].running), op[p].force)
       THEN op' = [op EXCEPT ![p].step = "sums", ![p].rel = latest] /\ tmp' = tmp
       ELSE Stop(p)
    /\ UNCHANGED <<latest, exe>>

\* Install: checksums.txt, which must be there and name the platform's archive.
Checksums(p) ==
    /\ op[p].step = "sums"
    /\ Goto(p, "archive") /\ tmp' = tmp
    /\ UNCHANGED <<latest, exe>>

\* Mutant of Verified: the checksum is not compared.
VerifiedNever(k, data) == k \in Tagged /\ data \in Binary

\* The SHA-256 of what arrived is that of checksums.txt.
Verified(k, data) == data = Published(k)

\* Install: the archive, which may arrive changed or cut short.
Archive(p) ==
    /\ op[p].step = "archive"
    /\ \E data \in {Published(op[p].rel), Tampered} :
          IF Verified(op[p].rel, data)
          THEN op' = [op EXCEPT ![p].step = "create", ![p].data = data] /\ tmp' = tmp
          ELSE Stop(p)
    /\ UNCHANGED <<latest, exe>>

\* replaceBinary: a file of its own next to the binary, then its content.
CreateTemp(p) ==
    /\ op[p].step = "create"
    /\ tmp' = [tmp EXCEPT ![p] = Torn] /\ Goto(p, "fill")
    /\ UNCHANGED <<latest, exe>>

WriteTemp(p) ==
    /\ op[p].step = "fill"
    /\ tmp' = [tmp EXCEPT ![p] = op[p].data] /\ Goto(p, "try")
    /\ UNCHANGED <<latest, exe>>

\* Mutant of Try: the new binary is not run.
TryNothing(p) ==
    /\ op[p].step = "try"
    /\ Goto(p, "rename") /\ tmp' = tmp
    /\ UNCHANGED <<latest, exe>>

\* The new binary must run before it replaces the other.
Try(p) ==
    /\ op[p].step = "try"
    /\ IF Runs(tmp[p]) THEN Goto(p, "rename") /\ tmp' = tmp ELSE Stop(p)
    /\ UNCHANGED <<latest, exe>>

Rename(p) ==
    /\ op[p].step = "rename"
    /\ exe' = tmp[p] /\ Stop(p)
    /\ UNCHANGED latest

\* A request, a write or the rename fails, or takes too long.
Fail(p) ==
    /\ op[p].step # "idle"
    /\ Stop(p)
    /\ UNCHANGED <<latest, exe>>

\* The process dies; its temporary file stays.
Kill(p) ==
    /\ op[p].step # "idle"
    /\ op' = [op EXCEPT ![p] = Idle]
    /\ UNCHANGED <<latest, exe, tmp>>

-----------------------------------------------------------------------------
(* GitHub and the user *)

\* A release is published, or the latest one withdrawn.
Point(t) ==
    /\ latest' = t
    /\ UNCHANGED <<exe, tmp, op>>

\* The user builds or installs penhan from source.
Build(k, dirty, stamped) ==
    /\ exe' = Built(k, dirty, stamped)
    /\ UNCHANGED <<latest, tmp, op>>

-----------------------------------------------------------------------------
Init ==
    /\ latest = 0
    /\ exe \in {Built(k, FALSE, TRUE) : k \in Commits}
                 \union {Published(t) : t \in Tagged \ Broken}
    /\ tmp = [p \in Shells |-> NoFile]
    /\ op = [p \in Shells |-> Idle]

Step(p) ==
    \/ Latest(p) \/ Checksums(p) \/ Archive(p)
    \/ CreateTemp(p) \/ WriteTemp(p) \/ Try(p) \/ Rename(p)

Next ==
    \/ \E p \in Shells : Step(p) \/ Fail(p) \/ Kill(p)
    \/ \E p \in Shells, force \in BOOLEAN : Start(p, force)
    \/ \E t \in Tagged : Point(t)
    \/ \E k \in Commits, dirty \in BOOLEAN, stamped \in {TRUE, ~Unstamped} :
          Build(k, dirty, stamped)

Spec == Init /\ [][Next]_vars

-----------------------------------------------------------------------------
(* Properties *)

\* Every variable keeps its shape: in particular an update past the decision
\* (update.go:51-82 of internal/commands) has a release to install.
TypeOK ==
    /\ latest \in Tagged \union {0}
    /\ exe \in Binary
    /\ tmp \in [Shells -> Binary \union {NoFile}]
    /\ op \in [Shells -> Op]
    /\ \A p \in Shells : op[p].step \notin {"idle", "latest"} => op[p].rel \in Tagged

\* The installed binary is one that penhan's authors or the user made, whole,
\* and it runs: whatever arrives, fails or dies, and whichever of several
\* updates is the last to rename (update.go:124-153, 217-258).
BinaryRuns == Genuine(exe) /\ Runs(exe)

\* No update replaces the installed binary by one made before the build that
\* runs it, and without --force only a release is replaced, by a later one,
\* although update sees nothing but versions, and installs long after it
\* looked at them (update.go:22-23 of internal/commands, update.go:284-302).
NeverOlder == [][\A p \in Shells :
    exe' # exe /\ op'[p] # op[p] =>
        /\ exe'.at >= op[p].running.at
        /\ op[p].force \/ /\ IsRelease(Version(op[p].running))
                          /\ exe'.at > op[p].running.at]_vars
=============================================================================
