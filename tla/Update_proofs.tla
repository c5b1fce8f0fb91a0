---------------------------- MODULE Update_proofs ----------------------------
(***************************************************************************)
(* Proofs about Versions and Update, for every history of releases, every  *)
(* set of shells, and whatever arrives over the network.                   *)
(***************************************************************************)
EXTENDS Update, WellFoundedInduction, TLAPS

Numbers == [1..3 -> 0..MaxInt]

-----------------------------------------------------------------------------
(* The order of versions *)

LEMMA SmallNumbers ==
  ASSUME VersionsOk, NEW r \in Numbers, NEW i \in 1..3
  PROVE  r[i] \in Nat /\ Atoi(r[i]) = r[i]
  BY DEF VersionsOk, Numbers, Atoi

LEMMA PlainIsRelease ==
  ASSUME VersionsOk, NEW r \in Numbers
  PROVE  IsRelease(Plain(r)) /\ Plain(r).base = r /\ Plain(r) # Unknown
<1>1. Plain(r) \in Described
  BY DEF Plain, Described, Release, Numbers, VersionsOk
<1> QED BY <1>1 DEF IsRelease, Plain, VersionsOk

\* Newer is the order of the numbers, as long as they fit into an int.
THEOREM NewerIsTheOrder ==
  ASSUME VersionsOk, NEW r \in Numbers, NEW s \in Numbers
  PROVE  Newer(Plain(r), Plain(s)) <=> Precedes(s, r)
<1>1. \A i \in 1..3 : /\ Atoi(r[i]) = r[i] /\ Atoi(s[i]) = s[i]
                      /\ r[i] \in Nat /\ s[i] \in Nat
  BY SmallNumbers
<1>2. Newer(Plain(r), Plain(s)) <=>
        \E i \in 1..3 : r[i] > s[i] /\ \A j \in 1..(i - 1) : r[j] = s[j]
  BY <1>1, PlainIsRelease DEF Newer
<1>3. (\E i \in 1..3 : r[i] > s[i] /\ \A j \in 1..(i - 1) : r[j] = s[j]) <=>
        \/ r[1] > s[1]
        \/ r[2] > s[2] /\ r[1] = s[1]
        \/ r[3] > s[3] /\ r[1] = s[1] /\ r[2] = s[2]
  <2>1. 1..(1 - 1) = {} /\ 1..(2 - 1) = {1} /\ 1..(3 - 1) = {1, 2} /\ 1..3 = {1, 2, 3}
    OBVIOUS
  <2> QED BY <2>1
<1>4. r[1] > s[1] <=> s[1] < r[1]
  BY <1>1
<1>5. r[2] > s[2] <=> s[2] < r[2]
  BY <1>1
<1>6. r[3] > s[3] <=> s[3] < r[3]
  BY <1>1
<1> QED BY <1>2, <1>3, <1>4, <1>5, <1>6 DEF Precedes

LEMMA PrecedesIsStrict ==
  ASSUME NEW r \in Numbers, NEW s \in Numbers, VersionsOk
  PROVE  ~(Precedes(r, s) /\ Precedes(s, r)) /\ ~Precedes(r, r)
<1>1. \A i \in 1..3 : r[i] \in Nat /\ s[i] \in Nat
  BY SmallNumbers
<1> QED BY <1>1 DEF Precedes

LEMMA TagsAscend ==
  ASSUME VersionsOk, HistoryOk, NEW k \in Tagged, NEW m \in Tagged
  PROVE  /\ k \in Nat /\ m \in Nat /\ Tags[k] \in Numbers /\ Tags[m] \in Numbers
         /\ Newer(Plain(Tags[k]), Plain(Tags[m])) <=> k > m
<1>1. k \in Nat /\ m \in Nat /\ Tags[k] \in Numbers /\ Tags[m] \in Numbers
  BY DEF HistoryOk, Commits, Numbers
<1>2. k > m => Precedes(Tags[m], Tags[k])
  BY <1>1 DEF HistoryOk
<1>3. m > k => Precedes(Tags[k], Tags[m])
  BY <1>1 DEF HistoryOk
<1>4. Precedes(Tags[m], Tags[k]) => k > m
  <2>1. CASE m > k
    BY <1>1, <1>3, <2>1, PrecedesIsStrict
  <2>2. CASE m = k
    BY <1>1, <2>2, PrecedesIsStrict
  <2> QED BY <1>1, <2>1, <2>2
<1> QED BY <1>1, <1>2, <1>4, NewerIsTheOrder

-----------------------------------------------------------------------------
(* Descriptions *)

\* A commit that comes after a tag has a last one.
LEMMA LastTag ==
  ASSUME HistoryOk, NEW k \in Commits, NEW t \in Tagged, t <= k
  PROVE  \E m \in Tagged : IsBase(m, k)
<1> DEFINE T == {k - m : m \in {n \in Tagged : n <= k}}
<1>1. k \in Nat /\ Tagged \subseteq Nat
  BY DEF HistoryOk, Commits
<1>2. T \subseteq Nat /\ k - t \in T
  BY <1>1
<1>3. PICK x \in T : \A y \in T : ~(<<y, x>> \in OpToRel(<, Nat))
  <2> HIDE DEF T
  <2> QED BY <1>2, WFMin, NatLessThanWellFounded
<1>4. PICK m \in Tagged : m <= k /\ x = k - m
  OBVIOUS
<1>5. ASSUME NEW n \in Tagged, n <= k
      PROVE  n <= m
  <2>1. k - n \in T /\ k - n \in Nat /\ x \in Nat
    BY <1>1, <1>2, <1>5
  <2>2. ~(k - n < x)
    BY <1>3, <2>1 DEF OpToRel
  <2> QED BY <1>1, <1>4, <2>1, <2>2
<1>6. IsBase(m, k)
  BY <1>1, <1>4, <1>5 DEF IsBase
<1> QED BY <1>6

LEMMA DescribedByTag ==
  ASSUME HistoryOk, VersionsOk, NEW k \in Commits, NEW dirty \in BOOLEAN,
         \E t \in Tagged : t <= k
  PROVE  \E t \in Tagged :
            /\ IsBase(t, k) /\ Tags[t] \in Numbers
            /\ Describe(k, dirty) = [base |-> Tags[t], commits |-> k - t, dirty |-> dirty]
            /\ k - t \in Nat
            /\ Describe(k, dirty) # Unknown
<1> DEFINE t == CHOOSE m \in Tagged : IsBase(m, k)
<1>1. t \in Tagged /\ IsBase(t, k)
  BY LastTag
<1>2. Describe(k, dirty) = [base |-> Tags[t], commits |-> k - t, dirty |-> dirty]
  BY DEF Describe
<1> HIDE DEF t
<1>3. Tags[t] \in Numbers /\ k - t \in Nat
  BY <1>1 DEF HistoryOk, Commits, IsBase, Numbers
<1>4. Describe(k, dirty) \in Described
  BY <1>2, <1>3 DEF Described, Release, Numbers, VersionsOk
<1> QED BY <1>1, <1>2, <1>3, <1>4 DEF VersionsOk

\* IsDowngrade, which sees two strings, tells whether the release was made
\* before the commit of the build.
THEOREM DowngradeMeansOlder ==
  ASSUME HistoryOk, VersionsOk, NEW l \in Tagged, NEW k \in Commits, NEW dirty \in BOOLEAN
  PROVE  IsDowngrade(Plain(Tags[l]), Describe(k, dirty)) <=> l < k
<1>n. l \in Nat /\ k \in Nat /\ Tags[l] \in Numbers
  BY DEF HistoryOk, Commits, Numbers
<1>1. CASE \E t \in Tagged : t <= k
  <2> DEFINE d == Describe(k, dirty)
  <2>1. PICK t \in Tagged : /\ IsBase(t, k) /\ Tags[t] \in Numbers
                            /\ d = [base |-> Tags[t], commits |-> k - t, dirty |-> dirty]
                            /\ k - t \in Nat /\ d # Unknown
    BY <1>1, DescribedByTag
  <2> HIDE DEF d
  <2>2. t \in Nat /\ t <= k /\ (l <= t \/ l > k)
    BY <2>1 DEF IsBase, HistoryOk, Commits
  <2>3. /\ Newer(Plain(Tags[l]), Plain(Tags[t])) <=> l > t
        /\ Newer(Plain(Tags[t]), Plain(Tags[l])) <=> t > l
    BY TagsAscend
  <2>4. /\ d.base = Tags[t] /\ d.commits = k - t /\ d.dirty = dirty
        /\ IsRelease(d) <=> k = t /\ ~dirty
    BY <1>n, <2>1, <2>2 DEF IsRelease
  <2>5. CASE IsRelease(d)
    <3>0. k = t /\ ~dirty
      BY <2>4, <2>5
    <3>2. dirty = FALSE
      BY <3>0, Zenon
    <3>3. k - t = 0
      BY <1>n, <3>0
    <3>1. d = Plain(Tags[t])
      BY <2>1, <3>2, <3>3, Zenon DEF Plain
    <3> QED BY <1>n, <2>2, <2>3, <2>4, <2>5, <3>1 DEF IsDowngrade, d
  <2>6. CASE ~IsRelease(d)
    <3>1. IsDowngrade(Plain(Tags[l]), d) <=> ~(l > t) /\ (t > l \/ k - t # 0)
      BY <2>1, <2>3, <2>4, <2>6 DEF IsDowngrade
    <3> QED BY <1>n, <2>2, <3>1 DEF d
  <2> QED BY <2>5, <2>6
<1>2. CASE ~\E t \in Tagged : t <= k
  <2>1. Describe(k, dirty) = Unknown /\ ~(l < k)
    BY <1>n, <1>2 DEF Describe
  <2> QED BY <2>1 DEF IsDowngrade, IsRelease
<1> QED BY <1>1, <1>2

-----------------------------------------------------------------------------
(* The inductive invariant *)

\* What an update has decided: the release is not older than the build that
\* runs, and later than it if that is a release that is not forced.
Later(o) ==
    /\ o.rel >= o.running.at
    /\ o.force \/ (IsRelease(Version(o.running)) /\ o.rel > o.running.at)

\* What an update with temporary file x knows at each step.
OpOk(o, x) ==
    /\ o.step \notin {"idle", "latest"} => o.rel \in Tagged
    /\ o.step \in {"create", "fill", "try", "rename"} => o.data = Published(o.rel)
    /\ o.step \in {"try", "rename"} => x = Published(o.rel)
    /\ o.step = "rename" => Runs(x)
    /\ Unstamped = FALSE /\ o.step # "idle" =>
          /\ o.running.stamped = TRUE /\ o.running.at \in Commits
          /\ o.step # "latest" => Later(o)

UpdateInv ==
    /\ TypeOK /\ BinaryRuns
    /\ Unstamped = FALSE => exe.stamped = TRUE /\ exe.at \in Commits
    /\ \A p \in Shells : OpOk(op[p], tmp[p])

LEMMA PublishedType ==
  ASSUME HistoryOk, NEW t \in Tagged
  PROVE  /\ Published(t) \in Binary /\ Published(t).at = t /\ t \in Commits
         /\ Published(t).stamped = TRUE /\ Genuine(Published(t))
  BY DEF HistoryOk, Commits, Published, Binary, Genuine

LEMMA BuiltType ==
  ASSUME HistoryOk, NEW k \in Commits, NEW dirty \in BOOLEAN, NEW stamped \in BOOLEAN
  PROVE  /\ Built(k, dirty, stamped) \in Binary /\ Built(k, dirty, stamped).at = k
         /\ Built(k, dirty, stamped).stamped = stamped
         /\ Genuine(Built(k, dirty, stamped)) /\ Runs(Built(k, dirty, stamped))
  BY DEF HistoryOk, Commits, Built, Binary, Genuine, Runs

LEMMA IdleType == ASSUME HistoryOk PROVE Idle \in Op /\ Idle.step = "idle"
  BY DEF HistoryOk, Idle, Op, Steps, Torn, Binary

\* The decision of runUpdate, in terms of when the two binaries were made.
LEMMA WantedIsLater ==
  ASSUME HistoryOk, VersionsOk, NEW l \in Tagged, NEW b \in Binary, NEW force \in BOOLEAN,
         b.stamped = TRUE, b.at \in Commits, Wanted(Plain(Tags[l]), Version(b), force)
  PROVE  l >= b.at /\ (force \/ (IsRelease(Version(b)) /\ l > b.at))
<1>1. Version(b) = Describe(b.at, b.dirty) /\ b.dirty \in BOOLEAN
  BY DEF Version, Binary
<1>2. l \in Nat /\ b.at \in Nat
  BY DEF HistoryOk, Commits
<1>3. l >= b.at
  <2>1. ~(l < b.at)
    BY <1>1, DowngradeMeansOlder DEF Wanted
  <2> QED BY <1>2, <2>1
<1>4. ASSUME Newer(Plain(Tags[l]), Version(b))
      PROVE  IsRelease(Version(b)) /\ l > b.at
  <2> DEFINE d == Describe(b.at, b.dirty)
  <2>1. IsRelease(d)
    BY <1>1, <1>4 DEF Newer
  <2>2. \E t \in Tagged : t <= b.at
    BY <2>1 DEF Describe, IsRelease
  <2>3. PICK t \in Tagged : /\ d = [base |-> Tags[t], commits |-> b.at - t, dirty |-> b.dirty]
                            /\ b.at - t \in Nat
    BY <1>1, <2>2, DescribedByTag
  <2>4. t \in Nat /\ b.at = t
    <3>1. t \in Nat
      BY DEF HistoryOk, Commits
    <3>2. d.commits = b.at - t /\ d.commits = 0
      BY <2>1, <2>3 DEF IsRelease
    <3> QED BY <1>2, <3>1, <3>2
  <2>5. d.base = Tags[t] /\ Plain(Tags[t]).base = Tags[t]
    BY <2>3 DEF Plain
  <2>6. Newer(Plain(Tags[l]), Plain(Tags[t]))
    <3>1. IsRelease(Plain(Tags[t]))
      BY PlainIsRelease DEF HistoryOk, Numbers
    <3> QED BY <1>1, <1>4, <2>5, <3>1 DEF Newer
  <2> QED BY <1>1, <2>1, <2>4, <2>6, TagsAscend
<1> QED BY <1>3, <1>4 DEF Wanted

\* A step of one update that leaves the installed binary alone.
LEMMA OpStep ==
  ASSUME UpdateInv, NEW p \in Shells, NEW o \in Op, NEW x \in Binary \union {NoFile},
         op' = [op EXCEPT ![p] = o], tmp' = [tmp EXCEPT ![p] = x],
         UNCHANGED <<latest, exe>>, OpOk(o, x)
  PROVE  UpdateInv'
<1>1. /\ op' \in [Shells -> Op] /\ tmp' \in [Shells -> Binary \union {NoFile}]
      /\ op'[p] = o /\ tmp'[p] = x
      /\ \A q \in Shells : q # p => op'[q] = op[q] /\ tmp'[q] = tmp[q]
  BY DEF UpdateInv, TypeOK
<1>2. TypeOK'
  BY <1>1 DEF UpdateInv, TypeOK, OpOk
<1>3. \A q \in Shells : OpOk(op'[q], tmp'[q])
  BY <1>1 DEF UpdateInv
<1> QED BY <1>2, <1>3 DEF UpdateInv, BinaryRuns, OpOk

LEMMA StopStep ==
  ASSUME HistoryOk, UpdateInv, NEW p \in Shells, Stop(p), UNCHANGED <<latest, exe>>
  PROVE  UpdateInv'
<1>1. OpOk(Idle, NoFile)
  BY DEF OpOk, Idle
<1> QED BY <1>1, IdleType, OpStep DEF Stop

LEMMA StartStep ==
  ASSUME HistoryOk, UpdateInv, NEW p \in Shells, NEW force \in BOOLEAN, Start(p, force)
  PROVE  UpdateInv'
<1> DEFINE o == [Idle EXCEPT !.step = "latest", !.running = exe, !.force = force]
<1>i. Idle \in Op /\ exe \in Binary
  BY IdleType DEF UpdateInv, TypeOK
<1>2. o \in Op /\ o.step = "latest" /\ o.running = exe
  BY <1>i DEF Op, Steps
<1> HIDE DEF o
<1>3. OpOk(o, NoFile)
  BY <1>2 DEF OpOk, UpdateInv
<1>4. op' = [op EXCEPT ![p] = o] /\ tmp' = [tmp EXCEPT ![p] = NoFile]
         /\ UNCHANGED <<latest, exe>>
  BY DEF Start, o
<1> QED BY <1>2, <1>3, <1>4, OpStep

LEMMA DecideStep ==
  ASSUME HistoryOk, VersionsOk, UpdateInv, NEW p \in Shells, Latest(p)
  PROVE  UpdateInv'
<1>1. CASE Stop(p)
  BY <1>1, StopStep DEF Latest
<1>2. CASE ~Stop(p)
  <2> DEFINE o == [op[p] EXCEPT !.step = "sums", !.rel = latest]
             b == op[p].running
  <2>1. op[p] \in Op /\ op[p].step = "latest" /\ latest \in Tagged /\ OpOk(op[p], tmp[p])
    BY DEF Latest, UpdateInv, TypeOK
  <2>2. /\ Wanted(Plain(Tags[latest]), Version(b), op[p].force)
        /\ op' = [op EXCEPT ![p].step = "sums", ![p].rel = latest] /\ tmp' = tmp
        /\ UNCHANGED <<latest, exe>>
    BY <1>2 DEF Latest
  <2>3. o \in Op /\ o.step = "sums" /\ o.rel = latest /\ o.running = b /\ o.force = op[p].force
    BY <2>1 DEF Op, Steps
  <2>4. b \in Binary /\ op[p].force \in BOOLEAN
    BY <2>1 DEF Op
  <2>5. Unstamped = FALSE =>
           /\ b.stamped = TRUE /\ b.at \in Commits
           /\ latest >= b.at /\ (op[p].force \/ (IsRelease(Version(b)) /\ latest > b.at))
    BY <2>1, <2>2, <2>4, WantedIsLater DEF OpOk
  <2>6. op' = [op EXCEPT ![p] = o]
    BY <2>1, <2>2 DEF Op, UpdateInv, TypeOK
  <2> HIDE DEF o, b
  <2>7. OpOk(o, tmp[p])
    BY <2>1, <2>3, <2>5 DEF OpOk, Later
  <2>8. tmp' = [tmp EXCEPT ![p] = tmp[p]] /\ tmp[p] \in Binary \union {NoFile}
    BY <2>2 DEF UpdateInv, TypeOK
  <2> QED BY <2>2, <2>3, <2>6, <2>7, <2>8, OpStep
<1> QED BY <1>1, <1>2

\* The steps between the decision and the rename.
LEMMA InstallStep ==
  ASSUME HistoryOk, UpdateInv, NEW p \in Shells,
         Checksums(p) \/ Archive(p) \/ CreateTemp(p) \/ WriteTemp(p) \/ Try(p)
  PROVE  UpdateInv'
<1>t. /\ op \in [Shells -> Op] /\ op[p] \in Op /\ OpOk(op[p], tmp[p])
      /\ tmp \in [Shells -> Binary \union {NoFile}] /\ tmp[p] \in Binary \union {NoFile}
      /\ op[p].data \in Binary /\ Torn \in Binary
  BY DEF UpdateInv, TypeOK, Op, Torn, Binary, HistoryOk
<1>u. UNCHANGED <<latest, exe>>
  BY DEF Checksums, Archive, CreateTemp, WriteTemp, Try
<1>1. CASE Stop(p)
  BY <1>1, <1>u, StopStep
<1>2. ASSUME NEW step \in Steps, NEW data \in Binary, NEW x \in Binary \union {NoFile},
             op' = [op EXCEPT ![p] = [op[p] EXCEPT !.step = step, !.data = data]],
             tmp' = [tmp EXCEPT ![p] = x],
             op[p].step \notin {"idle", "latest"},
             step \in {"create", "fill", "try", "rename"} => data = Published(op[p].rel),
             step \in {"try", "rename"} => x = Published(op[p].rel),
             step = "rename" => Runs(x)
      PROVE  UpdateInv'
  <2> DEFINE o == [op[p] EXCEPT !.step = step, !.data = data]
  <2>1. /\ o \in Op /\ o.step = step /\ o.data = data /\ o.rel = op[p].rel
        /\ o.running = op[p].running /\ o.force = op[p].force
    BY <1>t, <1>2 DEF Op
  <2>2. op' = [op EXCEPT ![p] = o]
    BY <1>2
  <2> HIDE DEF o
  <2>3. OpOk(o, x)
    BY <1>t, <1>2, <2>1 DEF OpOk, Later
  <2> QED BY <1>u, <1>2, <2>1, <2>2, <2>3, OpStep
<1>s. \A step : op' = [op EXCEPT ![p].step = step] =>
         op' = [op EXCEPT ![p] = [op[p] EXCEPT !.step = step, !.data = op[p].data]]
  BY <1>t DEF Op
<1>k. tmp' = tmp => tmp' = [tmp EXCEPT ![p] = tmp[p]]
  BY <1>t
<1>3. CASE Checksums(p)
  <2>1. /\ op' = [op EXCEPT ![p] = [op[p] EXCEPT !.step = "archive", !.data = op[p].data]]
        /\ tmp' = [tmp EXCEPT ![p] = tmp[p]] /\ op[p].step = "sums"
    BY <1>3, <1>s, <1>k DEF Checksums, Goto
  <2> QED BY <1>t, <1>2, <2>1 DEF Steps
<1>4. CASE Archive(p) /\ ~Stop(p)
  <2>1. PICK data \in {Published(op[p].rel), Tampered} :
           /\ Verified(op[p].rel, data) /\ tmp' = tmp
           /\ op' = [op EXCEPT ![p].step = "create", ![p].data = data]
    BY <1>4 DEF Archive
  <2>2. op[p].rel \in Tagged /\ op[p].step = "archive"
    BY <1>t, <1>4 DEF Archive, OpOk
  <2>3. data = Published(op[p].rel) /\ data \in Binary
    BY <2>1, <2>2, PublishedType DEF Verified
  <2>4. op' = [op EXCEPT ![p] = [op[p] EXCEPT !.step = "create", !.data = data]]
    BY <1>t, <2>1 DEF Op
  <2> QED BY <1>t, <1>2, <1>k, <2>1, <2>2, <2>3, <2>4 DEF Steps
<1>5. CASE CreateTemp(p)
  BY <1>t, <1>2, <1>5, <1>s DEF CreateTemp, Goto, Steps, OpOk
<1>6. CASE WriteTemp(p)
  BY <1>t, <1>2, <1>6, <1>s DEF WriteTemp, Goto, Steps, OpOk
<1>7. CASE Try(p) /\ ~Stop(p)
  BY <1>t, <1>2, <1>7, <1>s, <1>k DEF Try, Goto, Steps, OpOk
<1> QED BY <1>1, <1>3, <1>4, <1>5, <1>6, <1>7

LEMMA RenameStep ==
  ASSUME HistoryOk, UpdateInv, NEW p \in Shells, Rename(p)
  PROVE  /\ UpdateInv'
         /\ exe' = Published(op[p].rel) /\ op[p].rel \in Tagged
<1>1. /\ op[p].step = "rename" /\ OpOk(op[p], tmp[p]) /\ Idle \in Op
      /\ op' = [op EXCEPT ![p] = Idle] /\ tmp' = [tmp EXCEPT ![p] = NoFile]
      /\ exe' = tmp[p] /\ latest' = latest
  BY IdleType DEF Rename, Stop, UpdateInv
<1>2. op[p].rel \in Tagged /\ exe' = Published(op[p].rel) /\ Runs(exe)'
  BY <1>1 DEF OpOk, Runs
<1>3. /\ exe' \in Binary /\ exe'.at \in Commits /\ exe'.stamped = TRUE /\ Genuine(exe)'
  BY <1>2, PublishedType DEF Genuine
<1>4. /\ op' \in [Shells -> Op] /\ tmp' \in [Shells -> Binary \union {NoFile}]
      /\ op'[p] = Idle /\ tmp'[p] = NoFile
      /\ \A q \in Shells : q # p => op'[q] = op[q] /\ tmp'[q] = tmp[q]
  BY <1>1 DEF UpdateInv, TypeOK
<1>5. OpOk(Idle, NoFile) /\ Idle.step = "idle"
  BY DEF OpOk, Idle
<1>6. \A q \in Shells : OpOk(op'[q], tmp'[q])
  BY <1>4, <1>5 DEF UpdateInv
<1>7. TypeOK'
  BY <1>1, <1>3, <1>4, <1>5 DEF UpdateInv, TypeOK
<1> QED BY <1>2, <1>3, <1>6, <1>7 DEF UpdateInv, BinaryRuns, OpOk

LEMMA KillStep ==
  ASSUME HistoryOk, UpdateInv, NEW p \in Shells, Kill(p)
  PROVE  UpdateInv'
<1>1. OpOk(Idle, tmp[p]) /\ Idle \in Op
  BY IdleType DEF OpOk, Idle
<1>2. tmp' = [tmp EXCEPT ![p] = tmp[p]] /\ tmp[p] \in Binary \union {NoFile}
  BY DEF Kill, UpdateInv, TypeOK
<1> QED BY <1>1, <1>2, OpStep DEF Kill

\* What GitHub and the user do keeps every update's decision.
LEMMA WorldStep ==
  ASSUME HistoryOk, UpdateInv,
         \/ \E t \in Tagged : Point(t)
         \/ \E k \in Commits, dirty \in BOOLEAN, stamped \in {TRUE, ~Unstamped} :
               Build(k, dirty, stamped)
  PROVE  UpdateInv'
<1>1. CASE \E t \in Tagged : Point(t)
  BY <1>1 DEF Point, UpdateInv, TypeOK, BinaryRuns, Runs, Genuine, OpOk
<1>2. CASE \E k \in Commits, dirty \in BOOLEAN, stamped \in {TRUE, ~Unstamped} :
              Build(k, dirty, stamped)
  <2>1. PICK k \in Commits, dirty \in BOOLEAN, stamped \in {TRUE, ~Unstamped} :
                Build(k, dirty, stamped)
    BY <1>2
  <2>2. stamped \in BOOLEAN /\ (Unstamped = FALSE => stamped = TRUE)
    BY Zenon DEF HistoryOk
  <2>3. exe' = Built(k, dirty, stamped) /\ UNCHANGED <<latest, tmp, op>>
    BY <2>1 DEF Build
  <2>4. /\ exe' \in Binary /\ exe'.at \in Commits /\ exe'.stamped = stamped
        /\ Genuine(exe)' /\ Runs(exe)'
    BY <2>2, <2>3, BuiltType DEF Genuine, Runs
  <2>5. \A p \in Shells : OpOk(op'[p], tmp'[p])
    BY <2>3 DEF UpdateInv
  <2> QED BY <2>2, <2>3, <2>4, <2>5 DEF UpdateInv, TypeOK, BinaryRuns, OpOk
<1> QED BY <1>1, <1>2

LEMMA InitInv == ASSUME HistoryOk, Init PROVE UpdateInv
<1>1. /\ exe \in Binary /\ exe.at \in Commits /\ exe.stamped = TRUE
      /\ Genuine(exe) /\ Runs(exe)
  <2>1. ASSUME NEW k \in Commits, exe = Built(k, FALSE, TRUE)
        PROVE  /\ exe \in Binary /\ exe.at \in Commits /\ exe.stamped = TRUE
               /\ Genuine(exe) /\ Runs(exe)
    BY <2>1, BuiltType
  <2>2. ASSUME NEW t \in Tagged \ Broken, exe = Published(t)
        PROVE  /\ exe \in Binary /\ exe.at \in Commits /\ exe.stamped = TRUE
               /\ Genuine(exe) /\ Runs(exe)
    <3>1. exe.kind = "release" /\ exe.at = t
      BY <2>2 DEF Published
    <3> QED BY <2>2, <3>1, PublishedType DEF Runs
  <2> QED BY <2>1, <2>2 DEF Init
<1>2. \A p \in Shells : op[p] = Idle /\ tmp[p] = NoFile
  BY DEF Init
<1>3. OpOk(Idle, NoFile) /\ Idle.step = "idle" /\ Idle \in Op
  BY IdleType DEF OpOk, Idle
<1>4. TypeOK
  BY <1>1, <1>2, <1>3 DEF TypeOK, Init
<1> QED BY <1>1, <1>2, <1>3, <1>4 DEF UpdateInv, BinaryRuns

LEMMA NextInv == ASSUME HistoryOk, VersionsOk, UpdateInv, [Next]_vars PROVE UpdateInv'
<1>1. ASSUME NEW p \in Shells, Step(p) \/ Fail(p) \/ Kill(p)
      PROVE  UpdateInv'
  <2>1. CASE Fail(p)
    BY <2>1, StopStep DEF Fail
  <2> QED BY <1>1, <2>1, DecideStep, InstallStep, RenameStep, KillStep DEF Step
<1>2. CASE UNCHANGED vars
  BY <1>2 DEF vars, UpdateInv, TypeOK, BinaryRuns, Genuine, Runs, OpOk
<1> QED BY <1>1, <1>2, StartStep, WorldStep DEF Next

\* Every reachable state is well-formed.
THEOREM TypeCorrect == Spec => []TypeOK
<1>1. Init => UpdateInv
  BY HistoryOk, InitInv
<1>2. UpdateInv /\ [Next]_vars => UpdateInv'
  BY HistoryOk, VersionsOk, NextInv
<1>3. UpdateInv => TypeOK
  BY DEF UpdateInv
<1> QED BY <1>1, <1>2, <1>3, PTL DEF Spec

\* Whatever arrives, fails or is killed, and however many updates run at a
\* time, the installed binary is whole, genuine and runs.
THEOREM BinaryAlwaysRuns == Spec => []BinaryRuns
<1>1. Init => UpdateInv
  BY HistoryOk, InitInv
<1>2. UpdateInv /\ [Next]_vars => UpdateInv'
  BY HistoryOk, VersionsOk, NextInv
<1>3. UpdateInv => BinaryRuns
  BY DEF UpdateInv
<1> QED BY <1>1, <1>2, <1>3, PTL DEF Spec

LEMMA RenamedIsLater ==
  ASSUME HistoryOk, Unstamped = FALSE, UpdateInv, [Next]_vars, NEW p \in Shells,
         exe' # exe, op'[p] # op[p]
  PROVE  /\ exe'.at >= op[p].running.at
         /\ op[p].force \/ /\ IsRelease(Version(op[p].running))
                           /\ exe'.at > op[p].running.at
<1>1. Rename(p)
  <2>1. ASSUME NEW q \in Shells, Rename(q), q # p
        PROVE  FALSE
    BY <2>1 DEF Rename, Stop, UpdateInv, TypeOK
  <2>2. ASSUME NEW q \in Shells, Step(q)
        PROVE  Rename(q)
    BY <2>2 DEF Step, Latest, Checksums, Archive, CreateTemp, WriteTemp, Try
  <2> QED BY <2>1, <2>2 DEF Next, vars, Fail, Kill, Start, Point, Build
<1>2. exe'.at = op[p].rel /\ op[p].step = "rename" /\ OpOk(op[p], tmp[p])
  BY <1>1, RenameStep, PublishedType DEF Rename, UpdateInv
<1> QED BY <1>2 DEF OpOk, Later

\* No update installs a release made before the build that runs it, and
\* without --force only a later release over a release, as long as every
\* build carries what git describe says of it.
THEOREM NeverAnOlder ==
  ASSUME Unstamped = FALSE
  PROVE  Spec => NeverOlder
<1>1. Init => UpdateInv
  BY HistoryOk, InitInv
<1>2. UpdateInv /\ [Next]_vars => UpdateInv'
  BY HistoryOk, VersionsOk, NextInv
<1>3. UpdateInv /\ [Next]_vars =>
        [\A p \in Shells :
            exe' # exe /\ op'[p] # op[p] =>
                /\ exe'.at >= op[p].running.at
                /\ op[p].force \/ /\ IsRelease(Version(op[p].running))
                                  /\ exe'.at > op[p].running.at]_vars
  BY HistoryOk, RenamedIsLater
<1> QED BY <1>1, <1>2, <1>3, PTL DEF Spec, NeverOlder
=============================================================================
