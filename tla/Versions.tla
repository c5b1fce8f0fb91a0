------------------------------ MODULE Versions ------------------------------
(***************************************************************************)
(* The versions of penhan as `penhan update` and the update notice compare *)
(* them. A release is its three numbers. What a binary says about itself   *)
(* is a release, or what git describe prints for a build made after one    *)
(* (v0.5.1-12-gfa30a39, v0.5.1-dirty), or something else (dev, a bare      *)
(* hash, a pseudo-version), which is Unknown.                              *)
(***************************************************************************)
EXTENDS Integers

CONSTANTS
    MaxInt,    \* the largest int
    Unknown    \* a version that is neither a release nor described

Release == [1..3 -> Nat]
Described == [base : Release, commits : Nat, dirty : BOOLEAN]

ASSUME VersionsOk == MaxInt \in Nat /\ Unknown \notin Described

\* A plain release, such as the tag that Latest returns.
Plain(r) == [base |-> r, commits |-> 0, dirty |-> FALSE]

IsRelease(v) == v # Unknown /\ v.commits = 0 /\ ~v.dirty

\* strconv.Atoi with its error ignored: too many digits give the largest int.
Atoi(n) == IF n > MaxInt THEN MaxInt ELSE n

\* The first number that differs decides.
Newer(latest, current) ==
    /\ IsRelease(latest) /\ IsRelease(current)
    /\ \E i \in 1..3 :
          /\ Atoi(latest.base[i]) > Atoi(current.base[i])
          /\ \A j \in 1..(i - 1) : Atoi(latest.base[j]) = Atoi(current.base[j])

\* Mutant of IsDowngrade: the commits since the release do not count.
IsDowngradeFromBase(latest, current) ==
    /\ current # Unknown
    /\ Newer(Plain(current.base), latest)

\* Whether `latest` is older than a release, or no newer than the release
\* that a development build comes after.
IsDowngrade(latest, current) ==
    \/ IsRelease(current) /\ Newer(current, latest)
    \/ /\ current # Unknown /\ ~IsRelease(current)
       /\ ~Newer(latest, Plain(current.base))
       /\ Newer(Plain(current.base), latest) \/ current.commits # 0

-----------------------------------------------------------------------------
\* The order of the numbers themselves, which the above is to agree with.
Precedes(r, s) ==
    \/ r[1] < s[1]
    \/ r[1] = s[1] /\ r[2] < s[2]
    \/ r[1] = s[1] /\ r[2] = s[2] /\ r[3] < s[3]
=============================================================================
