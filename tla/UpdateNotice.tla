---------------------------- MODULE UpdateNotice ----------------------------
(***************************************************************************)
(* The notice of a newer release: every command looks for one in the       *)
(* background, at most once per interval, and prints what it finds if it   *)
(* is there when the command ends. The commands of one user share a cache  *)
(* file without a lock, and a command that ends takes its check with it.   *)
(*                                                                         *)
(* Time is kept as ages, counted up to the interval: nothing in the code   *)
(* depends on more.                                                        *)
(***************************************************************************)
EXTENDS Versions

CONSTANTS
    LastRelease,   \* the releases, 1..LastRelease as they appear
    Number,        \* the version of each
    Interval,      \* how long a check is good for, in ticks
    Shells         \* terminals in which commands run

Releases == 1..LastRelease

ASSUME NoticeOk ==
    /\ LastRelease \in Nat \ {0} /\ Interval \in Nat \ {0}
    /\ Number \in [Releases -> [1..3 -> 0..MaxInt]]
    /\ \A r, s \in Releases : r < s => Precedes(Number[r], Number[s])

VARIABLES
    installed,   \* the release in use
    latest,      \* the latest published one
    cache,       \* update-check.json
    op,          \* per shell, the command and its check in the background
    asked,       \* the last request to GitHub, see Ask
    told         \* the release of the last notice printed; 0 before the first

vars == <<installed, latest, cache, op, asked, told>>

-----------------------------------------------------------------------------
Ages == 0..Interval
Older(age) == IF age < Interval THEN age + 1 ELSE age

\* notifyCache: when the last check was made, and the release it found, or 0.
Entry == [age : Ages, latest : Releases \union {0}]
NoFile == [age |-> -1, latest |-> 0]
Empty == [age |-> -2, latest |-> 0]
Garbled == [age |-> -3, latest |-> 0]
Unreadable == {NoFile, Empty, Garbled}

\* Reading no file, or no JSON, gives the zero value: checked ages ago.
Read(c) == IF c \in Unreadable THEN [age |-> Interval, latest |-> 0] ELSE c

Steps == {"idle", "wait", "open", "fill", "done"}
Idle == [step |-> "idle", running |-> 0, age |-> 0, latest |-> 0]
Op == [step : Steps, running : Releases \union {0}, age : Ages,
       latest : Releases \union {0}]

Checking(p) == op[p].step \in {"wait", "open", "fill"}

\* Mutant of Due: only the first check is ever made.
DueOnce(c) == c \in Unreadable

Due(c) == Read(c).age >= Interval

VersionOf(r) == IF r = 0 THEN Unknown ELSE Plain(Number[r])

-----------------------------------------------------------------------------
(* A command and its check *)

\* Remembers a request: how long ago it was, and whether its record may be
\* spoilt, by a check at the same time or one that does not get to the end.
Ask(p) == asked' = [age |-> 0, spoilt |-> \E q \in Shells \ {p} : Checking(q)]
Spoil == asked' = [asked EXCEPT !.spoilt = TRUE]

\* A command starts: NewerVersion reads the cache, and asks if it is old.
Check(p) ==
    /\ op[p].step = "idle"
    /\ LET c == Read(cache) IN
       IF Due(cache)
       THEN /\ op' = [op EXCEPT ![p] = [step |-> "wait", running |-> installed,
                                        age |-> 0, latest |-> c.latest]]
            /\ Ask(p)
       ELSE /\ op' = [op EXCEPT ![p] = [step |-> "done", running |-> installed,
                                        age |-> 0, latest |-> c.latest]]
            /\ UNCHANGED asked
    /\ UNCHANGED <<installed, latest, cache, told>>

\* Latest answers.
Succeed(p) ==
    /\ op[p].step = "wait"
    /\ op' = [op EXCEPT ![p].step = "open", ![p].latest = latest]
    /\ UNCHANGED <<installed, latest, cache, asked, told>>

\* Mutant of NoAnswer: a check that failed is not recorded.
NoAnswerUnrecorded(p) ==
    /\ op[p].step = "wait"
    /\ op' = [op EXCEPT ![p].step = "done"]
    /\ UNCHANGED <<installed, latest, cache, asked, told>>

\* Latest fails, or takes three seconds: the release known so far stays.
NoAnswer(p) ==
    /\ op[p].step = "wait"
    /\ op' = [op EXCEPT ![p].step = "open"]
    /\ UNCHANGED <<installed, latest, cache, asked, told>>

\* os.WriteFile: the file is made, or emptied ...
Open(p) ==
    /\ op[p].step = "open"
    /\ cache' = Empty /\ op' = [op EXCEPT ![p].step = "fill"]
    /\ UNCHANGED <<installed, latest, asked, told>>

\* ... and written, from its beginning, over what another command has written
\* since: if that is longer, the end of it stays, and the whole is no JSON.
Fill(p) ==
    /\ op[p].step = "fill"
    /\ \/ cache' = [age |-> op[p].age, latest |-> op[p].latest]
       \/ cache # Empty /\ cache' = Garbled
    /\ op' = [op EXCEPT ![p].step = "done", ![p].age = 0]
    /\ UNCHANGED <<installed, latest, asked, told>>

\* The directory is not writable, or the disk is full; nobody hears of it.
NoRecord(p) ==
    /\ op[p].step \in {"open", "fill"}
    /\ op' = [op EXCEPT ![p].step = "done", ![p].age = 0]
    /\ Spoil
    /\ UNCHANGED <<installed, latest, cache, told>>

\* Mutant of Tell: the command that has ended keeps its result.
TellAgain(p) ==
    /\ op[p].step = "done"
    /\ told' = IF Newer(VersionOf(op[p].latest), VersionOf(op[p].running))
               THEN op[p].latest ELSE told
    /\ op' = [op EXCEPT ![p].step = "idle"]
    /\ UNCHANGED <<installed, latest, cache, asked>>

\* printUpdateNotice, with the result there within 500 milliseconds.
Tell(p) ==
    /\ op[p].step = "done"
    /\ told' = IF Newer(VersionOf(op[p].latest), VersionOf(op[p].running))
               THEN op[p].latest ELSE told
    /\ op' = [op EXCEPT ![p] = Idle]
    /\ UNCHANGED <<installed, latest, cache, asked>>

\* The command fails, which prints no notice, or does not wait any longer.
\* The check ends with the process, wherever it is.
Leave(p) ==
    /\ op[p].step # "idle"
    /\ op' = [op EXCEPT ![p] = Idle]
    /\ IF Checking(p) THEN Spoil ELSE UNCHANGED asked
    /\ UNCHANGED <<installed, latest, cache, told>>

-----------------------------------------------------------------------------
(* The world *)

Tick ==
    /\ cache' = IF cache \in Unreadable THEN cache
                ELSE [cache EXCEPT !.age = Older(@)]
    /\ op' = [p \in Shells |->
                IF Checking(p) THEN [op[p] EXCEPT !.age = Older(@)] ELSE op[p]]
    /\ asked' = [asked EXCEPT !.age = Older(@)]
    /\ UNCHANGED <<installed, latest, told>>

Publish ==
    /\ latest < LastRelease
    /\ latest' = latest + 1
    /\ UNCHANGED <<installed, cache, op, asked, told>>

Upgrade ==
    /\ installed' = latest
    /\ UNCHANGED <<latest, cache, op, asked, told>>

-----------------------------------------------------------------------------
Init ==
    /\ installed = 1 /\ latest = 1
    /\ cache = NoFile
    /\ op = [p \in Shells |-> Idle]
    /\ asked = [age |-> Interval, spoilt |-> FALSE]
    /\ told = 0

Next ==
    \/ \E p \in Shells : \/ Check(p) \/ Succeed(p) \/ NoAnswer(p) \/ Open(p)
                         \/ Fill(p) \/ NoRecord(p) \/ Tell(p) \/ Leave(p)
    \/ Tick \/ Publish \/ Upgrade

Spec == Init /\ [][Next]_vars

\* The check of p knows the latest release.
Fresh(p) == op[p].latest = latest

\* Time passes, and the user goes on running commands. Not every request
\* fails, and not every command whose request is answered is over, or fails,
\* before its check is.
Fairness ==
    /\ WF_vars(Tick)
    /\ \A p \in Shells :
         /\ WF_vars(Check(p)) /\ SF_vars(Succeed(p))
         /\ WF_vars(NoAnswer(p) \/ Open(p) \/ Fill(p) \/ Tell(p))
         /\ SF_vars(Fresh(p) /\ Open(p))
         /\ SF_vars(Fresh(p) /\ Fill(p))
         /\ SF_vars(Fresh(p) /\ Tell(p))

LiveSpec == Spec /\ Fairness

-----------------------------------------------------------------------------
(* Properties *)

\* Every variable keeps its shape, and nothing of a command outlives it.
TypeOK ==
    /\ installed \in Releases /\ latest \in Releases
    /\ cache \in Entry \union Unreadable
    /\ op \in [Shells -> Op]
    /\ \A p \in Shells : op[p].step = "idle" => op[p] = Idle
    /\ asked \in [age : Ages, spoilt : BOOLEAN]
    /\ told \in Releases \union {0}

Asks(p) == op[p].step = "idle" /\ op'[p].step = "wait"

\* What holds (notify.go:48-59): a request within the interval after another
\* is sent only during a check of another command, or after checks that met
\* each other, were cut off or could not be recorded. Failed requests count.
OnceUnlessSpoilt == [][\A p \in Shells :
    Asks(p) /\ (\A q \in Shells \ {p} : ~Checking(q)) /\ ~asked.spoilt
        => asked.age >= Interval]_vars

\* The user of an older release is told of each release that appears, or
\* installs it: no cached answer, failed check or broken cache file keeps the
\* news away forever (notify.go:37-65, update.go:120-131 of internal/commands).
NoticeArrives == \A r \in Releases :
    (latest >= r /\ installed < r) ~> (told >= r \/ installed >= r)
=============================================================================
