------------------------- MODULE UpdateNotice_proofs -------------------------
(***************************************************************************)
(* Proofs about UpdateNotice for every interval, every history of releases *)
(* and every set of shells.                                                *)
(***************************************************************************)
EXTENDS UpdateNotice, TLAPS

-----------------------------------------------------------------------------
(* Types *)

LEMMA AgesGrow ==
  /\ 0 \in Ages /\ Interval \in Ages /\ Older(Interval) = Interval
  /\ \A age \in Ages : Older(age) \in Ages
  BY NoticeOk DEF NoticeOk, Ages, Older

LEMMA IdleType ==
  Idle \in Op /\ Idle.step = "idle"
<1>1. 0 \in Ages
  BY AgesGrow
<1> QED BY <1>1 DEF Idle, Op, Steps

\* A cache that can be read says what was written; another says nothing.
LEMMA ReadType ==
  /\ \A c \in Entry : c \notin Unreadable /\ Read(c) = c
  /\ \A c \in Entry \union Unreadable : Read(c) \in Entry
  /\ \A c \in Unreadable : Read(c).age = Interval
<1>1. ASSUME NEW c \in Entry PROVE c \notin Unreadable
  <2>1. c.age \in Nat
    BY <1>1, NoticeOk DEF Entry, Ages, NoticeOk
  <2>2. NoFile.age = -1 /\ Empty.age = -2 /\ Garbled.age = -3
    BY DEF NoFile, Empty, Garbled
  <2> QED BY <2>1, <2>2 DEF Unreadable
<1>2. [age |-> Interval, latest |-> 0] \in Entry
  BY AgesGrow DEF Entry
<1> QED BY <1>1, <1>2 DEF Read

LEMMA NextType == ASSUME TypeOK, [Next]_vars PROVE TypeOK'
<1>1. /\ installed \in Releases /\ latest \in Releases
      /\ cache \in Entry \union Unreadable /\ op \in [Shells -> Op]
      /\ \A p \in Shells : op[p].step = "idle" => op[p] = Idle
      /\ asked \in [age : Ages, spoilt : BOOLEAN] /\ told \in Releases \union {0}
  BY DEF TypeOK
\* What a step of p does to its record.
<1>2. ASSUME NEW p \in Shells, NEW o \in Op, op' = [op EXCEPT ![p] = o],
             o.step = "idle" => o = Idle
      PROVE  op' \in [Shells -> Op] /\ \A q \in Shells : op'[q].step = "idle" => op'[q] = Idle
  BY <1>1, <1>2
<1>3. ASSUME NEW p \in Shells, Check(p) PROVE TypeOK'
  <2> DEFINE c == Read(cache)
             o == [step |-> IF Due(cache) THEN "wait" ELSE "done", running |-> installed,
                   age |-> 0, latest |-> c.latest]
  <2>1. op' = [op EXCEPT ![p] = o]
    BY <1>3 DEF Check
  <2>2. c \in Entry
    BY <1>1, ReadType
  <2> HIDE DEF c
  <2>3. o \in Op /\ o.step # "idle"
    BY <1>1, <2>2, AgesGrow DEF Entry, Op, Steps
  <2> HIDE DEF o
  <2>4. op' \in [Shells -> Op] /\ \A q \in Shells : op'[q].step = "idle" => op'[q] = Idle
    BY <1>2, <2>1, <2>3
  <2> DEFINE others == \E q \in Shells \ {p} : Checking(q)
  <2>5. others \in BOOLEAN
    OBVIOUS
  <2>6. asked' = asked \/ asked' = [age |-> 0, spoilt |-> others]
    BY <1>3 DEF Check, Ask
  <2> HIDE DEF others
  <2>7. asked' \in [age : Ages, spoilt : BOOLEAN]
    BY <1>1, <2>5, <2>6, AgesGrow
  <2> QED BY <1>1, <1>3, <2>4, <2>7 DEF Check, TypeOK
<1>4. ASSUME NEW p \in Shells, Succeed(p) \/ NoAnswer(p) \/ Open(p) PROVE TypeOK'
  <2>1. PICK step \in {"open", "fill"}, new \in Releases \union {0} :
           op' = [op EXCEPT ![p] = [op[p] EXCEPT !.step = step, !.latest = new]]
    <3>1. CASE Succeed(p)
      BY <1>1, <3>1 DEF Succeed
    <3>2. CASE NoAnswer(p) \/ Open(p)
      <4>1. PICK step \in {"open", "fill"} : op' = [op EXCEPT ![p] = [op[p] EXCEPT !.step = step]]
        BY <1>1, <3>2 DEF NoAnswer, Open
      <4>2. [op[p] EXCEPT !.step = step] = [op[p] EXCEPT !.step = step, !.latest = op[p].latest]
        BY <1>1 DEF Op
      <4> QED BY <1>1, <4>1, <4>2 DEF Op
    <3> QED BY <1>4, <3>1, <3>2
  <2> DEFINE o == [op[p] EXCEPT !.step = step, !.latest = new]
  <2>2. o \in Op /\ o.step # "idle"
    BY <1>1 DEF Op, Steps
  <2> HIDE DEF o
  <2>3. op' \in [Shells -> Op] /\ \A q \in Shells : op'[q].step = "idle" => op'[q] = Idle
    BY <1>2, <2>1, <2>2 DEF o
  <2> QED BY <1>1, <1>4, <2>3 DEF Succeed, NoAnswer, Open, TypeOK, Unreadable
<1>5. ASSUME NEW p \in Shells, Fill(p) \/ NoRecord(p) PROVE TypeOK'
  <2> DEFINE o == [op[p] EXCEPT !.step = "done", !.age = 0]
  <2>1. op' = [op EXCEPT ![p] = o]
    BY <1>1, <1>5 DEF Fill, NoRecord
  <2>2. o \in Op /\ o.step # "idle"
    BY <1>1, AgesGrow DEF Op, Steps
  <2> HIDE DEF o
  <2>3. op' \in [Shells -> Op] /\ \A q \in Shells : op'[q].step = "idle" => op'[q] = Idle
    BY <1>2, <2>1, <2>2
  <2>4. cache' \in Entry \union Unreadable
    BY <1>1, <1>5 DEF Fill, NoRecord, Entry, Op, Unreadable
  <2>5. asked' \in [age : Ages, spoilt : BOOLEAN]
    BY <1>1, <1>5 DEF Fill, NoRecord, Spoil
  <2> QED BY <1>1, <1>5, <2>3, <2>4, <2>5 DEF Fill, NoRecord, TypeOK
<1>6. ASSUME NEW p \in Shells, Tell(p) \/ Leave(p) PROVE TypeOK'
  <2>1. op' \in [Shells -> Op] /\ \A q \in Shells : op'[q].step = "idle" => op'[q] = Idle
    BY <1>1, <1>2, <1>6, IdleType DEF Tell, Leave
  <2>2. asked' \in [age : Ages, spoilt : BOOLEAN]
    BY <1>1, <1>6 DEF Tell, Leave, Spoil
  <2>3. told' \in Releases \union {0} /\ UNCHANGED <<installed, latest, cache>>
    BY <1>1, <1>6 DEF Tell, Leave, Op
  <2> QED BY <1>1, <2>1, <2>2, <2>3 DEF TypeOK
<1>7. CASE Tick
  <2>1. cache' \in Entry \union Unreadable
    <3>1. \A c \in Entry : [c EXCEPT !.age = Older(c.age)] \in Entry
      BY AgesGrow DEF Entry
    <3> QED BY <1>1, <1>7, <3>1 DEF Tick
  <2>2. \A p \in Shells : op'[p] = IF Checking(p) THEN [op[p] EXCEPT !.age = Older(@)] ELSE op[p]
    BY <1>7 DEF Tick
  <2>3. ASSUME NEW p \in Shells
        PROVE  op'[p] \in Op /\ (op'[p].step = "idle" => op'[p] = Idle)
    <3>1. CASE ~Checking(p)
      BY <1>1, <2>2, <3>1
    <3>2. CASE Checking(p)
      <4>1. \A o \in Op : /\ [o EXCEPT !.age = Older(o.age)] \in Op
                         /\ [o EXCEPT !.age = Older(o.age)].step = o.step
        BY AgesGrow DEF Op
      <4>2. op'[p] = [op[p] EXCEPT !.age = Older(op[p].age)]
        BY <2>2, <3>2
      <4> QED BY <1>1, <3>2, <4>1, <4>2 DEF Checking
    <3> QED BY <3>1, <3>2
  <2>4. op' \in [Shells -> Op]
    BY <1>7, <2>3 DEF Tick
  <2>5. asked' \in [age : Ages, spoilt : BOOLEAN]
    BY <1>1, <1>7, AgesGrow DEF Tick
  <2> QED BY <1>1, <1>7, <2>1, <2>3, <2>4, <2>5 DEF Tick, TypeOK
<1>8. CASE Publish \/ Upgrade \/ UNCHANGED vars
  <2>1. latest < LastRelease => latest + 1 \in Releases
    BY <1>1, NoticeOk DEF Releases, NoticeOk
  <2> QED BY <1>1, <1>8, <2>1 DEF Publish, Upgrade, vars, TypeOK
<1> QED BY <1>3, <1>4, <1>5, <1>6, <1>7, <1>8 DEF Next

LEMMA InitType == ASSUME Init PROVE TypeOK
  BY IdleType, AgesGrow, NoticeOk DEF Init, TypeOK, Releases, Unreadable, NoticeOk

\* Every variable keeps its shape, and nothing of a command outlives it.
THEOREM TypeCorrect == Spec => []TypeOK
  BY InitType, NextType, PTL DEF Spec

-----------------------------------------------------------------------------
(* One request per interval *)

\* As long as nothing has spoilt the record of the last request, its check is
\* the only one there is and counts its age, or the cache does.
Recorded ==
    ~asked.spoilt =>
        /\ \A p, q \in Shells : Checking(p) /\ Checking(q) => p = q
        /\ \A p \in Shells : Checking(p) => op[p].age = asked.age
        /\ \A p \in Shells : op[p].step = "fill" => cache = Empty
        /\ (\A p \in Shells : ~Checking(p)) => Read(cache).age = asked.age

NoticeInv == TypeOK /\ Recorded

LEMMA NoticeInit == ASSUME Init PROVE NoticeInv
<1>1. \A p \in Shells : ~Checking(p)
  BY IdleType DEF Init, Checking
<1>2. Read(cache).age = Interval
  BY ReadType DEF Init, Unreadable
<1>3. asked.age = Interval
  BY DEF Init
<1> QED BY <1>1, <1>2, <1>3, InitType DEF NoticeInv, Recorded, Checking

\* A check that begins alone is the one whose age counts.
LEMMA RecordedCheck ==
  ASSUME NoticeInv, NEW p \in Shells, Check(p)
  PROVE  Recorded'
<1>1. /\ op \in [Shells -> Op] /\ UNCHANGED cache /\ ~Checking(p)
      /\ \A q \in Shells : q # p => op'[q] = op[q]
  BY DEF NoticeInv, TypeOK, Check, Checking
<1>2. \A q \in Shells : q # p => (Checking(q)' <=> Checking(q))
  BY <1>1 DEF Checking
<1>3. CASE Due(cache)
  <2>1. op'[p].step = "wait" /\ op'[p].age = 0
    BY <1>1, <1>3 DEF Check
  <2>2. asked'.age = 0
    BY <1>3 DEF Check, Ask
  <2> SUFFICES ASSUME ~asked'.spoilt PROVE Recorded'
    BY DEF Recorded
  <2>3. \A q \in Shells : q # p => ~Checking(q)
    BY <1>3 DEF Check, Ask
  <2>4. Checking(p)' /\ \A q \in Shells : q # p => ~Checking(q)'
    BY <1>2, <2>1, <2>3 DEF Checking
  <2> QED BY <2>1, <2>2, <2>4 DEF Recorded, Checking
<1>4. CASE ~Due(cache)
  <2>1. op'[p].step = "done" /\ UNCHANGED asked
    BY <1>1, <1>4 DEF Check
  <2>2. ~Checking(p)'
    BY <2>1 DEF Checking
  <2>3. \A q \in Shells : Checking(q)' => Checking(q) /\ op'[q] = op[q]
    BY <1>1, <1>2, <2>2
  <2>4. (\A q \in Shells : ~Checking(q)') => \A q \in Shells : ~Checking(q)
    BY <1>1, <1>2
  <2> QED BY <1>1, <2>1, <2>3, <2>4 DEF NoticeInv, Recorded, Checking
<1> QED BY <1>3, <1>4

\* The steps of a check that is under way, which keep its age.
LEMMA RecordedGoesOn ==
  ASSUME NoticeInv, NEW p \in Shells, Succeed(p) \/ NoAnswer(p) \/ Open(p)
  PROVE  Recorded'
<1>1. op \in [Shells -> Op] /\ UNCHANGED asked /\ Checking(p)
  BY DEF NoticeInv, TypeOK, Succeed, NoAnswer, Open, Checking
<1>2. /\ op'[p].age = op[p].age /\ op'[p].step \in {"open", "fill"}
      /\ op'[p].step = "fill" => cache' = Empty
      /\ \A q \in Shells : q # p => op'[q] = op[q]
  BY <1>1 DEF Succeed, NoAnswer, Open, Op
<1> SUFFICES ASSUME ~asked.spoilt PROVE Recorded'
  BY <1>1 DEF Recorded
<1>3. \A q \in Shells : q # p => ~Checking(q) /\ ~Checking(q)'
  BY <1>1, <1>2 DEF NoticeInv, Recorded, Checking
<1>4. Checking(p)' /\ op'[p].age = asked.age
  BY <1>1, <1>2 DEF NoticeInv, Recorded, Checking
<1> QED BY <1>1, <1>2, <1>3, <1>4 DEF Recorded, Checking

\* A check that ends in order leaves its age in the cache; one that does not
\* spoils the record.
LEMMA RecordedEnds ==
  ASSUME NoticeInv, NEW p \in Shells, Fill(p) \/ NoRecord(p) \/ Tell(p) \/ Leave(p)
  PROVE  Recorded'
<1> SUFFICES ASSUME ~asked'.spoilt PROVE Recorded'
  BY DEF Recorded
<1>1. /\ op \in [Shells -> Op] /\ cache \in Entry \union Unreadable
      /\ asked \in [age : Ages, spoilt : BOOLEAN]
  BY DEF NoticeInv, TypeOK
<1>2. /\ UNCHANGED asked
      /\ Fill(p) \/ (~Checking(p) /\ UNCHANGED cache)
  <2>1. Spoil => asked'.spoilt
    BY <1>1 DEF Spoil
  <2> QED BY <2>1 DEF Fill, NoRecord, Tell, Leave, Checking
<1>3. ~Checking(p)' /\ \A q \in Shells : q # p => op'[q] = op[q]
  <2>1. op'[p].step \in {"done", "idle"} /\ \A q \in Shells : q # p => op'[q] = op[q]
    <3>1. CASE Fill(p) \/ NoRecord(p)
      BY <1>1, <3>1 DEF Fill, NoRecord, Op
    <3>2. CASE Tell(p) \/ Leave(p)
      BY <1>1, <3>2, IdleType DEF Tell, Leave
    <3> QED BY <3>1, <3>2
  <2> QED BY <2>1 DEF Checking
<1>4. CASE Fill(p)
  <2>1. Checking(p) /\ cache = Empty /\ op[p].age = asked.age
    BY <1>2, <1>4 DEF Fill, NoticeInv, Recorded, Checking
  <2>2. cache' = [age |-> op[p].age, latest |-> op[p].latest]
    BY <1>4, <2>1 DEF Fill
  <2>3. cache' \in Entry
    BY <1>1, <2>2 DEF Entry, Op
  <2>4. Read(cache') = cache' /\ Read(cache').age = asked.age
    BY <2>1, <2>2, <2>3, ReadType
  <2>5. \A q \in Shells : ~Checking(q)'
    BY <1>2, <1>3, <2>1 DEF NoticeInv, Recorded, Checking
  <2> QED BY <1>2, <2>4, <2>5 DEF Recorded, Checking
<1>5. CASE ~Checking(p) /\ UNCHANGED cache
  <2>1. \A q \in Shells : Checking(q)' => Checking(q) /\ op'[q] = op[q]
    BY <1>3 DEF Checking
  <2>2. (\A q \in Shells : ~Checking(q)') => \A q \in Shells : ~Checking(q)
    BY <1>3, <1>5 DEF Checking
  <2> QED BY <1>2, <1>5, <2>1, <2>2 DEF NoticeInv, Recorded, Checking
<1> QED BY <1>2, <1>4, <1>5

LEMMA RecordedTick == ASSUME NoticeInv, Tick PROVE Recorded'
<1> SUFFICES ASSUME ~asked'.spoilt PROVE Recorded'
  BY DEF Recorded
<1>1. /\ op \in [Shells -> Op] /\ cache \in Entry \union Unreadable
      /\ asked \in [age : Ages, spoilt : BOOLEAN]
  BY DEF NoticeInv, TypeOK
<1>2. asked'.age = Older(asked.age) /\ ~asked.spoilt
  BY <1>1 DEF Tick
<1>3. \A p \in Shells : op'[p] = IF Checking(p) THEN [op[p] EXCEPT !.age = Older(@)] ELSE op[p]
  BY DEF Tick
<1>4. \A p \in Shells : /\ op'[p].step = op[p].step
                        /\ Checking(p) => op'[p].age = Older(op[p].age)
  BY <1>1, <1>3 DEF Op
<1>5. \A p \in Shells : Checking(p)' <=> Checking(p)
  BY <1>4 DEF Checking
<1>6. cache = Empty => cache' = Empty
  BY DEF Tick, Unreadable
<1>7. Read(cache').age = Older(Read(cache).age)
  <2>1. CASE cache \in Unreadable
    BY <2>1, ReadType, AgesGrow DEF Tick
  <2>2. CASE cache \notin Unreadable
    <3>1. cache \in Entry /\ cache' = [cache EXCEPT !.age = Older(cache.age)]
      BY <1>1, <2>2 DEF Tick
    <3>2. cache' \in Entry /\ cache'.age = Older(cache.age)
      BY <3>1, AgesGrow DEF Entry
    <3>3. Read(cache) = cache /\ Read(cache') = cache'
      BY <3>1, <3>2, ReadType
    <3> QED BY <3>2, <3>3
  <2> QED BY <2>1, <2>2
<1> QED BY <1>2, <1>4, <1>5, <1>6, <1>7 DEF NoticeInv, Recorded, Read

LEMMA NoticeNext == ASSUME NoticeInv, [Next]_vars PROVE NoticeInv'
<1>1. TypeOK'
  BY NextType DEF NoticeInv
<1>2. CASE Publish \/ Upgrade \/ UNCHANGED vars
  <2>1. UNCHANGED <<cache, op, asked>>
    BY <1>2 DEF Publish, Upgrade, vars
  <2>2. Recorded'
    BY <2>1 DEF NoticeInv, Recorded, Checking
  <2> QED BY <1>1, <2>2 DEF NoticeInv
<1>3. CASE Tick \/ \E p \in Shells : \/ Check(p) \/ Succeed(p) \/ NoAnswer(p) \/ Open(p)
                                     \/ Fill(p) \/ NoRecord(p) \/ Tell(p) \/ Leave(p)
  BY <1>1, <1>3, RecordedCheck, RecordedGoesOn, RecordedEnds, RecordedTick DEF NoticeInv
<1> QED BY <1>2, <1>3 DEF Next

\* However commands overlap, a request within the interval after another one
\* is sent only if a check was under way, cut off or not recorded.
THEOREM OncePerInterval == Spec => OnceUnlessSpoilt
<1>1. ASSUME NoticeInv, Next, NEW p \in Shells,
             Asks(p), \A q \in Shells \ {p} : ~Checking(q), ~asked.spoilt
      PROVE  asked.age >= Interval
  <2>1. op \in [Shells -> Op] /\ \A q \in Shells : op[q].step = "idle" => op[q] = Idle
    BY <1>1 DEF NoticeInv, TypeOK
  <2>2. Check(p)
    <3>1. ASSUME NEW q \in Shells,
                 \/ Succeed(q) \/ NoAnswer(q) \/ Open(q)
                 \/ Fill(q) \/ NoRecord(q) \/ Tell(q) \/ Leave(q)
          PROVE  op'[p] = op[p] \/ op[p].step # "idle"
      BY <2>1, <3>1 DEF Succeed, NoAnswer, Open, Fill, NoRecord, Tell, Leave
    <3>2. ASSUME NEW q \in Shells, Check(q) PROVE q = p \/ op'[p] = op[p]
      BY <2>1, <3>2 DEF Check
    <3>3. Tick \/ Publish \/ Upgrade => op'[p] = op[p] \/ op[p].step # "idle"
      BY <2>1 DEF Tick, Publish, Upgrade, Checking
    <3> QED BY <1>1, <3>1, <3>2, <3>3 DEF Asks, Next
  <2>3. Due(cache)
    BY <1>1, <2>1, <2>2 DEF Check, Asks
  <2>4. \A q \in Shells : ~Checking(q)
    BY <1>1 DEF Asks, Checking
  <2> QED BY <1>1, <2>3, <2>4 DEF NoticeInv, Recorded, Due
<1>2. ASSUME NoticeInv, [Next]_vars
      PROVE  [\A p \in Shells :
                 Asks(p) /\ (\A q \in Shells \ {p} : ~Checking(q)) /\ ~asked.spoilt
                     => asked.age >= Interval]_vars
  BY <1>1, <1>2
<1> QED BY <1>2, NoticeInit, NoticeNext, PTL DEF Spec, OnceUnlessSpoilt
=============================================================================
