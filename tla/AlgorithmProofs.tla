-------------------------- MODULE AlgorithmProofs ---------------------------
(***************************************************************************)
(* Proofs about the sequential algorithms.  About StageSort, for every     *)
(* finite set of stages and every graph of needs between them; Paging, for *)
(* every list of jobs, every page size and any number of changes;          *)
(* LogParser, for every set of names and texts and a log of any length;    *)
(* CheckReport, for all plans, sources and prints of the tools.            *)
(***************************************************************************)
EXTENDS StageSort, Paging, LogParser, CheckReport,
        FiniteSetTheorems, SequenceTheorems, WellFoundedInduction, TLAPS

(* While a round goes on without a move, every stage visited had to wait.  *)
RoundInv ==
  at = "round" =>
    /\ stages \subseteq start /\ start # {} /\ last = Cardinality(start)
    /\ stages = start => \A s \in start \ todo : ~AllContains(s)

(* What the two ways out leave behind.                                     *)
ExitInv ==
  /\ at = "error" => stages # {} /\ \A s \in stages : ~AllContains(s)
  /\ at = "ok" => stages = {}

(* No stage that can never run has ever been sorted.                       *)
StuckStay == \A C \in SUBSET Stages : Stuck(C) => C \intersect sortedMap = {}

IInv == TypeOK /\ OncePerStage /\ NeedsComeFirst /\ RoundInv /\ ExitInv /\ StuckStay

LEMMA InitInv == Init => IInv
BY DEF Init, IInv, TypeOK, OncePerStage, NeedsComeFirst, RoundInv, ExitInv, StuckStay

(* Appending a stage that is not yet in the list adds it at the end only.  *)
LEMMA Appended ==
  ASSUME TypeOK, OncePerStage, NEW s \in Stages, stageList' = Append(stageList, s)
  PROVE  /\ stageList' \in Seq(Stages)
         /\ Len(stageList) \in Nat
         /\ DOMAIN stageList = 1 .. Len(stageList)
         /\ DOMAIN stageList' = 1 .. (Len(stageList) + 1)
         /\ stageList'[Len(stageList) + 1] = s
         /\ \A i \in 1 .. Len(stageList) : stageList'[i] = stageList[i]
BY DEF TypeOK

LEMMA MoveKeeps ==
  ASSUME IInv, NEW s \in Stages, Move(s)
  PROVE  IInv'
<1> USE DEF IInv
<1> DEFINE n == Len(stageList)
<1>1. s \in stages /\ s \notin sortedMap
  BY DEF Move, TypeOK, OncePerStage
<1>2. /\ stageList' \in Seq(Stages) /\ n \in Nat
      /\ DOMAIN stageList = 1 .. n /\ DOMAIN stageList' = 1 .. (n + 1)
      /\ stageList'[n + 1] = s /\ \A i \in 1 .. n : stageList'[i] = stageList[i]
  BY Appended DEF Move
<1> HIDE DEF n
<1>3. TypeOK'
  BY <1>2 DEF Move, TypeOK
<1>4. OncePerStage'
  <2>1. stages' = Stages \ sortedMap'
    BY DEF Move, OncePerStage
  <2>2. sortedMap' = {stageList'[i] : i \in DOMAIN stageList'}
    BY <1>2 DEF Move, OncePerStage
  <2>3. ASSUME NEW i \in DOMAIN stageList', NEW k \in DOMAIN stageList', stageList'[i] = stageList'[k]
        PROVE  i = k
    <3>1. CASE i \in 1 .. n /\ k \in 1 .. n
      BY <1>2, <2>3, <3>1 DEF OncePerStage
    <3>2. \A m \in 1 .. n : stageList'[m] # s
      BY <1>1, <1>2 DEF OncePerStage
    <3>3. i \in 1 .. n \/ i = n + 1
      BY <1>2
    <3>4. k \in 1 .. n \/ k = n + 1
      BY <1>2
    <3> QED BY <1>2, <2>3, <3>1, <3>2, <3>3, <3>4
  <2> QED BY <2>1, <2>2, <2>3 DEF OncePerStage
<1>5. NeedsComeFirst'
  <2> SUFFICES ASSUME NEW i \in DOMAIN stageList', NEW x \in needs'[stageList'[i]]
               PROVE  \E k \in 1 .. (i - 1) : stageList'[k] = x
    BY DEF NeedsComeFirst
  <2>1. needs' = needs
    BY DEF Move
  <2>2. CASE i \in 1 .. n
    <3>1. PICK k \in 1 .. (i - 1) : stageList[k] = x
      BY <1>2, <2>1, <2>2 DEF NeedsComeFirst
    <3>2. k \in 1 .. n
      BY <1>2, <2>2
    <3> QED BY <1>2, <3>1, <3>2
  <2>3. CASE i = n + 1
    <3>1. x \in sortedMap
      BY <1>2, <2>1, <2>3 DEF Move, AllContains
    <3>2. PICK k \in 1 .. n : stageList[k] = x
      BY <1>2, <3>1 DEF OncePerStage
    <3> QED BY <1>2, <2>3, <3>2
  <2> QED BY <1>2, <2>2, <2>3
<1>6. RoundInv'
  BY <1>1 DEF Move, RoundInv, TypeOK
<1>7. ExitInv'
  BY DEF Move, ExitInv
<1>8. StuckStay'
  <2> SUFFICES ASSUME NEW C \in SUBSET Stages, Stuck(C)', s \in C PROVE FALSE
    BY DEF StuckStay, Stuck, Move
  <2>1. Stuck(C)
    BY DEF Stuck, Move
  <2>2. PICK x \in needs[s] : x \in C \/ x \notin Stages
    BY <2>1 DEF Stuck
  <2>3. x \in sortedMap
    BY DEF Move, AllContains
  <2> QED BY <2>1, <2>2, <2>3 DEF StuckStay, TypeOK
<1> QED BY <1>3, <1>4, <1>5, <1>6, <1>7, <1>8

(* A round that ends with as many stages as it began with has moved none.  *)
LEMMA NoneMoved ==
  ASSUME TypeOK, RoundInv, at = "round", Cardinality(stages) = last
  PROVE  stages = start
<1>1. IsFiniteSet(start)
  BY StagesFinite, FS_Subset DEF TypeOK
<1>2. stages \in SUBSET start /\ Cardinality(start) = Cardinality(stages)
  BY DEF RoundInv
<1> QED BY <1>1, <1>2, FS_Subset

(* Every step but Move leaves the sorted stages as they are.               *)
LEMMA NothingSorted ==
  ASSUME IInv, UNCHANGED <<needs, stages, sortedMap, stageList>>
  PROVE  OncePerStage' /\ NeedsComeFirst' /\ StuckStay'
<1>1. OncePerStage'
  BY DEF IInv, OncePerStage
<1>2. NeedsComeFirst'
  BY DEF IInv, NeedsComeFirst
<1>3. StuckStay'
  BY DEF IInv, StuckStay, Stuck
<1> QED BY <1>1, <1>2, <1>3

LEMMA StepInv == IInv /\ [Next]_vars => IInv'
<1> SUFFICES ASSUME IInv, [Next]_vars PROVE IInv'
  OBVIOUS
<1>1. CASE BeginRound
  <2>1. IsFiniteSet(stages)
    BY StagesFinite, FS_Subset DEF IInv, TypeOK
  <2>2. Cardinality(stages) \in Nat
    BY <2>1, FS_CardinalityType
  <2>3. TypeOK'
    BY <1>1, <2>2 DEF BeginRound, IInv, TypeOK
  <2>4. OncePerStage' /\ NeedsComeFirst' /\ StuckStay'
    BY <1>1, NothingSorted DEF BeginRound
  <2>5. RoundInv'
    BY <1>1 DEF BeginRound, RoundInv
  <2>6. ExitInv'
    BY <1>1 DEF BeginRound, ExitInv
  <2> QED BY <2>3, <2>4, <2>5, <2>6 DEF IInv
<1>2. ASSUME NEW s \in Stages, Move(s) PROVE IInv'
  BY <1>2, MoveKeeps
<1>3. ASSUME NEW s \in Stages, Pass(s) PROVE IInv'
  <2>1. TypeOK'
    BY <1>3 DEF Pass, IInv, TypeOK
  <2>2. OncePerStage' /\ NeedsComeFirst' /\ StuckStay'
    BY <1>3, NothingSorted DEF Pass
  <2>3. RoundInv'
    BY <1>3 DEF Pass, AllContains, IInv, RoundInv
  <2>4. ExitInv'
    BY <1>3 DEF Pass, ExitInv
  <2> QED BY <2>1, <2>2, <2>3, <2>4 DEF IInv
<1>4. CASE EndRound
  <2>1. TypeOK'
    BY <1>4 DEF EndRound, IInv, TypeOK
  <2>2. OncePerStage' /\ NeedsComeFirst' /\ StuckStay'
    BY <1>4, NothingSorted DEF EndRound
  <2>3. RoundInv'
    BY <1>4 DEF EndRound, RoundInv
  <2>4. ExitInv'
    <3>1. CASE Cardinality(stages) = last
      <4>1. stages = start /\ todo = {}
        BY <1>4, <3>1, NoneMoved DEF EndRound, IInv
      <4> QED BY <1>4, <4>1 DEF EndRound, IInv, RoundInv, ExitInv, AllContains
    <3>2. CASE Cardinality(stages) # last
      BY <1>4, <3>2 DEF EndRound, ExitInv
    <3> QED BY <3>1, <3>2
  <2> QED BY <2>1, <2>2, <2>3, <2>4 DEF IInv
<1>5. CASE Return
  <2>1. TypeOK'
    BY <1>5 DEF Return, IInv, TypeOK
  <2>2. OncePerStage' /\ NeedsComeFirst' /\ StuckStay'
    BY <1>5, NothingSorted DEF Return
  <2>3. RoundInv' /\ ExitInv'
    BY <1>5 DEF Return, RoundInv, ExitInv
  <2> QED BY <2>1, <2>2, <2>3 DEF IInv
<1>6. CASE UNCHANGED vars
  <2>1. TypeOK'
    BY <1>6 DEF vars, IInv, TypeOK
  <2>2. OncePerStage' /\ NeedsComeFirst' /\ StuckStay'
    BY <1>6, NothingSorted DEF vars
  <2>3. RoundInv' /\ ExitInv'
    BY <1>6 DEF vars, IInv, AllContains, RoundInv, ExitInv
  <2> QED BY <2>1, <2>2, <2>3 DEF IInv
<1> QED BY <1>1, <1>2, <1>3, <1>4, <1>5, <1>6 DEF Next

THEOREM InvHolds == Spec => []IInv
BY InitInv, StepInv, PTL DEF Spec

(* The order StageSort builds runs every stage after those it needs, for   *)
(* every job and every order of Go's maps (model/job.go:79-112).           *)
THEOREM OrderIsSound == Spec => []OrderIsValid
<1>1. IInv => OrderIsValid
  BY DEF IInv, OrderIsValid
<1> QED BY <1>1, InvHolds, PTL

(* StageSort refuses a job exactly when it has stages that can never run:  *)
(* "cannot resolve dependency" (model/job.go:105-107) is never said of a   *)
(* job that has an order, and no job without one is accepted.              *)
THEOREM RefusalIsExact == Spec => []RefusedIffStuck
<1>1. IInv => RefusedIffStuck
  <2> SUFFICES ASSUME IInv PROVE RefusedIffStuck
    OBVIOUS
  <2>1. ASSUME at = "error" PROVE Stuck(stages)
    <3>1. stages # {} /\ \A s \in stages : \E x \in needs[s] : x \notin sortedMap
      BY <2>1 DEF IInv, ExitInv, AllContains
    <3> QED BY <3>1 DEF Stuck, IInv, OncePerStage
  <2>2. ASSUME at = "ok", NEW C \in SUBSET Stages, Stuck(C) PROVE FALSE
    <3>1. sortedMap = Stages
      BY <2>2 DEF IInv, ExitInv, OncePerStage, TypeOK
    <3> QED BY <2>2, <3>1 DEF IInv, StuckStay, Stuck
  <2> QED BY <2>1, <2>2 DEF RefusedIffStuck
<1> QED BY <1>1, InvHolds, PTL

-----------------------------------------------------------------------------
(* Paging.                                                                 *)

LEMMA PairBounds ==
  ASSUME NEW m \in Int, NEW n \in Int
  PROVE  /\ Max({m, n}) = IF m >= n THEN m ELSE n
         /\ Min({m, n}) = IF m <= n THEN m ELSE n
<1>1. ASSUME NEW x \in {m, n}, \A y \in {m, n} : x >= y PROVE x = IF m >= n THEN m ELSE n
  BY <1>1
<1>2. ASSUME NEW x \in {m, n}, \A y \in {m, n} : x =< y PROVE x = IF m <= n THEN m ELSE n
  BY <1>2
<1>3. \E x \in {m, n} : \A y \in {m, n} : x >= y
  OBVIOUS
<1>4. \E x \in {m, n} : \A y \in {m, n} : x =< y
  OBVIOUS
<1>5. Max({m, n}) \in {m, n} /\ \A y \in {m, n} : Max({m, n}) >= y
  BY <1>3, Zenon DEF Max
<1>6. Min({m, n}) \in {m, n} /\ \A y \in {m, n} : Min({m, n}) =< y
  BY <1>4, Zenon DEF Min
<1> QED BY <1>1, <1>2, <1>5, <1>6

Used == IF size < 0 THEN 10 ELSE size
Distinct(s) == \A i, j \in DOMAIN s : s[i] = s[j] => i = j

\* How far into the list the pages read so far reach.
Reach == IF page = 0 THEN Len(listing) ELSE (page - 1) * Used

\* A page after the first is asked for only while the list goes on behind the
\* pages before it.
ReaderInv ==
  /\ size \in PageSizes /\ page \in Nat /\ seen \in Seq(Items)
  /\ size = 0 => page \in {0, 1}
  /\ page > 1 => (page - 1) * Used < Len(listing)

ListInv == listing \in Seq(Items) /\ Distinct(listing) /\ fresh \in 0 .. Len(listing)

\* Who was there all the time is in the list, and if the pages have passed its
\* place, the reader has it: places only grow.
PassedInv ==
  /\ still \subseteq ToSet(listing)
  /\ size # 0 => \A k \in 1 .. Len(listing) : k <= Reach /\ listing[k] \in still => listing[k] \in ToSet(seen)

OnceInv ==
  changes = 0 => /\ still = ToSet(listing)
                 /\ size # 0 => Len(seen) = Reach

PagingInv ==
  /\ changes \in Nat /\ (deleted => changes > 0)
  /\ ~deleted => ReaderInv /\ ListInv /\ PassedInv /\ OnceInv

\* What SlicePage gives for page p of size s of a list of n; u is the size it
\* uses.  A page behind the end of the list is not spoken of.
SliceFits(p, s, n, slice, u) ==
  /\ slice.from \in Nat /\ slice.to \in Nat /\ slice.from <= slice.to /\ slice.to <= n
  /\ s = 0 => slice.from = 0 /\ slice.to = 0
  /\ s # 0 /\ p >= 1 /\ (p > 1 => (p - 1) * u < n) =>
       /\ slice.from = (p - 1) * u
       /\ slice.to = IF slice.from + u <= n THEN slice.from + u ELSE n

LEMMA SliceFacts ==
  ASSUME NEW p \in Int, NEW s \in Int, NEW n \in Nat, NEW slice, slice = SlicePage(p, s, n),
         NEW u, u = IF s < 0 THEN 10 ELSE s
  PROVE  SliceFits(p, s, n, slice, u)
<1>1. PICK q \in Nat : q = (IF p >= 1 THEN p ELSE 1) - 1 /\ (p >= 1 => q = p - 1)
  OBVIOUS
<1>2. PICK r : r = q * u
  OBVIOUS
<1>3. u \in Nat /\ r \in Nat /\ (q = 0 => r = 0) /\ (u = 0 => r = 0)
  BY <1>1, <1>2
<1>4. q >= 1 => r >= u
  <2>1. ASSUME q >= 1 PROVE q * u = (q - 1) * u + u /\ (q - 1) * u >= 0
    <3>1. PICK o \in Nat : q = o + 1
      BY <2>1
    <3>2. o * u \in Nat
      BY <1>3
    <3> QED BY <1>3, <3>1, <3>2
  <2> QED BY <1>2, <1>3, <2>1
<1>5. Max({p, 1}) - 1 = q
  BY <1>1, PairBounds
<1>6. Min({r + u, n}) = IF r + u <= n THEN r + u ELSE n
  <2>1. PICK v \in Int : v = r + u
    BY <1>3
  <2>2. Min({v, n}) = IF v <= n THEN v ELSE n
    BY PairBounds
  <2> QED BY <2>1, <2>2
<1>7. slice = IF u > n THEN Bounds(0, n)
              ELSE IF u = 0 \/ r >= n THEN Bounds(0, 0)
              ELSE Bounds(r, Min({r + u, n}))
  BY <1>2, <1>5 DEF SlicePage
<1>8. \A x, y : Bounds(x, y).from = x /\ Bounds(x, y).to = y
  BY DEF Bounds
<1>9. p >= 1 => (p - 1) * u = r /\ (p > 1 => q >= 1) /\ (p = 1 => q = 0)
  BY <1>1, <1>2
<1>10. CASE u > n
  BY <1>3, <1>4, <1>7, <1>8, <1>9, <1>10 DEF SliceFits
<1>11. CASE u <= n /\ (u = 0 \/ r >= n)
  BY <1>3, <1>7, <1>8, <1>9, <1>11 DEF SliceFits
<1>12. CASE u <= n /\ u # 0 /\ r < n
  BY <1>3, <1>6, <1>7, <1>8, <1>9, <1>12 DEF SliceFits
<1> QED BY <1>3, <1>10, <1>11, <1>12 DEF SliceFits

LEMMA RemovedAt ==
  ASSUME NEW s \in Seq(Items), NEW i \in 1 .. Len(s)
  PROVE  /\ RemoveAt(s, i) \in Seq(Items) /\ Len(RemoveAt(s, i)) = Len(s) - 1
         /\ \A k \in 1 .. Len(s) - 1 : RemoveAt(s, i)[k] = IF k < i THEN s[k] ELSE s[k + 1]
<1>1. /\ SubSeq(s, 1, i - 1) \in Seq(Items) /\ Len(SubSeq(s, 1, i - 1)) = i - 1
      /\ \A k \in 1 .. i - 1 : SubSeq(s, 1, i - 1)[k] = s[k]
  BY SubSeqProperties
<1>2. /\ SubSeq(s, i + 1, Len(s)) \in Seq(Items) /\ Len(SubSeq(s, i + 1, Len(s))) = Len(s) - i
      /\ \A k \in 1 .. Len(s) - i : SubSeq(s, i + 1, Len(s))[k] = s[i + k]
  BY SubSeqProperties
<1>3. PICK g \in Seq(Items), h \in Seq(Items) : g = SubSeq(s, 1, i - 1) /\ h = SubSeq(s, i + 1, Len(s))
  BY <1>1, <1>2
<1>4. /\ g \o h \in Seq(Items) /\ Len(g \o h) = Len(g) + Len(h)
      /\ \A k \in 1 .. Len(g) + Len(h) : (g \o h)[k] = IF k <= Len(g) THEN g[k] ELSE h[k - Len(g)]
  BY ConcatProperties
<1>5. RemoveAt(s, i) = g \o h
  BY <1>3 DEF RemoveAt
<1>6. Len(g) = i - 1 /\ Len(h) = Len(s) - i
  BY <1>1, <1>2, <1>3
<1>7. ASSUME NEW k \in 1 .. Len(s) - 1 PROVE (g \o h)[k] = IF k < i THEN s[k] ELSE s[k + 1]
  <2>1. k <= i - 1 => g[k] = s[k]
    BY <1>1, <1>3
  <2>2. k > i - 1 => k - Len(g) \in 1 .. Len(s) - i /\ i + (k - Len(g)) = k + 1
    BY <1>6
  <2>3. k > i - 1 => h[k - Len(g)] = s[k + 1]
    BY <1>2, <1>3, <2>2
  <2> QED BY <1>4, <1>6, <2>1, <2>3
<1>8. Len(s) \in Nat /\ Len(g) + Len(h) = Len(s) - 1
  BY <1>6
<1> QED BY <1>4, <1>5, <1>7, <1>8

LEMMA Inserted ==
  ASSUME NEW s \in Seq(Items), NEW i \in 1 .. Len(s) + 1, NEW e \in Items
  PROVE  /\ InsertAt(s, i, e) \in Seq(Items) /\ Len(InsertAt(s, i, e)) = Len(s) + 1
         /\ \A k \in 1 .. Len(s) + 1 :
              InsertAt(s, i, e)[k] = IF k < i THEN s[k] ELSE IF k = i THEN e ELSE s[k - 1]
<1>1. /\ SubSeq(s, 1, i - 1) \in Seq(Items) /\ Len(SubSeq(s, 1, i - 1)) = i - 1
      /\ \A k \in 1 .. i - 1 : SubSeq(s, 1, i - 1)[k] = s[k]
  BY SubSeqProperties
<1>2. /\ SubSeq(s, i, Len(s)) \in Seq(Items) /\ Len(SubSeq(s, i, Len(s))) = Len(s) - i + 1
      /\ \A k \in 1 .. Len(s) - i + 1 : SubSeq(s, i, Len(s))[k] = s[i + k - 1]
  BY SubSeqProperties
<1> Len(s) \in Nat /\ i \in Nat
  OBVIOUS
<1> DEFINE head == SubSeq(s, 1, i - 1)
           h == head \o <<e>>
           g == SubSeq(s, i, Len(s))
<1>3. h \in Seq(Items) /\ g \in Seq(Items)
  BY <1>1, <1>2, ConcatProperties
<1>4. Len(h) = i /\ \A k \in 1 .. i : h[k] = IF k < i THEN s[k] ELSE e
  <2> HIDE DEF head
  <2>1. head \in Seq(Items) /\ Len(head) = i - 1 /\ \A k \in 1 .. i - 1 : head[k] = s[k]
    BY <1>1 DEF head
  <2>2. <<e>> \in Seq(Items) /\ Len(<<e>>) = 1 /\ <<e>>[1] = e
    OBVIOUS
  <2> QED BY <2>1, <2>2, ConcatProperties
<1>5. Len(g) = Len(s) - i + 1 /\ \A k \in 1 .. Len(s) - i + 1 : g[k] = s[i + k - 1]
  BY <1>2
<1> HIDE DEF h, g
<1>6. /\ h \o g \in Seq(Items) /\ Len(h \o g) = Len(h) + Len(g)
      /\ \A k \in 1 .. Len(h) + Len(g) : (h \o g)[k] = IF k <= Len(h) THEN h[k] ELSE g[k - Len(h)]
  BY <1>3, ConcatProperties
<1>7. InsertAt(s, i, e) = h \o g
  BY DEF InsertAt, h, g
<1>8. ASSUME NEW k \in 1 .. Len(s) + 1 PROVE (h \o g)[k] = IF k < i THEN s[k] ELSE IF k = i THEN e ELSE s[k - 1]
  <2>1. CASE k <= i
    BY <1>4, <1>5, <1>6, <2>1
  <2>2. CASE k > i
    <3>1. k - i \in 1 .. Len(s) - i + 1 /\ i + (k - i) - 1 = k - 1
      BY <2>2
    <3>2. g[k - i] = s[k - 1]
      BY <1>5, <3>1
    <3> QED BY <1>4, <1>5, <1>6, <2>2, <3>2
  <2>3. k <= i \/ k > i
    OBVIOUS
  <2> QED BY <2>1, <2>2, <2>3, Zenon
<1>9. Len(h) + Len(g) = Len(s) + 1
  BY <1>4, <1>5
<1> QED BY <1>6, <1>7, <1>8, <1>9

LEMMA RemovedFirst ==
  ASSUME NEW s \in Seq(Items), Distinct(s), NEW e
  PROVE  /\ \A i \in 1 .. Len(s) : s[i] = e => RemoveFirst(s, e) = RemoveAt(s, i)
         /\ (\A i \in 1 .. Len(s) : s[i] # e) => RemoveFirst(s, e) = s
<1>1. ASSUME NEW i \in 1 .. Len(s), s[i] = e PROVE RemoveFirst(s, e) = RemoveAt(s, i)
  <2>1. {k \in 1 .. Len(s) : s[k] = e} = {i}
    BY <1>1 DEF Distinct
  <2>2. Min({i}) = i
    <3>1. {i} = {i, i} /\ i \in Int
      OBVIOUS
    <3>2. Min({i, i}) = i
      BY <3>1, PairBounds
    <3> QED BY <3>1, <3>2
  <2>3. SelectInSeq(s, LAMBDA v : v = e) = i
    BY <2>1, <2>2 DEF SelectInSeq
  <2> QED BY <1>1, <2>3 DEF RemoveFirst
<1>2. (\A i \in 1 .. Len(s) : s[i] # e) => RemoveFirst(s, e) = s
  BY DEF RemoveFirst
<1> QED BY <1>1, <1>2

\* In t, no item but e is at an earlier place than in s.
PlacesGrow(s, e, f, t) ==
  /\ t \in Seq(Items) /\ Distinct(t) /\ f + 1 <= Len(t) /\ Len(s) <= Len(t)
  /\ \A k \in 1 .. Len(t) : t[k] # e => \E j \in 1 .. Len(s) : j <= k /\ t[k] = s[j]
  /\ \A j \in 1 .. Len(s) : s[j] # e => \E k \in 1 .. Len(t) : t[k] = s[j]

\* Whoever is moved to the front, or comes in there, leaves no other at an
\* earlier place than it had.
LEMMA SavedInFront ==
  ASSUME NEW s \in Seq(Items), Distinct(s), NEW e \in Items, NEW f \in 0 .. Len(s),
         \A k \in 1 .. f : s[k] # e, NEW i \in 1 .. f + 1, NEW t, t = InsertAt(RemoveFirst(s, e), i, e)
  PROVE  PlacesGrow(s, e, f, t)
<1>1. Len(s) \in Nat /\ i \in Nat /\ f \in Nat /\ DOMAIN s = 1 .. Len(s)
  OBVIOUS
<1>2. CASE \E j \in 1 .. Len(s) : s[j] = e
  <2>1. PICK l \in 1 .. Len(s) : s[l] = e
    BY <1>2
  <2>2. PICK r : r = RemoveAt(s, l)
    OBVIOUS
  <2>3. r = RemoveFirst(s, e)
    BY <2>1, <2>2, RemovedFirst
  <2>4. /\ r \in Seq(Items) /\ Len(r) = Len(s) - 1
        /\ \A k \in 1 .. Len(s) - 1 : r[k] = IF k < l THEN s[k] ELSE s[k + 1]
    BY <2>2, RemovedAt
  <2>5. f < l
    BY <1>1, <2>1
  <2>6. i \in 1 .. Len(r) + 1
    BY <1>1, <2>4, <2>5
  <2>7. /\ t \in Seq(Items) /\ Len(t) = Len(s)
        /\ \A k \in 1 .. Len(s) : t[k] = IF k < i THEN r[k] ELSE IF k = i THEN e ELSE r[k - 1]
    <3>1. /\ InsertAt(r, i, e) \in Seq(Items) /\ Len(InsertAt(r, i, e)) = Len(r) + 1
          /\ \A k \in 1 .. Len(r) + 1 :
               InsertAt(r, i, e)[k] = IF k < i THEN r[k] ELSE IF k = i THEN e ELSE r[k - 1]
      BY <2>4, <2>6, Inserted
    <3>2. t = InsertAt(r, i, e) /\ Len(r) + 1 = Len(s)
      BY <1>1, <2>3, <2>4
    <3> QED BY <3>1, <3>2
  <2>8. ASSUME NEW k \in 1 .. Len(s)
        PROVE  t[k] = IF k < i THEN s[k] ELSE IF k = i THEN e ELSE IF k <= l THEN s[k - 1] ELSE s[k]
    <3>1. CASE k < i
      <4>1. k \in 1 .. Len(s) - 1 /\ k < l
        BY <1>1, <2>5, <3>1
      <4> QED BY <2>4, <2>7, <3>1, <4>1
    <3>2. CASE k > i
      <4>1. k - 1 \in 1 .. Len(s) - 1 /\ (k - 1) + 1 = k /\ (k - 1 < l <=> k <= l)
        BY <1>1, <3>2
      <4>2. t[k] = r[k - 1]
        BY <1>1, <2>7, <3>2
      <4> QED BY <1>1, <2>4, <3>2, <4>1, <4>2
    <3> QED BY <1>1, <2>7, <3>1, <3>2
  <2>9. Distinct(t)
    <3> SUFFICES ASSUME NEW k \in 1 .. Len(s), NEW m \in 1 .. Len(s), t[k] = t[m] PROVE k = m
      <4>1. DOMAIN t = 1 .. Len(s)
        BY <2>7
      <4> QED BY <4>1 DEF Distinct
    <3>1. \A j \in 1 .. Len(s) : s[j] = e => j = l
      BY <1>1, <2>1 DEF Distinct
    <3>2. \A j, h \in 1 .. Len(s) : s[j] = s[h] => j = h
      BY <1>1 DEF Distinct
    <3> DEFINE from(x) == IF x < i THEN x ELSE IF x = i THEN l ELSE IF x <= l THEN x - 1 ELSE x
    <3>3. \A x \in 1 .. Len(s) : from(x) \in 1 .. Len(s) /\ t[x] = s[from(x)]
      BY <1>1, <2>1, <2>5, <2>8
    <3>4. from(k) = from(m)
      BY <3>2, <3>3
    <3> QED BY <1>1, <2>5, <3>4
  <2>10. ASSUME NEW k \in 1 .. Len(t), t[k] # e PROVE \E j \in 1 .. Len(s) : j <= k /\ t[k] = s[j]
    <3>1. k \in 1 .. Len(s) /\ k # i
      BY <2>7, <2>8, <2>10
    <3>2. CASE k > i /\ k <= l
      <4>1. k - 1 \in 1 .. Len(s) /\ k - 1 <= k /\ t[k] = s[k - 1]
        BY <1>1, <2>8, <3>1, <3>2
      <4> QED BY <4>1
    <3>3. CASE ~(k > i /\ k <= l)
      <4>1. t[k] = s[k] /\ k <= k
        BY <1>1, <2>8, <3>1, <3>3
      <4> QED BY <3>1, <4>1
    <3> QED BY <3>2, <3>3
  <2>11. ASSUME NEW j \in 1 .. Len(s), s[j] # e PROVE \E k \in 1 .. Len(t) : t[k] = s[j]
    <3>1. j # l
      BY <2>1, <2>11
    <3>2. CASE i <= j /\ j < l
      <4>1. j + 1 \in 1 .. Len(t) /\ t[j + 1] = s[j]
        BY <1>1, <2>7, <2>8, <3>2
      <4> QED BY <4>1
    <3>3. CASE ~(i <= j /\ j < l)
      <4>1. j \in 1 .. Len(t) /\ t[j] = s[j]
        BY <1>1, <2>5, <2>7, <2>8, <3>1, <3>3
      <4> QED BY <4>1
    <3> QED BY <3>2, <3>3
  <2> QED BY <1>1, <2>5, <2>7, <2>9, <2>10, <2>11 DEF PlacesGrow
<1>3. CASE \A j \in 1 .. Len(s) : s[j] # e
  <2>1. RemoveFirst(s, e) = s
    BY <1>3, RemovedFirst
  <2>2. i \in 1 .. Len(s) + 1
    BY <1>1
  <2>3. /\ t \in Seq(Items) /\ Len(t) = Len(s) + 1
        /\ \A k \in 1 .. Len(s) + 1 : t[k] = IF k < i THEN s[k] ELSE IF k = i THEN e ELSE s[k - 1]
    BY <2>1, <2>2, Inserted
  <2>4. Distinct(t)
    <3> SUFFICES ASSUME NEW k \in 1 .. Len(s) + 1, NEW m \in 1 .. Len(s) + 1, t[k] = t[m] PROVE k = m
      BY <2>3 DEF Distinct
    <3>1. \A j, h \in 1 .. Len(s) : s[j] = s[h] => j = h
      BY <1>1 DEF Distinct
    <3> DEFINE from(x) == IF x < i THEN x ELSE x - 1
    <3>2. \A x \in 1 .. Len(s) + 1 : x # i => from(x) \in 1 .. Len(s) /\ t[x] = s[from(x)]
      BY <1>1, <2>2, <2>3
    <3>3. t[i] = e
      BY <2>2, <2>3
    <3>4. k = i <=> m = i
      BY <1>3, <3>2, <3>3
    <3>5. k # i => from(k) = from(m)
      BY <3>1, <3>2, <3>4
    <3> QED BY <1>1, <3>4, <3>5
  <2>5. ASSUME NEW k \in 1 .. Len(t), t[k] # e PROVE \E j \in 1 .. Len(s) : j <= k /\ t[k] = s[j]
    <3>1. k \in 1 .. Len(s) + 1 /\ k # i
      BY <2>3, <2>5
    <3>2. CASE k < i
      <4>1. k \in 1 .. Len(s) /\ t[k] = s[k] /\ k <= k
        BY <1>1, <2>3, <3>1, <3>2
      <4> QED BY <4>1
    <3>3. CASE k > i
      <4>1. k - 1 \in 1 .. Len(s) /\ t[k] = s[k - 1] /\ k - 1 <= k
        BY <1>1, <2>3, <3>1, <3>3
      <4> QED BY <4>1
    <3> QED BY <1>1, <3>1, <3>2, <3>3
  <2>6. ASSUME NEW j \in 1 .. Len(s) PROVE \E k \in 1 .. Len(t) : t[k] = s[j]
    <3>1. CASE j < i
      <4>1. j \in 1 .. Len(t) /\ t[j] = s[j]
        BY <1>1, <2>3, <3>1
      <4> QED BY <4>1
    <3>2. CASE j >= i
      <4>1. j + 1 \in 1 .. Len(t) /\ t[j + 1] = s[j]
        BY <1>1, <2>3, <3>2
      <4> QED BY <4>1
    <3> QED BY <1>1, <3>1, <3>2
  <2> QED BY <1>1, <2>3, <2>4, <2>5, <2>6 DEF PlacesGrow
<1> QED BY <1>2, <1>3

LEMMA InFront ==
  ASSUME NEW s \in Seq(Items), NEW f \in 0 .. Len(s)
  PROVE  ToSet(SubSeq(s, 1, f)) = {s[k] : k \in 1 .. f}
<1>1. /\ SubSeq(s, 1, f) \in Seq(Items) /\ Len(SubSeq(s, 1, f)) = f
      /\ \A k \in 1 .. f : SubSeq(s, 1, f)[k] = s[k]
  BY SubSeqProperties
<1>2. DOMAIN SubSeq(s, 1, f) = 1 .. f
  BY <1>1
<1> QED BY <1>1, <1>2 DEF ToSet

LEMMA SaveKeeps ==
  ASSUME PagingInv, NEW item \in Items, SaveItem(item)
  PROVE  PagingInv'
<1> DEFINE front == ToSet(SubSeq(listing, 1, fresh))
           others == IF item \in front THEN fresh - 1 ELSE fresh
<1>1. /\ changes' = changes + 1 /\ still' = still \ {item} /\ deleted' = deleted
      /\ size' = size /\ page' = page /\ seen' = seen /\ fresh' = others + 1
      /\ IF others < fresh THEN listing' = listing
         ELSE \E i \in 1 .. (others + 1) : listing' = InsertAt(RemoveFirst(listing, item), i, item)
  BY DEF SaveItem, Changed
<1>2. changes' \in Nat /\ changes' > 0
  BY <1>1 DEF PagingInv
<1>3. CASE deleted
  BY <1>1, <1>2, <1>3 DEF PagingInv
<1>4. CASE ~deleted
  <2>1. ReaderInv /\ ListInv /\ PassedInv
    BY <1>4 DEF PagingInv
  <2>2. /\ listing \in Seq(Items) /\ Distinct(listing) /\ fresh \in 0 .. Len(listing)
        /\ Len(listing) \in Nat /\ fresh \in Nat /\ DOMAIN listing = 1 .. Len(listing)
    BY <2>1 DEF ListInv
  <2>3. front = {listing[k] : k \in 1 .. fresh}
    BY <2>2, InFront
  <2> HIDE DEF front
  <2>4. Used' = Used
    BY <1>1 DEF Used
  <2>5. CASE item \in front
    <3>1. listing' = listing /\ fresh' = fresh
      BY <1>1, <2>2, <2>5
    <3>2. ReaderInv' /\ ListInv'
      BY <1>1, <2>1, <2>4, <3>1 DEF ReaderInv, ListInv, Distinct
    <3>3. Reach' = Reach
      BY <1>1, <2>4, <3>1 DEF Reach
    <3>4. PassedInv'
      BY <1>1, <2>1, <3>1, <3>3 DEF PassedInv, ToSet
    <3> QED BY <1>2, <3>2, <3>4 DEF PagingInv, OnceInv
  <2>6. CASE item \notin front
    <3>1. others = fresh /\ ~(others < fresh) /\ fresh' = fresh + 1
      BY <1>1, <2>2, <2>6
    <3>2. PICK i \in 1 .. fresh + 1 : listing' = InsertAt(RemoveFirst(listing, item), i, item)
      BY <1>1, <3>1
    <3>3. \A k \in 1 .. fresh : listing[k] # item
      BY <2>3, <2>6
    <3>4. PICK t : t = listing'
      OBVIOUS
    <3>5. /\ t \in Seq(Items) /\ Distinct(t) /\ fresh + 1 <= Len(t) /\ Len(listing) <= Len(t)
          /\ \A k \in 1 .. Len(t) : t[k] # item => \E j \in 1 .. Len(listing) : j <= k /\ t[k] = listing[j]
          /\ \A j \in 1 .. Len(listing) : listing[j] # item => \E k \in 1 .. Len(t) : t[k] = listing[j]
      <4>1. t = InsertAt(RemoveFirst(listing, item), i, item)
        BY <3>2, <3>4
      <4>2. PlacesGrow(listing, item, fresh, t)
        BY <2>2, <3>3, <4>1, SavedInFront
      <4> QED BY <4>2 DEF PlacesGrow
    <3>6. Len(t) \in Nat /\ DOMAIN t = 1 .. Len(t)
      BY <3>5
    <3>7. ListInv'
      BY <2>2, <3>1, <3>4, <3>5, <3>6 DEF ListInv, Distinct
    <3>8. ReaderInv'
      <4>1. size' \in PageSizes /\ page' \in Nat /\ seen' \in Seq(Items) /\ (size' = 0 => page' \in {0, 1})
        BY <1>1, <2>1 DEF ReaderInv
      <4>2. PICK w : w = (page - 1) * Used
        OBVIOUS
      <4>3. page > 1 => w < Len(t)
        <5>1. size \in Int /\ Used \in Int /\ page \in Int
          BY <2>1, PageSizesAssumption DEF ReaderInv, Used
        <5>2. w \in Int
          BY <4>2, <5>1
        <5> QED BY <2>1, <2>2, <3>5, <3>6, <4>2, <5>2 DEF ReaderInv
      <4>4. page' > 1 => (page' - 1) * Used' < Len(listing')
        BY <1>1, <2>4, <3>4, <4>2, <4>3
      <4> QED BY <4>1, <4>4 DEF ReaderInv
    <3>9. still' \subseteq ToSet(listing')
      <4> SUFFICES ASSUME NEW x \in still, x # item PROVE x \in ToSet(t)
        BY <1>1, <3>4
      <4>1. PICK j \in 1 .. Len(listing) : x = listing[j]
        BY <2>1, <2>2 DEF PassedInv, ToSet
      <4>2. PICK k \in 1 .. Len(t) : t[k] = x
        BY <3>5, <4>1
      <4> QED BY <3>6, <4>2 DEF ToSet
    <3>10. ASSUME size # 0, NEW k \in 1 .. Len(t), k <= Reach', t[k] \in still'
           PROVE  t[k] \in ToSet(seen)
      <4>1. t[k] # item /\ t[k] \in still
        BY <1>1, <3>10
      <4>2. PICK j \in 1 .. Len(listing) : j <= k /\ t[k] = listing[j]
        BY <3>5, <4>1
      <4>3. j <= Reach
        <5>1. CASE page = 0
          BY <2>2, <4>2, <5>1 DEF Reach
        <5>2. CASE page # 0
          <6>1. Reach' = Reach
            BY <1>1, <2>4, <5>2 DEF Reach
          <6>2. Reach \in Int
            BY <2>1, <5>2, PageSizesAssumption DEF ReaderInv, Used, Reach
          <6> QED BY <3>6, <3>10, <4>2, <6>1, <6>2
        <5> QED BY <5>1, <5>2
      <4> QED BY <2>1, <3>10, <4>1, <4>2, <4>3 DEF PassedInv
    <3>11. PassedInv'
      BY <1>1, <3>4, <3>9, <3>10 DEF PassedInv
    <3> QED BY <1>2, <3>7, <3>8, <3>11 DEF PagingInv, OnceInv
  <2> QED BY <2>5, <2>6
<1> QED BY <1>3, <1>4

LEMMA OthersKeep ==
  ASSUME PagingInv, (\E item \in Items : DeleteItem(item)) \/ NextSecond
  PROVE  PagingInv'
<1>1. ASSUME NEW item \in Items, DeleteItem(item) PROVE PagingInv'
  BY <1>1 DEF DeleteItem, Changed, PagingInv
<1>2. ASSUME NextSecond PROVE PagingInv'
  <2>1. /\ fresh' = 0 /\ listing' = listing /\ changes' = changes /\ deleted' = deleted
        /\ size' = size /\ page' = page /\ seen' = seen /\ still' = still
    BY <1>2 DEF NextSecond
  <2>2. Used' = Used /\ Reach' = Reach
    BY <2>1 DEF Used, Reach
  <2>3. ListInv => ListInv'
    BY <2>1 DEF ListInv, Distinct
  <2>4. ReaderInv => ReaderInv'
    BY <2>1, <2>2 DEF ReaderInv
  <2>5. (PassedInv => PassedInv') /\ (OnceInv => OnceInv')
    BY <2>1, <2>2 DEF PassedInv, OnceInv
  <2> QED BY <2>1, <2>3, <2>4, <2>5 DEF PagingInv
<1> QED BY <1>1, <1>2

\* The reader was given the places from + 1 to to of s.
Given(s, from, to, before, after) ==
  /\ after \in Seq(Items) /\ Len(after) = Len(before) + (to - from)
  /\ ToSet(before) \subseteq ToSet(after)
  /\ \A k \in from + 1 .. to : s[k] \in ToSet(after)

LEMMA PieceRead ==
  ASSUME NEW s \in Seq(Items), NEW from \in Nat, NEW to \in Nat, from <= to, to <= Len(s),
         NEW given \in Seq(Items), NEW t, t = given \o SubSeq(s, from + 1, to)
  PROVE  Given(s, from, to, given, t)
<1>1. PICK g \in Seq(Items) :
        /\ g = SubSeq(s, from + 1, to) /\ Len(g) = to - from
        /\ \A k \in 1 .. to - from : g[k] = s[from + k]
  <2>1. /\ SubSeq(s, from + 1, to) \in Seq(Items) /\ Len(SubSeq(s, from + 1, to)) = to - from
        /\ \A k \in 1 .. to - from : SubSeq(s, from + 1, to)[k] = s[from + k]
    BY SubSeqProperties
  <2> QED BY <2>1
<1>2. /\ given \o g \in Seq(Items) /\ Len(given \o g) = Len(given) + Len(g)
      /\ \A k \in 1 .. Len(given) + Len(g) :
           (given \o g)[k] = IF k <= Len(given) THEN given[k] ELSE g[k - Len(given)]
  BY ConcatProperties
<1>3. t = given \o g
  BY <1>1
<1>4. Len(given) \in Nat /\ DOMAIN given = 1 .. Len(given) /\ DOMAIN t = 1 .. Len(given) + (to - from)
  <2>1. Len(t) = Len(given) + (to - from) /\ t \in Seq(Items)
    BY <1>1, <1>2, <1>3
  <2>2. DOMAIN t = 1 .. Len(t)
    BY <2>1
  <2> QED BY <2>1, <2>2
<1>5. ToSet(given) \subseteq ToSet(t)
  <2> SUFFICES ASSUME NEW k \in 1 .. Len(given) PROVE given[k] \in ToSet(t)
    BY <1>4 DEF ToSet
  <2>1. k \in DOMAIN t /\ t[k] = given[k]
    BY <1>1, <1>2, <1>3, <1>4
  <2> QED BY <2>1 DEF ToSet
<1>6. ASSUME NEW k \in from + 1 .. to PROVE s[k] \in ToSet(t)
  <2>1. PICK h \in 1 .. to - from : k = from + h
    <3>1. k - from \in 1 .. to - from /\ k = from + (k - from)
      OBVIOUS
    <3> QED BY <3>1
  <2>2. PICK m \in Nat : m = Len(given) + h
    BY <1>4
  <2>3. m \in 1 .. Len(given) + Len(g) /\ ~(m <= Len(given)) /\ m - Len(given) = h
    BY <1>1, <1>4, <2>2
  <2>4. t[m] = s[k]
    BY <1>1, <1>2, <1>3, <2>1, <2>3
  <2>5. m \in DOMAIN t
    BY <1>1, <1>4, <2>3
  <2> QED BY <2>4, <2>5 DEF ToSet
<1> QED BY <1>1, <1>2, <1>3, <1>5, <1>6 DEF Given

LEMMA ReadKeeps ==
  ASSUME PagingInv, ReadPage
  PROVE  PagingInv'
<1>1. PICK slice : slice = SlicePage(page, size, Len(listing))
  OBVIOUS
<1>2. /\ page > 0 /\ seen' = seen \o SubSeq(listing, slice.from + 1, slice.to)
      /\ page' = IF Used = 0 \/ page * Used >= Len(listing) THEN 0 ELSE page + 1
      /\ listing' = listing /\ fresh' = fresh /\ changes' = changes /\ deleted' = deleted
      /\ size' = size /\ still' = still
  BY <1>1 DEF ReadPage, Used
<1>3. CASE deleted
  BY <1>2, <1>3 DEF PagingInv
<1>4. CASE ~deleted
  <2>1. ReaderInv /\ ListInv /\ PassedInv /\ OnceInv
    BY <1>4 DEF PagingInv
  <2>2. PICK u : u = Used
    OBVIOUS
  <2>3. /\ size \in Int /\ page \in Nat /\ page >= 1 /\ seen \in Seq(Items) /\ listing \in Seq(Items)
        /\ u \in Nat /\ (u = 0 <=> size = 0) /\ u = IF size < 0 THEN 10 ELSE size
    BY <1>2, <2>1, <2>2, PageSizesAssumption DEF ReaderInv, ListInv, Used
  <2>4. PICK n \in Nat : n = Len(listing)
    BY <2>3
  <2>5. page > 1 => (page - 1) * u < n
    BY <2>1, <2>2, <2>4 DEF ReaderInv
  <2>6. /\ slice.from \in Nat /\ slice.to \in Nat /\ slice.from <= slice.to /\ slice.to <= n
        /\ size = 0 => slice.from = 0 /\ slice.to = 0
        /\ size # 0 => /\ slice.from = (page - 1) * u
                       /\ slice.to = IF slice.from + u <= n THEN slice.from + u ELSE n
    <3>1. slice = SlicePage(page, size, n)
      BY <1>1, <2>4
    <3>2. SliceFits(page, size, n, slice, u)
      BY <2>3, <3>1, SliceFacts
    <3> QED BY <2>3, <2>5, <3>2 DEF SliceFits
  <2>7. PICK from \in Nat, to \in Nat : from = slice.from /\ to = slice.to
    BY <2>6
  <2>8. /\ seen' \in Seq(Items) /\ Len(seen') = Len(seen) + (to - from)
        /\ ToSet(seen) \subseteq ToSet(seen')
        /\ \A k \in from + 1 .. to : listing[k] \in ToSet(seen')
    <3>1. PICK t : t = seen'
      OBVIOUS
    <3>2. t = seen \o SubSeq(listing, from + 1, to) /\ from <= to /\ to <= Len(listing)
      BY <1>2, <2>4, <2>6, <2>7, <3>1
    <3>3. Given(listing, from, to, seen, t)
      BY <2>3, <3>2, PieceRead
    <3> QED BY <3>1, <3>3 DEF Given
  <2>9. Used' = u
    BY <1>2, <2>2 DEF Used
  <2>10. ListInv' /\ still' \subseteq ToSet(listing')
    BY <1>2, <2>1 DEF ListInv, Distinct, PassedInv
  <2>11. CASE size = 0
    <3>1. page' = 0
      BY <1>2, <2>2, <2>3, <2>11
    <3>2. ReaderInv'
      BY <1>2, <2>1, <2>8, <3>1 DEF ReaderInv
    <3>3. PassedInv' /\ OnceInv'
      BY <1>2, <2>1, <2>10, <2>11 DEF PassedInv, OnceInv
    <3> QED BY <1>2, <2>10, <3>2, <3>3 DEF PagingInv
  <2>12. CASE size # 0
    <3>1. from = (page - 1) * u /\ to = (IF from + u <= n THEN from + u ELSE n)
      BY <2>6, <2>7, <2>12
    <3>2. page * u = from + u
      <4>1. PICK q \in Nat : page = q + 1
        BY <2>3
      <4>2. (q + 1) * u = q * u + u /\ page - 1 = q
        BY <2>3, <4>1
      <4> QED BY <3>1, <4>1, <4>2
    <3>3. page' = IF from + u >= n THEN 0 ELSE page + 1
      BY <1>2, <2>2, <2>3, <2>4, <2>12, <3>2
    <3>4. Reach = from
      BY <2>2, <2>3, <3>1 DEF Reach
    <3>5. Reach' = to
      <4>1. CASE from + u >= n
        <5>1. page' = 0 /\ to = n
          BY <2>3, <3>1, <3>3, <4>1
        <5> QED BY <1>2, <2>4, <5>1 DEF Reach
      <4>2. CASE ~(from + u >= n)
        <5>1. page' = page + 1 /\ to = from + u /\ page' # 0 /\ page' - 1 = page
          BY <2>3, <3>1, <3>3, <4>2
        <5> QED BY <2>9, <3>2, <5>1 DEF Reach
      <4> QED BY <4>1, <4>2
    <3>6. ReaderInv'
      <4>1. page' \in Nat /\ size' \in PageSizes /\ (size' = 0 => page' \in {0, 1})
        BY <1>2, <2>1, <2>3, <2>12, <3>3 DEF ReaderInv
      <4>2. page' > 1 => (page' - 1) * Used' < Len(listing')
        <5>1. ASSUME page' > 1 PROVE page' - 1 = page /\ from + u < n
          BY <2>3, <3>3, <5>1
        <5> QED BY <1>2, <2>4, <2>9, <3>2, <5>1
      <4> QED BY <2>8, <4>1, <4>2 DEF ReaderInv
    <3>7. PassedInv'
      <4>1. ASSUME NEW k \in 1 .. Len(listing), k <= to, listing[k] \in still
            PROVE  listing[k] \in ToSet(seen')
        <5>1. CASE k <= from
          BY <2>1, <2>8, <2>12, <3>4, <4>1, <5>1 DEF PassedInv
        <5>2. CASE ~(k <= from)
          <6>1. k \in from + 1 .. to
            BY <2>4, <4>1, <5>2
          <6> QED BY <2>8, <6>1
        <5> QED BY <5>1, <5>2
      <4> QED BY <1>2, <2>10, <3>5, <4>1 DEF PassedInv
    <3>8. OnceInv'
      <4>1. changes = 0 => still = ToSet(listing) /\ Len(seen) = from
        BY <2>1, <2>12, <3>4 DEF OnceInv
      <4>2. changes = 0 => Len(seen') = to
        BY <2>8, <4>1
      <4> QED BY <1>2, <3>5, <4>1, <4>2 DEF OnceInv
    <3> QED BY <1>2, <2>10, <3>6, <3>7, <3>8 DEF PagingInv
  <2> QED BY <2>11, <2>12
<1> QED BY <1>3, <1>4

LEMMA PagingInit == PageInit => PagingInv
<1> SUFFICES ASSUME PageInit PROVE PagingInv
  OBVIOUS
<1>1. /\ fresh = 0 /\ changes = 0 /\ deleted = FALSE /\ size \in PageSizes /\ page = 1
      /\ seen = <<>> /\ still = ToSet(listing)
  BY DEF PageInit
<1>2. PICK S \in SUBSET Items : listing \in SetToSeqs(S)
  BY DEF PageInit
<1>3. IsFiniteSet(S)
  BY ItemsAssumption, FS_Subset
<1>4. PICK c \in Nat : c = Cardinality(S)
  BY <1>3, FS_CardinalityType
<1>5. listing \in [1 .. c -> S] /\ \A i, j \in 1 .. c : i # j => listing[i] # listing[j]
  BY <1>2, <1>4 DEF SetToSeqs
<1>6. listing \in Seq(Items) /\ Len(listing) = c /\ DOMAIN listing = 1 .. c
  <2>1. listing \in [1 .. c -> Items]
    BY <1>2, <1>5
  <2> QED BY <2>1
<1>7. ListInv
  BY <1>1, <1>5, <1>6 DEF ListInv, Distinct
<1>8. ReaderInv
  BY <1>1 DEF ReaderInv
<1>9. Reach = 0
  <2>1. PICK u \in Int : u = Used
    BY <1>1, PageSizesAssumption DEF Used
  <2>2. (page - 1) * u = 0
    BY <1>1
  <2> QED BY <1>1, <2>1, <2>2 DEF Reach
<1>10. PassedInv /\ OnceInv
  BY <1>1, <1>6, <1>9 DEF PassedInv, OnceInv
<1> QED BY <1>1, <1>7, <1>8, <1>10 DEF PagingInv

LEMMA PagingStep == PagingInv /\ [PageNext]_pageVars => PagingInv'
<1> SUFFICES ASSUME PagingInv, [PageNext]_pageVars PROVE PagingInv'
  OBVIOUS
<1>1. ASSUME NEW item \in Items, SaveItem(item) PROVE PagingInv'
  BY <1>1, SaveKeeps
<1>2. ASSUME (\E item \in Items : DeleteItem(item)) \/ NextSecond PROVE PagingInv'
  BY <1>2, OthersKeep
<1>3. ASSUME ReadPage PROVE PagingInv'
  BY <1>3, ReadKeeps
<1>4. CASE UNCHANGED pageVars
  BY <1>4 DEF pageVars, PagingInv, ReaderInv, ListInv, Distinct, PassedInv, OnceInv, Reach, Used
<1> QED BY <1>1, <1>2, <1>3, <1>4 DEF PageNext

\* A list with no item twice is as long as the set of its items is large.
LEMMA DistinctLength ==
  ASSUME NEW s \in Seq(Items), Distinct(s)
  PROVE  Cardinality(ToSet(s)) = Len(s)
<1>1. Len(s) \in Nat /\ DOMAIN s = 1 .. Len(s)
  OBVIOUS
<1>2. s \in Bijection(1 .. Len(s), ToSet(s))
  <2>1. s \in [1 .. Len(s) -> ToSet(s)]
    BY <1>1 DEF ToSet
  <2> QED BY <1>1, <2>1 DEF Distinct, ToSet, Bijection, Injection, IsInjective, Surjection
<1> QED BY <1>1, <1>2, FS_CountingElements DEF ExistsBijection

LEMMA SlicesFit == BoundsAreOfASlice
<1> SUFFICES ASSUME NEW p \in -1 .. 3, NEW s \in PageSizes, NEW n \in 0 .. Cardinality(Items),
                    NEW slice, slice = SlicePage(p, s, n)
             PROVE  0 <= slice.from /\ slice.from <= slice.to /\ slice.to <= n
  BY DEF BoundsAreOfASlice
<1>1. n \in Nat /\ p \in Int /\ s \in Int
  BY ItemsAssumption, PageSizesAssumption, FS_CardinalityType
<1>2. PICK u : u = IF s < 0 THEN 10 ELSE s
  OBVIOUS
<1>3. SliceFits(p, s, n, slice, u)
  BY <1>1, <1>2, SliceFacts
<1> QED BY <1>3 DEF SliceFits

LEMMA PagingEnough == PagingInv => ReadersMissNothing
<1> SUFFICES ASSUME PagingInv, page = 0, size # 0
             PROVE  /\ ~deleted => still \subseteq ToSet(seen)
                    /\ changes = 0 => Len(seen) = Cardinality(still)
  BY SlicesFit DEF ReadersMissNothing
<1>1. Reach = Len(listing)
  BY DEF Reach
<1>2. ASSUME ~deleted, NEW x \in still PROVE x \in ToSet(seen)
  <2>1. ListInv /\ PassedInv
    BY <1>2 DEF PagingInv
  <2>2. Len(listing) \in Nat /\ DOMAIN listing = 1 .. Len(listing)
    BY <2>1 DEF ListInv
  <2>3. PICK k \in 1 .. Len(listing) : listing[k] = x
    BY <1>2, <2>1, <2>2 DEF PassedInv, ToSet
  <2> QED BY <1>1, <1>2, <2>1, <2>2, <2>3 DEF PassedInv
<1>3. ASSUME changes = 0 PROVE Len(seen) = Cardinality(still)
  <2>1. ListInv /\ OnceInv
    BY <1>3 DEF PagingInv
  <2>2. Len(seen) = Len(listing) /\ still = ToSet(listing)
    BY <1>1, <1>3, <2>1 DEF OnceInv
  <2>3. Cardinality(ToSet(listing)) = Len(listing)
    BY <2>1, DistinctLength DEF ListInv
  <2> QED BY <2>2, <2>3
<1> QED BY <1>2, <1>3

\* A reader that goes on until its pages cover the total it was told was given
\* every job that was there all the time and was not saved meanwhile, whatever
\* was made or saved in between, unless a job was deleted; when nothing changed
\* it was given as many as there are.  This is JobList and JobDetailList called
\* page after page, for any list, any sizes and any number of changes.
THEOREM PagesMissNothing == PageSpec => []ReadersMissNothing
BY PagingInit, PagingStep, PagingEnough, PTL DEF PageSpec

-----------------------------------------------------------------------------
(* Induction and folds.                                                    *)
LEMMA LeastNat ==
  ASSUME NEW S \in SUBSET Nat, S # {}
  PROVE  \E m \in S : \A k \in S : m <= k
<1>1. PICK R : IsWellFoundedOn(R, Nat) /\ \A x, y \in Nat : y < x => <<y, x>> \in R
  <2>1. IsWellFoundedOn({ss \in Nat \X Nat : ss[1] < ss[2]}, Nat)
    BY NatLessThanWellFounded DEF OpToRel
  <2>2. \A x, y \in Nat : y < x => <<y, x>> \in {ss \in Nat \X Nat : ss[1] < ss[2]}
    OBVIOUS
  <2> QED BY <2>1, <2>2
<1>2. PICK m \in S : \A y \in S : ~(<<y, m>> \in R)
  BY <1>1, WFMin
<1>3. ASSUME NEW k \in S PROVE m <= k
  <2>1. k \in Nat /\ m \in Nat
    OBVIOUS
  <2>2. ~(k < m)
    BY <1>1, <1>2, <2>1, Zenon
  <2> QED BY <2>1, <2>2
<1> QED BY <1>3

LEMMA Induction ==
  ASSUME NEW S \in SUBSET Nat, 0 \in S, \A n \in S : n + 1 \in S
  PROVE  S = Nat
<1> SUFFICES ASSUME Nat \ S # {} PROVE FALSE
  OBVIOUS
<1>1. PICK m \in Nat \ S : \A k \in Nat \ S : m <= k
  BY LeastNat
<1>2. m # 0 /\ m - 1 \in S
  BY <1>1
<1>3. (m - 1) + 1 = m
  OBVIOUS
<1> QED BY <1>1, <1>2, <1>3

LEMMA Greatest ==
  ASSUME NEW n \in Nat, NEW s \in SUBSET (1 .. n), s # {}
  PROVE  Max(s) \in s /\ \A y \in s : y <= Max(s)
<1> DEFINE T == {n - y : y \in s}
<1>1. T \in SUBSET Nat /\ T # {}
  <2>1. \A y \in s : n - y \in Nat
    OBVIOUS
  <2> QED BY <2>1
<1>2. PICK m \in T : \A k \in T : m <= k
  <2> HIDE DEF T
  <2> QED BY <1>1, LeastNat
<1>3. PICK x \in s : m = n - x
  BY <1>2
<1>4. ASSUME NEW y \in s PROVE y <= x
  <2>1. n - x <= n - y
    BY <1>2, <1>3
  <2>2. x \in Nat /\ y \in Nat
    OBVIOUS
  <2> QED BY <2>1, <2>2
<1>5. \E z \in s : \A y \in s : z >= y
  <2>1. \A y \in s : x >= y
    BY <1>4
  <2> QED BY <2>1
<1>6. Max(s) \in s /\ \A y \in s : Max(s) >= y
  BY <1>5, Zenon DEF Max
<1>7. ASSUME NEW y \in s PROVE y <= Max(s)
  <2>1. \A z \in s : z \in Nat
    OBVIOUS
  <2>2. PICK z \in s : z = Max(s)
    BY <1>6
  <2>3. z >= y
    BY <1>6, <2>2, Zenon
  <2>4. y \in Nat /\ z \in Nat
    BY <2>1
  <2>5. y <= z
    BY <2>3, <2>4
  <2> QED BY <2>2, <2>5
<1> QED BY <1>6, <1>7

LEMMA GreatestOfFirst ==
  ASSUME NEW n \in Nat, n > 0
  PROVE  Max(1 .. n) = n /\ (1 .. n) \ {Max(1 .. n)} = 1 .. n - 1
<1>1. Max(1 .. n) \in 1 .. n /\ n <= Max(1 .. n)
  <2>1. n \in 1 .. n /\ 1 .. n # {} /\ 1 .. n \in SUBSET (1 .. n)
    OBVIOUS
  <2>2. Max(1 .. n) \in 1 .. n /\ \A y \in 1 .. n : y <= Max(1 .. n)
    BY <2>1, Greatest
  <2> QED BY <2>1, <2>2
<1> QED BY <1>1

\* A fold as a run of its accumulator: T[i] is what element i does to it.
Run(acc, n, A, base, T) ==
  /\ acc \in [0 .. n -> A] /\ acc[0] = base
  /\ \A i \in 1 .. n : acc[i] = T[i][acc[i - 1]]

\* The function the definition of MapThenFoldSet chooses, on sets of indices.
Iter(g, n, A, base, T) ==
  /\ g \in [SUBSET (1 .. n) -> A] /\ g[{}] = base
  /\ \A s \in SUBSET (1 .. n) : s # {} => g[s] = T[Max(s)][g[s \ {Max(s)}]]

LEMMA IterExists ==
  ASSUME NEW n \in Nat, NEW A, NEW base \in A, NEW T \in [1 .. n -> [A -> A]]
  PROVE  \E g : Iter(g, n, A, base, T)
<1> DEFINE S == {k \in Nat : k <= n => \E g : Iter(g, k, A, base, T)}
<1>1. 0 \in S
  <2>1. Iter([s \in SUBSET (1 .. 0) |-> base], 0, A, base, T)
    <3>1. \A s \in SUBSET (1 .. 0) : s = {}
      OBVIOUS
    <3> QED BY <3>1 DEF Iter
  <2> QED BY <2>1
<1>2. ASSUME NEW k \in S PROVE k + 1 \in S
  <2> SUFFICES ASSUME k + 1 <= n PROVE \E g : Iter(g, k + 1, A, base, T)
    OBVIOUS
  <2> k \in Nat
    OBVIOUS
  <2>1. PICK g : Iter(g, k, A, base, T)
    OBVIOUS
  <2> HIDE DEF S
  <2> DEFINE h == [s \in SUBSET (1 .. k + 1) |-> IF s = {} THEN base ELSE T[Max(s)][g[s \ {Max(s)}]]]
  <2>2. ASSUME NEW s \in SUBSET (1 .. k + 1), s # {}
        PROVE  Max(s) \in 1 .. n /\ s \ {Max(s)} \in SUBSET (1 .. k)
    <3> k + 1 \in Nat
      OBVIOUS
    <3>1. Max(s) \in s /\ \A y \in s : y <= Max(s)
      BY <2>2, Greatest
    <3>2. Max(s) \in 1 .. k + 1
      BY <3>1
    <3>3. ASSUME NEW y \in s, y # Max(s) PROVE y \in 1 .. k
      <4>1. y \in 1 .. k + 1 /\ y <= Max(s)
        BY <3>1
      <4> QED BY <3>2, <3>3, <4>1
    <3>4. Max(s) \in 1 .. n
      BY <3>2
    <3>5. s \ {Max(s)} \subseteq 1 .. k
      BY <3>3
    <3> QED BY <3>4, <3>5
  <2>3. \A t \in SUBSET (1 .. k) : h[t] = g[t]
    <3> SUFFICES ASSUME NEW t \in SUBSET (1 .. k) PROVE h[t] = g[t]
      OBVIOUS
    <3>1. t \in SUBSET (1 .. k + 1)
      OBVIOUS
    <3> QED BY <2>1, <3>1 DEF Iter
  <2>4. ASSUME NEW s \in SUBSET (1 .. k + 1) PROVE h[s] \in A
    <3>1. s # {} => g[s \ {Max(s)}] \in A
      BY <2>1, <2>2 DEF Iter
    <3>2. s # {} => T[Max(s)] \in [A -> A]
      BY <2>2
    <3> QED BY <3>1, <3>2
  <2>5. h \in [SUBSET (1 .. k + 1) -> A]
    BY <2>4
  <2>6. ASSUME NEW s \in SUBSET (1 .. k + 1), s # {} PROVE h[s] = T[Max(s)][h[s \ {Max(s)}]]
    <3>1. h[s] = T[Max(s)][g[s \ {Max(s)}]]
      BY <2>6
    <3> QED BY <2>2, <2>3, <2>6, <3>1
  <2>7. h[{}] = base
    OBVIOUS
  <2> HIDE DEF h
  <2> QED BY <2>5, <2>6, <2>7 DEF Iter
<1>3. S = Nat
  <2> HIDE DEF S
  <2>1. S \in SUBSET Nat
    BY DEF S
  <2>2. \A k \in S : k + 1 \in S
    BY <1>2
  <2> QED BY <1>1, <2>1, <2>2, Induction
<1>4. n \in S
  BY <1>3
<1> QED BY <1>4

\* What is known of it before its values are.
Follows(h, n, A, base, T) ==
  /\ h[{}] = base
  /\ \A s \in SUBSET (1 .. n) : s # {} /\ h[s \ {Max(s)}] \in A => h[s] = T[Max(s)][h[s \ {Max(s)}]]

LEMMA IterRuns ==
  ASSUME NEW n \in Nat, NEW A, NEW base \in A, NEW T \in [1 .. n -> [A -> A]], NEW h, Follows(h, n, A, base, T)
  PROVE  \E acc : Run(acc, n, A, base, T) /\ acc[n] = h[1 .. n]
<1> DEFINE S == {k \in Nat : k <= n => h[1 .. k] \in A}
<1>1. ASSUME NEW k \in Nat, k + 1 <= n, h[1 .. k] \in A
      PROVE  h[1 .. k + 1] = T[k + 1][h[1 .. k]] /\ h[1 .. k + 1] \in A
  <2>1. PICK s : s = 1 .. k + 1
    OBVIOUS
  <2>2. Max(s) = k + 1 /\ s \ {Max(s)} = 1 .. k
    <3>1. k + 1 \in Nat /\ k + 1 > 0 /\ (k + 1) - 1 = k
      OBVIOUS
    <3> QED BY <2>1, <3>1, GreatestOfFirst
  <2>3. s \in SUBSET (1 .. n) /\ s # {}
    <3>1. \A j \in 1 .. k + 1 : j \in 1 .. n
      BY <1>1
    <3>2. k + 1 \in 1 .. k + 1
      OBVIOUS
    <3> QED BY <2>1, <3>1, <3>2
  <2>4. h[s] = T[k + 1][h[1 .. k]]
    BY <1>1, <2>2, <2>3 DEF Follows
  <2>5. k + 1 \in 1 .. n
    BY <1>1
  <2> QED BY <1>1, <2>1, <2>4, <2>5
<1>2. S = Nat
  <2>1. 0 \in S
    <3>1. 1 .. 0 = {}
      OBVIOUS
    <3> QED BY <3>1 DEF Follows
  <2>2. ASSUME NEW k \in S PROVE k + 1 \in S
    BY <1>1, <2>2
  <2>3. S \in SUBSET Nat
    OBVIOUS
  <2> HIDE DEF S
  <2> QED BY <2>1, <2>2, <2>3, Induction
<1> DEFINE acc == [k \in 0 .. n |-> h[1 .. k]]
<1>3. acc \in [0 .. n -> A]
  <2>1. \A k \in 0 .. n : h[1 .. k] \in A
    BY <1>2
  <2> QED BY <2>1
<1>4. acc[0] = base
  <2>1. 1 .. 0 = {}
    OBVIOUS
  <2> QED BY <2>1 DEF Follows
<1>5. ASSUME NEW i \in 1 .. n PROVE acc[i] = T[i][acc[i - 1]]
  <2>1. PICK k \in Nat : i = k + 1 /\ i - 1 = k
    <3>1. i - 1 \in Nat /\ i = (i - 1) + 1
      OBVIOUS
    <3> QED BY <3>1
  <2>2. k \in 0 .. n /\ i \in 0 .. n /\ k + 1 <= n
    BY <2>1
  <2>3. h[1 .. k] \in A
    BY <1>2, <2>2
  <2> QED BY <1>1, <2>1, <2>2, <2>3
<1>6. acc[n] = h[1 .. n]
  OBVIOUS
<1> HIDE DEF acc
<1> QED BY <1>3, <1>4, <1>5, <1>6 DEF Run

\* Of two folds over lists of which one is the beginning of the other, the
\* second goes through what the first has computed.
Agree(T, U, n) == \A i \in 1 .. n : T[i] = U[i]

LEMMA RunsAgree ==
  ASSUME NEW n \in Nat, NEW m \in Nat, n <= m, NEW A, NEW base \in A, NEW T, NEW U, Agree(T, U, n),
         NEW f, Run(f, n, A, base, T), NEW g, Run(g, m, A, base, U)
  PROVE  f[n] = g[n] /\ (m = n + 1 => g[m] = U[m][f[n]])
<1> DEFINE S == {k \in Nat : k <= n => f[k] = g[k]}
<1>1. 0 \in S
  BY DEF Run
<1>2. ASSUME NEW k \in S PROVE k + 1 \in S
  <2> SUFFICES ASSUME k + 1 <= n PROVE f[k + 1] = g[k + 1]
    OBVIOUS
  <2>1. k + 1 \in 1 .. n /\ k + 1 \in 1 .. m /\ (k + 1) - 1 = k /\ f[k] = g[k]
    OBVIOUS
  <2>2. f[k + 1] = T[k + 1][f[(k + 1) - 1]] /\ g[k + 1] = U[k + 1][g[(k + 1) - 1]]
    BY <2>1, Zenon DEF Run
  <2>3. T[k + 1] = U[k + 1]
    BY <2>1 DEF Agree
  <2> QED BY <2>1, <2>2, <2>3
<1>3. S = Nat
  <2>1. S \in SUBSET Nat
    OBVIOUS
  <2> HIDE DEF S
  <2> QED BY <1>1, <1>2, <2>1, Induction
<1>4. f[n] = g[n]
  BY <1>3
<1>5. ASSUME m = n + 1 PROVE g[m] = U[m][f[n]]
  <2>1. m \in 1 .. m /\ m - 1 = n
    BY <1>5
  <2>2. g[m] = U[m][g[m - 1]]
    BY <2>1, Zenon DEF Run
  <2> QED BY <1>4, <2>1, <2>2
<1> QED BY <1>4, <1>5

-----------------------------------------------------------------------------
(* LogParser.                                                              *)

LineSet ==
  [kind : {"stage"}, name : StageNames] \union [kind : {"step"}, name : StepNames]
    \union [kind : {"started", "finished", "blank", "start", "end", "text"}, name : {NoName}]
PartSet(names) == [name : names, lines : Seq(LineSet)]

Logs == [stage : StageNames \union {NoName}, names : Seq(StageNames),
         map : [StageNames \union {NoName} -> Seq(LineSet)]]
NoLog == [stage |-> NoName, names |-> <<>>, map |-> [s \in StageNames \union {NoName} |-> <<>>]]
ScanAll(ls) == [i \in 1 .. Len(ls) |-> [log \in Logs |-> Scan(log, ls[i])]]

StepLogs == [names : Seq(StepNames), map : [StepNames -> Seq(LineSet)]]
NoSteps == [names |-> <<>>, map |-> [n \in StepNames |-> <<>>]]
ScanAllSteps(ls) == [i \in 1 .. Len(ls) |-> [log \in StepLogs |-> ScanStep(log, ls[i])]]

LEMMA LineKinds ==
  ASSUME NEW l \in LineSet
  PROVE  /\ l.kind = "stage" => l.name \in StageNames
         /\ l.kind = "step" => l.name \in StepNames
         /\ l.kind \in {"stage", "step", "started", "finished", "blank", "start", "end", "text"}
BY DEF LineSet

LEMMA ScanType ==
  ASSUME NEW log \in Logs, NEW l \in LineSet
  PROVE  Scan(log, l) \in Logs
<1>1. CASE l.kind \in {"started", "finished", "blank"}
  BY <1>1 DEF Scan
<1>2. CASE l.kind = "stage"
  <2>1. l.name \in StageNames
    BY <1>2, LineKinds
  <2>2. Append(log.names, l.name) \in Seq(StageNames) /\ <<l>> \in Seq(LineSet)
    BY <2>1 DEF Logs
  <2>3. [log.map EXCEPT ![l.name] = <<l>>] \in [StageNames \union {NoName} -> Seq(LineSet)]
    BY <2>1, <2>2 DEF Logs
  <2>4. Scan(log, l) = [stage |-> l.name, names |-> Append(log.names, l.name), map |-> [log.map EXCEPT ![l.name] = <<l>>]]
    BY <1>2 DEF Scan
  <2> QED BY <2>1, <2>2, <2>3, <2>4 DEF Logs
<1>3. CASE l.kind \notin {"started", "finished", "blank", "stage"}
  <2>1. Scan(log, l) = [log EXCEPT !.map[log.stage] = Append(@, l)]
    BY <1>3 DEF Scan
  <2>2. Append(log.map[log.stage], l) \in Seq(LineSet)
    BY DEF Logs
  <2> QED BY <2>1, <2>2 DEF Logs
<1> QED BY <1>1, <1>2, <1>3

LEMMA ScanRuns ==
  ASSUME NEW ls \in Seq(LineSet)
  PROVE  /\ NoLog \in Logs /\ ScanAll(ls) \in [1 .. Len(ls) -> [Logs -> Logs]]
         /\ \E acc : Run(acc, Len(ls), Logs, NoLog, ScanAll(ls)) /\ acc[Len(ls)] = Scanned(ls)
<1> Len(ls) \in Nat /\ DOMAIN ls = 1 .. Len(ls)
  OBVIOUS
<1>1. NoLog \in Logs
  BY DEF NoLog, Logs
<1>2. \A i \in 1 .. Len(ls), log \in Logs : Scan(log, ls[i]) \in Logs
  BY ScanType
<1>3. ScanAll(ls) \in [1 .. Len(ls) -> [Logs -> Logs]]
  BY <1>2 DEF ScanAll
<1>4. \A i \in 1 .. Len(ls), log \in Logs : ScanAll(ls)[i][log] = Scan(log, ls[i])
  BY DEF ScanAll
<1>5. PICK g : Iter(g, Len(ls), Logs, NoLog, ScanAll(ls))
  BY <1>1, <1>3, IterExists
<1>6. \A s \in SUBSET DOMAIN ls : s # {} => Max(s) \in 1 .. Len(ls) /\ s \ {Max(s)} \in SUBSET (1 .. Len(ls))
  BY Greatest
<1>7. g = [s \in SUBSET DOMAIN ls |-> IF s = {} THEN NoLog ELSE Scan(g[s \ {Max(s)}], ls[Max(s)])]
  <2>1. g \in [SUBSET (1 .. Len(ls)) -> Logs] /\ g[{}] = NoLog
    BY <1>5 DEF Iter
  <2>2. ASSUME NEW s \in SUBSET DOMAIN ls, s # {} PROVE g[s] = Scan(g[s \ {Max(s)}], ls[Max(s)])
    <3>1. g[s] = ScanAll(ls)[Max(s)][g[s \ {Max(s)}]]
      BY <1>5, <2>2 DEF Iter
    <3>2. Max(s) \in 1 .. Len(ls) /\ g[s \ {Max(s)}] \in Logs
      BY <1>6, <2>1, <2>2
    <3> QED BY <1>4, <3>1, <3>2
  <2> QED BY <2>1, <2>2
<1>8. PICK h : h = CHOOSE f : f = [s \in SUBSET DOMAIN ls |-> IF s = {} THEN NoLog ELSE Scan(f[s \ {Max(s)}], ls[Max(s)])]
  OBVIOUS
<1>9. Scanned(ls) = h[DOMAIN ls]
  BY <1>8 DEF Scanned, FoldLeft, MapThenFoldSet, NoLog
<1>10. h = [s \in SUBSET DOMAIN ls |-> IF s = {} THEN NoLog ELSE Scan(h[s \ {Max(s)}], ls[Max(s)])]
  BY <1>7, <1>8, Zenon
<1>11. h[{}] = NoLog
  BY <1>10
<1>12. ASSUME NEW s \in SUBSET (1 .. Len(ls)), s # {}, h[s \ {Max(s)}] \in Logs
       PROVE  h[s] = ScanAll(ls)[Max(s)][h[s \ {Max(s)}]]
  <2>1. h[s] = Scan(h[s \ {Max(s)}], ls[Max(s)])
    BY <1>10, <1>12
  <2>2. Max(s) \in 1 .. Len(ls)
    BY <1>6, <1>12
  <2> QED BY <1>4, <1>12, <2>1, <2>2
<1>13. Follows(h, Len(ls), Logs, NoLog, ScanAll(ls))
  BY <1>11, <1>12 DEF Follows
<1>14. \E acc : Run(acc, Len(ls), Logs, NoLog, ScanAll(ls)) /\ acc[Len(ls)] = h[1 .. Len(ls)]
  BY <1>1, <1>3, <1>13, IterRuns
<1> QED BY <1>1, <1>3, <1>9, <1>14

LEMMA ScanAppends ==
  ASSUME NEW ls \in Seq(LineSet), NEW l \in LineSet
  PROVE  Scanned(ls) \in Logs /\ Scanned(Append(ls, l)) = Scan(Scanned(ls), l)
<1> Len(ls) \in Nat
  OBVIOUS
<1>1. PICK t \in Seq(LineSet) : t = Append(ls, l)
  <2>1. Append(ls, l) \in Seq(LineSet)
    BY AppendProperties
  <2> QED BY <2>1
<1>2. Len(t) = Len(ls) + 1 /\ Len(t) \in Nat /\ t[Len(t)] = l /\ \A i \in 1 .. Len(ls) : t[i] = ls[i]
  BY <1>1
<1>3. NoLog \in Logs
  BY ScanRuns
<1>4. PICK f : Run(f, Len(ls), Logs, NoLog, ScanAll(ls)) /\ f[Len(ls)] = Scanned(ls)
  BY ScanRuns
<1>5. PICK g : Run(g, Len(t), Logs, NoLog, ScanAll(t)) /\ g[Len(t)] = Scanned(t)
  BY ScanRuns
<1>6. ASSUME NEW i \in 1 .. Len(ls) PROVE ScanAll(ls)[i] = ScanAll(t)[i]
  <2>1. i \in 1 .. Len(t) /\ t[i] = ls[i]
    BY <1>2
  <2> QED BY <2>1 DEF ScanAll
<1>7. g[Len(t)] = ScanAll(t)[Len(t)][f[Len(ls)]]
  <2>1. Len(ls) <= Len(t) /\ \A i \in 1 .. Len(ls) : ScanAll(ls)[i] = ScanAll(t)[i]
    BY <1>2, <1>6
  <2>2. PICK T, U : T = ScanAll(ls) /\ U = ScanAll(t)
    OBVIOUS
  <2>3. Agree(T, U, Len(ls)) /\ Run(f, Len(ls), Logs, NoLog, T) /\ Run(g, Len(t), Logs, NoLog, U)
    BY <1>4, <1>5, <2>1, <2>2 DEF Agree
  <2>4. g[Len(t)] = U[Len(t)][f[Len(ls)]]
    BY <1>2, <1>3, <2>1, <2>3, RunsAgree
  <2> QED BY <2>2, <2>4
<1>8. f[Len(ls)] \in Logs
  BY <1>4 DEF Run
<1>9. ScanAll(t)[Len(t)][f[Len(ls)]] = Scan(f[Len(ls)], l)
  <2>1. Len(t) \in 1 .. Len(t)
    BY <1>2
  <2> QED BY <1>2, <1>8, <2>1 DEF ScanAll
<1> QED BY <1>1, <1>4, <1>5, <1>7, <1>8, <1>9

LEMMA ScanStepType ==
  ASSUME NEW log \in StepLogs, NEW l \in LineSet
  PROVE  ScanStep(log, l) \in StepLogs
<1>1. CASE l.kind \in {"start", "end"}
  BY <1>1 DEF ScanStep
<1>2. CASE l.kind = "step"
  <2>1. l.name \in StepNames
    BY <1>2, LineKinds
  <2>2. Append(log.names, l.name) \in Seq(StepNames)
    BY <2>1 DEF StepLogs
  <2>3. [log.map EXCEPT ![l.name] = <<>>] \in [StepNames -> Seq(LineSet)]
    BY <2>1 DEF StepLogs
  <2>4. ScanStep(log, l) = [names |-> Append(log.names, l.name), map |-> [log.map EXCEPT ![l.name] = <<>>]]
    BY <1>2 DEF ScanStep
  <2> QED BY <2>2, <2>3, <2>4 DEF StepLogs
<1>3. CASE l.kind \notin {"start", "end", "step"} /\ log.names = <<>>
  BY <1>3 DEF ScanStep
<1>4. CASE l.kind \notin {"start", "end", "step"} /\ log.names # <<>>
  <2>1. PICK n : n = Last(log.names)
    OBVIOUS
  <2>2. n \in StepNames
    BY <1>4, <2>1 DEF StepLogs, Last
  <2>3. ScanStep(log, l) = [log EXCEPT !.map[n] = Append(@, l)]
    BY <1>4, <2>1 DEF ScanStep
  <2>4. Append(log.map[n], l) \in Seq(LineSet)
    BY <2>2 DEF StepLogs
  <2> QED BY <2>2, <2>3, <2>4 DEF StepLogs
<1> QED BY <1>1, <1>2, <1>3, <1>4

LEMMA ScanStepRuns ==
  ASSUME NEW ls \in Seq(LineSet)
  PROVE  /\ NoSteps \in StepLogs /\ ScanAllSteps(ls) \in [1 .. Len(ls) -> [StepLogs -> StepLogs]]
         /\ \E acc : Run(acc, Len(ls), StepLogs, NoSteps, ScanAllSteps(ls)) /\ acc[Len(ls)] = ScannedSteps(ls)
<1> Len(ls) \in Nat /\ DOMAIN ls = 1 .. Len(ls)
  OBVIOUS
<1>1. NoSteps \in StepLogs
  BY DEF NoSteps, StepLogs
<1>2. \A i \in 1 .. Len(ls), log \in StepLogs : ScanStep(log, ls[i]) \in StepLogs
  BY ScanStepType
<1>3. ScanAllSteps(ls) \in [1 .. Len(ls) -> [StepLogs -> StepLogs]]
  BY <1>2 DEF ScanAllSteps
<1>4. \A i \in 1 .. Len(ls), log \in StepLogs : ScanAllSteps(ls)[i][log] = ScanStep(log, ls[i])
  BY DEF ScanAllSteps
<1>5. PICK g : Iter(g, Len(ls), StepLogs, NoSteps, ScanAllSteps(ls))
  BY <1>1, <1>3, IterExists
<1>6. \A s \in SUBSET DOMAIN ls : s # {} => Max(s) \in 1 .. Len(ls) /\ s \ {Max(s)} \in SUBSET (1 .. Len(ls))
  BY Greatest
<1>7. g = [s \in SUBSET DOMAIN ls |-> IF s = {} THEN NoSteps ELSE ScanStep(g[s \ {Max(s)}], ls[Max(s)])]
  <2>1. g \in [SUBSET (1 .. Len(ls)) -> StepLogs] /\ g[{}] = NoSteps
    BY <1>5 DEF Iter
  <2>2. ASSUME NEW s \in SUBSET DOMAIN ls, s # {} PROVE g[s] = ScanStep(g[s \ {Max(s)}], ls[Max(s)])
    <3>1. g[s] = ScanAllSteps(ls)[Max(s)][g[s \ {Max(s)}]]
      BY <1>5, <2>2 DEF Iter
    <3>2. Max(s) \in 1 .. Len(ls) /\ g[s \ {Max(s)}] \in StepLogs
      BY <1>6, <2>1, <2>2
    <3> QED BY <1>4, <3>1, <3>2
  <2> QED BY <2>1, <2>2
<1>8. PICK h : h = CHOOSE f : f = [s \in SUBSET DOMAIN ls |-> IF s = {} THEN NoSteps ELSE ScanStep(f[s \ {Max(s)}], ls[Max(s)])]
  OBVIOUS
<1>9. ScannedSteps(ls) = h[DOMAIN ls]
  BY <1>8 DEF ScannedSteps, FoldLeft, MapThenFoldSet, NoSteps
<1>10. h = [s \in SUBSET DOMAIN ls |-> IF s = {} THEN NoSteps ELSE ScanStep(h[s \ {Max(s)}], ls[Max(s)])]
  BY <1>7, <1>8, Zenon
<1>11. h[{}] = NoSteps
  BY <1>10
<1>12. ASSUME NEW s \in SUBSET (1 .. Len(ls)), s # {}, h[s \ {Max(s)}] \in StepLogs
       PROVE  h[s] = ScanAllSteps(ls)[Max(s)][h[s \ {Max(s)}]]
  <2>1. h[s] = ScanStep(h[s \ {Max(s)}], ls[Max(s)])
    BY <1>10, <1>12
  <2>2. Max(s) \in 1 .. Len(ls)
    BY <1>6, <1>12
  <2> QED BY <1>4, <1>12, <2>1, <2>2
<1>13. Follows(h, Len(ls), StepLogs, NoSteps, ScanAllSteps(ls))
  BY <1>11, <1>12 DEF Follows
<1>14. \E acc : Run(acc, Len(ls), StepLogs, NoSteps, ScanAllSteps(ls)) /\ acc[Len(ls)] = h[1 .. Len(ls)]
  BY <1>1, <1>3, <1>13, IterRuns
<1> QED BY <1>1, <1>3, <1>9, <1>14

LEMMA ScanStepAppends ==
  ASSUME NEW ls \in Seq(LineSet), NEW l \in LineSet
  PROVE  ScannedSteps(ls) \in StepLogs /\ ScannedSteps(Append(ls, l)) = ScanStep(ScannedSteps(ls), l)
<1> Len(ls) \in Nat
  OBVIOUS
<1>1. PICK t \in Seq(LineSet) : t = Append(ls, l)
  <2>1. Append(ls, l) \in Seq(LineSet)
    BY AppendProperties
  <2> QED BY <2>1
<1>2. Len(t) = Len(ls) + 1 /\ Len(t) \in Nat /\ t[Len(t)] = l /\ \A i \in 1 .. Len(ls) : t[i] = ls[i]
  BY <1>1
<1>3. NoSteps \in StepLogs
  BY ScanStepRuns
<1>4. PICK f : Run(f, Len(ls), StepLogs, NoSteps, ScanAllSteps(ls)) /\ f[Len(ls)] = ScannedSteps(ls)
  BY ScanStepRuns
<1>5. PICK g : Run(g, Len(t), StepLogs, NoSteps, ScanAllSteps(t)) /\ g[Len(t)] = ScannedSteps(t)
  BY ScanStepRuns
<1>6. ASSUME NEW i \in 1 .. Len(ls) PROVE ScanAllSteps(ls)[i] = ScanAllSteps(t)[i]
  <2>1. i \in 1 .. Len(t) /\ t[i] = ls[i]
    BY <1>2
  <2> QED BY <2>1 DEF ScanAllSteps
<1>7. g[Len(t)] = ScanAllSteps(t)[Len(t)][f[Len(ls)]]
  <2>1. Len(ls) <= Len(t) /\ \A i \in 1 .. Len(ls) : ScanAllSteps(ls)[i] = ScanAllSteps(t)[i]
    BY <1>2, <1>6
  <2>2. PICK T, U : T = ScanAllSteps(ls) /\ U = ScanAllSteps(t)
    OBVIOUS
  <2>3. Agree(T, U, Len(ls)) /\ Run(f, Len(ls), StepLogs, NoSteps, T) /\ Run(g, Len(t), StepLogs, NoSteps, U)
    BY <1>4, <1>5, <2>1, <2>2 DEF Agree
  <2>4. g[Len(t)] = U[Len(t)][f[Len(ls)]]
    BY <1>2, <1>3, <2>1, <2>3, RunsAgree
  <2> QED BY <2>2, <2>4
<1>8. f[Len(ls)] \in StepLogs
  BY <1>4 DEF Run
<1>9. ScanAllSteps(t)[Len(t)][f[Len(ls)]] = ScanStep(f[Len(ls)], l)
  <2>1. Len(t) \in 1 .. Len(t)
    BY <1>2
  <2> QED BY <1>2, <1>8, <2>1 DEF ScanAllSteps
<1> QED BY <1>1, <1>4, <1>5, <1>7, <1>8, <1>9

LEMMA RunExists ==
  ASSUME NEW n \in Nat, NEW A, NEW base \in A, NEW T \in [1 .. n -> [A -> A]]
  PROVE  \E acc : Run(acc, n, A, base, T)
<1>1. PICK g : Iter(g, n, A, base, T)
  BY IterExists
<1>2. Follows(g, n, A, base, T)
  BY <1>1 DEF Iter, Follows
<1> QED BY <1>2, IterRuns

LEMMA BothRanges ==
  ASSUME NEW X, NEW a \in Seq(X), NEW b \in Seq(X)
  PROVE  a \o b \in Seq(X) /\ ToSet(a \o b) = ToSet(a) \union ToSet(b)
<1>1. /\ a \o b \in Seq(X) /\ Len(a \o b) = Len(a) + Len(b)
      /\ \A k \in 1 .. Len(a) + Len(b) : (a \o b)[k] = IF k <= Len(a) THEN a[k] ELSE b[k - Len(a)]
  BY ConcatProperties
<1>2. /\ DOMAIN a = 1 .. Len(a) /\ DOMAIN b = 1 .. Len(b) /\ Len(a) \in Nat /\ Len(b) \in Nat
      /\ DOMAIN (a \o b) = 1 .. Len(a) + Len(b)
  BY <1>1
<1>3. ASSUME NEW k \in 1 .. Len(a) PROVE a[k] \in ToSet(a \o b)
  <2>1. k \in 1 .. Len(a) + Len(b) /\ k <= Len(a)
    BY <1>2
  <2>2. (a \o b)[k] = a[k]
    BY <1>1, <2>1
  <2> QED BY <1>2, <2>1, <2>2 DEF ToSet
<1>4. ASSUME NEW k \in 1 .. Len(b) PROVE b[k] \in ToSet(a \o b)
  <2>1. PICK m \in 1 .. Len(a) + Len(b) : m = Len(a) + k
    BY <1>2
  <2>2. ~(m <= Len(a)) /\ m - Len(a) = k
    BY <1>2, <2>1
  <2>3. (a \o b)[m] = b[k]
    BY <1>1, <2>2
  <2> QED BY <1>2, <2>1, <2>3 DEF ToSet
<1>5. ASSUME NEW k \in 1 .. Len(a) + Len(b) PROVE (a \o b)[k] \in ToSet(a) \union ToSet(b)
  <2>1. CASE k <= Len(a)
    <3>1. k \in 1 .. Len(a) /\ (a \o b)[k] = a[k]
      BY <1>1, <1>2, <2>1
    <3> QED BY <1>2, <3>1 DEF ToSet
  <2>2. CASE ~(k <= Len(a))
    <3>1. k - Len(a) \in 1 .. Len(b) /\ (a \o b)[k] = b[k - Len(a)]
      BY <1>1, <1>2, <2>2
    <3> QED BY <1>2, <3>1 DEF ToSet
  <2> QED BY <2>1, <2>2
<1> QED BY <1>1, <1>2, <1>3, <1>4, <1>5 DEF ToSet

LEMMA Flattened ==
  ASSUME NEW X, NEW ss \in Seq(Seq(X))
  PROVE  FlattenSeq(ss) \in Seq(X) /\ ToSet(FlattenSeq(ss)) = UNION {ToSet(ss[i]) : i \in DOMAIN ss}
<1>1. PICK n \in Nat : n = Len(ss) /\ DOMAIN ss = 1 .. n
  OBVIOUS
<1>2. CASE n = 0
  <2>1. FlattenSeq(ss) = ss
    BY <1>1, <1>2 DEF FlattenSeq
  <2>2. DOMAIN ss = {} /\ ss = <<>>
    BY <1>1, <1>2
  <2> QED BY <2>1, <2>2 DEF ToSet
<1>3. CASE n # 0
  <2> DEFINE T == [i \in 1 .. n |-> [a \in Seq(X) |-> a \o ss[i]]]
  <2>1. \A i \in 1 .. n : ss[i] \in Seq(X)
    BY <1>1
  <2>2. T \in [1 .. n -> [Seq(X) -> Seq(X)]] /\ <<>> \in Seq(X)
    BY <2>1, ConcatProperties
  <2>3. \A i \in 1 .. n, a \in Seq(X) : T[i][a] = a \o ss[i]
    OBVIOUS
  <2> HIDE DEF T
  <2>4. PICK acc : Run(acc, n, Seq(X), <<>>, T)
    BY <2>2, RunExists
  <2>5. acc[0] = <<>> /\ \A i \in 0 .. n : acc[i] \in Seq(X)
    BY <2>4 DEF Run
  <2>6. ASSUME NEW i \in 1 .. n PROVE acc[i] = acc[i - 1] \o ss[i]
    <3>1. i - 1 \in 0 .. n
      OBVIOUS
    <3>2. acc[i] = T[i][acc[i - 1]]
      BY <2>4 DEF Run
    <3> QED BY <2>3, <2>5, <3>1, <3>2
  <2>7. acc[1] = ss[1]
    <3>1. 1 \in 1 .. n /\ 1 - 1 = 0
      BY <1>3
    <3>2. acc[1] = <<>> \o ss[1] /\ ss[1] \in Seq(X)
      BY <2>1, <2>5, <2>6, <3>1
    <3> QED BY <3>2
  <2> DEFINE f == [i \in 1 .. n |-> acc[i]]
  <2>8. f = [i \in 1 .. n |-> IF i = 1 THEN ss[i] ELSE f[i - 1] \o ss[i]]
    <3>1. ASSUME NEW i \in 1 .. n, i # 1 PROVE f[i] = f[i - 1] \o ss[i]
      <4>1. i - 1 \in 1 .. n
        BY <3>1
      <4> QED BY <2>6, <4>1
    <3>2. f[1] = ss[1]
      BY <1>3, <2>7
    <3>3. \A i \in 1 .. n : f[i] = IF i = 1 THEN ss[i] ELSE f[i - 1] \o ss[i]
      BY <3>1, <3>2
    <3> QED BY <3>3
  <2>9. PICK h : h = CHOOSE g : g = [i \in 1 .. n |-> IF i = 1 THEN ss[i] ELSE g[i - 1] \o ss[i]]
    OBVIOUS
  <2>10. h = [i \in 1 .. n |-> IF i = 1 THEN ss[i] ELSE h[i - 1] \o ss[i]]
    <3> HIDE DEF f
    <3> QED BY <2>8, <2>9, Zenon
  <2>11. FlattenSeq(ss) = h[n]
    BY <1>1, <1>3, <2>9 DEF FlattenSeq
  <2> DEFINE S == {k \in Nat : k <= n => /\ k > 0 => h[k] = acc[k]
                                         /\ ToSet(acc[k]) = UNION {ToSet(ss[i]) : i \in 1 .. k}}
  <2>12. 0 \in S
    <3>1. ToSet(acc[0]) = {} /\ 1 .. 0 = {}
      BY <2>5 DEF ToSet
    <3> QED BY <3>1
  <2>13. ASSUME NEW k \in S PROVE k + 1 \in S
    <3> SUFFICES ASSUME k + 1 <= n
                 PROVE  h[k + 1] = acc[k + 1] /\ ToSet(acc[k + 1]) = UNION {ToSet(ss[i]) : i \in 1 .. k + 1}
      OBVIOUS
    <3>1. /\ k \in Nat /\ (k > 0 => h[k] = acc[k]) /\ ToSet(acc[k]) = UNION {ToSet(ss[i]) : i \in 1 .. k}
      OBVIOUS
    <3> HIDE DEF S
    <3>2. PICK j \in 1 .. n : j = k + 1 /\ j - 1 = k
      <4>1. k + 1 \in 1 .. n /\ (k + 1) - 1 = k
        BY <3>1
      <4> QED BY <4>1
    <3>3. acc[j] = acc[k] \o ss[j]
      BY <2>6, <3>2
    <3>4. h[j] = IF j = 1 THEN ss[j] ELSE h[k] \o ss[j]
      BY <2>10, <3>2
    <3>5. h[j] = acc[j]
      <4>1. CASE j = 1
        BY <2>7, <3>4, <4>1
      <4>2. CASE j # 1
        <5>1. k > 0
          BY <3>1, <3>2, <4>2
        <5> QED BY <3>1, <3>3, <3>4, <4>2, <5>1
      <4> QED BY <4>1, <4>2
    <3>6. acc[k] \in Seq(X) /\ ss[j] \in Seq(X)
      BY <2>1, <2>5, <3>1, <3>2
    <3>7. ToSet(acc[j]) = ToSet(acc[k]) \union ToSet(ss[j])
      BY <3>3, <3>6, BothRanges
    <3>8. 1 .. j = (1 .. k) \union {j}
      BY <3>1, <3>2
    <3> QED BY <3>1, <3>2, <3>5, <3>7, <3>8
  <2>14. S = Nat
    <3>1. S \in SUBSET Nat
      OBVIOUS
    <3> HIDE DEF S
    <3>2. \A k \in S : k + 1 \in S
      BY <2>13
    <3> QED BY <2>12, <3>1, <3>2, Induction
  <2>15. h[n] = acc[n] /\ ToSet(acc[n]) = UNION {ToSet(ss[i]) : i \in 1 .. n}
    <3>1. n \in S
      <4> HIDE DEF S
      <4> QED BY <2>14
    <3>2. n <= n /\ n > 0
      BY <1>3
    <3> QED BY <3>1, <3>2
  <2> QED BY <1>1, <2>5, <2>11, <2>15
<1> QED BY <1>2, <1>3

\* No later part has the name of this one.
Latest(i, ps) == \A k \in (i + 1) .. Len(ps) : ps[k].name # ps[i].name

\* What a scan has found are these parts, and the lines of the last of a name.
Reads(log, ps) ==
  /\ log.names = Names(ps)
  /\ \A i \in DOMAIN ps : Latest(i, ps) => log.map[ps[i].name] = ps[i].lines

WithLine(ps, l) == [ps EXCEPT ![Len(ps)].lines = Append(@, l)]

LEMMA PartFields ==
  ASSUME NEW N
  PROVE  /\ \A p \in PartSet(N) : p.name \in N /\ p.lines \in Seq(LineSet)
         /\ \A name \in N, ls \in Seq(LineSet) : Part(name, ls) \in PartSet(N)
         /\ \A p \in PartSet(N) : p = Part(p.name, p.lines)
BY DEF PartSet, Part

LEMMA PartIs ==
  ASSUME NEW name, NEW ls
  PROVE  Part(name, ls).name = name /\ Part(name, ls).lines = ls
BY DEF Part

PartAfter(N, ps, p, t) ==
  /\ t \in Seq(PartSet(N)) /\ Len(t) = Len(ps) + 1 /\ Len(ps) \in Nat
  /\ DOMAIN ps = 1 .. Len(ps) /\ DOMAIN t = 1 .. Len(ps) + 1
  /\ t[Len(ps) + 1] = p /\ \A i \in 1 .. Len(ps) : t[i] = ps[i]
  /\ Names(t) = Append(Names(ps), p.name)

LineAfter(N, ps, l, t) ==
  /\ t \in Seq(PartSet(N)) /\ Len(t) = Len(ps) /\ Len(ps) \in Nat /\ Len(ps) > 0
  /\ DOMAIN ps = 1 .. Len(ps) /\ DOMAIN t = 1 .. Len(ps) /\ Names(t) = Names(ps)
  /\ ps[Len(ps)].lines \in Seq(LineSet) /\ t[Len(ps)].lines = Append(ps[Len(ps)].lines, l)
  /\ t[Len(ps)].name = ps[Len(ps)].name
  /\ \A i \in 1 .. Len(ps) - 1 : t[i] = ps[i]

LEMMA PartAdded ==
  ASSUME NEW N, NEW ps \in Seq(PartSet(N)), NEW p \in PartSet(N), NEW t, t = Append(ps, p)
  PROVE  PartAfter(N, ps, p, t)
<1>1. /\ t \in Seq(PartSet(N)) /\ Len(t) = Len(ps) + 1 /\ Len(ps) \in Nat
      /\ t[Len(ps) + 1] = p /\ \A i \in 1 .. Len(ps) : t[i] = ps[i]
  BY AppendProperties
<1>2. DOMAIN ps = 1 .. Len(ps) /\ DOMAIN t = 1 .. Len(ps) + 1
  BY <1>1
<1>3. Names(ps) \in Seq(N) /\ Len(Names(ps)) = Len(ps) /\ \A i \in 1 .. Len(ps) : Names(ps)[i] = ps[i].name
  <2>1. \A i \in 1 .. Len(ps) : ps[i].name \in N
    BY <1>1, <1>2, PartFields
  <2> QED BY <1>1, <1>2, <2>1 DEF Names
<1>4. p.name \in N
  BY PartFields
<1>5. PICK a : a = Append(Names(ps), p.name)
  OBVIOUS
<1>6. /\ a \in Seq(N) /\ Len(a) = Len(ps) + 1 /\ a[Len(ps) + 1] = p.name
      /\ \A i \in 1 .. Len(ps) : a[i] = Names(ps)[i]
  BY <1>3, <1>4, <1>5, AppendProperties
<1>7. a = [i \in 1 .. Len(ps) + 1 |-> t[i].name]
  <2>1. a = [i \in 1 .. Len(ps) + 1 |-> a[i]]
    BY <1>1, <1>6
  <2>2. ASSUME NEW i \in 1 .. Len(ps) + 1 PROVE a[i] = t[i].name
    <3>1. i \in 1 .. Len(ps) \/ i = Len(ps) + 1
      BY <1>1
    <3> QED BY <1>1, <1>3, <1>6, <3>1
  <2> QED BY <2>1, <2>2
<1>8. Names(t) = Append(Names(ps), p.name)
  BY <1>2, <1>5, <1>7 DEF Names
<1> QED BY <1>1, <1>2, <1>8 DEF PartAfter

LEMMA LineAdded ==
  ASSUME NEW N, NEW ps \in Seq(PartSet(N)), ps # <<>>, NEW l \in LineSet, NEW t, t = WithLine(ps, l)
  PROVE  LineAfter(N, ps, l, t)
<1>1. Len(ps) \in Nat /\ Len(ps) > 0 /\ DOMAIN ps = 1 .. Len(ps)
  OBVIOUS
<1>2. PICK n \in 1 .. Len(ps) : n = Len(ps)
  <2>1. Len(ps) \in 1 .. Len(ps)
    BY <1>1
  <2> QED BY <2>1
<1>3. ps[n] \in PartSet(N) /\ ps[n].lines \in Seq(LineSet) /\ ps[n].name \in N
  <2>1. ps[n] \in PartSet(N)
    OBVIOUS
  <2> QED BY <2>1, PartFields
<1>4. PICK q \in PartSet(N) : q = Part(ps[n].name, Append(ps[n].lines, l))
  <2>1. Append(ps[n].lines, l) \in Seq(LineSet)
    BY <1>3, AppendProperties
  <2> QED BY <1>3, <2>1, PartFields
<1>5. t = [ps EXCEPT ![n] = q]
  <2>1. PICK a, b : ps[n] = Part(a, b) /\ a = ps[n].name /\ b = ps[n].lines
    BY <1>3, PartFields
  <2>2. [ps[n] EXCEPT !.lines = Append(@, l)] = q
    <3>1. PICK c : c = Append(b, l)
      OBVIOUS
    <3>2. [Part(a, b) EXCEPT !.lines = c] = Part(a, c)
      BY DEF Part
    <3>3. Part(a, b).lines = b
      BY PartIs
    <3>4. [Part(a, b) EXCEPT !.lines = Append(@, l)] = Part(a, c)
      <4>1. [Part(a, b) EXCEPT !.lines = Append(@, l)] = [Part(a, b) EXCEPT !.lines = c]
        BY <3>1, <3>3
      <4> QED BY <3>2, <4>1
    <3>5. q = Part(a, c)
      BY <1>4, <2>1, <3>1
    <3> QED BY <2>1, <3>4, <3>5
  <2>3. t = [ps EXCEPT ![n] = [ps[n] EXCEPT !.lines = Append(@, l)]]
    BY <1>2 DEF WithLine
  <2> QED BY <2>2, <2>3
<1>6. t \in Seq(PartSet(N)) /\ Len(t) = Len(ps) /\ DOMAIN t = 1 .. Len(ps)
  BY <1>1, <1>5
<1>7. t[n].lines = Append(ps[n].lines, l) /\ t[n].name = ps[n].name
  <2>1. t[n] = q
    BY <1>1, <1>5
  <2>2. PICK a, b : a = ps[n].name /\ b = Append(ps[n].lines, l)
    OBVIOUS
  <2>3. Part(a, b).name = a /\ Part(a, b).lines = b
    BY PartIs
  <2> QED BY <1>4, <2>1, <2>2, <2>3
<1>8. \A i \in 1 .. Len(ps) : i # n => t[i] = ps[i]
  BY <1>5
<1>9. Names(t) = Names(ps)
  <2>1. \A i \in 1 .. Len(ps) : t[i].name = ps[i].name
    BY <1>7, <1>8
  <2> QED BY <1>1, <1>6, <2>1 DEF Names
<1>10. \A i \in 1 .. Len(ps) - 1 : t[i] = ps[i]
  <2>1. PICK m \in Nat : m = Len(ps) /\ m = n
    BY <1>1, <1>2
  <2>2. \A i \in 1 .. m - 1 : i \in 1 .. m /\ i # m
    OBVIOUS
  <2> QED BY <1>8, <2>1, <2>2
<1> QED BY <1>1, <1>2, <1>3, <1>6, <1>7, <1>9, <1>10 DEF LineAfter

LEMMA ReadsPart ==
  ASSUME NEW N, NEW M, N \subseteq M, NEW ps \in Seq(PartSet(N)), NEW p \in PartSet(N),
         NEW old, old.map \in [M -> Seq(LineSet)], Reads(old, ps),
         NEW new, new.names = Append(old.names, p.name), new.map = [old.map EXCEPT ![p.name] = p.lines]
  PROVE  Reads(new, Append(ps, p))
<1>1. PICK t : t = Append(ps, p)
  OBVIOUS
<1>2. /\ t \in Seq(PartSet(N)) /\ Len(t) = Len(ps) + 1 /\ Len(ps) \in Nat
      /\ DOMAIN ps = 1 .. Len(ps) /\ DOMAIN t = 1 .. Len(ps) + 1
      /\ t[Len(ps) + 1] = p /\ \A i \in 1 .. Len(ps) : t[i] = ps[i]
      /\ Names(t) = Append(Names(ps), p.name)
  <2>1. PartAfter(N, ps, p, t)
    BY <1>1, PartAdded
  <2> QED BY <2>1 DEF PartAfter
<1>3. p.name \in M
  BY PartFields
<1>4. ASSUME NEW i \in DOMAIN t, Latest(i, t) PROVE new.map[t[i].name] = t[i].lines
  <2>1. CASE i = Len(ps) + 1
    BY <1>2, <1>3, <2>1
  <2>2. CASE i # Len(ps) + 1
    <3>1. i \in 1 .. Len(ps) /\ t[i] = ps[i] /\ ps[i].name \in N
      <4>1. i \in 1 .. Len(ps) /\ t[i] = ps[i] /\ ps[i] \in PartSet(N)
        BY <1>2, <2>2
      <4> QED BY <4>1, PartFields
    <3>2. Len(ps) + 1 \in i + 1 .. Len(t) /\ \A k \in i + 1 .. Len(ps) : k \in i + 1 .. Len(t) /\ k \in 1 .. Len(ps)
      BY <1>2, <3>1
    <3>3. p.name # ps[i].name
      BY <1>2, <1>4, <3>1, <3>2 DEF Latest
    <3>4. Latest(i, ps)
      BY <1>2, <1>4, <3>1, <3>2 DEF Latest
    <3>5. old.map[ps[i].name] = ps[i].lines
      BY <1>2, <3>1, <3>4 DEF Reads
    <3> QED BY <3>1, <3>3, <3>5
  <2> QED BY <2>1, <2>2
<1> QED BY <1>1, <1>2, <1>4 DEF Reads

LEMMA ReadsLine ==
  ASSUME NEW N, NEW M, N \subseteq M, NEW ps \in Seq(PartSet(N)), ps # <<>>, NEW l \in LineSet,
         NEW old, old.map \in [M -> Seq(LineSet)], Reads(old, ps),
         NEW new, new.names = old.names, new.map = [old.map EXCEPT ![ps[Len(ps)].name] = Append(@, l)]
  PROVE  Reads(new, WithLine(ps, l))
<1>1. PICK t : t = WithLine(ps, l)
  OBVIOUS
<1>2. /\ t \in Seq(PartSet(N)) /\ Len(t) = Len(ps) /\ Len(ps) \in Nat /\ Len(ps) > 0
      /\ DOMAIN ps = 1 .. Len(ps) /\ DOMAIN t = 1 .. Len(ps) /\ Names(t) = Names(ps)
      /\ ps[Len(ps)].lines \in Seq(LineSet) /\ t[Len(ps)].lines = Append(ps[Len(ps)].lines, l)
      /\ t[Len(ps)].name = ps[Len(ps)].name
      /\ \A i \in 1 .. Len(ps) - 1 : t[i] = ps[i]
  <2>1. LineAfter(N, ps, l, t)
    BY <1>1, LineAdded
  <2> QED BY <2>1 DEF LineAfter
<1>3. PICK n \in 1 .. Len(ps) : n = Len(ps)
  <2>1. Len(ps) \in Nat /\ Len(ps) > 0
    BY <1>2
  <2>2. Len(ps) \in 1 .. Len(ps)
    BY <2>1
  <2> QED BY <2>2
<1>4. ps[n].name \in M /\ Latest(n, ps)
  <2>1. ps[n] \in PartSet(N)
    OBVIOUS
  <2>2. ps[n].name \in M
    BY <2>1, PartFields
  <2>3. n + 1 .. Len(ps) = {}
    BY <1>2, <1>3
  <2> QED BY <2>2, <2>3 DEF Latest
<1>5. old.map[ps[n].name] = ps[n].lines
  BY <1>2, <1>4 DEF Reads
<1>6. ASSUME NEW i \in DOMAIN t, Latest(i, t) PROVE new.map[t[i].name] = t[i].lines
  <2>1. CASE i = n
    BY <1>2, <1>3, <1>4, <1>5, <2>1
  <2>2. CASE i # n
    <3>1. i \in 1 .. Len(ps) - 1 /\ i \in 1 .. Len(ps) /\ n \in i + 1 .. Len(t)
      BY <1>2, <1>3, <2>2
    <3>2. t[i] = ps[i] /\ ps[i] \in PartSet(N)
      BY <1>2, <3>1
    <3>3. ps[i].name \in N /\ ps[n].name # ps[i].name
      <4>1. ps[i].name \in N
        BY <3>2, PartFields
      <4>2. t[n].name # t[i].name
        BY <1>6, <3>1 DEF Latest
      <4> QED BY <1>2, <1>3, <3>2, <4>1, <4>2
    <3>4. Latest(i, ps)
      <4> SUFFICES ASSUME NEW k \in i + 1 .. Len(ps) PROVE ps[k].name # ps[i].name
        BY DEF Latest
      <4>1. k = n \/ (k \in 1 .. Len(ps) - 1 /\ k \in i + 1 .. Len(t))
        <5>1. /\ k \in Int /\ k <= Len(ps) /\ k >= i + 1 /\ i \in Int /\ i >= 1 /\ Len(ps) \in Int /\ Len(t) = Len(ps)
          BY <1>2, <3>1
        <5>2. k >= 1 /\ (k = Len(ps) \/ k <= Len(ps) - 1)
          BY <5>1
        <5>3. k \in i + 1 .. Len(t)
          BY <5>1
        <5> QED BY <1>3, <5>1, <5>2, <5>3
      <4>2. t[k].name # t[i].name
        BY <1>2, <1>6 DEF Latest
      <4> QED BY <1>2, <3>2, <3>3, <4>1, <4>2
    <3>5. old.map[ps[i].name] = ps[i].lines
      BY <1>2, <3>1, <3>4 DEF Reads
    <3>6. ps[i].name \in M
      BY <3>3
    <3> QED BY <1>3, <3>2, <3>3, <3>5, <3>6
  <2> QED BY <2>1, <2>2
<1> QED BY <1>1, <1>2, <1>6 DEF Reads

LEMMA NothingScanned == Scanned(<<>>) = NoLog /\ ScannedSteps(<<>>) = NoSteps
<1>1. PICK e : e = <<>>
  OBVIOUS
<1>2. e \in Seq(LineSet) /\ Len(e) = 0
  BY <1>1
<1>3. PICK acc : Run(acc, Len(e), Logs, NoLog, ScanAll(e)) /\ acc[Len(e)] = Scanned(e)
  BY <1>2, ScanRuns
<1>4. PICK acc2 : Run(acc2, Len(e), StepLogs, NoSteps, ScanAllSteps(e)) /\ acc2[Len(e)] = ScannedSteps(e)
  BY <1>2, ScanStepRuns
<1> QED BY <1>1, <1>2, <1>3, <1>4 DEF Run

\* The lines ls, with cur the stage under way, hold the parts ps.
Holds(ls, cur, ps) ==
  /\ ls \in Seq(LineSet) /\ cur \in StageNames \union {NoName} /\ ps \in Seq(PartSet(StageNames))
  /\ Reads(Scanned(ls), ps)
  /\ cur # NoName => Scanned(ls).stage = cur /\ ps # <<>> /\ ps[Len(ps)].name = cur

LEMMA SkippedLine ==
  ASSUME NEW ls, NEW cur, NEW ps, Holds(ls, cur, ps),
         NEW l \in LineSet, l.kind \in {"started", "finished", "blank"}
  PROVE  Holds(Append(ls, l), cur, ps) /\ Holds(Append(ls, l), NoName, ps)
<1>1. ls \in Seq(LineSet)
  BY DEF Holds
<1>2. Scanned(Append(ls, l)) = Scanned(ls)
  <2>1. Scan(Scanned(ls), l) = Scanned(ls)
    BY DEF Scan
  <2> QED BY <1>1, <2>1, ScanAppends
<1>3. Append(ls, l) \in Seq(LineSet)
  BY <1>1, AppendProperties
<1> QED BY <1>2, <1>3 DEF Holds

LEMMA StageLine ==
  ASSUME NEW ls, NEW cur, NEW ps, Holds(ls, cur, ps),
         NEW l \in LineSet, l.kind = "stage"
  PROVE  Holds(Append(ls, l), l.name, Append(ps, Part(l.name, <<l>>)))
<1>1. ls \in Seq(LineSet) /\ ps \in Seq(PartSet(StageNames)) /\ Reads(Scanned(ls), ps)
  BY DEF Holds
<1>2. PICK s \in StageNames : s = l.name
  BY LineKinds
<1>3. PICK p \in PartSet(StageNames) : p = Part(s, <<l>>) /\ p.name = s /\ p.lines = <<l>>
  <2>1. <<l>> \in Seq(LineSet)
    OBVIOUS
  <2>2. Part(s, <<l>>) \in PartSet(StageNames)
    BY <2>1, PartFields
  <2> QED BY <2>2, PartIs
<1>4. PICK old \in Logs : old = Scanned(ls)
  BY <1>1, <1>2, ScanAppends
<1>5. PICK new : new = Scanned(Append(ls, l)) /\ new = Scan(old, l)
  BY <1>1, <1>4, ScanAppends
<1>6. new = [stage |-> s, names |-> Append(old.names, s), map |-> [old.map EXCEPT ![s] = <<l>>]]
  BY <1>2, <1>5 DEF Scan
<1>7. new.stage = s /\ new.names = Append(old.names, p.name) /\ new.map = [old.map EXCEPT ![p.name] = p.lines]
  BY <1>3, <1>6
<1>8. Reads(new, Append(ps, p))
  <2>1. old.map \in [StageNames \union {NoName} -> Seq(LineSet)] /\ StageNames \subseteq StageNames \union {NoName}
    BY DEF Logs
  <2>2. Reads(old, ps)
    BY <1>1, <1>4
  <2> QED BY <1>1, <1>7, <2>1, <2>2, ReadsPart
<1>9. Append(ls, l) \in Seq(LineSet)
  BY <1>1, AppendProperties
<1>10. PICK t : t = Append(ps, p) /\ t \in Seq(PartSet(StageNames)) /\ t # <<>> /\ t[Len(t)].name = s
  <2>1. PartAfter(StageNames, ps, p, Append(ps, p))
    BY <1>1, PartAdded
  <2>2. PICK t : t = Append(ps, p)
    OBVIOUS
  <2>3. t \in Seq(PartSet(StageNames)) /\ Len(t) = Len(ps) + 1 /\ Len(ps) \in Nat /\ t[Len(ps) + 1] = p
    BY <2>1, <2>2 DEF PartAfter
  <2>4. t # <<>>
    BY <2>3
  <2> QED BY <1>3, <2>2, <2>3, <2>4
<1>11. Holds(Append(ls, l), s, t)
  BY <1>5, <1>7, <1>8, <1>9, <1>10 DEF Holds
<1> QED BY <1>2, <1>3, <1>10, <1>11

LEMMA OwnLine ==
  ASSUME NEW ls, NEW cur, NEW ps, Holds(ls, cur, ps), cur # NoName,
         NEW l \in LineSet, l.kind \in {"start", "end", "text", "step"}
  PROVE  Holds(Append(ls, l), cur, WithLine(ps, l))
<1>1. /\ ls \in Seq(LineSet) /\ ps \in Seq(PartSet(StageNames)) /\ Reads(Scanned(ls), ps)
      /\ Scanned(ls).stage = cur /\ ps # <<>> /\ ps[Len(ps)].name = cur
      /\ cur \in StageNames
  BY DEF Holds
<1>4. PICK old \in Logs : old = Scanned(ls)
  BY <1>1, ScanAppends
<1>5. PICK new : new = Scanned(Append(ls, l)) /\ new = Scan(old, l)
  BY <1>1, <1>4, ScanAppends
<1>6. new = [old EXCEPT !.map[cur] = Append(@, l)]
  BY <1>1, <1>4, <1>5 DEF Scan
<1>7. new.stage = cur /\ new.names = old.names /\ new.map = [old.map EXCEPT ![ps[Len(ps)].name] = Append(@, l)]
  BY <1>1, <1>4, <1>6 DEF Logs
<1>8. Reads(new, WithLine(ps, l))
  <2>1. old.map \in [StageNames \union {NoName} -> Seq(LineSet)] /\ StageNames \subseteq StageNames \union {NoName}
    BY DEF Logs
  <2>2. Reads(old, ps)
    BY <1>1, <1>4
  <2> QED BY <1>1, <1>7, <2>1, <2>2, ReadsLine
<1>9. Append(ls, l) \in Seq(LineSet)
  BY <1>1, AppendProperties
<1>10. PICK t : t = WithLine(ps, l) /\ t \in Seq(PartSet(StageNames)) /\ t # <<>> /\ t[Len(t)].name = cur
  <2>1. PICK t : t = WithLine(ps, l)
    OBVIOUS
  <2>2. LineAfter(StageNames, ps, l, t)
    BY <1>1, <2>1, LineAdded
  <2>3. t \in Seq(PartSet(StageNames)) /\ Len(t) = Len(ps) /\ Len(ps) > 0 /\ t[Len(ps)].name = ps[Len(ps)].name
    BY <2>2 DEF LineAfter
  <2>4. t # <<>>
    BY <2>3
  <2> QED BY <1>1, <2>1, <2>3, <2>4
<1>11. Holds(Append(ls, l), cur, t)
  BY <1>1, <1>5, <1>7, <1>8, <1>9, <1>10 DEF Holds
<1> QED BY <1>10, <1>11

\* The lines ls of a stage hold the steps ss.
HoldsSteps(ls, ss) ==
  ls \in Seq(LineSet) /\ ss \in Seq(PartSet(StepNames)) /\ Reads(ScannedSteps(ls), ss)

LEMMA SkippedStepLine ==
  ASSUME NEW ls, NEW ss, HoldsSteps(ls, ss), NEW l \in LineSet,
         \/ l.kind \in {"start", "end"}
         \/ l.kind = "stage" /\ ss = <<>>
  PROVE  HoldsSteps(Append(ls, l), ss)
<1>1. ls \in Seq(LineSet) /\ ss \in Seq(PartSet(StepNames)) /\ Reads(ScannedSteps(ls), ss)
  BY DEF HoldsSteps
<1>2. PICK old \in StepLogs : old = ScannedSteps(ls)
  BY <1>1, ScanStepAppends
<1>3. ScanStep(old, l) = old
  <2>1. CASE l.kind \in {"start", "end"}
    BY <2>1 DEF ScanStep
  <2>2. CASE l.kind = "stage" /\ ss = <<>>
    <3>1. old.names = <<>>
      BY <1>1, <1>2, <2>2 DEF Reads, Names
    <3> QED BY <2>2, <3>1 DEF ScanStep
  <2> QED BY <2>1, <2>2
<1>4. ScannedSteps(Append(ls, l)) = old
  BY <1>1, <1>2, <1>3, ScanStepAppends
<1>5. Append(ls, l) \in Seq(LineSet)
  BY <1>1, AppendProperties
<1> QED BY <1>1, <1>2, <1>4, <1>5 DEF HoldsSteps

LEMMA StepLine ==
  ASSUME NEW ls, NEW ss, HoldsSteps(ls, ss), NEW l \in LineSet, l.kind = "step"
  PROVE  HoldsSteps(Append(ls, l), Append(ss, Part(l.name, <<>>)))
<1>1. ls \in Seq(LineSet) /\ ss \in Seq(PartSet(StepNames)) /\ Reads(ScannedSteps(ls), ss)
  BY DEF HoldsSteps
<1>2. PICK n \in StepNames : n = l.name
  BY LineKinds
<1>3. PICK p \in PartSet(StepNames) : p = Part(n, <<>>) /\ p.name = n /\ p.lines = <<>>
  <2>1. <<>> \in Seq(LineSet)
    OBVIOUS
  <2>2. Part(n, <<>>) \in PartSet(StepNames)
    BY <2>1, PartFields
  <2> QED BY <2>2, PartIs
<1>4. PICK old \in StepLogs : old = ScannedSteps(ls)
  BY <1>1, <1>2, ScanStepAppends
<1>5. PICK new : new = ScannedSteps(Append(ls, l)) /\ new = ScanStep(old, l)
  BY <1>1, <1>4, ScanStepAppends
<1>6. new = [names |-> Append(old.names, n), map |-> [old.map EXCEPT ![n] = <<>>]]
  BY <1>2, <1>5 DEF ScanStep
<1>7. new.names = Append(old.names, p.name) /\ new.map = [old.map EXCEPT ![p.name] = p.lines]
  BY <1>3, <1>6
<1>8. Reads(new, Append(ss, p))
  <2>1. old.map \in [StepNames -> Seq(LineSet)] /\ StepNames \subseteq StepNames
    BY DEF StepLogs
  <2>2. Reads(old, ss)
    BY <1>1, <1>4
  <2> QED BY <1>1, <1>7, <2>1, <2>2, ReadsPart
<1>9. Append(ls, l) \in Seq(LineSet) /\ Append(ss, p) \in Seq(PartSet(StepNames))
  BY <1>1, AppendProperties
<1> QED BY <1>2, <1>3, <1>5, <1>8, <1>9 DEF HoldsSteps

LEMMA TextLine ==
  ASSUME NEW ls, NEW ss, HoldsSteps(ls, ss), ss # <<>>, NEW l \in LineSet, l.kind = "text"
  PROVE  HoldsSteps(Append(ls, l), WithLine(ss, l))
<1>1. ls \in Seq(LineSet) /\ ss \in Seq(PartSet(StepNames)) /\ Reads(ScannedSteps(ls), ss)
  BY DEF HoldsSteps
<1>2. PICK old \in StepLogs : old = ScannedSteps(ls)
  BY <1>1, ScanStepAppends
<1>3. PICK new : new = ScannedSteps(Append(ls, l)) /\ new = ScanStep(old, l)
  BY <1>1, <1>2, ScanStepAppends
<1>4. PICK m \in DOMAIN ss : m = Len(ss) /\ m > 0 /\ DOMAIN ss = 1 .. m
  <2>1. Len(ss) \in 1 .. Len(ss) /\ DOMAIN ss = 1 .. Len(ss)
    BY <1>1
  <2> QED BY <2>1
<1>5. PICK n \in StepNames : n = ss[m].name
  <2>1. ss[m] \in PartSet(StepNames)
    BY <1>1
  <2> QED BY <2>1, PartFields
<1>6. old.names # <<>> /\ Last(old.names) = n
  <2>1. old.names = [i \in 1 .. m |-> ss[i].name]
    BY <1>1, <1>2, <1>4 DEF Reads, Names
  <2>2. old.names \in Seq(StepNames)
    BY DEF StepLogs
  <2>3. DOMAIN old.names = 1 .. m /\ Len(old.names) = m
    BY <1>4, <2>1, <2>2
  <2>4. m \in 1 .. m
    BY <1>4
  <2> QED BY <1>4, <1>5, <2>1, <2>3, <2>4 DEF Last
<1>7. new = [old EXCEPT !.map[n] = Append(@, l)]
  BY <1>3, <1>6 DEF ScanStep
<1>8. new.names = old.names /\ new.map = [old.map EXCEPT ![ss[Len(ss)].name] = Append(@, l)]
  BY <1>4, <1>5, <1>7 DEF StepLogs
<1>9. Reads(new, WithLine(ss, l))
  <2>1. old.map \in [StepNames -> Seq(LineSet)] /\ StepNames \subseteq StepNames
    BY DEF StepLogs
  <2>2. Reads(old, ss)
    BY <1>1, <1>2
  <2> QED BY <1>1, <1>8, <2>1, <2>2, ReadsLine
<1>10. Append(ls, l) \in Seq(LineSet)
  BY <1>1, AppendProperties
<1>11. PICK t : t = WithLine(ss, l) /\ t \in Seq(PartSet(StepNames))
  <2>1. PICK t : t = WithLine(ss, l)
    OBVIOUS
  <2>2. LineAfter(StepNames, ss, l, t)
    BY <1>1, <2>1, LineAdded
  <2> QED BY <2>1, <2>2 DEF LineAfter
<1> QED BY <1>3, <1>9, <1>10, <1>11 DEF HoldsSteps

LEMMA OneLine ==
  ASSUME NEW X, NEW ls \in Seq(X), NEW a \in X
  PROVE  ls \o <<a>> = Append(ls, a) /\ Append(ls, a) \in Seq(X) /\ <<a>> \in Seq(X)
OBVIOUS

LEMMA TupleOfTwo ==
  ASSUME NEW X, NEW a \in X, NEW b \in X
  PROVE  Append(<<a>>, b) = <<a, b>> /\ <<a, b>> \in Seq(X)
<1>1. PICK u, v : u = Append(<<a>>, b) /\ v = <<a, b>>
  OBVIOUS
<1>2. u \in Seq(X) /\ Len(u) = 2 /\ u[1] = a /\ u[2] = b
  BY <1>1
<1>3. v \in Seq(X) /\ Len(v) = 2 /\ v[1] = a /\ v[2] = b
  BY <1>1
<1>4. \A i \in 1 .. 2 : i = 1 \/ i = 2
  OBVIOUS
<1>5. u = v
  BY <1>2, <1>3, <1>4, SeqEqual
<1> QED BY <1>1, <1>3, <1>5

LEMMA TupleOfThree ==
  ASSUME NEW X, NEW a \in X, NEW b \in X, NEW c \in X
  PROVE  Append(<<a, b>>, c) = <<a, b, c>> /\ <<a, b, c>> \in Seq(X)
<1>1. PICK u, v : u = Append(<<a, b>>, c) /\ v = <<a, b, c>>
  OBVIOUS
<1>2. u \in Seq(X) /\ Len(u) = 3 /\ u[1] = a /\ u[2] = b /\ u[3] = c
  BY <1>1
<1>3. v \in Seq(X) /\ Len(v) = 3 /\ v[1] = a /\ v[2] = b /\ v[3] = c
  BY <1>1
<1>4. \A i \in 1 .. 3 : i = 1 \/ i = 2 \/ i = 3
  OBVIOUS
<1>5. u = v
  BY <1>2, <1>3, <1>4, SeqEqual
<1> QED BY <1>1, <1>3, <1>5

LEMMA TupleOfFour ==
  ASSUME NEW X, NEW a \in X, NEW b \in X, NEW c \in X, NEW d \in X
  PROVE  Append(<<a, b, c>>, d) = <<a, b, c, d>> /\ <<a, b, c, d>> \in Seq(X)
<1>1. PICK u, v : u = Append(<<a, b, c>>, d) /\ v = <<a, b, c, d>>
  OBVIOUS
<1>2. u \in Seq(X) /\ Len(u) = 4 /\ u[1] = a /\ u[2] = b /\ u[3] = c /\ u[4] = d
  BY <1>1
<1>3. v \in Seq(X) /\ Len(v) = 4 /\ v[1] = a /\ v[2] = b /\ v[3] = c /\ v[4] = d
  BY <1>1
<1>4. \A i \in 1 .. 4 : i = 1 \/ i = 2 \/ i = 3 \/ i = 4
  OBVIOUS
<1>5. u = v
  BY <1>2, <1>3, <1>4, SeqEqual
<1> QED BY <1>1, <1>3, <1>5

LEMMA TwoLines ==
  ASSUME NEW X, NEW ls \in Seq(X), NEW a \in X, NEW b \in X
  PROVE  ls \o <<a, b>> = Append(Append(ls, a), b)
<1>1. PICK u, v : u = <<a>> /\ v = <<b>> /\ u \in Seq(X) /\ v \in Seq(X)
  <2>1. <<a>> \in Seq(X) /\ <<b>> \in Seq(X)
    OBVIOUS
  <2> QED BY <2>1
<1>2. <<a, b>> = u \o v
  <2>1. u \o v = Append(u, b)
    BY <1>1, OneLine
  <2> QED BY <1>1, <2>1, TupleOfTwo
<1>3. ls \o (u \o v) = (ls \o u) \o v
  BY ConcatAssociative
<1>4. ls \o u = Append(ls, a) /\ Append(ls, a) \in Seq(X)
  BY <1>1, OneLine
<1>5. Append(ls, a) \o v = Append(Append(ls, a), b)
  BY <1>1, <1>4, OneLine
<1> QED BY <1>2, <1>3, <1>4, <1>5

LEMMA ThreeLines ==
  ASSUME NEW X, NEW ls \in Seq(X), NEW a \in X, NEW b \in X, NEW c \in X
  PROVE  /\ ls \o <<a, b, c>> = Append(Append(Append(ls, a), b), c)
         /\ <<>> \o <<a>> \o <<b, c>> = <<a, b, c>>
<1>1. PICK u, v, w : u = <<a, b>> /\ v = <<c>> /\ w = <<a>> /\ u \in Seq(X) /\ v \in Seq(X) /\ w \in Seq(X)
  <2>1. <<a, b>> \in Seq(X) /\ <<c>> \in Seq(X) /\ <<a>> \in Seq(X)
    BY TupleOfTwo
  <2> QED BY <2>1
<1>2. <<a, b, c>> = u \o v
  <2>1. u \o v = Append(u, c)
    BY <1>1, OneLine
  <2> QED BY <1>1, <2>1, TupleOfThree
<1>3. ls \o (u \o v) = (ls \o u) \o v
  BY ConcatAssociative
<1>4. PICK m \in Seq(X) : m = ls \o u /\ m = Append(Append(ls, a), b)
  <2>1. ls \o u \in Seq(X)
    BY <1>1, ConcatProperties
  <2>2. ls \o u = Append(Append(ls, a), b)
    BY <1>1, TwoLines
  <2> QED BY <2>1, <2>2
<1>5. m \o v = Append(m, c)
  BY <1>1, OneLine
<1>6. <<>> \o w = w
  OBVIOUS
<1>7. w \o <<b, c>> = Append(Append(w, b), c)
  BY TwoLines
<1>8. Append(Append(w, b), c) = <<a, b, c>>
  <2>1. Append(<<a>>, b) = <<a, b>> /\ Append(<<a, b>>, c) = <<a, b, c>>
    BY TupleOfTwo, TupleOfThree
  <2> QED BY <1>1, <2>1, Zenon
<1> QED BY <1>1, <1>2, <1>3, <1>4, <1>5, <1>6, <1>7, <1>8

LEMMA FourLines ==
  ASSUME NEW X, NEW ls \in Seq(X), NEW a \in X, NEW b \in X, NEW c \in X, NEW d \in X
  PROVE  /\ ls \o <<a, b, c, d>> = Append(Append(Append(Append(ls, a), b), c), d)
         /\ <<a>> \o <<b>> \o <<c, d>> = <<a, b, c, d>>
<1>1. PICK u, v, w : /\ u = <<a, b, c>> /\ v = <<d>> /\ w = <<a, b>>
                     /\ u \in Seq(X) /\ v \in Seq(X) /\ w \in Seq(X)
  <2>1. <<a, b>> \in Seq(X) /\ <<a, b, c>> \in Seq(X) /\ <<d>> \in Seq(X)
    BY TupleOfTwo, TupleOfThree
  <2> QED BY <2>1
<1>2. <<a, b, c, d>> = u \o v
  <2>1. u \o v = Append(u, d)
    BY <1>1, OneLine
  <2> QED BY <1>1, <2>1, TupleOfFour
<1>3. ls \o (u \o v) = (ls \o u) \o v
  BY ConcatAssociative
<1>4. PICK m \in Seq(X) : m = ls \o u /\ m = Append(Append(Append(ls, a), b), c)
  <2>1. ls \o u \in Seq(X)
    BY <1>1, ConcatProperties
  <2>2. ls \o u = Append(Append(Append(ls, a), b), c)
    BY <1>1, ThreeLines
  <2> QED BY <2>1, <2>2
<1>5. m \o v = Append(m, d)
  BY <1>1, OneLine
<1>6. <<a>> \o <<b>> = w
  <2>1. <<a>> \in Seq(X)
    OBVIOUS
  <2>2. <<a>> \o <<b>> = Append(<<a>>, b)
    BY <2>1, OneLine
  <2> QED BY <1>1, <2>2, TupleOfTwo
<1>7. w \o <<c, d>> = Append(Append(w, c), d)
  BY TwoLines
<1>8. Append(Append(w, c), d) = <<a, b, c, d>>
  <2>1. Append(<<a, b>>, c) = <<a, b, c>> /\ Append(<<a, b, c>>, d) = <<a, b, c, d>>
    BY TupleOfThree, TupleOfFour
  <2> QED BY <1>1, <2>1, Zenon
<1> QED BY <1>1, <1>2, <1>3, <1>4, <1>5, <1>6, <1>7, <1>8

LEMMA WrittenLines ==
  /\ \A s \in StageNames : Line("stage", s) \in LineSet
  /\ \A n \in StepNames : Line("step", n) \in LineSet
  /\ \A k \in {"started", "finished", "blank", "start", "end", "text"} : Plain(k) \in LineSet
  /\ \A k, name : Line(k, name).kind = k /\ Line(k, name).name = name
  /\ \A k : Plain(k).kind = k
BY DEF LineSet, Line, Plain

\* The first stage line and the line after it.
LEMMA PartOfTwo ==
  ASSUME NEW N, NEW ps \in Seq(PartSet(N)), NEW n \in N, NEW a \in LineSet, NEW b \in LineSet
  PROVE  WithLine(Append(ps, Part(n, <<a>>)), b) = Append(ps, Part(n, <<a, b>>))
<1>1. PICK c, d : c = <<a>> /\ d = <<a, b>> /\ d = Append(c, b)
  BY TupleOfTwo
<1>2. PICK p \in PartSet(N), q \in PartSet(N) :
        p = Part(n, c) /\ q = Part(n, d) /\ p.lines = c /\ p.name = n /\ q.lines = d /\ q.name = n
  <2>1. c \in Seq(LineSet) /\ d \in Seq(LineSet)
    BY <1>1, OneLine, TupleOfTwo
  <2>2. Part(n, c) \in PartSet(N) /\ Part(n, d) \in PartSet(N)
    BY <2>1, PartFields
  <2> QED BY <2>2, PartIs
<1>3. PICK t \in Seq(PartSet(N)) : t = Append(ps, p)
  <2>1. Append(ps, p) \in Seq(PartSet(N))
    BY AppendProperties
  <2> QED BY <2>1
<1>4. PICK u : u = WithLine(t, b)
  OBVIOUS
<1>5. PartAfter(N, ps, p, t) /\ PartAfter(N, ps, q, Append(ps, q))
  BY <1>3, PartAdded
<1>6. t # <<>> /\ Len(t) = Len(ps) + 1 /\ Len(ps) \in Nat /\ t[Len(ps) + 1] = p /\ \A i \in 1 .. Len(ps) : t[i] = ps[i]
  BY <1>5 DEF PartAfter
<1>7. LineAfter(N, t, b, u)
  BY <1>4, <1>6, LineAdded
<1>8. PICK m \in Nat : m = Len(ps)
  BY <1>6
<1>9. /\ u \in Seq(PartSet(N)) /\ Len(u) = m + 1
      /\ u[m + 1].lines = d /\ u[m + 1].name = n
      /\ \A i \in 1 .. m : u[i] = ps[i]
  <2>1. Len(t) = m + 1 /\ (m + 1) - 1 = m
    BY <1>6, <1>8
  <2> QED BY <1>1, <1>2, <1>6, <1>7, <1>8, <2>1 DEF LineAfter
<1>10. u[m + 1] = q
  <2>1. m + 1 \in 1 .. Len(u)
    BY <1>9
  <2>2. u[m + 1] \in PartSet(N)
    BY <1>9, <2>1
  <2>3. u[m + 1] = Part(n, d)
    BY <1>9, <2>2, PartFields
  <2> QED BY <1>2, <2>3
<1>11. PICK v \in Seq(PartSet(N)) : v = Append(ps, q) /\ Len(v) = m + 1 /\ v[m + 1] = q /\ \A i \in 1 .. m : v[i] = ps[i]
  BY <1>5, <1>8 DEF PartAfter
<1>12. u = v
  <2>1. \A i \in 1 .. m + 1 : i \in 1 .. m \/ i = m + 1
    OBVIOUS
  <2>2. \A i \in 1 .. m + 1 : u[i] = v[i]
    BY <1>9, <1>10, <1>11, <2>1
  <2> QED BY <1>9, <1>11, <2>2, SeqEqual
<1> QED BY <1>1, <1>2, <1>3, <1>4, <1>11, <1>12
-----------------------------------------------------------------------------
\* The lines of the log hold the stages that were begun, and those of the stage
\* under way the steps of it.
LogInv ==
  /\ Holds(lines, current, parts) /\ steps \in Seq(PartSet(StepNames))
  /\ current = NoName => steps = <<>>
  /\ current # NoName => HoldsSteps(parts[Len(parts)].lines, steps)

LEMMA GrownIs ==
  ASSUME parts \in Seq(PartSet(StageNames)), parts # <<>>, NEW l \in LineSet
  PROVE  Grown(<<l>>) = WithLine(parts, l)
<1>1. PICK n \in DOMAIN parts : n = Len(parts)
  <2>1. Len(parts) \in 1 .. Len(parts)
    OBVIOUS
  <2> QED BY <2>1
<1>2. parts[n] \in PartSet(StageNames)
  OBVIOUS
<1>3. parts[n].lines \in Seq(LineSet)
  BY <1>2, PartFields
<1>4. parts[n].lines \o <<l>> = Append(parts[n].lines, l)
  BY <1>3, OneLine
<1> QED BY <1>1, <1>4 DEF Grown, WithLine

LEMMA LogInvInit ==
  LogInit => LogInv
<1> SUFFICES ASSUME LogInit PROVE LogInv
  OBVIOUS
<1>1. Holds(<<>>, NoName, <<>>)
  <2>1. PICK e : e = <<>>
    OBVIOUS
  <2>2. Reads(NoLog, e)
    <3>1. Names(e) = <<>> /\ DOMAIN e = {}
      BY <2>1 DEF Names
    <3> QED BY <3>1 DEF Reads, NoLog
  <2>3. e \in Seq(LineSet) /\ e \in Seq(PartSet(StageNames))
    BY <2>1
  <2> QED BY <2>1, <2>2, <2>3, NothingScanned DEF Holds
<1>2. Plain("started") \in LineSet /\ Plain("started").kind = "started"
  BY WrittenLines
<1>3. Holds(Append(<<>>, Plain("started")), NoName, <<>>)
  BY <1>1, <1>2, SkippedLine
<1>4. Append(<<>>, Plain("started")) = <<Plain("started")>>
  OBVIOUS
<1> QED BY <1>3, <1>4 DEF LogInit, LogInv

LEMMA StageBegun ==
  ASSUME LogInv, NEW s \in StageNames, BeginStage(s)
  PROVE  LogInv'
<1>1. PICK a \in LineSet, b \in LineSet, c \in LineSet, d \in LineSet :
        /\ a = Plain("end") /\ b = Plain("blank") /\ c = Line("stage", s) /\ d = Plain("start")
        /\ a.kind = "end" /\ b.kind = "blank" /\ c.kind = "stage" /\ c.name = s /\ d.kind = "start"
  BY WrittenLines
<1>2. Holds(lines, current, parts) /\ lines \in Seq(LineSet) /\ parts \in Seq(PartSet(StageNames)) /\ s # NoName
  BY NameAssumption DEF LogInv, Holds
<1>3. PICK ls, ps : /\ Holds(ls, current, ps)
                    /\ lines' = Append(Append(Append(ls, b), c), d)
                    /\ parts' = Append(ps, Part(s, <<c, d>>))
  <2>1. CASE current = NoName
    <3>1. lines' = lines \o (<<>> \o <<b>> \o <<c, d>>) /\ parts' = Append(parts, Part(s, <<c, d>>))
      BY <1>1, <2>1 DEF BeginStage, Write
    <3>2. lines' = Append(Append(Append(lines, b), c), d)
      BY <1>2, <3>1, ThreeLines
    <3> QED BY <1>2, <3>1, <3>2
  <2>2. CASE current # NoName
    <3>1. lines' = lines \o (<<a>> \o <<b>> \o <<c, d>>) /\ parts' = Append(Grown(<<a>>), Part(s, <<c, d>>))
      BY <1>1, <2>2 DEF BeginStage, Write
    <3>2. lines' = Append(Append(Append(Append(lines, a), b), c), d)
      BY <1>2, <3>1, FourLines
    <3>3. Grown(<<a>>) = WithLine(parts, a)
      BY <1>2, <2>2, GrownIs DEF Holds
    <3>4. Holds(Append(lines, a), current, WithLine(parts, a))
      BY <1>1, <1>2, <2>2, OwnLine
    <3> QED BY <3>1, <3>2, <3>3, <3>4
  <2> QED BY <2>1, <2>2
<1>4. Holds(Append(ls, b), current, ps)
  BY <1>1, <1>3, SkippedLine
<1>5. Holds(Append(Append(ls, b), c), s, Append(ps, Part(s, <<c>>)))
  BY <1>1, <1>4, StageLine
<1>6. Holds(lines', s, WithLine(Append(ps, Part(s, <<c>>)), d))
  BY <1>1, <1>2, <1>3, <1>5, OwnLine
<1>7. ps \in Seq(PartSet(StageNames))
  BY <1>3 DEF Holds
<1>8. Holds(lines', s, parts')
  <2>1. WithLine(Append(ps, Part(s, <<c>>)), d) = parts'
    BY <1>3, <1>7, PartOfTwo
  <2> QED BY <1>6, <2>1
<1>9. current' = s /\ steps' = <<>>
  BY DEF BeginStage
<1>10. HoldsSteps(<<>>, <<>>)
  <2>1. PICK e : e = <<>>
    OBVIOUS
  <2>2. Reads(NoSteps, e)
    <3>1. Names(e) = <<>> /\ DOMAIN e = {}
      BY <2>1 DEF Names
    <3> QED BY <3>1 DEF Reads, NoSteps
  <2>3. e \in Seq(LineSet) /\ e \in Seq(PartSet(StepNames))
    BY <2>1
  <2> QED BY <2>1, <2>2, <2>3, NothingScanned DEF HoldsSteps
<1>11. HoldsSteps(<<c, d>>, <<>>)
  <2>1. HoldsSteps(Append(<<>>, c), <<>>)
    BY <1>1, <1>10, SkippedStepLine
  <2>2. HoldsSteps(Append(Append(<<>>, c), d), <<>>)
    BY <1>1, <2>1, SkippedStepLine
  <2>3. Append(Append(<<>>, c), d) = <<c, d>>
    <3>1. Append(<<>>, c) = <<c>>
      OBVIOUS
    <3> QED BY <3>1, TupleOfTwo
  <2> QED BY <2>2, <2>3
<1>12. parts'[Len(parts')].lines = <<c, d>>
  <2>1. PICK p \in PartSet(StageNames) : p = Part(s, <<c, d>>) /\ p.lines = <<c, d>>
    <3>1. <<c, d>> \in Seq(LineSet)
      BY TupleOfTwo
    <3>2. Part(s, <<c, d>>) \in PartSet(StageNames)
      BY <3>1, PartFields
    <3> QED BY <3>2, PartIs
  <2>2. PartAfter(StageNames, ps, p, parts')
    BY <1>3, <1>7, <2>1, PartAdded
  <2> QED BY <2>1, <2>2 DEF PartAfter
<1>13. steps' \in Seq(PartSet(StepNames))
  BY <1>9
<1> QED BY <1>2, <1>8, <1>9, <1>11, <1>12, <1>13 DEF LogInv

\* What the three actions on the stage under way start from.
LEMMA UnderWay ==
  ASSUME LogInv, current # NoName
  PROVE  /\ lines \in Seq(LineSet) /\ parts \in Seq(PartSet(StageNames)) /\ parts # <<>>
         /\ Holds(lines, current, parts) /\ HoldsSteps(parts[Len(parts)].lines, steps)
         /\ \A l \in LineSet : /\ Grown(<<l>>) = WithLine(parts, l)
                               /\ WithLine(parts, l)[Len(WithLine(parts, l))].lines = Append(parts[Len(parts)].lines, l)
<1>1. /\ lines \in Seq(LineSet) /\ parts \in Seq(PartSet(StageNames)) /\ parts # <<>>
      /\ Holds(lines, current, parts) /\ HoldsSteps(parts[Len(parts)].lines, steps)
  BY DEF LogInv, Holds
<1>2. ASSUME NEW l \in LineSet
      PROVE  /\ Grown(<<l>>) = WithLine(parts, l)
             /\ WithLine(parts, l)[Len(WithLine(parts, l))].lines = Append(parts[Len(parts)].lines, l)
  <2>1. PICK t : t = WithLine(parts, l)
    OBVIOUS
  <2>2. LineAfter(StageNames, parts, l, t)
    BY <1>1, <2>1, LineAdded
  <2>3. t[Len(t)].lines = Append(parts[Len(parts)].lines, l)
    BY <2>2 DEF LineAfter
  <2> QED BY <1>1, <2>1, <2>3, GrownIs
<1> QED BY <1>1, <1>2

LEMMA StepBegun ==
  ASSUME LogInv, NEW n \in StepNames, BeginStep(n)
  PROVE  LogInv'
<1>1. PICK a \in LineSet : a = Line("step", n) /\ a.kind = "step" /\ a.name = n
  BY WrittenLines
<1>2. current # NoName /\ current' = current
  BY DEF BeginStep
<1>3. lines' = Append(lines, a) /\ parts' = WithLine(parts, a) /\ steps' = Append(steps, Part(n, <<>>))
  <2>1. lines' = lines \o <<a>> /\ parts' = Grown(<<a>>) /\ steps' = Append(steps, Part(n, <<>>))
    BY <1>1 DEF BeginStep, Write
  <2>2. lines \o <<a>> = Append(lines, a)
    BY <1>2, UnderWay, OneLine
  <2> QED BY <1>2, <2>1, <2>2, UnderWay
<1>4. Holds(lines', current', parts')
  BY <1>1, <1>2, <1>3, UnderWay, OwnLine
<1>5. HoldsSteps(Append(parts[Len(parts)].lines, a), Append(steps, Part(n, <<>>)))
  BY <1>1, <1>2, UnderWay, StepLine
<1>6. HoldsSteps(parts'[Len(parts')].lines, steps')
  BY <1>2, <1>3, <1>5, UnderWay
<1> QED BY <1>2, <1>4, <1>6 DEF LogInv, HoldsSteps

LEMMA TextWritten ==
  ASSUME LogInv, Text
  PROVE  LogInv'
<1>1. PICK a \in LineSet : a = Plain("text") /\ a.kind = "text"
  BY WrittenLines
<1>2. current # NoName /\ current' = current /\ steps # <<>>
  BY DEF Text, LogInv
<1>3. lines' = Append(lines, a) /\ parts' = WithLine(parts, a) /\ steps' = WithLine(steps, a)
  <2>1. lines' = lines \o <<a>> /\ parts' = Grown(<<a>>) /\ steps' = WithLine(steps, a)
    BY <1>1 DEF Text, Write, WithLine
  <2>2. lines \o <<a>> = Append(lines, a)
    BY <1>2, UnderWay, OneLine
  <2> QED BY <1>2, <2>1, <2>2, UnderWay
<1>4. Holds(lines', current', parts')
  BY <1>1, <1>2, <1>3, UnderWay, OwnLine
<1>5. HoldsSteps(Append(parts[Len(parts)].lines, a), WithLine(steps, a))
  BY <1>1, <1>2, UnderWay, TextLine
<1>6. HoldsSteps(parts'[Len(parts')].lines, steps')
  BY <1>2, <1>3, <1>5, UnderWay
<1> QED BY <1>2, <1>4, <1>6 DEF LogInv, HoldsSteps

LEMMA JobEnded ==
  ASSUME LogInv, EndJob
  PROVE  LogInv'
<1>1. PICK a \in LineSet, b \in LineSet, c \in LineSet, d \in LineSet :
        /\ a = Plain("end") /\ b = Plain("blank") /\ c = Plain("finished") /\ d = Plain("started")
        /\ a.kind = "end" /\ b.kind = "blank" /\ c.kind = "finished" /\ d.kind = "started"
  BY WrittenLines
<1>2. current # NoName /\ current' = NoName /\ steps' = <<>>
  BY DEF EndJob
<1>3. lines' = Append(Append(Append(Append(lines, a), b), c), d) /\ parts' = WithLine(parts, a)
  <2>1. lines' = lines \o <<a, b, c, d>> /\ parts' = Grown(<<a>>)
    BY <1>1 DEF EndJob, Write
  <2>2. lines \o <<a, b, c, d>> = Append(Append(Append(Append(lines, a), b), c), d)
    BY <1>2, UnderWay, FourLines
  <2> QED BY <1>2, <2>1, <2>2, UnderWay
<1>4. PICK ps : ps = parts' /\ Holds(Append(lines, a), current, ps)
  BY <1>1, <1>2, <1>3, UnderWay, OwnLine
<1>5. Holds(Append(Append(lines, a), b), current, ps)
  BY <1>1, <1>4, SkippedLine
<1>6. Holds(Append(Append(Append(lines, a), b), c), current, ps)
  BY <1>1, <1>5, SkippedLine
<1>7. Holds(lines', NoName, parts')
  BY <1>1, <1>3, <1>4, <1>6, SkippedLine
<1> QED BY <1>2, <1>7 DEF LogInv

LEMMA LogInvStep ==
  LogInv /\ [LogNext]_logVars => LogInv'
<1> SUFFICES ASSUME LogInv, [LogNext]_logVars PROVE LogInv'
  OBVIOUS
<1>1. CASE \E s \in StageNames : BeginStage(s)
  BY <1>1, StageBegun
<1>2. CASE \E n \in StepNames : BeginStep(n)
  BY <1>2, StepBegun
<1>3. CASE Text
  BY <1>3, TextWritten
<1>4. CASE EndJob
  BY <1>4, JobEnded
<1>5. CASE UNCHANGED logVars
  BY <1>5 DEF LogInv, logVars, Holds, HoldsSteps
<1> QED BY <1>1, <1>2, <1>3, <1>4, <1>5 DEF LogNext

-----------------------------------------------------------------------------
(* Looking a name up.                                                      *)

LEMMA LinesScanned ==
  ASSUME NEW ls \in Seq(LineSet)
  PROVE  Scanned(ls) \in Logs /\ ScannedSteps(ls) \in StepLogs
<1>1. PICK l : l = Plain("blank")
  OBVIOUS
<1>2. l \in LineSet
  BY <1>1, WrittenLines
<1> QED BY <1>2, ScanAppends, ScanStepAppends

\* Part p is the last of its name in ps.
IsLastOf(p, name, ps) == \E i \in DOMAIN ps : p = ps[i] /\ ps[i].name = name /\ Latest(i, ps)

LEMMA LastIsLast ==
  ASSUME NEW N, NEW ps \in Seq(PartSet(N)), NEW name, Named(ps, name)
  PROVE  IsLastOf(LastPart(ps, name), name, ps)
<1>1. PICK n \in Nat : n = Len(ps) /\ DOMAIN ps = 1 .. n
  OBVIOUS
<1>2. PICK S \in SUBSET (1 .. n) : S = {i \in 1 .. n : ps[i].name = name}
  OBVIOUS
<1>3. S # {}
  BY <1>1, <1>2 DEF Named
<1>4. PICK m \in S : \A y \in S : y <= m
  <2>1. Max(S) \in S /\ \A y \in S : y <= Max(S)
    BY <1>3, Greatest
  <2> QED BY <2>1
<1>5. ASSUME NEW k \in m + 1 .. n PROVE ps[k].name # name
  <2>1. m \in 1 .. n
    OBVIOUS
  <2>2. k \in 1 .. n /\ ~(k <= m)
    BY <2>1
  <2> QED BY <1>2, <1>4, <2>2
<1>6. m \in DOMAIN ps /\ ps[m].name = name /\ \A k \in (m + 1) .. Len(ps) : ps[k].name # name
  BY <1>1, <1>2, <1>5
<1>7. PICK j : j = CHOOSE i \in DOMAIN ps : ps[i].name = name /\ \A k \in (i + 1) .. Len(ps) : ps[k].name # name
  OBVIOUS
<1>8. j \in DOMAIN ps /\ ps[j].name = name /\ \A k \in (j + 1) .. Len(ps) : ps[k].name # name
  BY <1>6, <1>7, Zenon
<1> QED BY <1>7, <1>8 DEF LastPart, IsLastOf, Latest

LEMMA FirstIsNamed ==
  ASSUME NEW n \in Nat, NEW ps, DOMAIN ps = 1 .. n, NEW name, Named(ps, name)
  PROVE  \E i \in DOMAIN ps : First(ps, name) = ps[i] /\ ps[i].name = name
<1>1. PICK S \in SUBSET Nat : S = {i \in 1 .. n : ps[i].name = name}
  <2>1. {i \in 1 .. n : ps[i].name = name} \in SUBSET Nat
    OBVIOUS
  <2> QED BY <2>1
<1>2. S # {}
  BY <1>1 DEF Named
<1>3. PICK m \in S : \A k \in S : m <= k
  BY <1>2, LeastNat
<1>4. ASSUME NEW k \in 1 .. m - 1 PROVE ps[k].name # name
  <2>1. m \in 1 .. n
    BY <1>1
  <2>2. k \in 1 .. n /\ ~(m <= k)
    BY <2>1
  <2> QED BY <1>1, <1>3, <2>2
<1>5. m \in DOMAIN ps /\ ps[m].name = name /\ \A k \in 1 .. (m - 1) : ps[k].name # name
  BY <1>1, <1>4
<1>6. PICK j : j = CHOOSE i \in DOMAIN ps : ps[i].name = name /\ \A k \in 1 .. (i - 1) : ps[k].name # name
  OBVIOUS
<1>7. j \in DOMAIN ps /\ ps[j].name = name
  BY <1>5, <1>6, Zenon
<1> QED BY <1>6, <1>7 DEF First

\* What was scanned for a name is the last part of it.
LEMMA LastIsRead ==
  ASSUME NEW N, NEW ps \in Seq(PartSet(N)), NEW log, Reads(log, ps), NEW name, Named(ps, name)
  PROVE  LastPart(ps, name) = Part(name, log.map[name])
<1>1. PICK i \in DOMAIN ps : LastPart(ps, name) = ps[i] /\ ps[i].name = name /\ Latest(i, ps)
  BY LastIsLast DEF IsLastOf
<1>2. ps[i] \in PartSet(N)
  OBVIOUS
<1>3. log.map[name] = ps[i].lines
  BY <1>1 DEF Reads
<1>4. ps[i] = Part(ps[i].name, ps[i].lines)
  BY <1>2, PartFields
<1> QED BY <1>1, <1>3, <1>4

LEMMA StepsFound ==
  ASSUME LogInv
  PROVE  StepIsFound
<1> SUFFICES ASSUME current # NoName, NEW n \in StepNames,
                    NEW parsed, parsed = ParseStageSteps(LastPart(parts, current))
             PROVE  /\ Named(parsed, n) <=> Named(steps, n)
                    /\ Named(steps, n) => First(parsed, n) = LastPart(steps, n)
  BY DEF StepIsFound
<1>1. /\ parts \in Seq(PartSet(StageNames)) /\ parts # <<>> /\ parts[Len(parts)].name = current
      /\ HoldsSteps(parts[Len(parts)].lines, steps)
  BY DEF LogInv, Holds
<1>2. PICK m \in DOMAIN parts : m = Len(parts) /\ DOMAIN parts = 1 .. m /\ m \in Nat
  <2>1. Len(parts) \in 1 .. Len(parts) /\ DOMAIN parts = 1 .. Len(parts) /\ Len(parts) \in Nat
    BY <1>1
  <2> QED BY <2>1
<1>3. LastPart(parts, current) = parts[m]
  <2>1. Named(parts, current)
    BY <1>1, <1>2 DEF Named
  <2>2. PICK i \in DOMAIN parts : LastPart(parts, current) = parts[i] /\ parts[i].name = current /\ Latest(i, parts)
    BY <1>1, <2>1, LastIsLast DEF IsLastOf
  <2>3. i = m
    <3> SUFFICES ASSUME i # m PROVE FALSE
      OBVIOUS
    <3>1. m \in i + 1 .. Len(parts)
      BY <1>2
    <3> QED BY <1>1, <1>2, <2>2, <3>1 DEF Latest
  <2> QED BY <2>2, <2>3
<1>4. PICK log \in StepLogs : log = ScannedSteps(parts[m].lines)
  BY <1>1, <1>2, LinesScanned DEF HoldsSteps
<1>5. Reads(log, steps) /\ steps \in Seq(PartSet(StepNames))
  BY <1>1, <1>2, <1>4 DEF HoldsSteps
<1>6. parsed = [i \in DOMAIN log.names |-> Part(log.names[i], log.map[log.names[i]])]
  BY <1>3, <1>4 DEF ParseStageSteps
<1>7. PICK k \in Nat : DOMAIN steps = 1 .. k
  BY <1>5
<1>8. log.names = [i \in 1 .. k |-> steps[i].name]
  BY <1>5, <1>7 DEF Reads, Names
<1>9. DOMAIN parsed = 1 .. k /\ \A i \in 1 .. k : parsed[i] = Part(steps[i].name, log.map[steps[i].name])
  BY <1>6, <1>8
<1>10. \A i \in 1 .. k : parsed[i].name = steps[i].name
  BY <1>9, PartIs
<1>11. Named(parsed, n) <=> Named(steps, n)
  BY <1>7, <1>9, <1>10 DEF Named
<1>12. ASSUME Named(steps, n) PROVE First(parsed, n) = LastPart(steps, n)
  <2>1. PICK i \in DOMAIN parsed : First(parsed, n) = parsed[i] /\ parsed[i].name = n
    BY <1>9, <1>11, <1>12, FirstIsNamed
  <2>2. First(parsed, n) = Part(n, log.map[n])
    BY <1>9, <1>10, <2>1
  <2>3. LastPart(steps, n) = Part(n, log.map[n])
    BY <1>5, <1>12, LastIsRead
  <2> QED BY <2>2, <2>3
<1> QED BY <1>11, <1>12
-----------------------------------------------------------------------------
\* However the stages are ordered, each is there as often as it was begun, with
\* the lines scanned for it.
LEMMA NamesRange ==
  ASSUME NEW N, NEW names \in Seq(N)
  PROVE  /\ IsFiniteSet(ToSet(names)) /\ ToSet(names) \subseteq N
         /\ \A name : Times(name, names) \in Nat /\ (Times(name, names) # 0 <=> name \in ToSet(names))
<1>1. PICK n \in Nat : n = Len(names) /\ DOMAIN names = 1 .. n
  OBVIOUS
<1>2. IsFiniteSet(1 .. n)
  BY FS_Interval
<1>3. names \in Surjection(1 .. n, ToSet(names))
  BY <1>1 DEF Surjection, ToSet
<1>4. IsFiniteSet(ToSet(names))
  BY <1>2, <1>3, FS_Surjection
<1>5. ToSet(names) \subseteq N
  BY <1>1 DEF ToSet
<1>6. ASSUME NEW name
      PROVE  Times(name, names) \in Nat /\ (Times(name, names) # 0 <=> name \in ToSet(names))
  <2>1. PICK S \in SUBSET (1 .. n) : S = {i \in DOMAIN names : names[i] = name}
    BY <1>1
  <2>2. IsFiniteSet(S)
    BY <1>2, FS_Subset
  <2>3. Cardinality(S) \in Nat /\ (Cardinality(S) = 0 <=> S = {})
    BY <2>2, FS_CardinalityType, FS_EmptySet
  <2>4. S # {} <=> name \in ToSet(names)
    BY <2>1 DEF ToSet
  <2> QED BY <2>1, <2>3, <2>4 DEF Times
<1> QED BY <1>4, <1>5, <1>6

LEMMA OrderedHolds ==
  ASSUME NEW log \in Logs, NEW order \in SetToSeqs(ToSet(log.names))
  PROVE  /\ Ordered(order, log) \in Seq(PartSet(StageNames))
         /\ ToSet(Ordered(order, log)) = {Part(name, log.map[name]) : name \in ToSet(log.names)}
<1> DEFINE D == ToSet(log.names)
<1> DEFINE ss == [i \in DOMAIN order |-> Repeated(order[i], log.names, log.map)]
<1>1. IsFiniteSet(D) /\ D \subseteq StageNames
  BY NamesRange DEF Logs
<1>2. \A name : Times(name, log.names) \in Nat /\ (Times(name, log.names) # 0 <=> name \in D)
  BY NamesRange DEF Logs
<1>3. \A name \in D : Part(name, log.map[name]) \in PartSet(StageNames)
  <2>1. \A name \in D : name \in StageNames /\ log.map[name] \in Seq(LineSet)
    BY <1>1 DEF Logs
  <2> QED BY <2>1, PartFields
<1> HIDE DEF D
<1>4. PICK n \in Nat : n = Cardinality(D) /\ order \in [1 .. n -> D] /\ \A y \in D : \E i \in 1 .. n : order[i] = y
  <2>1. Cardinality(D) \in Nat
    BY <1>1, FS_CardinalityType
  <2>2. PICK n \in Nat : n = Cardinality(D)
    BY <2>1
  <2>3. order \in [1 .. n -> D] /\ \A i, j \in 1 .. n : i # j => order[i] # order[j]
    BY <2>2 DEF SetToSeqs, D
  <2>4. order \in Injection(1 .. n, D)
    BY <2>3 DEF Injection, IsInjective
  <2>5. Cardinality(1 .. n) = n
    BY FS_Interval
  <2>6. order \in Surjection(1 .. n, D)
    BY <1>1, <2>2, <2>4, <2>5, FS_Injection
  <2> QED BY <2>2, <2>3, <2>6 DEF Surjection
<1>5. ASSUME NEW name \in D
      PROVE  /\ Repeated(name, log.names, log.map) \in Seq(PartSet(StageNames))
             /\ ToSet(Repeated(name, log.names, log.map)) = {Part(name, log.map[name])}
  <2>1. PICK t \in Nat : t = Times(name, log.names) /\ t # 0
    BY <1>2
  <2>2. PICK p \in PartSet(StageNames) : p = Part(name, log.map[name])
    BY <1>3
  <2>3. Repeated(name, log.names, log.map) = [i \in 1 .. t |-> p]
    BY <2>1, <2>2 DEF Repeated
  <2>4. [i \in 1 .. t |-> p] \in Seq(PartSet(StageNames))
    OBVIOUS
  <2>5. ToSet([i \in 1 .. t |-> p]) = {p}
    <3>1. 1 \in 1 .. t
      BY <2>1
    <3> QED BY <3>1 DEF ToSet
  <2> QED BY <2>2, <2>3, <2>4, <2>5
<1>6. DOMAIN ss = 1 .. n /\ \A i \in 1 .. n : ss[i] = Repeated(order[i], log.names, log.map)
  BY <1>4
<1>7. \A i \in 1 .. n : ss[i] \in Seq(PartSet(StageNames)) /\ ToSet(ss[i]) = {Part(order[i], log.map[order[i]])}
  BY <1>4, <1>5, <1>6
<1>8. ss = [i \in 1 .. n |-> ss[i]]
  BY <1>6
<1>9. Ordered(order, log) = FlattenSeq(ss)
  BY DEF Ordered
<1> HIDE DEF ss
<1>10. ss \in Seq(Seq(PartSet(StageNames)))
  BY <1>7, <1>8
<1>11. FlattenSeq(ss) \in Seq(PartSet(StageNames)) /\ ToSet(FlattenSeq(ss)) = UNION {ToSet(ss[i]) : i \in 1 .. n}
  BY <1>6, <1>10, Flattened
<1>12. UNION {ToSet(ss[i]) : i \in 1 .. n} = {Part(name, log.map[name]) : name \in D}
  <2>1. ASSUME NEW i \in 1 .. n, NEW x \in ToSet(ss[i]) PROVE \E name \in D : x = Part(name, log.map[name])
    <3>1. x = Part(order[i], log.map[order[i]])
      BY <1>7, <2>1
    <3>2. order[i] \in D
      BY <1>4
    <3> QED BY <3>1, <3>2
  <2>2. ASSUME NEW name \in D PROVE \E i \in 1 .. n : Part(name, log.map[name]) \in ToSet(ss[i])
    <3>1. PICK i \in 1 .. n : order[i] = name
      BY <1>4
    <3>2. ToSet(ss[i]) = {Part(name, log.map[name])}
      BY <1>7, <3>1
    <3> QED BY <3>2
  <2> QED BY <2>1, <2>2
<1> QED BY <1>9, <1>11, <1>12 DEF D

LEMMA StagesFound ==
  ASSUME LogInv
  PROVE  StageIsFound
<1> SUFFICES ASSUME NEW parsed \in ParseLogLines(lines), NEW s \in StageNames
             PROVE  /\ Named(parsed, s) <=> Named(parts, s)
                    /\ Named(parts, s) => First(parsed, s) = LastPart(parts, s)
  BY DEF StageIsFound
<1>1. lines \in Seq(LineSet) /\ parts \in Seq(PartSet(StageNames)) /\ Reads(Scanned(lines), parts)
  BY DEF LogInv, Holds
<1>2. PICK log \in Logs : log = Scanned(lines)
  BY <1>1, LinesScanned
<1>3. PICK order \in SetToSeqs(ToSet(log.names)) : parsed = Ordered(order, log)
  BY <1>2 DEF ParseLogLines
<1>4. parsed \in Seq(PartSet(StageNames)) /\ ToSet(parsed) = {Part(name, log.map[name]) : name \in ToSet(log.names)}
  BY <1>3, OrderedHolds
<1>5. PICK n \in Nat : DOMAIN parsed = 1 .. n
  BY <1>4
<1>6. ToSet(log.names) = {parts[i].name : i \in DOMAIN parts}
  BY <1>1, <1>2 DEF Reads, Names, ToSet
<1>7. \A i \in DOMAIN parsed : \E name \in ToSet(log.names) : parsed[i] = Part(name, log.map[name]) /\ parsed[i].name = name
  <2>1. \A i \in DOMAIN parsed : \E name \in ToSet(log.names) : parsed[i] = Part(name, log.map[name])
    BY <1>4 DEF ToSet
  <2> QED BY <2>1, PartIs
<1>8. \A name \in ToSet(log.names) : \E i \in DOMAIN parsed : parsed[i].name = name
  <2>1. \A name \in ToSet(log.names) : \E i \in DOMAIN parsed : parsed[i] = Part(name, log.map[name])
    BY <1>4 DEF ToSet
  <2> QED BY <2>1, PartIs
<1>9. Named(parsed, s) <=> s \in ToSet(log.names)
  BY <1>7, <1>8 DEF Named
<1>10. Named(parts, s) <=> s \in ToSet(log.names)
  BY <1>6 DEF Named
<1>11. ASSUME Named(parts, s) PROVE First(parsed, s) = LastPart(parts, s)
  <2>1. PICK i \in DOMAIN parsed : First(parsed, s) = parsed[i] /\ parsed[i].name = s
    BY <1>5, <1>9, <1>10, <1>11, FirstIsNamed
  <2>2. First(parsed, s) = Part(s, log.map[s])
    BY <1>7, <2>1
  <2>3. LastPart(parts, s) = Part(s, log.map[s])
    BY <1>1, <1>2, <1>11, LastIsRead
  <2> QED BY <2>2, <2>3
<1> QED BY <1>9, <1>10, <1>11

\* Asked for a stage, or for a step of the stage under way, the log gives the
\* lines of its last execution, all of them and in the order written, although
\* the parser walks a map in any order and an older execution has the same
\* name (output.go:321-429): for all names, and a log of any length.
THEOREM LogReadBack == LogSpec => []LatestIsFound
<1>1. LogInit => LogInv
  BY LogInvInit
<1>2. LogInv /\ [LogNext]_logVars => LogInv'
  BY LogInvStep
<1>3. LogInv => LatestIsFound
  BY StagesFound, StepsFound DEF LatestIsFound
<1> QED BY <1>1, <1>2, <1>3, PTL DEF LogSpec

-----------------------------------------------------------------------------
(* Reading on.                                                             *)

LEMMA LastIsOne ==
  ASSUME NEW N, NEW ps \in Seq(PartSet(N)), NEW name, NEW p, IsLastOf(p, name, ps)
  PROVE  Named(ps, name) /\ LastPart(ps, name) = p
<1>1. PICK i \in DOMAIN ps : p = ps[i] /\ ps[i].name = name /\ Latest(i, ps)
  BY DEF IsLastOf
<1>2. Named(ps, name)
  BY <1>1 DEF Named
<1>3. PICK k \in DOMAIN ps : LastPart(ps, name) = ps[k] /\ ps[k].name = name /\ Latest(k, ps)
  BY <1>2, LastIsLast DEF IsLastOf
<1>4. PICK n \in Nat : n = Len(ps) /\ DOMAIN ps = 1 .. n
  OBVIOUS
<1>5. i = k
  <2>1. ~(i < k)
    <3> SUFFICES ASSUME i < k PROVE FALSE
      OBVIOUS
    <3>1. k \in i + 1 .. Len(ps)
      BY <1>4
    <3> QED BY <1>1, <1>3, <3>1 DEF Latest
  <2>2. ~(k < i)
    <3> SUFFICES ASSUME k < i PROVE FALSE
      OBVIOUS
    <3>1. i \in k + 1 .. Len(ps)
      BY <1>4
    <3> QED BY <1>1, <1>3, <3>1 DEF Latest
  <2> QED BY <1>4, <2>1, <2>2
<1> QED BY <1>1, <1>2, <1>3, <1>5

\* The last part of the name in qs is the one in ps, with lines added.
Grows(ps, qs, name) ==
  /\ Named(qs, name)
  /\ \E x \in Seq(LineSet) : LastPart(qs, name).lines = LastPart(ps, name).lines \o x

LEMMA OtherPartKeeps ==
  ASSUME NEW N, NEW ps \in Seq(PartSet(N)), NEW p \in PartSet(N), NEW name, Named(ps, name), p.name # name
  PROVE  Named(Append(ps, p), name) /\ LastPart(Append(ps, p), name) = LastPart(ps, name)
<1>1. PICK t : t = Append(ps, p)
  OBVIOUS
<1>2. PartAfter(N, ps, p, t)
  BY <1>1, PartAdded
<1>3. /\ t \in Seq(PartSet(N)) /\ Len(t) = Len(ps) + 1 /\ Len(ps) \in Nat /\ DOMAIN ps = 1 .. Len(ps)
      /\ DOMAIN t = 1 .. Len(ps) + 1
      /\ t[Len(ps) + 1] = p /\ \A i \in 1 .. Len(ps) : t[i] = ps[i]
  BY <1>2 DEF PartAfter
<1>4. PICK i \in DOMAIN ps : LastPart(ps, name) = ps[i] /\ ps[i].name = name /\ Latest(i, ps)
  BY LastIsLast DEF IsLastOf
<1>5. i \in DOMAIN t /\ t[i] = ps[i]
  BY <1>3
<1>6. ASSUME NEW k \in i + 1 .. Len(t) PROVE t[k].name # t[i].name
  <2>1. k = Len(ps) + 1 \/ (k \in i + 1 .. Len(ps) /\ k \in 1 .. Len(ps))
    <3>1. k \in Int /\ i \in Int /\ i >= 1 /\ k >= i + 1 /\ k <= Len(ps) + 1
      BY <1>3
    <3> QED BY <1>3, <3>1
  <2>2. CASE k = Len(ps) + 1
    BY <1>3, <1>4, <1>5, <2>2
  <2>3. CASE k \in i + 1 .. Len(ps) /\ k \in 1 .. Len(ps)
    BY <1>3, <1>4, <1>5, <2>3 DEF Latest
  <2> QED BY <2>1, <2>2, <2>3
<1>7. IsLastOf(ps[i], name, t)
  BY <1>4, <1>5, <1>6 DEF IsLastOf, Latest
<1> QED BY <1>1, <1>3, <1>4, <1>7, LastIsOne

LEMMA LineGrows ==
  ASSUME NEW N, NEW ps \in Seq(PartSet(N)), NEW l \in LineSet, NEW name, Named(ps, name)
  PROVE  Grows(ps, WithLine(ps, l), name)
<1>1. PICK t : t = WithLine(ps, l)
  OBVIOUS
<1>2. ps # <<>>
  BY DEF Named
<1>3. LineAfter(N, ps, l, t)
  BY <1>1, <1>2, LineAdded
<1>4. PICK n \in Nat : n = Len(ps)
  BY <1>3 DEF LineAfter
<1>5. /\ t \in Seq(PartSet(N)) /\ Len(t) = n /\ n > 0 /\ DOMAIN ps = 1 .. n /\ DOMAIN t = 1 .. n
      /\ ps[n].lines \in Seq(LineSet) /\ t[n].lines = Append(ps[n].lines, l) /\ t[n].name = ps[n].name
      /\ \A i \in 1 .. n - 1 : t[i] = ps[i]
  BY <1>3, <1>4 DEF LineAfter
<1>6. PICK i \in DOMAIN ps : LastPart(ps, name) = ps[i] /\ ps[i].name = name /\ Latest(i, ps)
  BY LastIsLast DEF IsLastOf
<1>7. \A k \in 1 .. n : t[k].name = ps[k].name
  <2>1. \A k \in 1 .. n : k = n \/ k \in 1 .. n - 1
    OBVIOUS
  <2> QED BY <1>5, <2>1
<1>8. Latest(i, t)
  <2>1. \A k \in i + 1 .. n : k \in 1 .. n
    BY <1>5
  <2> QED BY <1>4, <1>5, <1>6, <1>7, <2>1 DEF Latest
<1>9. IsLastOf(t[i], name, t)
  BY <1>5, <1>6, <1>7, <1>8 DEF IsLastOf
<1>10. Named(t, name) /\ LastPart(t, name) = t[i]
  BY <1>5, <1>9, LastIsOne
<1>11. \E x \in Seq(LineSet) : t[i].lines = ps[i].lines \o x
  <2>1. CASE i = n
    <3>1. <<l>> \in Seq(LineSet) /\ ps[n].lines \o <<l>> = Append(ps[n].lines, l)
      BY <1>5, OneLine
    <3> QED BY <1>5, <2>1, <3>1
  <2>2. CASE i # n
    <3>1. t[i] = ps[i]
      BY <1>5, <2>2
    <3>2. ps[i].lines \in Seq(LineSet)
      <4>1. ps[i] \in PartSet(N)
        OBVIOUS
      <4> QED BY <4>1, PartFields
    <3>3. <<>> \in Seq(LineSet) /\ ps[i].lines \o <<>> = ps[i].lines
      BY <3>2
    <3> QED BY <3>1, <3>3
  <2> QED BY <2>1, <2>2
<1> QED BY <1>1, <1>6, <1>10, <1>11 DEF Grows

LEMMA OnceMore ==
  ASSUME NEW N, NEW names \in Seq(N), NEW name \in N
  PROVE  Times(name, Append(names, name)) # Times(name, names)
<1>1. PICK n \in Nat : n = Len(names) /\ DOMAIN names = 1 .. n
  OBVIOUS
<1>2. PICK t \in Seq(N) : t = Append(names, name)
  BY OneLine
<1>3. Len(t) = n + 1 /\ DOMAIN t = 1 .. n + 1 /\ t[n + 1] = name /\ \A i \in 1 .. n : t[i] = names[i]
  BY <1>1, <1>2
<1>4. PICK S \in SUBSET (1 .. n) : S = {i \in DOMAIN names : names[i] = name}
  BY <1>1
<1>5. n + 1 \notin S
  BY <1>4
<1>6. {i \in DOMAIN t : t[i] = name} = S \union {n + 1}
  <2>1. 1 .. n + 1 = (1 .. n) \union {n + 1}
    OBVIOUS
  <2> QED BY <1>1, <1>3, <1>4, <2>1
<1>7. IsFiniteSet(S)
  <2>1. IsFiniteSet(1 .. n)
    BY FS_Interval
  <2> QED BY <2>1, FS_Subset
<1>8. Cardinality(S) \in Nat /\ Cardinality(S \union {n + 1}) = Cardinality(S) + 1
  BY <1>5, <1>7, FS_CardinalityType, FS_AddElement
<1>9. Times(name, t) = Cardinality(S \union {n + 1}) /\ Times(name, names) = Cardinality(S)
  BY <1>4, <1>6 DEF Times
<1> QED BY <1>2, <1>8, <1>9

LEMMA StageGrows ==
  ASSUME LogInv, LogNext, NEW s \in StageNames, Named(parts, s),
         Times(s, Names(parts)) = Times(s, Names(parts'))
  PROVE  Grows(parts, parts', s)
<1>1. parts \in Seq(PartSet(StageNames))
  BY DEF LogInv, Holds
<1>2. ASSUME NEW z \in StageNames, BeginStage(z) PROVE Grows(parts, parts', s)
  <2>1. PICK p : p = Part(z, <<Line("stage", z), Plain("start")>>) /\ p \in PartSet(StageNames) /\ p.name = z
    <3>1. <<Line("stage", z), Plain("start")>> \in Seq(LineSet)
      BY WrittenLines, TupleOfTwo
    <3>2. PICK h \in Seq(LineSet) : h = <<Line("stage", z), Plain("start")>>
      BY <3>1
    <3>3. Part(z, h) \in PartSet(StageNames) /\ Part(z, h).name = z
      BY PartFields, PartIs
    <3> QED BY <3>2, <3>3
  <2>2. PICK ps \in Seq(PartSet(StageNames)) :
          /\ parts' = Append(ps, p) /\ Names(ps) = Names(parts)
          /\ Named(ps, s) /\ \E x \in Seq(LineSet) : LastPart(ps, s).lines = LastPart(parts, s).lines \o x
    <3>1. CASE current = NoName
      <4>1. parts' = Append(parts, p)
        BY <1>2, <2>1, <3>1 DEF BeginStage
      <4>2. LastPart(parts, s).lines \in Seq(LineSet)
        <5>1. LastPart(parts, s) \in PartSet(StageNames)
          BY <1>1, LastIsLast DEF IsLastOf
        <5> QED BY <5>1, PartFields
      <4>3. <<>> \in Seq(LineSet) /\ LastPart(parts, s).lines \o <<>> = LastPart(parts, s).lines
        BY <4>2
      <4> QED BY <1>1, <4>1, <4>3
    <3>2. CASE current # NoName
      <4>1. PICK a \in LineSet : a = Plain("end")
        BY WrittenLines
      <4>2. parts # <<>> /\ Grown(<<a>>) = WithLine(parts, a)
        BY <3>2, UnderWay
      <4>3. parts' = Append(WithLine(parts, a), p)
        BY <1>2, <2>1, <3>2, <4>1, <4>2 DEF BeginStage
      <4>4. PICK t : t = WithLine(parts, a)
        OBVIOUS
      <4>5. LineAfter(StageNames, parts, a, t)
        BY <1>1, <4>2, <4>4, LineAdded
      <4>6. t \in Seq(PartSet(StageNames)) /\ Names(t) = Names(parts)
        BY <4>5 DEF LineAfter
      <4>7. Grows(parts, t, s)
        BY <1>1, <4>4, LineGrows
      <4> QED BY <4>3, <4>4, <4>6, <4>7 DEF Grows
    <3> QED BY <3>1, <3>2
  <2>3. z # s
    <3> SUFFICES ASSUME z = s PROVE FALSE
      OBVIOUS
    <3>1. PartAfter(StageNames, ps, p, parts')
      BY <2>1, <2>2, PartAdded
    <3>2. Names(parts') = Append(Names(parts), s)
      BY <2>1, <2>2, <3>1 DEF PartAfter
    <3>3. Names(parts) \in Seq(StageNames)
      <4>1. DOMAIN parts = 1 .. Len(parts) /\ Len(parts) \in Nat
        BY <1>1
      <4>2. \A i \in 1 .. Len(parts) : parts[i].name \in StageNames
        BY <1>1, <4>1, PartFields
      <4> QED BY <4>1, <4>2 DEF Names
    <3> QED BY <3>2, <3>3, OnceMore
  <2>4. Named(parts', s) /\ LastPart(parts', s) = LastPart(ps, s)
    BY <2>1, <2>2, <2>3, OtherPartKeeps
  <2> QED BY <2>2, <2>4 DEF Grows
<1>3. ASSUME current # NoName, NEW l \in LineSet, parts' = Grown(<<l>>) PROVE Grows(parts, parts', s)
  BY <1>1, <1>3, UnderWay, LineGrows
<1>4. ASSUME NEW n \in StepNames, BeginStep(n) PROVE Grows(parts, parts', s)
  BY <1>3, <1>4, WrittenLines DEF BeginStep
<1>5. ASSUME Text PROVE Grows(parts, parts', s)
  BY <1>3, <1>5, WrittenLines DEF Text, LogInv
<1>6. ASSUME EndJob PROVE Grows(parts, parts', s)
  BY <1>3, <1>6, WrittenLines DEF EndJob
<1> QED BY <1>2, <1>4, <1>5, <1>6 DEF LogNext

LEMMA TailIsRest ==
  ASSUME NEW X, NEW a \in Seq(X), NEW x \in Seq(X)
  PROVE  /\ SubSeq(a, 1, Len(a)) = a
         /\ Len(a) <= Len(a \o x)
         /\ SubSeq(a \o x, Len(a) + 1, Len(a \o x)) = x
<1>1. PICK n \in Nat, m \in Nat : n = Len(a) /\ m = Len(x)
  OBVIOUS
<1>2. PICK c : /\ c = a \o x /\ c \in Seq(X) /\ Len(c) = n + m
               /\ \A k \in 1 .. n + m : c[k] = IF k <= n THEN a[k] ELSE x[k - n]
  <2>1. PICK c : c = a \o x
    OBVIOUS
  <2>2. /\ c \in Seq(X) /\ Len(c) = Len(a) + Len(x)
        /\ \A k \in 1 .. Len(a) + Len(x) : c[k] = IF k <= Len(a) THEN a[k] ELSE x[k - Len(a)]
    BY <2>1, ConcatProperties
  <2> QED BY <1>1, <2>1, <2>2
<1>3. SubSeq(a, 1, n) = a
  <2>1. PICK d : d = SubSeq(a, 1, n)
    OBVIOUS
  <2>2. d \in Seq(X) /\ Len(d) = n /\ \A i \in 1 .. n : d[i] = a[i]
    BY <1>1, <2>1
  <2> QED BY <1>1, <2>1, <2>2, SeqEqual
<1>4. PICK d : d = SubSeq(c, n + 1, n + m)
  OBVIOUS
<1>5. d \in Seq(X) /\ Len(d) = m /\ \A i \in 1 .. m : d[i] = c[(n + 1) + i - 1]
  BY <1>2, <1>4
<1>6. ASSUME NEW i \in 1 .. m PROVE d[i] = x[i]
  <2>1. PICK k \in 1 .. n + m : k = (n + 1) + i - 1 /\ ~(k <= n) /\ k - n = i
    <3>1. (n + 1) + i - 1 \in 1 .. n + m /\ ~((n + 1) + i - 1 <= n) /\ ((n + 1) + i - 1) - n = i
      BY <1>2
    <3> QED BY <3>1
  <2> QED BY <1>2, <1>5, <2>1
<1>7. d = x
  <2>1. Len(d) = Len(x) /\ \A i \in 1 .. Len(d) : d[i] = x[i]
    BY <1>1, <1>5, <1>6
  <2> QED BY <1>5, <2>1, SeqEqual
<1>8. Len(a) <= Len(c) /\ SubSeq(c, Len(a) + 1, Len(c)) = x
  <2>1. SubSeq(c, Len(a) + 1, Len(c)) = d
    BY <1>1, <1>2, <1>4
  <2> QED BY <1>1, <1>2, <1>7, <2>1
<1>9. Len(a) <= Len(a \o x) /\ SubSeq(a \o x, Len(a) + 1, Len(a \o x)) = x
  BY <1>2, <1>8, Zenon
<1> QED BY <1>1, <1>3, <1>9

LEMMA StageContinues ==
  ASSUME LogInv, StageIsFound', LogNext, NEW s \in StageNames, Named(parts, s),
         Times(s, Names(parts)) = Times(s, Names(parts'))
  PROVE  Continues(s)
<1>1. Named(parts', s)
  BY StageGrows DEF Grows
<1>2. PICK a, x : /\ a = LastPart(parts, s).lines /\ x \in Seq(LineSet)
                  /\ LastPart(parts', s).lines = a \o x
  BY StageGrows DEF Grows
<1>3. a \in Seq(LineSet)
  <2>1. parts \in Seq(PartSet(StageNames))
    BY DEF LogInv, Holds
  <2>2. LastPart(parts, s) \in PartSet(StageNames)
    BY <2>1, LastIsLast DEF IsLastOf
  <2> QED BY <1>2, <2>2, PartFields
<1>4. PICK old : old = StageLog(LastPart(parts, s), 0)
  OBVIOUS
<1>5. old.content = a /\ old.lastLine = Len(a)
  <2>1. 0 <= Len(a) /\ 0 + 1 = 1
    BY <1>3
  <2>2. SubSeq(a, 1, Len(a)) = a
    BY <1>3, TailIsRest
  <2> QED BY <1>2, <1>4, <2>1, <2>2 DEF StageLog
<1>6. ASSUME NEW parsed \in ParseLogLines(lines')
      PROVE  old.content \o StageLog(First(parsed, s), old.lastLine).content = LastPart(parts', s).lines
  <2>1. First(parsed, s) = LastPart(parts', s)
    BY <1>1 DEF StageIsFound
  <2>2. PICK b : b = a \o x /\ First(parsed, s).lines = b
    BY <1>2, <2>1
  <2>3. Len(a) <= Len(b) /\ SubSeq(b, Len(a) + 1, Len(b)) = x
    <3>1. Len(a) <= Len(a \o x) /\ SubSeq(a \o x, Len(a) + 1, Len(a \o x)) = x
      BY <1>2, <1>3, TailIsRest
    <3> QED BY <2>2, <3>1
  <2>4. StageLog(First(parsed, s), Len(a)).content = x
    BY <2>2, <2>3 DEF StageLog
  <2> QED BY <1>2, <1>5, <2>4
<1> QED BY <1>4, <1>6 DEF Continues

\* A reader that asks again from the lastLine it was told misses no line of a
\* stage and sees none twice, whatever the job writes in between, until the
\* stage is begun anew (GetJobStageLog, job/job.go:322).
THEOREM LogReadOn == LogSpec => PollingIsComplete
<1>1. LogInit => LogInv
  BY LogInvInit
<1>2. LogInv /\ [LogNext]_logVars => LogInv'
  BY LogInvStep
<1>3. LogInv => StageIsFound
  BY StagesFound
<1>4. LogInv /\ StageIsFound' /\ [LogNext]_logVars =>
        [\A s \in StageNames :
           Named(parts, s) /\ Times(s, Names(parts)) = Times(s, Names(parts')) => Continues(s)]_logVars
  BY StageContinues
<1> QED BY <1>1, <1>2, <1>3, <1>4, PTL DEF LogSpec, PollingIsComplete

-----------------------------------------------------------------------------
(* The parsers.                                                            *)

MythRils == [details : Nat, ended : BOOLEAN]
NoMythRil == [details |-> 0, ended |-> FALSE]

LEMMA MythRilLineIs ==
  ASSUME NEW acc \in MythRils, NEW l, NEW next, next = MythRilLine(acc, l)
  PROVE  /\ acc.ended \/ l = "end" => next.ended /\ next.details = acc.details
         /\ ~(acc.ended \/ l = "end") => ~next.ended
         /\ ~(acc.ended \/ l = "end") /\ (l = "note" \/ (l = "place" /\ acc.details = 0)) =>
              next.details = acc.details + 1
         /\ ~(acc.ended \/ l = "end") /\ ~(l = "note" \/ (l = "place" /\ acc.details = 0)) =>
              next.details = acc.details
<1>1. CASE acc.ended \/ l = "end"
  BY <1>1 DEF MythRilLine, MythRils
<1>2. CASE ~(acc.ended \/ l = "end") /\ (l = "note" \/ (l = "place" /\ acc.details = 0))
  BY <1>2 DEF MythRilLine, MythRils
<1>3. CASE ~(acc.ended \/ l = "end") /\ ~(l = "note" \/ (l = "place" /\ acc.details = 0))
  BY <1>3 DEF MythRilLine, MythRils
<1> QED BY <1>1, <1>2, <1>3

LEMMA MythRilType ==
  ASSUME NEW acc \in MythRils, NEW l
  PROVE  MythRilLine(acc, l) \in MythRils
<1>1. acc.details \in Nat /\ acc = [details |-> acc.details, ended |-> acc.ended] /\ acc.details + 1 \in Nat
  BY DEF MythRils
<1>2. CASE acc.ended \/ l = "end"
  BY <1>1, <1>2 DEF MythRilLine, MythRils
<1>3. CASE ~(acc.ended \/ l = "end") /\ (l = "note" \/ (l = "place" /\ acc.details = 0))
  BY <1>1, <1>3 DEF MythRilLine, MythRils
<1>4. CASE ~(acc.ended \/ l = "end") /\ ~(l = "note" \/ (l = "place" /\ acc.details = 0))
  BY <1>1, <1>4 DEF MythRilLine, MythRils
<1> QED BY <1>2, <1>3, <1>4

LEMMA MythRilRuns ==
  ASSUME NEW ls, NEW n \in Nat, DOMAIN ls = 1 .. n
  PROVE  \E acc : /\ acc \in [0 .. n -> MythRils] /\ acc[0] = NoMythRil
                  /\ \A i \in 1 .. n : acc[i] = MythRilLine(acc[i - 1], ls[i])
                  /\ acc[n].details = MythRilDetails(ls)
<1>1. NoMythRil \in MythRils
  BY DEF MythRils, NoMythRil
<1>2. \A a \in MythRils : \A l : MythRilLine(a, l) \in MythRils
  BY MythRilType
<1>3. PICK T : T = [i \in 1 .. n |-> [a \in MythRils |-> MythRilLine(a, ls[i])]]
  OBVIOUS
<1>4. T \in [1 .. n -> [MythRils -> MythRils]] /\ \A i \in 1 .. n, a \in MythRils : T[i][a] = MythRilLine(a, ls[i])
  BY <1>2, <1>3
<1>5. PICK g : Iter(g, n, MythRils, NoMythRil, T)
  BY <1>1, <1>4, IterExists
<1>6. \A s \in SUBSET DOMAIN ls : s # {} => Max(s) \in 1 .. n /\ s \ {Max(s)} \in SUBSET (1 .. n)
  BY Greatest
<1>7. g = [s \in SUBSET DOMAIN ls |-> IF s = {} THEN NoMythRil ELSE MythRilLine(g[s \ {Max(s)}], ls[Max(s)])]
  <2>1. g \in [SUBSET (1 .. n) -> MythRils] /\ g[{}] = NoMythRil
    BY <1>5 DEF Iter
  <2>2. ASSUME NEW s \in SUBSET DOMAIN ls, s # {} PROVE g[s] = MythRilLine(g[s \ {Max(s)}], ls[Max(s)])
    <3>1. g[s] = T[Max(s)][g[s \ {Max(s)}]]
      BY <1>5, <2>2 DEF Iter
    <3>2. Max(s) \in 1 .. n /\ g[s \ {Max(s)}] \in MythRils
      BY <1>6, <2>1, <2>2
    <3> QED BY <1>4, <3>1, <3>2
  <2> QED BY <2>1, <2>2
<1>8. PICK h : h = CHOOSE f : f = [s \in SUBSET DOMAIN ls |-> IF s = {} THEN NoMythRil ELSE MythRilLine(f[s \ {Max(s)}], ls[Max(s)])]
  OBVIOUS
<1>9. MythRilDetails(ls) = h[DOMAIN ls].details
  BY <1>8 DEF MythRilDetails, FoldLeft, MapThenFoldSet, NoMythRil
<1>10. h = [s \in SUBSET DOMAIN ls |-> IF s = {} THEN NoMythRil ELSE MythRilLine(h[s \ {Max(s)}], ls[Max(s)])]
  BY <1>7, <1>8, Zenon
<1>11. h[{}] = NoMythRil
  BY <1>10
<1>12. ASSUME NEW s \in SUBSET (1 .. n), s # {}, h[s \ {Max(s)}] \in MythRils PROVE h[s] = T[Max(s)][h[s \ {Max(s)}]]
  <2>1. h[s] = MythRilLine(h[s \ {Max(s)}], ls[Max(s)])
    BY <1>10, <1>12
  <2>2. Max(s) \in 1 .. n
    BY <1>6, <1>12
  <2> QED BY <1>4, <1>12, <2>1, <2>2
<1>13. Follows(h, n, MythRils, NoMythRil, T)
  BY <1>11, <1>12 DEF Follows
<1>14. PICK acc : Run(acc, n, MythRils, NoMythRil, T) /\ acc[n] = h[1 .. n]
  BY <1>1, <1>4, <1>13, IterRuns
<1>15. acc \in [0 .. n -> MythRils] /\ acc[0] = NoMythRil /\ \A i \in 1 .. n : acc[i] = T[i][acc[i - 1]]
  BY <1>14 DEF Run
<1>16. ASSUME NEW i \in 1 .. n PROVE acc[i] = MythRilLine(acc[i - 1], ls[i])
  <2>1. i - 1 \in 0 .. n
    OBVIOUS
  <2>2. acc[i - 1] \in MythRils
    BY <1>15, <2>1
  <2> QED BY <1>4, <1>15, <2>2
<1> QED BY <1>9, <1>14, <1>15, <1>16

\* Nothing has ended the report up to line k; the notes up to there, and
\* whether a place came before all notes.
Open(ls, k) == \A j \in 1 .. k : ls[j] # "end"
Notes(ls, k) == {j \in 1 .. k : ls[j] = "note" /\ Open(ls, j)}
Leads(ls, k) == \E j \in 1 .. k : ls[j] = "place" /\ Open(ls, j) /\ \A i \in 1 .. j : ls[i] # "note"

LEMMA NotesAdd ==
  ASSUME NEW ls, NEW k \in Nat
  PROVE  /\ IsFiniteSet(Notes(ls, k)) /\ Cardinality(Notes(ls, k)) \in Nat
         /\ Open(ls, k + 1) <=> Open(ls, k) /\ ls[k + 1] # "end"
         /\ Open(ls, k + 1) /\ ls[k + 1] = "note" =>
              Cardinality(Notes(ls, k + 1)) = Cardinality(Notes(ls, k)) + 1
         /\ ~(Open(ls, k + 1) /\ ls[k + 1] = "note") => Notes(ls, k + 1) = Notes(ls, k)
         /\ Leads(ls, k + 1) <=> (Leads(ls, k) \/ (Open(ls, k + 1) /\ ls[k + 1] = "place" /\ Notes(ls, k) = {}))
         /\ Cardinality(Notes(ls, k)) = 0 <=> Notes(ls, k) = {}
<1>1. 1 .. k + 1 = (1 .. k) \union {k + 1} /\ k + 1 \notin 1 .. k
  OBVIOUS
<1>2. IsFiniteSet(1 .. k) /\ Notes(ls, k) \in SUBSET (1 .. k)
  BY FS_Interval DEF Notes
<1>3. IsFiniteSet(Notes(ls, k))
  BY <1>2, FS_Subset
<1>4. Cardinality(Notes(ls, k)) \in Nat /\ (Cardinality(Notes(ls, k)) = 0 <=> Notes(ls, k) = {})
  BY <1>3, FS_CardinalityType, FS_EmptySet
<1>5. Open(ls, k + 1) <=> Open(ls, k) /\ ls[k + 1] # "end"
  BY <1>1 DEF Open
<1>6. Notes(ls, k + 1) = Notes(ls, k) \union (IF Open(ls, k + 1) /\ ls[k + 1] = "note" THEN {k + 1} ELSE {})
  BY <1>1 DEF Notes
<1>7. Open(ls, k + 1) /\ ls[k + 1] = "note" => Cardinality(Notes(ls, k + 1)) = Cardinality(Notes(ls, k)) + 1
  <2> SUFFICES ASSUME Open(ls, k + 1), ls[k + 1] = "note"
               PROVE  Cardinality(Notes(ls, k + 1)) = Cardinality(Notes(ls, k)) + 1
    OBVIOUS
  <2>1. Notes(ls, k + 1) = Notes(ls, k) \union {k + 1} /\ k + 1 \notin Notes(ls, k)
    BY <1>1, <1>2, <1>6
  <2> QED BY <1>3, <2>1, FS_AddElement
<1>8. ASSUME Open(ls, k) PROVE Notes(ls, k) = {} <=> \A i \in 1 .. k : ls[i] # "note"
  <2>1. ASSUME NEW j \in 1 .. k PROVE Open(ls, j)
    <3>1. \A i \in 1 .. j : i \in 1 .. k
      OBVIOUS
    <3> QED BY <1>8, <3>1 DEF Open
  <2> QED BY <2>1 DEF Notes
<1>9. Leads(ls, k + 1) <=> (Leads(ls, k) \/ (Open(ls, k + 1) /\ ls[k + 1] = "place" /\ \A i \in 1 .. k + 1 : ls[i] # "note"))
  BY <1>1 DEF Leads
<1>10. Open(ls, k + 1) /\ ls[k + 1] = "place" => (Notes(ls, k) = {} <=> \A i \in 1 .. k + 1 : ls[i] # "note")
  BY <1>1, <1>5, <1>8
<1> QED BY <1>3, <1>4, <1>5, <1>6, <1>7, <1>9, <1>10

LEMMA MythRilReads ==
  ASSUME NEW ls, NEW n \in Nat, DOMAIN ls = 1 .. n
  PROVE  MythRilDetails(ls) = Cardinality(Notes(ls, n)) + (IF Leads(ls, n) THEN 1 ELSE 0)
<1>1. PICK acc : /\ acc \in [0 .. n -> MythRils] /\ acc[0] = NoMythRil
                 /\ \A i \in 1 .. n : acc[i] = MythRilLine(acc[i - 1], ls[i])
                 /\ acc[n].details = MythRilDetails(ls)
  BY MythRilRuns
<1> DEFINE Right(k) == /\ acc[k].ended <=> ~Open(ls, k)
                       /\ acc[k].details = Cardinality(Notes(ls, k)) + (IF Leads(ls, k) THEN 1 ELSE 0)
<1> DEFINE S == {k \in Nat : k <= n => Right(k)}
<1>2. 0 \in S
  <2>1. Notes(ls, 0) = {} /\ ~Leads(ls, 0) /\ Open(ls, 0)
    BY DEF Notes, Leads, Open
  <2>2. Cardinality(Notes(ls, 0)) = 0
    BY <2>1, FS_EmptySet
  <2>3. acc[0].details = 0 /\ acc[0].ended = FALSE
    BY <1>1 DEF NoMythRil
  <2> QED BY <2>1, <2>2, <2>3
<1>3. ASSUME NEW k \in S PROVE k + 1 \in S
  <2> SUFFICES ASSUME k + 1 <= n PROVE Right(k + 1)
    OBVIOUS
  <2>1. k \in Nat /\ Right(k) /\ k + 1 \in 1 .. n /\ k \in 0 .. n /\ (k + 1) - 1 = k
    OBVIOUS
  <2>2. PICK a \in MythRils : a = acc[k]
    BY <1>1, <2>1
  <2>3. PICK l : l = ls[k + 1]
    OBVIOUS
  <2>4. acc[k + 1] = MythRilLine(a, l)
    BY <1>1, <2>1, <2>2, <2>3
  <2>5. PICK c, d : c = Cardinality(Notes(ls, k)) /\ d = Cardinality(Notes(ls, k + 1))
    OBVIOUS
  <2>6. (a.ended <=> ~Open(ls, k)) /\ a.details = c + (IF Leads(ls, k) THEN 1 ELSE 0)
    BY <2>1, <2>2, <2>5
  <2>7. /\ c \in Nat
        /\ Open(ls, k + 1) <=> Open(ls, k) /\ l # "end"
        /\ Open(ls, k + 1) /\ l = "note" => d = c + 1
        /\ ~(Open(ls, k + 1) /\ l = "note") => d = c
        /\ Leads(ls, k + 1) <=> (Leads(ls, k) \/ (Open(ls, k + 1) /\ l = "place" /\ c = 0))
    BY <2>1, <2>3, <2>5, NotesAdd
  <2>8. /\ a.ended \/ l = "end" => acc[k + 1].ended /\ acc[k + 1].details = a.details
        /\ ~(a.ended \/ l = "end") => ~acc[k + 1].ended
        /\ ~(a.ended \/ l = "end") /\ (l = "note" \/ (l = "place" /\ a.details = 0)) =>
             acc[k + 1].details = a.details + 1
        /\ ~(a.ended \/ l = "end") /\ ~(l = "note" \/ (l = "place" /\ a.details = 0)) =>
             acc[k + 1].details = a.details
    BY <2>2, <2>4, MythRilLineIs
  <2>9. acc[k + 1].ended <=> ~Open(ls, k + 1)
    BY <2>4, <2>6, <2>7, <2>8
  <2>10. acc[k + 1].details = d + (IF Leads(ls, k + 1) THEN 1 ELSE 0)
    <3>1. CASE ~Open(ls, k + 1)
      BY <2>4, <2>6, <2>7, <2>8, <3>1
    <3>2. CASE Open(ls, k + 1) /\ l = "note"
      BY <2>4, <2>6, <2>7, <2>8, <3>2
    <3>3. CASE Open(ls, k + 1) /\ l = "place"
      BY <2>4, <2>6, <2>7, <2>8, <3>3
    <3>4. CASE Open(ls, k + 1) /\ l \notin {"note", "place"}
      BY <2>4, <2>6, <2>7, <2>8, <3>4
    <3> QED BY <3>1, <3>2, <3>3, <3>4
  <2> QED BY <2>5, <2>9, <2>10
<1>4. S = Nat
  <2>1. S \in SUBSET Nat
    OBVIOUS
  <2> HIDE DEF S
  <2>2. \A k \in S : k + 1 \in S
    BY <1>3
  <2> QED BY <1>2, <2>1, <2>2, Induction
<1>5. Right(n)
  <2>1. n \in S
    BY <1>4
  <2> QED BY <2>1
<1> QED BY <1>1, <1>5

\* Of a report of mythril, of any length, Post makes one detail of each note up
\* to the line that ends it, and one more if a place comes before all notes: a
\* place is never a finding of its own (action_mythril.go:189-235).
THEOREM MythRilCounts ==
  ASSUME NEW S, NEW ls \in Seq(S)
  PROVE  MythRilDetails(ls) = Cardinality(Notes(ls, Len(ls))) + (IF Leads(ls, Len(ls)) THEN 1 ELSE 0)
<1>1. Len(ls) \in Nat /\ DOMAIN ls = 1 .. Len(ls)
  OBVIOUS
<1> QED BY <1>1, MythRilReads

-----------------------------------------------------------------------------
MoveProvers == [details : Nat, error : BOOLEAN]
NoMoveProver == [details |-> 0, error |-> FALSE]

LEMMA MoveProverType ==
  ASSUME NEW acc \in MoveProvers, NEW l
  PROVE  MoveProverLine(acc, l) \in MoveProvers
<1>1. acc.details \in Nat /\ acc.details + 1 \in Nat
  BY DEF MoveProvers
<1>2. CASE acc.error
  BY <1>1, <1>2 DEF MoveProverLine, MoveProvers
<1>3. CASE ~acc.error
  BY <1>1, <1>3 DEF MoveProverLine, MoveProvers
<1> QED BY <1>2, <1>3

LEMMA MoveProverRuns ==
  ASSUME NEW ls, NEW n \in Nat, DOMAIN ls = 1 .. n
  PROVE  \E acc : /\ acc \in [0 .. n -> MoveProvers] /\ acc[0] = NoMoveProver
                  /\ \A i \in 1 .. n : acc[i] = MoveProverLine(acc[i - 1], ls[i])
                  /\ acc[n].details = MoveProverDetails(ls)
<1>1. NoMoveProver \in MoveProvers
  BY DEF MoveProvers, NoMoveProver
<1>2. \A a \in MoveProvers : \A l : MoveProverLine(a, l) \in MoveProvers
  BY MoveProverType
<1>3. PICK T : T = [i \in 1 .. n |-> [a \in MoveProvers |-> MoveProverLine(a, ls[i])]]
  OBVIOUS
<1>4. T \in [1 .. n -> [MoveProvers -> MoveProvers]] /\ \A i \in 1 .. n, a \in MoveProvers : T[i][a] = MoveProverLine(a, ls[i])
  BY <1>2, <1>3
<1>5. PICK g : Iter(g, n, MoveProvers, NoMoveProver, T)
  BY <1>1, <1>4, IterExists
<1>6. \A s \in SUBSET DOMAIN ls : s # {} => Max(s) \in 1 .. n /\ s \ {Max(s)} \in SUBSET (1 .. n)
  BY Greatest
<1>7. g = [s \in SUBSET DOMAIN ls |-> IF s = {} THEN NoMoveProver ELSE MoveProverLine(g[s \ {Max(s)}], ls[Max(s)])]
  <2>1. g \in [SUBSET (1 .. n) -> MoveProvers] /\ g[{}] = NoMoveProver
    BY <1>5 DEF Iter
  <2>2. ASSUME NEW s \in SUBSET DOMAIN ls, s # {} PROVE g[s] = MoveProverLine(g[s \ {Max(s)}], ls[Max(s)])
    <3>1. g[s] = T[Max(s)][g[s \ {Max(s)}]]
      BY <1>5, <2>2 DEF Iter
    <3>2. Max(s) \in 1 .. n /\ g[s \ {Max(s)}] \in MoveProvers
      BY <1>6, <2>1, <2>2
    <3> QED BY <1>4, <3>1, <3>2
  <2> QED BY <2>1, <2>2
<1>8. PICK h : h = CHOOSE f : f = [s \in SUBSET DOMAIN ls |-> IF s = {} THEN NoMoveProver ELSE MoveProverLine(f[s \ {Max(s)}], ls[Max(s)])]
  OBVIOUS
<1>9. MoveProverDetails(ls) = h[DOMAIN ls].details
  BY <1>8 DEF MoveProverDetails, FoldLeft, MapThenFoldSet, NoMoveProver
<1>10. h = [s \in SUBSET DOMAIN ls |-> IF s = {} THEN NoMoveProver ELSE MoveProverLine(h[s \ {Max(s)}], ls[Max(s)])]
  BY <1>7, <1>8, Zenon
<1>11. h[{}] = NoMoveProver
  BY <1>10
<1>12. ASSUME NEW s \in SUBSET (1 .. n), s # {}, h[s \ {Max(s)}] \in MoveProvers PROVE h[s] = T[Max(s)][h[s \ {Max(s)}]]
  <2>1. h[s] = MoveProverLine(h[s \ {Max(s)}], ls[Max(s)])
    BY <1>10, <1>12
  <2>2. Max(s) \in 1 .. n
    BY <1>6, <1>12
  <2> QED BY <1>4, <1>12, <2>1, <2>2
<1>13. Follows(h, n, MoveProvers, NoMoveProver, T)
  BY <1>11, <1>12 DEF Follows
<1>14. PICK acc : Run(acc, n, MoveProvers, NoMoveProver, T) /\ acc[n] = h[1 .. n]
  BY <1>1, <1>4, <1>13, IterRuns
<1>15. acc \in [0 .. n -> MoveProvers] /\ acc[0] = NoMoveProver /\ \A i \in 1 .. n : acc[i] = T[i][acc[i - 1]]
  BY <1>14 DEF Run
<1>16. ASSUME NEW i \in 1 .. n PROVE acc[i] = MoveProverLine(acc[i - 1], ls[i])
  <2>1. i - 1 \in 0 .. n
    OBVIOUS
  <2>2. acc[i - 1] \in MoveProvers
    BY <1>15, <2>1
  <2> QED BY <1>4, <1>15, <2>2
<1> QED BY <1>9, <1>14, <1>15, <1>16

\* The errors before line k that the line after them completes.
Placed(ls, k) == {j \in 1 .. k - 1 : ls[j] = "error" /\ ls[j + 1] # "short"}

LEMMA PlacedAdds ==
  ASSUME NEW ls, NEW k \in Nat
  PROVE  /\ Cardinality(Placed(ls, k)) \in Nat
         /\ k > 0 /\ ls[k] = "error" /\ ls[k + 1] # "short" =>
              Cardinality(Placed(ls, k + 1)) = Cardinality(Placed(ls, k)) + 1
         /\ ~(k > 0 /\ ls[k] = "error" /\ ls[k + 1] # "short") => Placed(ls, k + 1) = Placed(ls, k)
<1>1. IsFiniteSet(1 .. k) /\ Placed(ls, k) \in SUBSET (1 .. k) /\ k \notin Placed(ls, k)
  <2>1. \A j \in 1 .. k - 1 : j \in 1 .. k /\ j # k
    OBVIOUS
  <2> QED BY <2>1, FS_Interval DEF Placed
<1>2. IsFiniteSet(Placed(ls, k))
  BY <1>1, FS_Subset
<1>3. Cardinality(Placed(ls, k)) \in Nat
  BY <1>2, FS_CardinalityType
<1>4. Placed(ls, k + 1) = Placed(ls, k) \union (IF k > 0 /\ ls[k] = "error" /\ ls[k + 1] # "short" THEN {k} ELSE {})
  <2>1. 1 .. (k + 1) - 1 = (1 .. k - 1) \union (IF k > 0 THEN {k} ELSE {})
    OBVIOUS
  <2> QED BY <2>1 DEF Placed
<1> QED BY <1>1, <1>2, <1>3, <1>4, FS_AddElement

LEMMA MoveProverReads ==
  ASSUME NEW ls, NEW n \in Nat, DOMAIN ls = 1 .. n,
         \A k \in 1 .. n - 1 : ls[k] = "error" => ls[k + 1] # "error"
  PROVE  MoveProverDetails(ls) = Cardinality(Placed(ls, n))
<1>1. PICK acc : /\ acc \in [0 .. n -> MoveProvers] /\ acc[0] = NoMoveProver
                 /\ \A i \in 1 .. n : acc[i] = MoveProverLine(acc[i - 1], ls[i])
                 /\ acc[n].details = MoveProverDetails(ls)
  BY MoveProverRuns
<1> DEFINE Right(k) == /\ acc[k].error <=> k > 0 /\ ls[k] = "error"
                       /\ acc[k].details = Cardinality(Placed(ls, k))
<1> DEFINE S == {k \in Nat : k <= n => Right(k)}
<1>2. 0 \in S
  <2>1. Placed(ls, 0) = {}
    BY DEF Placed
  <2>2. Cardinality(Placed(ls, 0)) = 0
    BY <2>1, FS_EmptySet
  <2>3. acc[0].details = 0 /\ acc[0].error = FALSE
    BY <1>1 DEF NoMoveProver
  <2> QED BY <2>2, <2>3
<1>3. ASSUME NEW k \in S PROVE k + 1 \in S
  <2> SUFFICES ASSUME k + 1 <= n PROVE Right(k + 1)
    OBVIOUS
  <2>1. k \in Nat /\ Right(k) /\ k + 1 \in 1 .. n /\ k \in 0 .. n /\ (k + 1) - 1 = k /\ k + 1 > 0
    OBVIOUS
  <2>2. PICK a \in MoveProvers : a = acc[k]
    BY <1>1, <2>1
  <2>3. PICK l : l = ls[k + 1]
    OBVIOUS
  <2>4. acc[k + 1] = MoveProverLine(a, l)
    BY <1>1, <2>1, <2>2, <2>3
  <2>5. a.error => l # "error"
    <3>1. k > 0 => k \in 1 .. n - 1
      BY <2>1
    <3> QED BY <2>1, <2>2, <2>3, <3>1
  <2>6. acc[k + 1].error <=> l = "error"
    <3>1. CASE a.error
      BY <2>4, <2>5, <3>1 DEF MoveProverLine
    <3>2. CASE ~a.error
      BY <2>2, <2>4, <3>2 DEF MoveProverLine, MoveProvers
    <3> QED BY <3>1, <3>2
  <2>7. acc[k + 1].details = IF a.error /\ l # "short" THEN a.details + 1 ELSE a.details
    BY <2>2, <2>4 DEF MoveProverLine, MoveProvers
  <2>8. acc[k + 1].details = Cardinality(Placed(ls, k + 1))
    BY <2>1, <2>2, <2>3, <2>7, PlacedAdds
  <2> QED BY <2>1, <2>3, <2>6, <2>8
<1>4. S = Nat
  <2>1. S \in SUBSET Nat
    OBVIOUS
  <2> HIDE DEF S
  <2>2. \A k \in S : k + 1 \in S
    BY <1>3
  <2> QED BY <1>2, <2>1, <2>2, Induction
<1>5. Right(n)
  <2>1. n \in S
    BY <1>4
  <2> QED BY <2>1
<1> QED BY <1>1, <1>5

\* Of a report of the move prover, of any length, in which no error comes right
\* after an error, Post makes one detail of each error whose next line is there
\* and not cut short (action_move_prover.go:165-205).
THEOREM MoveProverCounts ==
  ASSUME NEW S, NEW ls \in Seq(S),
         \A k \in 1 .. Len(ls) - 1 : ls[k] = "error" => ls[k + 1] # "error"
  PROVE  MoveProverDetails(ls) = Cardinality(Placed(ls, Len(ls)))
<1>1. Len(ls) \in Nat /\ DOMAIN ls = 1 .. Len(ls)
  OBVIOUS
<1> QED BY <1>1, MoveProverReads

-----------------------------------------------------------------------------
(* Sums over sets.  F[b] units for each b of D, of which the sum counts all.*)

Units(D, F) == {u \in D \X (Nat \ {0}) : u[2] <= F[u[1]]}

LEMMA UnitsAdd ==
  ASSUME NEW D, NEW F, NEW b, IsFiniteSet(Units(D, F)), b \notin D, F[b] \in Nat
  PROVE  /\ IsFiniteSet(Units(D \union {b}, F))
         /\ Cardinality(Units(D \union {b}, F)) = Cardinality(Units(D, F)) + F[b]
<1>1. PICK n \in Nat : n = F[b]
  OBVIOUS
<1>2. PICK W : W = Units({b}, F)
  OBVIOUS
<1>3. IsFiniteSet(1 .. n) /\ Cardinality(1 .. n) = n
  BY FS_Interval
<1>4. IsFiniteSet(W) /\ Cardinality(W) = n
  <2>1. PICK f : f = [j \in 1 .. n |-> <<b, j>>]
    OBVIOUS
  <2>2. ASSUME NEW j \in 1 .. n PROVE f[j] \in W
    <3>1. f[j] = <<b, j>> /\ j \in Nat \ {0} /\ j <= F[b]
      BY <1>1, <2>1
    <3>2. <<b, j>> \in {b} \X (Nat \ {0})
      BY <3>1
    <3> QED BY <1>2, <3>1, <3>2 DEF Units
  <2>3. ASSUME NEW u \in W PROVE \E j \in 1 .. n : f[j] = u
    <3>1. u \in {b} \X (Nat \ {0}) /\ u[2] <= F[u[1]]
      BY <1>2 DEF Units
    <3>2. u = <<b, u[2]>> /\ u[1] = b /\ u[2] \in Nat \ {0}
      BY <3>1
    <3>3. u[2] \in 1 .. n
      BY <1>1, <3>1, <3>2
    <3> QED BY <2>1, <3>2, <3>3
  <2>4. ASSUME NEW j \in 1 .. n, NEW k \in 1 .. n, f[j] = f[k] PROVE j = k
    <3>1. <<b, j>> = <<b, k>>
      BY <2>1, <2>4
    <3> QED BY <3>1
  <2>5. f \in Surjection(1 .. n, W) /\ f \in Injection(1 .. n, W)
    <3>1. f \in [1 .. n -> W] /\ DOMAIN f = 1 .. n
      <4>1. f = [j \in 1 .. n |-> f[j]]
        BY <2>1
      <4> QED BY <2>2, <4>1
    <3> QED BY <2>3, <2>4, <3>1 DEF Surjection, Injection, IsInjective
  <2>6. IsFiniteSet(W) /\ (Cardinality(W) = Cardinality(1 .. n) <=> f \in Injection(1 .. n, W))
    BY <1>3, <2>5, FS_Surjection
  <2> QED BY <1>3, <2>5, <2>6
<1>5. Units(D \union {b}, F) = Units(D, F) \union W
  BY <1>2 DEF Units
<1>6. Units(D, F) \intersect W = {}
  BY <1>2 DEF Units
<1>7. /\ IsFiniteSet(Units(D, F) \union W)
      /\ Cardinality(Units(D, F) \union W) = Cardinality(Units(D, F)) + Cardinality(W)
  <2>1. PICK U : U = Units(D, F)
    OBVIOUS
  <2>2. IsFiniteSet(U \union W) /\ Cardinality(U \union W) = Cardinality(U) + Cardinality(W) - Cardinality(U \intersect W)
    BY <1>4, <2>1, FS_Union
  <2>3. Cardinality(U \intersect W) = 0
    BY <1>6, <2>1, FS_EmptySet
  <2>4. Cardinality(U) \in Nat /\ Cardinality(W) \in Nat
    BY <1>4, <2>1, FS_CardinalityType
  <2> QED BY <2>1, <2>2, <2>3, <2>4
<1> QED BY <1>1, <1>4, <1>5, <1>7

LEMMA NoUnits ==
  ASSUME NEW F
  PROVE  IsFiniteSet(Units({}, F)) /\ Cardinality(Units({}, F)) = 0
<1>1. Units({}, F) = {}
  BY DEF Units
<1> QED BY <1>1, FS_EmptySet

LEMMA UnitsFinite ==
  ASSUME NEW D, IsFiniteSet(D), NEW F \in [D -> Nat]
  PROVE  \A s \in SUBSET D : /\ IsFiniteSet(s) /\ IsFiniteSet(Units(s, F))
                             /\ Cardinality(s) \in Nat /\ Cardinality(Units(s, F)) \in Nat
<1> DEFINE S == {k \in Nat : \A s \in SUBSET D : Cardinality(s) = k => IsFiniteSet(Units(s, F))}
<1>1. \A s \in SUBSET D : IsFiniteSet(s) /\ Cardinality(s) \in Nat /\ (Cardinality(s) = 0 <=> s = {})
  BY FS_Subset, FS_CardinalityType, FS_EmptySet
<1>2. 0 \in S
  BY <1>1, NoUnits
<1>3. ASSUME NEW k \in S PROVE k + 1 \in S
  <2> SUFFICES ASSUME NEW s \in SUBSET D, Cardinality(s) = k + 1 PROVE IsFiniteSet(Units(s, F))
    OBVIOUS
  <2>1. k \in Nat /\ \A r \in SUBSET D : Cardinality(r) = k => IsFiniteSet(Units(r, F))
    OBVIOUS
  <2> HIDE DEF S
  <2>2. PICK x \in s : TRUE
    BY <1>1, <2>1
  <2>3. PICK r \in SUBSET D : r = s \ {x}
    OBVIOUS
  <2>4. Cardinality(r) = k
    <3>1. Cardinality(r) = Cardinality(s) - 1
      BY <1>1, <2>3, FS_RemoveElement
    <3> QED BY <2>1, <3>1
  <2>5. IsFiniteSet(Units(r, F)) /\ x \notin r /\ s = r \union {x} /\ F[x] \in Nat
    BY <2>1, <2>3, <2>4
  <2>6. IsFiniteSet(Units(r \union {x}, F))
    BY <2>5, UnitsAdd
  <2> QED BY <2>5, <2>6
<1>4. S = Nat
  <2>1. S \in SUBSET Nat
    OBVIOUS
  <2> HIDE DEF S
  <2>2. \A k \in S : k + 1 \in S
    BY <1>3
  <2> QED BY <1>2, <2>1, <2>2, Induction
<1>5. ASSUME NEW s \in SUBSET D PROVE IsFiniteSet(Units(s, F))
  BY <1>1, <1>4
<1> QED BY <1>1, <1>5, FS_CardinalityType

LEMMA UnitsRemove ==
  ASSUME NEW D, IsFiniteSet(D), NEW F \in [D -> Nat], NEW s \in SUBSET D, NEW x \in s
  PROVE  Cardinality(Units(s, F)) = Cardinality(Units(s \ {x}, F)) + F[x]
<1>1. PICK r \in SUBSET D : r = s \ {x}
  OBVIOUS
<1>2. x \notin r /\ s = r \union {x} /\ F[x] \in Nat
  BY <1>1
<1>3. IsFiniteSet(Units(r, F))
  BY UnitsFinite
<1>4. Cardinality(Units(r \union {x}, F)) = Cardinality(Units(r, F)) + F[x]
  BY <1>2, <1>3, UnitsAdd
<1> QED BY <1>1, <1>2, <1>4

\* Whatever the order in which the elements are taken.
LEMMA SumIsUnits ==
  ASSUME NEW D, IsFiniteSet(D), NEW F \in [D -> Nat],
         NEW h, h[{}] = 0,
         \A s \in SUBSET D : s # {} => \E x \in s : h[s] = h[s \ {x}] + F[x]
  PROVE  h[D] = Cardinality(Units(D, F))
<1> DEFINE S == {k \in Nat : \A s \in SUBSET D : Cardinality(s) = k => h[s] = Cardinality(Units(s, F))}
<1>1. \A s \in SUBSET D : IsFiniteSet(s) /\ Cardinality(s) \in Nat /\ (Cardinality(s) = 0 <=> s = {})
  BY FS_Subset, FS_CardinalityType, FS_EmptySet
<1>2. 0 \in S
  BY <1>1, NoUnits
<1>3. ASSUME NEW k \in S PROVE k + 1 \in S
  <2> SUFFICES ASSUME NEW s \in SUBSET D, Cardinality(s) = k + 1 PROVE h[s] = Cardinality(Units(s, F))
    OBVIOUS
  <2>1. k \in Nat /\ \A r \in SUBSET D : Cardinality(r) = k => h[r] = Cardinality(Units(r, F))
    OBVIOUS
  <2> HIDE DEF S
  <2>2. s # {}
    BY <1>1, <2>1
  <2>3. PICK x \in s : h[s] = h[s \ {x}] + F[x]
    BY <2>2
  <2>4. PICK r \in SUBSET D : r = s \ {x}
    OBVIOUS
  <2>5. Cardinality(r) = k
    <3>1. Cardinality(r) = Cardinality(s) - 1
      BY <1>1, <2>4, FS_RemoveElement
    <3> QED BY <2>1, <3>1
  <2>6. h[r] = Cardinality(Units(r, F))
    BY <2>1, <2>5
  <2>7. Cardinality(Units(s, F)) = Cardinality(Units(s \ {x}, F)) + F[x]
    BY UnitsRemove
  <2> QED BY <2>3, <2>4, <2>6, <2>7
<1>4. S = Nat
  <2>1. S \in SUBSET Nat
    OBVIOUS
  <2> HIDE DEF S
  <2>2. \A k \in S : k + 1 \in S
    BY <1>3
  <2> QED BY <1>2, <2>1, <2>2, Induction
<1>5. Cardinality(D) \in S
  <2> HIDE DEF S
  <2> QED BY <1>1, <1>4
<1> QED BY <1>5

\* Issues of the files d, of tool t.
IssuesIn(t, d) == [b \in DOMAIN d |-> Issues(t, d[b])]

LEMMA OwnIsUnits ==
  ASSUME IsFiniteSet(DOMAIN dirs[Tool]), \A b \in DOMAIN dirs[Tool] : Issues(Tool, dirs[Tool][b]) \in Nat
  PROVE  Own = Cardinality(Units(DOMAIN dirs[Tool], IssuesIn(Tool, dirs[Tool])))
<1>1. PICK D, F : D = DOMAIN dirs[Tool] /\ F = IssuesIn(Tool, dirs[Tool])
  OBVIOUS
<1>2. F \in [D -> Nat] /\ \A b \in D : F[b] = Issues(Tool, dirs[Tool][b])
  BY <1>1 DEF IssuesIn
<1> DEFINE some(s) == CHOOSE x \in s : TRUE
<1>3. \A s \in SUBSET D : s # {} => some(s) \in s
  OBVIOUS
<1> HIDE DEF some
<1>4. PICK g : g = [s \in SUBSET D |-> Cardinality(Units(s, F))]
  OBVIOUS
<1>5. g = [s \in SUBSET D |-> IF s = {} THEN 0 ELSE g[s \ {some(s)}] + Issues(Tool, dirs[Tool][some(s)])]
  <2>1. g[{}] = 0
    BY <1>4, NoUnits
  <2>2. ASSUME NEW s \in SUBSET D, s # {} PROVE g[s] = g[s \ {some(s)}] + Issues(Tool, dirs[Tool][some(s)])
    <3>1. PICK x \in s : x = some(s)
      BY <1>3, <2>2
    <3>2. g[s] = g[s \ {x}] + F[x]
      BY <1>1, <1>2, <1>4, UnitsRemove
    <3> QED BY <1>2, <3>1, <3>2
  <2> QED BY <1>4, <2>1, <2>2
<1>6. PICK h : h = CHOOSE f : f = [s \in SUBSET D |-> IF s = {} THEN 0 ELSE f[s \ {some(s)}] + Issues(Tool, dirs[Tool][some(s)])]
  OBVIOUS
<1>7. h = [s \in SUBSET D |-> IF s = {} THEN 0 ELSE h[s \ {some(s)}] + Issues(Tool, dirs[Tool][some(s)])]
  BY <1>5, <1>6, Zenon
<1>8. Own = h[D]
  BY <1>1, <1>6 DEF Own, FoldSet, MapThenFoldSet, some
<1>9. h[{}] = 0
  BY <1>7
<1>10. ASSUME NEW s \in SUBSET D, s # {} PROVE \E x \in s : h[s] = h[s \ {x}] + F[x]
  <2>1. PICK x \in s : x = some(s)
    BY <1>3, <1>10
  <2>2. h[s] = h[s \ {x}] + F[x]
    BY <1>2, <1>7, <1>10, <2>1
  <2> QED BY <2>2
<1>11. h[D] = Cardinality(Units(D, F))
  BY <1>1, <1>2, <1>9, <1>10, SumIsUnits
<1> QED BY <1>1, <1>8, <1>11

-----------------------------------------------------------------------------
(* The steps.                                                              *)

Phases == {"pre", "hook", "post", "aggregate", "done", "failed", "crashed"}

\* What a tool printed for a source, once for each part of the report.
Copies(t) == IF t = "eth-gas-reporter" THEN 4 ELSE 1

\* The parsers count the prints right: of a print that does not make the Post
\* of its tool panic, a parser counts the findings meant by it.
PrintsAreCounted ==
  \A t \in Tools \ {"slither", "sol_profiler"} : \A p \in Printed[t] :
    ~Panics(t, p.lines) => Issues(t, p.lines) = p.finds * Copies(t)

CheckTypes ==
  /\ plan \in Plans /\ bases \in Sources /\ left \subseteq Tools \intersect {"mythril"}
  /\ step \in 1 .. Len(plan) /\ phase \in Phases /\ nextFile \in Nat \ {0}
  /\ DOMAIN dirs = Tools /\ \A t \in Tools : IsFiniteSet(DOMAIN dirs[t])
  /\ meant \in [Tools -> Nat] /\ DOMAIN results \subseteq Tools
  /\ \A t \in DOMAIN results : results[t].by \in Nat

\* A step that has been reached: none after i is with t.
LastSoFar(i, t) == \A k \in i + 1 .. step : plan[k] # t
Posted(i) == i < step \/ (i = step /\ phase \in {"aggregate", "done"})

\* The files d are prints of t; all are, but those an earlier job left.
Prints(t, d) == \A b \in DOMAIN d : \E p \in Printed[t] : d[b] = p.lines

FilesInv ==
  \A t \in Tools :
    /\ t \notin left => Prints(t, dirs[t])
    /\ t \notin PerFile => DOMAIN dirs[t] \subseteq {t}

\* Whose directory and results come from the step under way only.
Clean(t) == t \notin {"slither", "sol_profiler"} /\ (t \in PerFile => t \notin left \union DOMAIN results)

\* What the last step with a tool wrote; a tool not reached has no files.
ResultsInv ==
  /\ phase \in {"pre", "hook", "post"} => \A t \in DOMAIN results : results[t].by < step
  /\ phase \in {"aggregate", "done"} => step = Len(plan)
  /\ \A i \in 1 .. Len(plan) : \A t \in Tools \ {"slither"} :
       Posted(i) /\ plan[i] = t /\ LastSoFar(i, t) /\ (\A b \in DOMAIN dirs[t] : Writes(t, dirs[t][b])) =>
         t \in DOMAIN results /\ results[t].by = i
  /\ \A t \in PerFile \intersect Tools :
       Clean(t) /\ (t = Tool => phase = "pre") => DOMAIN dirs[t] = {}
  /\ aggregate = IF phase = "done" THEN results ELSE <<>>

ErrorFree(t, d) == \A b \in DOMAIN d : ~Panics(t, d[b])
Sum(t, d) == Cardinality(Units(DOMAIN d, IssuesIn(t, d)))

\* While a tool runs, its files are those of the sources done and hold what
\* was meant.
CountInv ==
  IsInjective(bases) /\ phase \in {"hook", "post"} /\ Clean(Tool) =>
    /\ phase = "post" => nextFile > Len(Files)
    /\ Tool \in PerFile => DOMAIN dirs[Tool] = {bases[k] : k \in 1 .. nextFile - 1}
    /\ nextFile = 1 => meant[Tool] = 0
    /\ (Tool \in PerFile \/ nextFile # 1) /\ ErrorFree(Tool, dirs[Tool]) =>
         meant[Tool] * Copies(Tool) = Sum(Tool, dirs[Tool])

\* A result that has the last word holds what was meant.
TotalsInv ==
  \A t \in DOMAIN results \ {"sol_profiler"} :
    IsInjective(bases) /\ ~results[t].mixed /\ results[t].by \in 1 .. Len(plan) /\ LastSoFar(results[t].by, t) =>
      /\ results[t].total = meant[t] * Copies(t)
      /\ t # "eslint" => (results[t].success <=> meant[t] = 0)

CheckInv == CheckTypes /\ FilesInv /\ ResultsInv /\ (PrintsAreCounted => CountInv /\ TotalsInv)

LEMMA PlanIs ==
  ASSUME CheckTypes
  PROVE  /\ plan \in Seq(Tools) /\ Len(plan) \in Nat /\ step \in Nat /\ step >= 1 /\ step <= Len(plan)
         /\ Tool \in Tools /\ nextFile \in Nat /\ nextFile # 0
         /\ Len(bases) \in Nat /\ DOMAIN bases = 1 .. Len(bases)
<1>1. plan \in Seq(Tools)
  BY PlansAssumption DEF CheckTypes, Tools
<1>2. bases \in Seq(ToSet(bases))
  BY SourcesAssumption DEF CheckTypes
<1> QED BY <1>1, <1>2 DEF CheckTypes, Tool

\* One file more.
LEMMA SumAdds ==
  ASSUME PrintsAreCounted, NEW t \in Tools \ {"slither", "sol_profiler"},
         NEW d, IsFiniteSet(DOMAIN d), Prints(t, d),
         NEW b, b \notin DOMAIN d, NEW p \in Printed[t],
         NEW e, e = Put(d, b, p.lines), ErrorFree(t, e)
  PROVE  ErrorFree(t, d) /\ Sum(t, d) \in Nat /\ Sum(t, e) = Sum(t, d) + p.finds * Copies(t)
<1>1. PICK D : D = DOMAIN d
  OBVIOUS
<1>2. DOMAIN e = D \union {b} /\ e[b] = p.lines /\ \A x \in D : e[x] = d[x]
  BY <1>1 DEF Put
<1>3. ErrorFree(t, d) /\ ~Panics(t, p.lines)
  BY <1>1, <1>2 DEF ErrorFree
<1>4. \A q \in Printed[t] : ~Panics(t, q.lines) => Issues(t, q.lines) = q.finds * Copies(t) /\ q.finds * Copies(t) \in Nat
  <2>1. \A q \in Printed[t] : q.finds \in Nat
    BY PrintedAssumption DEF Tools
  <2> QED BY <2>1 DEF PrintsAreCounted, Copies
<1>5. \A x \in D : Issues(t, d[x]) \in Nat
  BY <1>1, <1>3, <1>4 DEF ErrorFree, Prints
<1>6. PICK F, G : F = IssuesIn(t, d) /\ G = IssuesIn(t, e)
  OBVIOUS
<1>7. F \in [D -> Nat] /\ G[b] = p.finds * Copies(t) /\ G[b] \in Nat /\ \A x \in D : G[x] = F[x]
  <2>1. G[b] = Issues(t, p.lines) /\ \A x \in D : G[x] = F[x]
    BY <1>1, <1>2, <1>6 DEF IssuesIn
  <2>2. F \in [D -> Nat]
    BY <1>1, <1>5, <1>6 DEF IssuesIn
  <2> QED BY <1>3, <1>4, <2>1, <2>2
<1>8. IsFiniteSet(Units(D, F)) /\ Cardinality(Units(D, F)) \in Nat
  BY <1>1, <1>7, UnitsFinite
<1>9. Units(D, G) = Units(D, F)
  BY <1>7 DEF Units
<1>10. Cardinality(Units(D \union {b}, G)) = Cardinality(Units(D, G)) + G[b]
  BY <1>1, <1>7, <1>8, <1>9, UnitsAdd
<1> QED BY <1>1, <1>2, <1>3, <1>6, <1>7, <1>8, <1>9, <1>10 DEF Sum

LEMMA NothingCounted ==
  ASSUME NEW t, NEW d, DOMAIN d = {}
  PROVE  Sum(t, d) = 0
BY NoUnits DEF Sum

\* What Post adds up.
LEMMA OwnIsSum ==
  ASSUME PrintsAreCounted, CheckTypes, FilesInv, Clean(Tool), ErrorFree(Tool, dirs[Tool])
  PROVE  Own = Sum(Tool, dirs[Tool])
<1>1. Tool \in Tools \ {"slither", "sol_profiler"} /\ Tool \notin left
  BY PlanIs DEF Clean, CheckTypes, PerFile
<1>2. \A p \in Printed[Tool] : p.finds \in Nat
  BY <1>1, PrintedAssumption DEF Tools
<1>3. \A b \in DOMAIN dirs[Tool] : Issues(Tool, dirs[Tool][b]) \in Nat
  BY <1>1, <1>2 DEF FilesInv, Prints, ErrorFree, PrintsAreCounted, Copies
<1> QED BY <1>1, <1>3, OwnIsUnits DEF Sum, CheckTypes

LEMMA CheckInvInit ==
  CheckInit => CheckInv
<1> SUFFICES ASSUME CheckInit PROVE CheckInv
  OBVIOUS
<1>1. plan \in Seq(Tools) /\ plan # <<>>
  BY PlansAssumption DEF CheckInit, Tools
<1>2. Len(plan) \in Nat /\ 1 \in 1 .. Len(plan)
  BY <1>1
<1>3. \A t \in Tools : DOMAIN dirs[t] = IF t \in left THEN {"old"} ELSE {}
  BY DEF CheckInit, Put
<1>4. CheckTypes
  <2>1. \A t \in Tools : IsFiniteSet(DOMAIN dirs[t])
    BY <1>3, FS_EmptySet, FS_Singleton
  <2>2. /\ left \subseteq Tools \intersect {"mythril"} /\ DOMAIN results \subseteq Tools
        /\ \A t \in DOMAIN results : results[t].by \in Nat
    BY DEF CheckInit, Result
  <2>3. DOMAIN dirs = Tools /\ meant \in [Tools -> Nat]
    BY DEF CheckInit
  <2>4. plan \in Plans /\ bases \in Sources /\ step = 1 /\ phase = "pre" /\ nextFile = 1
    BY DEF CheckInit
  <2>5. step \in 1 .. Len(plan) /\ phase \in Phases /\ nextFile \in Nat \ {0}
    BY <1>2, <2>4 DEF Phases
  <2> QED BY <2>1, <2>2, <2>3, <2>4, <2>5 DEF CheckTypes
<1>5. FilesInv
  BY <1>3 DEF CheckInit, FilesInv, Prints, PerFile
<1>6. ResultsInv
  <2>1. \A t \in DOMAIN results : results[t].by = 0
    BY DEF CheckInit, Result
  <2>2. \A t \in Tools : Clean(t) /\ t \in PerFile => DOMAIN dirs[t] = {}
    BY <1>3 DEF Clean
  <2>3. step = 1 /\ phase = "pre" /\ aggregate = <<>>
    BY DEF CheckInit
  <2>4. \A i \in 1 .. Len(plan) : ~Posted(i)
    BY <1>2, <2>3 DEF Posted
  <2>5. \A t \in DOMAIN results : results[t].by < step
    BY <2>1, <2>3
  <2> QED BY <2>2, <2>3, <2>4, <2>5 DEF ResultsInv
<1>7. CountInv
  BY DEF CheckInit, CountInv
<1>8. TotalsInv
  BY DEF CheckInit, TotalsInv, Result
<1> QED BY <1>4, <1>5, <1>6, <1>7, <1>8 DEF CheckInv

\* The result of an earlier step with the tool under way is not the last word.
LEMMA NotTheLast ==
  ASSUME CheckTypes, ResultsInv, phase \in {"pre", "hook", "post"}, NEW i \in 1 .. Len(plan), i < step
  PROVE  ~LastSoFar(i, Tool)
<1>1. step \in i + 1 .. step
  BY PlanIs
<1> QED BY <1>1 DEF LastSoFar, Tool

LEMMA PreKeeps ==
  ASSUME CheckInv, PreCheck
  PROVE  CheckInv'
<1> USE DEF CheckInv
<1>1. /\ phase = "pre" /\ phase' \in {"hook", "failed"} /\ nextFile' = 1
      /\ meant' = [meant EXCEPT ![Tool] = 0]
      /\ UNCHANGED <<plan, bases, left, step, dirs, results, aggregate>> /\ Tool' = Tool
  BY DEF PreCheck, Tool
<1>2. Tool \in Tools /\ step \in Nat
  BY PlanIs
<1>3. CheckTypes'
  BY <1>1, <1>2 DEF CheckTypes, Phases
<1>4. FilesInv'
  BY <1>1 DEF FilesInv
<1>5. ResultsInv'
  <2>1. \A i : Posted(i)' => Posted(i)
    BY <1>1 DEF Posted
  <2>2. \A i, t : LastSoFar(i, t)' = LastSoFar(i, t)
    BY <1>1 DEF LastSoFar
  <2>3. \A t : Clean(t)' = Clean(t)
    BY <1>1 DEF Clean
  <2> QED BY <1>1, <2>1, <2>2, <2>3 DEF ResultsInv
<1>6. CountInv'
  <2> SUFFICES ASSUME phase' = "hook", Clean(Tool)
               PROVE  /\ Tool \in PerFile => DOMAIN dirs[Tool] = {}
                      /\ Tool \in PerFile => Sum(Tool, dirs[Tool]) = 0
                      /\ meant'[Tool] = 0
    <3>1. 1 .. 1 - 1 = {}
      OBVIOUS
    <3>2. {bases[k] : k \in 1 .. 1 - 1} = {}
      BY <3>1
    <3> QED BY <1>1, <3>2 DEF CountInv, Clean, Copies
  <2>1. Tool \in PerFile => DOMAIN dirs[Tool] = {}
    BY <1>1, <1>2 DEF ResultsInv
  <2> QED BY <1>1, <1>2, <2>1, NothingCounted DEF CheckTypes
<1>7. PrintsAreCounted => TotalsInv'
  <2> SUFFICES ASSUME PrintsAreCounted, NEW t \in DOMAIN results \ {"sol_profiler"},
                      IsInjective(bases), ~results[t].mixed, results[t].by \in 1 .. Len(plan), LastSoFar(results[t].by, t)
               PROVE  /\ results[t].total = meant'[t] * Copies(t)
                      /\ t # "eslint" => (results[t].success <=> meant'[t] = 0)
    BY <1>1 DEF TotalsInv, LastSoFar
  <2>1. t # Tool
    BY <1>1, NotTheLast DEF ResultsInv
  <2>2. meant'[t] = meant[t]
    BY <1>1, <2>1 DEF CheckTypes
  <2> QED BY <2>2 DEF TotalsInv
<1> QED BY <1>3, <1>4, <1>5, <1>6, <1>7

-----------------------------------------------------------------------------
(* Steps that only move the phase.                                         *)

\* From a hook to its Post; to the end of the job, or of the aggregation.
PhaseMoves ==
  /\ UNCHANGED <<plan, bases, left, step, nextFile, dirs, meant, results>>
  /\ \/ phase = "hook" /\ phase' = "post" /\ nextFile > Len(Files) /\ aggregate' = aggregate
     \/ phase \in {"hook", "post", "aggregate"} /\ phase' \in {"failed", "crashed"} /\ aggregate' = aggregate
     \/ phase = "aggregate" /\ phase' = "done" /\ aggregate' = results

LEMMA PhaseMovesKeep ==
  ASSUME CheckInv, PhaseMoves
  PROVE  CheckInv'
<1> USE DEF CheckInv
<1>1. UNCHANGED <<plan, bases, left, step, nextFile, dirs, meant, results, Tool, Files>>
  BY DEF PhaseMoves, Tool, Files
<1>2. \A t : Clean(t)' = Clean(t)
  BY <1>1 DEF Clean
<1>3. \A i, t : LastSoFar(i, t)' = LastSoFar(i, t)
  BY <1>1 DEF LastSoFar
<1>4. \A i : Posted(i)' => Posted(i)
  BY <1>1 DEF Posted, PhaseMoves
<1>5. CheckTypes'
  BY <1>1 DEF CheckTypes, PhaseMoves, Phases
<1>6. FilesInv'
  BY <1>1 DEF FilesInv
<1>7. ResultsInv'
  <2>1. phase' \in {"pre", "hook", "post"} => phase \in {"pre", "hook", "post"}
    BY DEF PhaseMoves
  <2>2. phase' \in {"aggregate", "done"} => phase = "aggregate"
    BY DEF PhaseMoves
  <2>3. phase # "pre" /\ phase' # "pre"
    BY DEF PhaseMoves
  <2>4. aggregate' = IF phase' = "done" THEN results ELSE <<>>
    BY DEF ResultsInv, PhaseMoves
  <2>5. \A i \in 1 .. Len(plan) : \A t \in Tools \ {"slither"} :
          Posted(i)' /\ plan[i] = t /\ LastSoFar(i, t) /\ (\A b \in DOMAIN dirs[t] : Writes(t, dirs[t][b])) =>
            t \in DOMAIN results /\ results[t].by = i
    BY <1>4 DEF ResultsInv
  <2>6. \A t \in PerFile \intersect Tools : Clean(t) /\ t # Tool => DOMAIN dirs[t] = {}
    BY DEF ResultsInv
  <2>7. (\A i \in 1 .. Len(plan) : \A t \in Tools \ {"slither"} :
          Posted(i) /\ plan[i] = t /\ LastSoFar(i, t) /\ (\A b \in DOMAIN dirs[t] : Writes(t, dirs[t][b])) =>
            t \in DOMAIN results /\ results[t].by = i)'
    BY <1>1, <1>3, <2>5
  <2>8. (\A t \in PerFile \intersect Tools : Clean(t) /\ (t = Tool => phase = "pre") => DOMAIN dirs[t] = {})'
    BY <1>1, <1>2, <2>3, <2>6
  <2> QED BY <1>1, <2>1, <2>2, <2>4, <2>7, <2>8 DEF ResultsInv
<1>8. PrintsAreCounted => CountInv'
  BY <1>1, <1>2 DEF CountInv, PhaseMoves
<1>9. PrintsAreCounted => TotalsInv'
  BY <1>1, <1>3 DEF TotalsInv
<1> QED BY <1>5, <1>6, <1>7, <1>8, <1>9

LEMMA PhaseMovesAre ==
  ASSUME CheckInv, CheckFails \/ HookEnds \/ PostPanics \/ CheckAggregation
  PROVE  PhaseMoves
<1>1. CheckFails => PhaseMoves
  BY DEF CheckFails, PhaseMoves
<1>2. HookEnds => PhaseMoves
  <2>1. Len(Files) \in Nat /\ nextFile \in Nat
    BY PlanIs DEF CheckInv, Files
  <2> QED BY <2>1 DEF HookEnds, AfterHook, PhaseMoves
<1>3. PostPanics => PhaseMoves
  BY DEF PostPanics, PhaseMoves
<1>4. CheckAggregation => PhaseMoves
  BY DEF CheckAggregation, PhaseMoves
<1> QED BY <1>1, <1>2, <1>3, <1>4
-----------------------------------------------------------------------------
(* The tool on a source.                                                   *)

LEMMA SourceKeeps ==
  ASSUME CheckInv, CheckSource
  PROVE  CheckInv'
<1> USE DEF CheckInv
<1>1. /\ phase = "hook" /\ phase' = "hook" /\ nextFile <= Len(Files) /\ nextFile' = nextFile + 1
      /\ UNCHANGED <<plan, bases, left, step, results, aggregate, Tool, Files>>
  BY DEF CheckSource, Tool, Files
<1>2. Tool \in Tools /\ step \in Nat /\ step <= Len(plan) /\ Len(plan) \in Nat /\ nextFile \in Nat /\ nextFile # 0
      /\ Len(bases) \in Nat /\ DOMAIN bases = 1 .. Len(bases)
  BY PlanIs
<1>3. PICK p \in Printed[Tool] :
        /\ dirs' = [dirs EXCEPT ![Tool] = Put(@, Files[nextFile], p.lines)]
        /\ meant' = [meant EXCEPT ![Tool] = @ + p.finds]
  BY DEF CheckSource
<1>4. PICK b, d, e : b = Files[nextFile] /\ d = dirs[Tool] /\ e = Put(d, b, p.lines)
  OBVIOUS
<1>5. p.finds \in Nat /\ meant[Tool] \in Nat
  BY <1>2, PrintedAssumption DEF Tools, CheckTypes
<1>6. /\ dirs'[Tool] = e /\ meant'[Tool] = meant[Tool] + p.finds
      /\ DOMAIN dirs' = Tools /\ meant' \in [Tools -> Nat]
      /\ \A t \in Tools : t # Tool => dirs'[t] = dirs[t] /\ meant'[t] = meant[t]
  BY <1>2, <1>3, <1>4, <1>5 DEF CheckTypes
<1>7. DOMAIN e = DOMAIN d \union {b} /\ e[b] = p.lines /\ \A x \in DOMAIN d : x # b => e[x] = d[x]
  BY <1>4 DEF Put
<1>8. IsFiniteSet(DOMAIN d)
  BY <1>2, <1>4 DEF CheckTypes
<1>9. Tool \in PerFile \/ (b = Tool /\ nextFile = 1 /\ Len(Files) = 1)
  BY <1>1, <1>2, <1>4 DEF Files
<1>10. \A t : Clean(t)' = Clean(t)
  BY <1>1 DEF Clean
<1>11. \A i, t : LastSoFar(i, t)' = LastSoFar(i, t)
  BY <1>1 DEF LastSoFar
<1>12. \A i \in 1 .. Len(plan) : i < step => ~LastSoFar(i, Tool)
  BY <1>1, NotTheLast
<1>13. CheckTypes'
  <2>1. IsFiniteSet(DOMAIN e)
    BY <1>7, <1>8, FS_AddElement
  <2>2. \A t \in Tools : IsFiniteSet(DOMAIN dirs'[t])
    BY <1>6, <2>1 DEF CheckTypes
  <2>3. nextFile' \in Nat \ {0}
    BY <1>1, <1>2
  <2> QED BY <1>1, <1>6, <2>2, <2>3 DEF CheckTypes
<1>14. FilesInv'
  <2>1. Tool \notin left => Prints(Tool, e)
    BY <1>2, <1>4, <1>7 DEF FilesInv, Prints
  <2>2. Tool \notin PerFile => DOMAIN e \subseteq {Tool}
    BY <1>2, <1>4, <1>7, <1>9 DEF FilesInv
  <2> QED BY <1>1, <1>6, <2>1, <2>2 DEF FilesInv
<1>15. ResultsInv'
  <2>1. ASSUME NEW i \in 1 .. Len(plan), NEW t \in Tools \ {"slither"},
               Posted(i)', plan[i] = t, LastSoFar(i, t), \A x \in DOMAIN dirs'[t] : Writes(t, dirs'[t][x])
        PROVE  t \in DOMAIN results /\ results[t].by = i
    <3>1. i < step /\ Posted(i)
      BY <1>1, <2>1 DEF Posted
    <3>2. t # Tool
      BY <1>12, <2>1, <3>1
    <3>3. \A x \in DOMAIN dirs[t] : Writes(t, dirs[t][x])
      BY <1>6, <2>1, <3>2
    <3> QED BY <2>1, <3>1, <3>3 DEF ResultsInv
  <2>2. (\A i \in 1 .. Len(plan) : \A t \in Tools \ {"slither"} :
          Posted(i) /\ plan[i] = t /\ LastSoFar(i, t) /\ (\A x \in DOMAIN dirs[t] : Writes(t, dirs[t][x])) =>
            t \in DOMAIN results /\ results[t].by = i)'
    BY <1>1, <1>11, <2>1
  <2>3. ASSUME NEW t \in PerFile \intersect Tools, Clean(t), t = Tool => phase' = "pre" PROVE DOMAIN dirs'[t] = {}
    <3>1. t # Tool
      BY <1>1, <2>3
    <3> QED BY <1>6, <2>3, <3>1 DEF ResultsInv
  <2>4. (\A t \in PerFile \intersect Tools : Clean(t) /\ (t = Tool => phase = "pre") => DOMAIN dirs[t] = {})'
    BY <1>1, <1>10, <2>3
  <2>5. (\A t \in DOMAIN results : results[t].by < step) /\ aggregate = <<>>
    BY <1>1 DEF ResultsInv
  <2> QED BY <1>1, <2>2, <2>4, <2>5 DEF ResultsInv
<1>16. PrintsAreCounted => CountInv'
  <2> SUFFICES ASSUME PrintsAreCounted, IsInjective(bases), Clean(Tool)
               PROVE  /\ Tool \in PerFile => DOMAIN e = {bases[k] : k \in 1 .. nextFile' - 1}
                      /\ nextFile' # 1
                      /\ ErrorFree(Tool, e) => (meant[Tool] + p.finds) * Copies(Tool) = Sum(Tool, e)
    BY <1>1, <1>6, <1>10 DEF CountInv
  <2>1. Tool \in Tools \ {"slither", "sol_profiler"} /\ Tool \notin left
    BY <1>2 DEF Clean, CheckTypes, PerFile
  <2>2. nextFile' # 1 /\ nextFile' - 1 = nextFile
    BY <1>1, <1>2
  <2>3. Copies(Tool) \in Nat /\ (meant[Tool] + p.finds) * Copies(Tool) = meant[Tool] * Copies(Tool) + p.finds * Copies(Tool)
    BY <1>5 DEF Copies
  <2>4. CASE Tool \in PerFile
    <3>1. b = bases[nextFile] /\ nextFile \in 1 .. Len(bases)
      BY <1>1, <1>2, <1>4, <2>4 DEF Files
    <3>2. DOMAIN d = {bases[k] : k \in 1 .. nextFile - 1}
      BY <1>1, <1>4, <2>4 DEF CountInv
    <3>3. 1 .. nextFile = (1 .. nextFile - 1) \union {nextFile} /\ nextFile \notin 1 .. nextFile - 1
          /\ 1 .. nextFile \subseteq 1 .. Len(bases)
      BY <1>2, <3>1
    <3>4. DOMAIN e = {bases[k] : k \in 1 .. nextFile}
      BY <1>7, <3>1, <3>2, <3>3
    <3>5. b \notin DOMAIN d
      BY <1>2, <3>1, <3>2, <3>3 DEF IsInjective
    <3>6. Prints(Tool, d)
      BY <1>4, <2>1 DEF FilesInv
    <3>7. ErrorFree(Tool, e) => ErrorFree(Tool, d) /\ Sum(Tool, d) \in Nat /\ Sum(Tool, e) = Sum(Tool, d) + p.finds * Copies(Tool)
      BY <1>4, <1>8, <2>1, <3>5, <3>6, SumAdds
    <3>8. ErrorFree(Tool, d) => meant[Tool] * Copies(Tool) = Sum(Tool, d)
      BY <1>1, <1>4, <2>4 DEF CountInv
    <3> QED BY <2>2, <2>3, <3>4, <3>7, <3>8
  <2>5. CASE Tool \notin PerFile
    <3>1. b = Tool /\ nextFile = 1
      BY <1>9, <2>5
    <3>2. DOMAIN d \subseteq {b}
      BY <1>2, <1>4, <2>5, <3>1 DEF FilesInv
    <3>3. PICK z : z = [x \in {} |-> <<>>]
      OBVIOUS
    <3>4. DOMAIN z = {} /\ IsFiniteSet(DOMAIN z) /\ Prints(Tool, z)
      BY <3>3, FS_EmptySet DEF Prints
    <3>5. e = Put(z, b, p.lines)
      BY <1>4, <3>2, <3>4 DEF Put
    <3>6. ErrorFree(Tool, e) => Sum(Tool, e) = Sum(Tool, z) + p.finds * Copies(Tool)
      <4>1. b \notin DOMAIN z /\ IsFiniteSet(DOMAIN z) /\ Prints(Tool, z)
        BY <3>4
      <4> QED BY <2>1, <3>5, <4>1, SumAdds
    <3>7. Sum(Tool, z) = 0
      BY <3>4, NothingCounted
    <3>8. meant[Tool] = 0
      BY <1>1, <3>1 DEF CountInv
    <3>9. p.finds * Copies(Tool) \in Nat
      BY <1>5 DEF Copies
    <3>10. ErrorFree(Tool, e) => Sum(Tool, e) = p.finds * Copies(Tool)
      BY <3>6, <3>7, <3>9
    <3>11. meant[Tool] + p.finds = p.finds
      BY <1>5, <3>8
    <3> QED BY <2>2, <2>5, <3>10, <3>11
  <2> QED BY <2>4, <2>5
<1>17. PrintsAreCounted => TotalsInv'
  <2> SUFFICES ASSUME PrintsAreCounted, NEW t \in DOMAIN results \ {"sol_profiler"},
                      IsInjective(bases), ~results[t].mixed, results[t].by \in 1 .. Len(plan), LastSoFar(results[t].by, t)
               PROVE  /\ results[t].total = meant'[t] * Copies(t)
                      /\ t # "eslint" => (results[t].success <=> meant'[t] = 0)
    BY <1>1, <1>11 DEF TotalsInv
  <2>1. t # Tool
    BY <1>1, <1>12 DEF ResultsInv
  <2>2. meant'[t] = meant[t]
    BY <1>6, <2>1 DEF CheckTypes
  <2> QED BY <2>2 DEF TotalsInv
<1> QED BY <1>13, <1>14, <1>15, <1>16, <1>17

-----------------------------------------------------------------------------
(* Post.                                                                   *)

\* The tool has been run on each source: what Post adds up is what was meant.
LEMMA OwnIsMeant ==
  ASSUME PrintsAreCounted, CheckInv, phase = "post", ErrorFree(Tool, dirs[Tool]), Clean(Tool), IsInjective(bases)
  PROVE  Own = meant[Tool] * Copies(Tool) /\ Own \in Nat /\ (Own = 0 <=> meant[Tool] = 0)
<1> USE DEF CheckInv
<1>1. Tool \in Tools /\ nextFile \in Nat /\ meant[Tool] \in Nat
  BY PlanIs DEF CheckTypes
<1>2. Tool \in PerFile \/ nextFile # 1
  <2>1. nextFile > Len(Files)
    BY DEF CountInv
  <2> QED BY <1>1, <2>1 DEF Files
<1>3. meant[Tool] * Copies(Tool) = Sum(Tool, dirs[Tool])
  BY <1>2 DEF CountInv
<1>4. Own = Sum(Tool, dirs[Tool])
  BY OwnIsSum
<1> QED BY <1>1, <1>3, <1>4 DEF Copies

LEMMA PostKeeps ==
  ASSUME CheckInv, PostCheck
  PROVE  CheckInv'
<1> USE DEF CheckInv
<1>1. /\ phase = "post" /\ ErrorFree(Tool, dirs[Tool])
      /\ UNCHANGED <<plan, bases, left, nextFile, dirs, meant, aggregate>>
  BY DEF PostCheck, Texts, ErrorFree
<1>2. /\ plan \in Seq(Tools) /\ Tool \in Tools /\ Len(plan) \in Nat /\ step \in 1 .. Len(plan) /\ step \in Nat
  BY PlanIs DEF CheckTypes
<1>3. \/ step < Len(plan) /\ phase' = "pre" /\ step' = step + 1
      \/ step = Len(plan) /\ phase' = "aggregate" /\ step' = step
  BY <1>2 DEF PostCheck, AfterPost
<1>4. step' \in Nat /\ step <= step' /\ step' \in 1 .. Len(plan) /\ (phase' = "pre" => step' = step + 1)
  BY <1>2, <1>3
<1>5. \/ /\ results' = results
         /\ Tool = "slither" \/ \E x \in DOMAIN dirs[Tool] : ~Writes(Tool, dirs[Tool][x])
      \/ /\ Tool # "slither"
         /\ \E more \in IF Mixed THEN {0, 1} ELSE {0} :
              results' = Put(results, Tool, Result(Own + more, Verdict(Tool, Own + more), step, Mixed))
  BY DEF PostCheck, Texts
<1>6. \A t : t # Tool => /\ t \in DOMAIN results' <=> t \in DOMAIN results
                         /\ t \in DOMAIN results => results'[t] = results[t]
  BY <1>5 DEF Put
<1>7. \/ results' = results /\ ((Tool = "slither") \/ (\E x \in DOMAIN dirs[Tool] : ~Writes(Tool, dirs[Tool][x])))
      \/ Tool \in DOMAIN results' /\ results'[Tool].by = step
  BY <1>5 DEF Put, Result
<1>8. DOMAIN results \subseteq DOMAIN results' /\ DOMAIN results' \subseteq DOMAIN results \union {Tool}
  BY <1>5 DEF Put
<1>9. ASSUME NEW i \in 1 .. Len(plan), NEW t, LastSoFar(i, t)' PROVE LastSoFar(i, t) /\ (t = Tool => i >= step)
  <2>1. \A k \in i + 1 .. step' : plan[k] # t
    BY <1>1, <1>9 DEF LastSoFar
  <2>2. i + 1 .. step \subseteq i + 1 .. step'
    BY <1>2, <1>4
  <2>3. i < step => step \in i + 1 .. step'
    BY <1>2, <1>4
  <2> QED BY <1>2, <2>1, <2>2, <2>3 DEF LastSoFar, Tool
<1>10. \A t \in DOMAIN results : results[t].by < step
  BY <1>1 DEF ResultsInv
<1>11. CheckTypes'
  <2>1. \A t \in DOMAIN results' : results'[t].by \in Nat
    BY <1>2, <1>6, <1>7, <1>8 DEF CheckTypes
  <2>2. phase' \in Phases /\ DOMAIN results' \subseteq Tools
    BY <1>2, <1>3, <1>8 DEF CheckTypes, Phases
  <2> QED BY <1>1, <1>4, <2>1, <2>2 DEF CheckTypes
<1>12. FilesInv'
  BY <1>1 DEF FilesInv
<1>13. ResultsInv'
  <2>1. phase' = "pre" => \A t \in DOMAIN results' : results'[t].by < step'
    <3>1. ASSUME NEW t \in DOMAIN results', t # Tool PROVE results'[t].by < step
      BY <1>6, <1>10, <3>1
    <3>2. ASSUME Tool \in DOMAIN results' PROVE results'[Tool].by < step \/ results'[Tool].by = step
      BY <1>7, <1>10, <3>2
    <3>3. ASSUME NEW t \in DOMAIN results', phase' = "pre" PROVE results'[t].by < step'
      <4>1. results'[t].by < step \/ results'[t].by = step
        BY <3>1, <3>2
      <4>2. step' = step + 1
        BY <1>4, <3>3
      <4>3. results'[t].by \in Nat
        BY <1>11, <3>3 DEF CheckTypes
      <4> QED BY <1>2, <4>1, <4>2, <4>3
    <3> QED BY <3>3
  <2>2. ASSUME NEW i \in 1 .. Len(plan), NEW t \in Tools \ {"slither"},
               Posted(i)', plan[i] = t, LastSoFar(i, t)', \A b \in DOMAIN dirs[t] : Writes(t, dirs[t][b])
        PROVE  t \in DOMAIN results' /\ results'[t].by = i
    <3>1. i <= step
      BY <1>2, <1>3, <2>2 DEF Posted
    <3>2. LastSoFar(i, t) /\ (t = Tool => i = step)
      BY <1>2, <1>9, <2>2, <3>1
    <3>3. CASE t = Tool
      BY <1>7, <2>2, <3>2, <3>3
    <3>4. CASE t # Tool
      <4>1. i < step
        BY <1>2, <2>2, <3>1, <3>4 DEF Tool
      <4>2. t \in DOMAIN results /\ results[t].by = i
        BY <2>2, <3>2, <4>1 DEF ResultsInv, Posted
      <4> QED BY <1>6, <3>4, <4>2
    <3> QED BY <3>3, <3>4
  <2>3. (\A i \in 1 .. Len(plan) : \A t \in Tools \ {"slither"} :
          Posted(i) /\ plan[i] = t /\ LastSoFar(i, t) /\ (\A b \in DOMAIN dirs[t] : Writes(t, dirs[t][b])) =>
            t \in DOMAIN results /\ results[t].by = i)'
    BY <1>1, <2>2
  <2>4. ASSUME NEW t \in PerFile \intersect Tools, Clean(t)' PROVE DOMAIN dirs[t] = {}
    <3>1. t \notin {"slither", "sol_profiler"} /\ t \notin left \union DOMAIN results'
      BY <1>1, <2>4 DEF Clean
    <3>2. Clean(t)
      BY <1>8, <3>1 DEF Clean
    <3>3. t # Tool
      <4>1. t # "eslint"
        BY DEF PerFile
      <4>2. t = Tool => \A x \in DOMAIN dirs[Tool] : Writes(Tool, dirs[Tool][x])
        BY <4>1 DEF Writes
      <4> QED BY <1>7, <1>8, <3>1, <4>2
    <3> QED BY <2>4, <3>2, <3>3 DEF ResultsInv
  <2>5. (\A t \in PerFile \intersect Tools : Clean(t) /\ (t = Tool => phase = "pre") => DOMAIN dirs[t] = {})'
    BY <1>1, <2>4
  <2>6. aggregate' = <<>> /\ phase' \in {"pre", "aggregate"} /\ (phase' = "aggregate" => step' = Len(plan))
    BY <1>1, <1>3 DEF ResultsInv
  <2> QED BY <1>1, <2>1, <2>3, <2>5, <2>6 DEF ResultsInv
<1>14. CountInv'
  BY <1>3 DEF CountInv
<1>15. PrintsAreCounted => TotalsInv'
  <2> SUFFICES ASSUME PrintsAreCounted, NEW t \in DOMAIN results' \ {"sol_profiler"}, NEW i \in 1 .. Len(plan),
                      IsInjective(bases), ~results'[t].mixed, results'[t].by = i, LastSoFar(i, t)'
               PROVE  /\ results'[t].total = meant[t] * Copies(t)
                      /\ t # "eslint" => (results'[t].success <=> meant[t] = 0)
    BY <1>1 DEF TotalsInv
  <2>1. LastSoFar(i, t) /\ (t = Tool => i >= step)
    BY <1>9
  <2>2. CASE t # Tool
    <3>1. t \in DOMAIN results /\ results'[t] = results[t]
      BY <1>6, <2>2
    <3> QED BY <2>1, <3>1 DEF TotalsInv
  <2>3. CASE t = Tool
    <3>1. results' # results
      <4>1. ASSUME results' = results PROVE FALSE
        <5>1. i < step /\ i >= step
          BY <1>10, <2>1, <2>3, <4>1
        <5> QED BY <1>2, <5>1
      <4> QED BY <4>1
    <3>2. Tool # "slither"
      BY <1>5, <3>1
    <3>3. PICK more \in IF Mixed THEN {0, 1} ELSE {0} :
            results' = Put(results, Tool, Result(Own + more, Verdict(Tool, Own + more), step, Mixed))
      BY <1>5, <3>1
    <3>4. /\ results'[Tool] = Result(Own + more, Verdict(Tool, Own + more), step, Mixed)
          /\ results'[Tool].mixed = Mixed
      BY <3>3 DEF Put, Result
    <3>5. ~Mixed
      BY <2>3, <3>4
    <3>6. more = 0
      BY <3>3, <3>5
    <3>7. Clean(Tool)
      BY <2>3, <3>2, <3>5 DEF Clean, Mixed
    <3>8. Own = meant[Tool] * Copies(Tool) /\ Own \in Nat /\ (Own = 0 <=> meant[Tool] = 0)
      BY <1>1, <3>7, OwnIsMeant
    <3>9. Own + more = Own
      BY <3>6, <3>8
    <3>10. results'[Tool].total = Own /\ results'[Tool].success = Verdict(Tool, Own)
      BY <3>4, <3>9 DEF Result
    <3>11. Tool # "eslint" => (Verdict(Tool, Own) <=> Own = 0)
      BY <2>3 DEF Verdict
    <3> QED BY <2>3, <3>8, <3>10, <3>11
  <2> QED BY <2>2, <2>3
<1> QED BY <1>11, <1>12, <1>13, <1>14, <1>15

-----------------------------------------------------------------------------
LEMMA CheckInvStep ==
  ASSUME CheckInv, [CheckNext]_checkVars
  PROVE  CheckInv'
<1>1. CASE PreCheck
  BY <1>1, PreKeeps
<1>2. CASE CheckSource
  BY <1>2, SourceKeeps
<1>3. CASE CheckFails \/ HookEnds \/ PostPanics \/ CheckAggregation
  BY <1>3, PhaseMovesAre, PhaseMovesKeep
<1>4. CASE PostCheck
  BY <1>4, PostKeeps
<1>5. CASE UNCHANGED checkVars
  <2>1. UNCHANGED <<plan, bases, left, step, phase, nextFile, dirs, meant, results, aggregate, Tool, Files>>
    BY <1>5 DEF checkVars, Tool, Files
  <2>2. \A t : Clean(t)' = Clean(t)
    BY <2>1 DEF Clean
  <2>3. CheckTypes' /\ FilesInv'
    BY <2>1 DEF CheckInv, CheckTypes, FilesInv
  <2>4. ResultsInv'
    BY <2>1, <2>2 DEF CheckInv, ResultsInv, Posted, LastSoFar
  <2>5. PrintsAreCounted => CountInv'
    BY <2>1, <2>2 DEF CheckInv, CountInv
  <2>6. PrintsAreCounted => TotalsInv'
    BY <2>1 DEF CheckInv, TotalsInv, LastSoFar
  <2> QED BY <2>3, <2>4, <2>5, <2>6 DEF CheckInv
<1> QED BY <1>1, <1>2, <1>3, <1>4, <1>5 DEF CheckNext

\* The last step with a tool of the plan.
LEMMA LastStepIs ==
  ASSUME CheckTypes, NEW t \in ToSet(plan)
  PROVE  /\ LastStep(t) \in 1 .. Len(plan) /\ plan[LastStep(t)] = t
         /\ step = Len(plan) => LastSoFar(LastStep(t), t)
<1>1. plan \in Seq(Tools) /\ Len(plan) \in Nat /\ DOMAIN plan = 1 .. Len(plan)
  BY PlanIs
<1>2. PICK s : s = {i \in 1 .. Len(plan) : plan[i] = t}
  OBVIOUS
<1>3. s \in SUBSET (1 .. Len(plan)) /\ s # {}
  BY <1>1, <1>2 DEF ToSet
<1>4. PICK m \in s : \A y \in s : y <= m
  BY <1>1, <1>3, Greatest
<1>5. m \in DOMAIN plan /\ plan[m] = t
  BY <1>1, <1>2
<1>6. ASSUME NEW k \in (m + 1) .. Len(plan) PROVE plan[k] # t
  <2>1. k \in 1 .. Len(plan) /\ ~(k <= m)
    BY <1>1, <1>3
  <2> QED BY <1>2, <1>4, <2>1
<1>7. \E i \in DOMAIN plan : plan[i] = t /\ \A k \in (i + 1) .. Len(plan) : plan[k] # t
  BY <1>5, <1>6
<1>8. PICK i : i = LastStep(t)
  OBVIOUS
<1>9. i \in DOMAIN plan /\ plan[i] = t /\ \A k \in (i + 1) .. Len(plan) : plan[k] # t
  BY <1>7, <1>8 DEF LastStep
<1> QED BY <1>1, <1>8, <1>9 DEF LastSoFar

LEMMA ReportsInv ==
  ASSUME CheckInv
  PROVE  AggregateIsComplete /\ (PrintsAreCounted => TotalsAreOfTheSources)
<1> USE DEF CheckInv
<1>1. ToSet(plan) \subseteq Tools
  BY PlanIs DEF ToSet
<1>2. ASSUME phase = "done", NEW t \in ToSet(plan) \ {"slither"},
             \A b \in DOMAIN dirs[t] : Writes(t, dirs[t][b])
      PROVE  t \in DOMAIN aggregate /\ aggregate[t].by = LastStep(t)
  <2>1. step = Len(plan) /\ aggregate = results
    BY <1>2 DEF ResultsInv
  <2>2. PICK i \in 1 .. Len(plan) : i = LastStep(t) /\ plan[i] = t /\ LastSoFar(i, t)
    BY <2>1, LastStepIs
  <2>3. Posted(i)
    BY <1>2, <2>1, PlanIs DEF Posted
  <2>4. t \in Tools \ {"slither"}
    BY <1>1
  <2> QED BY <1>2, <2>1, <2>2, <2>3, <2>4 DEF ResultsInv
<1>3. ASSUME PrintsAreCounted, NEW t \in (DOMAIN aggregate \intersect ToSet(plan)) \ {"sol_profiler"},
             aggregate[t].by = LastStep(t), ~aggregate[t].mixed, IsInjective(bases)
      PROVE  /\ aggregate[t].total = meant[t] * (IF t = "eth-gas-reporter" THEN 4 ELSE 1)
             /\ t # "eslint" => (aggregate[t].success <=> meant[t] = 0)
  <2>1. phase = "done" /\ aggregate = results /\ step = Len(plan)
    BY DEF ResultsInv
  <2>2. PICK i \in 1 .. Len(plan) : i = LastStep(t) /\ LastSoFar(i, t)
    BY <2>1, LastStepIs
  <2>3. t \in DOMAIN results \ {"sol_profiler"} /\ results[t].by = i /\ ~results[t].mixed
    BY <1>3, <2>1, <2>2
  <2> QED BY <1>3, <2>1, <2>2, <2>3 DEF TotalsInv, Copies
<1>4. AggregateIsComplete
  BY <1>2 DEF AggregateIsComplete
<1>5. PrintsAreCounted => TotalsAreOfTheSources
  BY <1>3 DEF TotalsAreOfTheSources
<1> QED BY <1>4, <1>5

LEMMA CheckInvAlways ==
  CheckSpec => []CheckInv
<1>1. CheckInit => CheckInv
  BY CheckInvInit
<1>2. CheckInv /\ [CheckNext]_checkVars => CheckInv'
  BY CheckInvStep
<1> QED BY <1>1, <1>2, PTL DEF CheckSpec

\* When the aggregation is done, it has the result of the last check with each
\* tool, and none of an earlier one in its place: every Post that writes has
\* written before check-aggregation walks the files, whatever order and number
\* of checks a job has (action_check_aggregation.go:37).
THEOREM AggregateComplete ==
  CheckSpec => []AggregateIsComplete
<1>1. CheckInv => AggregateIsComplete
  BY ReportsInv
<1> QED BY <1>1, CheckInvAlways, PTL

\* And such a result has the findings of all sources, each once, and the
\* verdict that goes with them, when each parser counts right the findings of
\* one print: no file is read twice, none is left out and none of an earlier
\* check is read, but where ReportsAreRight says so.  What one print counts for
\* is a matter of the constants, of no state; MythRilCounts and MoveProverCounts
\* are about it.
THEOREM ReportsRight ==
  PrintsAreCounted => (CheckSpec => []ReportsAreRight)
<1>1. ASSUME PrintsAreCounted PROVE CheckInv => ReportsAreRight
  BY <1>1, ReportsInv DEF ReportsAreRight
<1>2. ASSUME PrintsAreCounted PROVE CheckSpec => []ReportsAreRight
  BY <1>1, <1>2, CheckInvAlways, PTL
<1> QED BY <1>2
=============================================================================
