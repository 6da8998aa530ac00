----------------------------- MODULE LogProofs -----------------------------
(***************************************************************************)
(* Proofs about the log of a job: Output, which writes it, and WorkerLogs, *)
(* which ships it from a worker to the master.                             *)
(***************************************************************************)
EXTENDS Output, WorkerLogs, FiniteSetTheorems, SequenceTheorems, TLAPS

-----------------------------------------------------------------------------
(* Output.                                                                 *)
(*                                                                         *)
(* What the appends do to the log is known by the length of the array:     *)
(* each line written takes an element of its own as long as the array is   *)
(* as long as there are lines (Extends).  Then appends have not overlapped *)
(* and the array is the lines in their order; once it is not so, it never  *)
(* is again.                                                               *)

OutputTypes ==
  /\ written \in Nat /\ array \in Seq(1 .. written) /\ file \in Seq(0 .. written)
  /\ length \in 0 .. Len(array)
  /\ todo \in [Writers -> 0 .. MaxLines] /\ slot \in [Writers -> 0 .. Len(array)]
  /\ {open, stepped, opened, finished} \subseteq BOOLEAN
  /\ fileCursor \in 0 .. Len(array)
  /\ flusher \in [at : {"check", "look", "write", "end"}, endIndex : 0 .. Len(array), next : Nat]
  /\ closer \in [at : {"none", "lock", "write", "closed", "panic"}, endIndex : 0 .. Len(array), next : Nat]

\* The lines that calls have announced and not yet put down fit in the bound.
Owed == {x \in Writers \X (1 .. MaxLines) : x[2] <= todo[x[1]] /\ (slot[x[1]] # 0 => x[2] < todo[x[1]])}
RoomInv ==
  /\ written + Cardinality(Owed) <= MaxLines
  /\ \A w \in Writers : slot[w] # 0 => todo[w] # 0

\* Where the timed flush and Done are in the array.
CursorInv ==
  /\ flusher.at \in {"check", "look"} => fileCursor = flusher.endIndex
  /\ flusher.at = "write" => fileCursor < flusher.next /\ flusher.next <= flusher.endIndex + 1
  /\ closer.at = "write" => 0 < closer.next /\ closer.next <= closer.endIndex + 1
  /\ closer.at = "closed" => closer.next = closer.endIndex + 1
  /\ finished <=> closer.at \in {"write", "closed"}
  /\ ~opened => flusher.at = "end"
  /\ ~finished /\ flusher.at = "end" => ~opened /\ fileCursor = 0 /\ flusher.endIndex = 0

Extends == written = Len(array)

\* One line at most is put down beyond the header.
ArrayInv ==
  /\ Len(array) <= written
  /\ Extends =>
       /\ \A i \in 1 .. written : array[i] = i
       /\ written \in {length, length + 1}
       /\ \A w \in Writers : slot[w] # 0 => slot[w] = written /\ written = length + 1
       /\ \A v, w \in Writers : slot[v] # 0 /\ slot[w] # 0 => v = w

\* The file, until Done and after it.
FileInv ==
  Extends =>
    /\ fileCursor <= length /\ flusher.endIndex <= length
    /\ ~finished => /\ \A i \in DOMAIN file : file[i] = i
                    /\ Len(file) = IF flusher.at = "write" THEN flusher.next - 1 ELSE fileCursor
    /\ closer.at # "panic"
    /\ opened /\ finished => \A i \in 1 .. closer.next - 1 : Contains(file, i)

OutputIInv == OutputTypes /\ RoomInv /\ CursorInv /\ ArrayInv /\ FileInv

LEMMA WritersFinite == IsFiniteSet(Writers)
  <1>1. IsFiniteSet({"main"})
    BY FS_Singleton
  <1> QED
    BY <1>1, ScannersAssumption, FS_Union DEF Writers

LEMMA LinesFinite == IsFiniteSet(Writers \X (1 .. MaxLines))
  <1>1. IsFiniteSet(1 .. MaxLines)
    BY LinesAssumption, FS_Interval
  <1> QED
    BY <1>1, WritersFinite, FS_Product

\* A call announces lines that fit.
LEMMA SaidFits ==
  ASSUME OutputTypes, RoomInv, NEW w \in Writers, NEW lines \in Nat, Quiet(w), Say(w, lines)
  PROVE  RoomInv' /\ todo' \in [Writers -> 0 .. MaxLines]
  <1> DEFINE P == {x \in Writers \X (1 .. MaxLines) : x[2] <= todo[x[1]]}
             f == [i \in 1 .. lines |-> <<w, i>>]
             N == {f[i] : i \in 1 .. lines}
  <1>1. P \subseteq Writers \X (1 .. MaxLines)
    OBVIOUS
  <1>2. IsFiniteSet(P) /\ Cardinality(P) \in Nat
    BY <1>1, LinesFinite, FS_Subset, FS_CardinalityType
  <1>3. IsFiniteSet(1 .. lines) /\ Cardinality(1 .. lines) = lines
    BY FS_Interval
  <1>4. IsFiniteSet(N) /\ Cardinality(N) <= lines
    <2>1. f \in Surjection(1 .. lines, N)
      BY DEF Surjection
    <2> HIDE DEF f, N
    <2> QED
      BY <1>3, <2>1, FS_Surjection
  <1>5. Cardinality(N) \in Nat
    BY <1>4, FS_CardinalityType
  <1>6. /\ IsFiniteSet(P \union N) /\ IsFiniteSet(P \cap N)
        /\ Cardinality(P \union N) = Cardinality(P) + Cardinality(N) - Cardinality(P \cap N)
    BY <1>2, <1>4, FS_Union, FS_Intersection
  <1>7. Cardinality(P \cap N) \in Nat /\ Cardinality(P \union N) \in Nat
    BY <1>6, FS_CardinalityType
  <1>8. written \in Nat /\ MaxLines \in Nat /\ written + Cardinality(P) + lines <= MaxLines
    BY LinesAssumption DEF OutputTypes, Say, Room, Pending
  <1>9. lines <= MaxLines
    BY ONLY <1>2, <1>8
  <1>10. todo' \in [Writers -> 0 .. MaxLines]
    BY <1>8, <1>9 DEF Say, OutputTypes
  <1>11. Owed' \subseteq P \union N
    <2> SUFFICES ASSUME NEW x \in Writers \X (1 .. MaxLines), x[2] <= todo'[x[1]] PROVE x \in P \union N
      BY DEF Owed
    <2>1. CASE x[1] = w
      <3>1. x[2] \in 1 .. lines /\ x = <<w, x[2]>>
        BY <2>1, <1>8 DEF Say, OutputTypes
      <3> QED
        BY <3>1
    <2>2. CASE x[1] # w
      BY <2>2 DEF Say, OutputTypes
    <2> QED
      BY <2>1, <2>2
  <1> HIDE DEF P, N
  <1>12. Cardinality(Owed') <= Cardinality(P \union N) /\ IsFiniteSet(Owed')
    BY <1>6, <1>11, FS_Subset
  <1>13. Cardinality(Owed') \in Nat
    BY <1>12, FS_CardinalityType
  <1>14. written' = written /\ written + Cardinality(Owed') <= MaxLines
    <2>1. written' = written
      BY DEF Say
    <2>2. written + Cardinality(Owed') <= MaxLines
      BY ONLY <1>2, <1>4, <1>5, <1>6, <1>7, <1>8, <1>12, <1>13
    <2> QED
      BY <2>1, <2>2
  <1>15. \A v \in Writers : slot'[v] # 0 => todo'[v] # 0
    <2> SUFFICES ASSUME NEW v \in Writers, slot[v] # 0 PROVE todo'[v] # 0
      BY DEF Say
    <2>1. todo[v] # 0 /\ todo[w] = 0
      BY DEF RoomInv, Quiet
    <2> QED
      BY <2>1 DEF Say, OutputTypes
  <1> QED
    BY <1>10, <1>14, <1>15 DEF RoomInv

LEMMA SaysKeep ==
  ASSUME OutputIInv, NEW w \in Writers, NEW lines \in Nat, Quiet(w), Say(w, lines),
         UNCHANGED <<disk, flusher, finished>>, open' \in BOOLEAN, stepped' \in BOOLEAN,
         closer' = closer \/ (closer.at = "none" /\ closer' = [closer EXCEPT !.at = "lock"])
  PROVE  OutputIInv'
  <1> USE DEF OutputIInv
  <1>1. RoomInv' /\ todo' \in [Writers -> 0 .. MaxLines]
    BY SaidFits
  <1>2. UNCHANGED <<array, length, written, slot, opened, file, fileCursor, flusher, finished>>
    BY DEF Say, disk
  <1>3. OutputTypes'
    BY <1>1, <1>2 DEF OutputTypes, Writers
  <1>4. /\ closer'.next = closer.next /\ closer'.endIndex = closer.endIndex
        /\ closer'.at = closer.at \/ (closer.at = "none" /\ closer'.at = "lock")
    BY DEF OutputTypes
  <1>5. CursorInv'
    BY <1>2, <1>4 DEF CursorInv
  <1>6. ArrayInv'
    BY <1>2 DEF ArrayInv, Extends, Writers
  <1>7. FileInv'
    BY <1>2, <1>4 DEF FileInv, Extends
  <1> QED
    BY <1>1, <1>3, <1>5, <1>6, <1>7

LEMMA TalkKeeps ==
  ASSUME OutputIInv, NewStage \/ NewStep \/ DoneBegin \/ \E w \in Writers : WriteLine(w)
  PROVE  OutputIInv'
  <1>1. "main" \in Writers
    BY DEF Writers
  <1>2. open \in BOOLEAN /\ stepped \in BOOLEAN
    BY DEF OutputIInv, OutputTypes
  <1>3. EndTime \in Nat
    BY DEF EndTime
  <1>4. CASE NewStage
    <2>1. EndTime + 3 \in Nat
      BY <1>3
    <2> QED
      BY <1>1, <1>2, <1>4, <2>1, SaysKeep DEF NewStage, Running
  <1>5. CASE NewStep
    BY <1>1, <1>2, <1>5, SaysKeep DEF NewStep, Running
  <1>6. CASE DoneBegin
    BY <1>1, <1>2, <1>3, <1>6, SaysKeep DEF DoneBegin, Running
  <1>7. ASSUME NEW w \in Writers, WriteLine(w) PROVE OutputIInv'
    BY <1>2, <1>7, SaysKeep DEF WriteLine, Running, progress
  <1> QED
    BY <1>4, <1>5, <1>6, <1>7

LEMMA MoreLines ==
  ASSUME NEW m \in Nat, NEW n \in Nat, m <= n, NEW q
  PROVE  /\ q \in Seq(1 .. m) => q \in Seq(1 .. n)
         /\ q \in Seq(0 .. m) => q \in Seq(0 .. n)
  <1>1. 1 .. m \subseteq 1 .. n /\ 0 .. m \subseteq 0 .. n
    OBVIOUS
  <1> QED
    BY <1>1

LEMMA NewElement ==
  ASSUME OutputTypes, NEW w \in Writers, AppendElement(w)
  PROVE  /\ array' \in Seq(1 .. written') /\ Len(array') \in Nat
         /\ Len(array') = IF length < Len(array) THEN Len(array) ELSE length + 1
         /\ Len(array) <= Len(array') /\ length + 1 <= Len(array')
         /\ \A i \in 1 .. Len(array') :
              array'[i] = IF i = length + 1 THEN written + 1 ELSE array[i]
  <1> DEFINE n == IF length < Len(array) THEN Len(array) ELSE length + 1
  <1>1. array \in Seq(1 .. written) /\ written \in Nat
    BY DEF OutputTypes
  <1>2. Len(array) \in Nat /\ length \in Nat /\ length <= Len(array) /\ DOMAIN array = 1 .. Len(array)
    BY <1>1 DEF OutputTypes
  <1>3. \A i \in 1 .. Len(array) : array[i] \in 1 .. written
    BY <1>1
  <1>4. n \in Nat /\ Len(array) <= n /\ length + 1 <= n /\ n <= Len(array) + 1
        /\ \A i \in 1 .. n : i # length + 1 => i \in 1 .. Len(array)
    BY ONLY <1>2
  <1>5. written' = written + 1
        /\ array' = [i \in 1 .. n |-> IF i = length + 1 THEN written + 1 ELSE array[i]]
    BY DEF AppendElement
  <1> HIDE DEF n
  <1>6. \A i \in 1 .. n : (IF i = length + 1 THEN written + 1 ELSE array[i]) \in 1 .. written + 1
    <2> TAKE i \in 1 .. n
    <2>1. CASE i = length + 1
      BY <1>1, <2>1
    <2>2. CASE i # length + 1
      <3>1. array[i] \in 1 .. written
        BY <1>3, <1>4, <2>2
      <3>2. array[i] \in 1 .. written + 1
        BY ONLY <1>1, <3>1
      <3> QED
        BY <2>2, <3>2
    <2> QED
      BY <2>1, <2>2
  <1>7. array' \in [1 .. n -> 1 .. written + 1]
    BY <1>5, <1>6
  <1>8. array' \in Seq(1 .. written')
    BY <1>4, <1>5, <1>7
  <1>9. Len(array') = n
    BY <1>4, <1>7
  <1>10. \A i \in 1 .. n : array'[i] = IF i = length + 1 THEN written + 1 ELSE array[i]
    BY <1>5
  <1> QED
    BY <1>4, <1>8, <1>9, <1>10 DEF n

\* As long as each line has an element of its own, the next one comes after
\* all there are.
LEMMA NewIsLast ==
  ASSUME OutputTypes, ArrayInv, NEW w \in Writers, AppendElement(w), Extends'
  PROVE  /\ Extends /\ written = length /\ written' = written + 1 /\ Len(array') = written + 1
         /\ \A v \in Writers : slot[v] = 0
         /\ slot' = [slot EXCEPT ![w] = written + 1]
         /\ \A i \in 1 .. written' : array'[i] = i
  <1>1. written \in Nat /\ length \in Nat /\ Len(array) \in Nat /\ length <= Len(array)
        /\ Len(array) <= written /\ written' = written + 1
    BY DEF OutputTypes, ArrayInv, AppendElement
  <1>2. Len(array') = IF length < Len(array) THEN Len(array) ELSE length + 1
    BY NewElement
  <1>3. Len(array') = written + 1
    BY <1>1 DEF Extends
  <1>4. length = Len(array) /\ written = length
    BY ONLY <1>1, <1>2, <1>3
  <1>5. Extends
    BY <1>4 DEF Extends
  <1>6. \A v \in Writers : slot[v] = 0
    BY <1>1, <1>4, <1>5 DEF ArrayInv
  <1>7. slot' = [slot EXCEPT ![w] = written + 1]
    BY <1>4 DEF AppendElement
  <1>8. ASSUME NEW i \in 1 .. written' PROVE array'[i] = i
    <2>1. i \in 1 .. Len(array')
      BY <1>1, <1>3
    <2>2. array'[i] = IF i = length + 1 THEN written + 1 ELSE array[i]
      BY <2>1, NewElement
    <2>3. \A k \in 1 .. written : array[k] = k
      BY <1>5 DEF ArrayInv
    <2>4. i # length + 1 => i \in 1 .. written
      BY <1>1, <1>4
    <2> QED
      BY <1>4, <2>2, <2>3, <2>4
  <1> QED
    BY <1>1, <1>3, <1>4, <1>5, <1>6, <1>7, <1>8

LEMMA AppendElementKeeps ==
  ASSUME OutputIInv, NEW w \in Writers, AppendElement(w)
  PROVE  OutputIInv'
  <1> USE DEF OutputIInv
  <1>1. /\ array' \in Seq(1 .. written') /\ Len(array') \in Nat
        /\ Len(array) <= Len(array') /\ length + 1 <= Len(array')
    BY NewElement
  <1>2. /\ written' = written + 1 /\ slot' = [slot EXCEPT ![w] = length + 1]
        /\ UNCHANGED <<length, todo, open, stepped, opened, file, fileCursor, flusher, closer, finished>>
        /\ todo[w] # 0 /\ slot[w] = 0
    BY DEF AppendElement, progress, disk
  <1>3. written \in Nat /\ length \in Nat /\ Len(array) \in Nat
    BY DEF OutputTypes
  <1>4. OutputTypes'
    <2>1. 0 .. Len(array) \subseteq 0 .. Len(array') /\ length + 1 \in 0 .. Len(array')
      BY ONLY <1>1, <1>3
    <2>2. slot' \in [Writers -> 0 .. Len(array')]
      BY <1>2, <2>1 DEF OutputTypes
    <2>3. file' \in Seq(0 .. written')
      <3>1. written + 1 \in Nat /\ written <= written + 1
        BY <1>3
      <3>2. file \in Seq(0 .. written)
        BY DEF OutputTypes
      <3> QED
        BY <1>2, <1>3, <3>1, <3>2, MoreLines
    <2>4. length' \in 0 .. Len(array') /\ fileCursor' \in 0 .. Len(array')
      BY <1>2, <2>1 DEF OutputTypes
    <2>5. flusher' \in [at : {"check", "look", "write", "end"}, endIndex : 0 .. Len(array'), next : Nat]
      BY <1>2, <2>1 DEF OutputTypes
    <2>6. closer' \in [at : {"none", "lock", "write", "closed", "panic"}, endIndex : 0 .. Len(array'),
                       next : Nat]
      BY <1>2, <2>1 DEF OutputTypes
    <2>7. written' \in Nat
      BY <1>2, <1>3
    <2> QED
      BY <1>1, <1>2, <2>2, <2>3, <2>4, <2>5, <2>6, <2>7 DEF OutputTypes, Writers
  <1>5. RoomInv'
    <2> DEFINE x == <<w, todo[w]>>
    <2>1. todo[w] \in 1 .. MaxLines
      BY <1>2, LinesAssumption DEF OutputTypes
    <2>2. x \in Owed
      BY <1>2, <2>1 DEF Owed
    <2>3. Owed' = Owed \ {x}
      <3>1. ASSUME NEW y \in Writers \X (1 .. MaxLines) PROVE y \in Owed' <=> y \in Owed \ {x}
        <4>1. CASE y[1] = w
          <5>1. y = <<w, y[2]>> /\ y[2] \in Nat /\ todo[w] \in Nat
            BY <2>1, <4>1
          <5>2. y \in Owed' <=> y[2] < todo[w]
            BY <1>2, <1>3, <4>1, <5>1 DEF Owed, OutputTypes
          <5>3. y \in Owed <=> y[2] <= todo[w]
            BY <1>2, <4>1 DEF Owed
          <5>4. y = x <=> y[2] = todo[w]
            BY <5>1
          <5> QED
            BY <5>1, <5>2, <5>3, <5>4
        <4>2. CASE y[1] # w
          BY <1>2, <4>2 DEF Owed, OutputTypes
        <4> QED
          BY <4>1, <4>2
      <3> QED
        BY <3>1 DEF Owed
    <2>4. IsFiniteSet(Owed)
      BY LinesFinite, FS_Subset DEF Owed
    <2> HIDE DEF x
    <2>5. Cardinality(Owed') = Cardinality(Owed) - 1
      BY <2>2, <2>3, <2>4, FS_RemoveElement
    <2>6. Cardinality(Owed) \in Nat
      BY <2>4, FS_CardinalityType
    <2>7. written + Cardinality(Owed) <= MaxLines
      BY DEF RoomInv
    <2>8. written' + Cardinality(Owed') <= MaxLines
      BY <1>2, <1>3, <2>5, <2>6, <2>7
    <2>9. \A v \in Writers : slot'[v] # 0 => todo'[v] # 0
      BY <1>2 DEF RoomInv, OutputTypes
    <2> QED
      BY <2>8, <2>9 DEF RoomInv
  <1>6. CursorInv'
    BY <1>2 DEF CursorInv
  <1>7. ArrayInv'
    <2>1. Len(array') <= written'
      <3>1. Len(array') = IF length < Len(array) THEN Len(array) ELSE length + 1
        BY NewElement
      <3>2. Len(array) <= written /\ length <= Len(array)
        BY DEF ArrayInv, OutputTypes
      <3> QED
        BY ONLY <1>2, <1>3, <3>1, <3>2
    <2>2. ASSUME Extends'
          PROVE  /\ \A i \in 1 .. written' : array'[i] = i
                 /\ written' \in {length', length' + 1}
                 /\ \A v \in Writers : slot'[v] # 0 => slot'[v] = written' /\ written' = length' + 1
                 /\ \A u, v \in Writers : slot'[u] # 0 /\ slot'[v] # 0 => u = v
      <3>1. /\ written = length /\ (\A v \in Writers : slot[v] = 0)
            /\ slot' = [slot EXCEPT ![w] = written + 1]
            /\ \A i \in 1 .. written' : array'[i] = i
        BY <2>2, NewIsLast
      <3>2. \A v \in Writers : slot'[v] = IF v = w THEN written + 1 ELSE 0
        BY <3>1 DEF OutputTypes
      <3> QED
        BY <1>2, <1>3, <3>1, <3>2
    <2> QED
      BY <2>1, <2>2 DEF ArrayInv, Extends, Writers
  <1>8. FileInv'
    <2>1. Extends' => Extends
      BY NewIsLast
    <2> QED
      BY <1>2, <2>1 DEF FileInv, Extends
  <1> QED
    BY <1>4, <1>5, <1>6, <1>7, <1>8

LEMMA AppendHeaderKeeps ==
  ASSUME OutputIInv, NEW w \in Writers, AppendHeader(w)
  PROVE  OutputIInv'
  <1> USE DEF OutputIInv
  <1>1. /\ slot[w] # 0 /\ length' = slot[w] /\ slot' = [slot EXCEPT ![w] = 0]
        /\ todo' = [todo EXCEPT ![w] = todo[w] - 1]
        /\ UNCHANGED <<array, written, open, stepped, opened, file, fileCursor, flusher, closer, finished>>
    BY DEF AppendHeader, progress, disk
  <1>2. /\ Len(array) \in Nat /\ written \in Nat /\ length \in Nat /\ slot[w] \in 0 .. Len(array)
        /\ todo[w] \in 1 .. MaxLines /\ MaxLines \in Nat
    BY <1>1, LinesAssumption DEF OutputTypes, RoomInv
  <1>3. OutputTypes'
    <2>1. todo' \in [Writers -> 0 .. MaxLines] /\ slot' \in [Writers -> 0 .. Len(array)]
      BY <1>1, <1>2 DEF OutputTypes
    <2> QED
      BY <1>1, <1>2, <2>1 DEF OutputTypes, Writers
  <1>4. RoomInv'
    <2>1. Owed' \subseteq Owed
      <3> SUFFICES ASSUME NEW x \in Writers \X (1 .. MaxLines), x \in Owed' PROVE x \in Owed
        BY DEF Owed
      <3>1. CASE x[1] = w
        <4>1. x[2] <= todo[w] - 1 /\ x[2] \in Nat /\ todo[w] \in Nat
          BY <1>1, <1>2, <3>1 DEF Owed, OutputTypes
        <4>2. x[2] < todo[w] /\ x[2] <= todo[w]
          BY ONLY <4>1
        <4> QED
          BY <3>1, <4>2 DEF Owed
      <3>2. CASE x[1] # w
        BY <1>1, <3>2 DEF Owed, OutputTypes
      <3> QED
        BY <3>1, <3>2
    <2>2. IsFiniteSet(Owed)
      BY LinesFinite, FS_Subset DEF Owed
    <2>3. IsFiniteSet(Owed') /\ Cardinality(Owed') <= Cardinality(Owed)
      BY <2>1, <2>2, FS_Subset
    <2>4. Cardinality(Owed) \in Nat /\ Cardinality(Owed') \in Nat
      BY <2>2, <2>3, FS_CardinalityType
    <2>5. written + Cardinality(Owed) <= MaxLines
      BY DEF RoomInv
    <2>6. written' + Cardinality(Owed') <= MaxLines
      BY <1>1, <1>2, <2>3, <2>4, <2>5
    <2>7. \A v \in Writers : slot'[v] # 0 => todo'[v] # 0
      BY <1>1 DEF RoomInv, OutputTypes
    <2> QED
      BY <2>6, <2>7 DEF RoomInv
  <1>5. CursorInv'
    BY <1>1 DEF CursorInv
  <1>6. Extends => written = length + 1 /\ length' = written
    BY <1>1 DEF ArrayInv
  <1>7. ArrayInv'
    <2>1. Extends => \A v \in Writers : slot'[v] = 0
      BY <1>1 DEF ArrayInv, OutputTypes
    <2> QED
      BY <1>1, <1>6, <2>1 DEF ArrayInv, Extends, Writers
  <1>8. FileInv'
    <2>1. Extends => fileCursor <= length' /\ flusher.endIndex <= length'
      <3>1. fileCursor \in Nat /\ flusher.endIndex \in Nat
        BY DEF OutputTypes
      <3> QED
        BY <1>2, <1>6, <3>1 DEF FileInv
    <2> QED
      BY <1>1, <2>1 DEF FileInv, Extends
  <1> QED
    BY <1>3, <1>4, <1>5, <1>7, <1>8

-----------------------------------------------------------------------------
(* The file.                                                               *)

LEMMA LineAppended ==
  ASSUME NEW q, NEW n, q \in Seq(0 .. n), NEW e \in 0 .. n
  PROVE  /\ Append(q, e) \in Seq(0 .. n) /\ Len(Append(q, e)) = Len(q) + 1 /\ Len(q) \in Nat
         /\ \A i : Contains(q, i) => Contains(Append(q, e), i)
         /\ Contains(Append(q, e), e)
         /\ (\A i \in DOMAIN q : q[i] = i) /\ e = Len(q) + 1
              => \A i \in DOMAIN Append(q, e) : Append(q, e)[i] = i
  <1> DEFINE r == Append(q, e)
             n1 == Len(q) + 1
  <1>1. /\ r \in Seq(0 .. n) /\ Len(r) = n1 /\ Len(q) \in Nat /\ DOMAIN q = 1 .. Len(q)
        /\ DOMAIN r = 1 .. n1 /\ (\A i \in 1 .. Len(q) : r[i] = q[i]) /\ r[n1] = e
    OBVIOUS
  <1>2. 1 .. Len(q) \subseteq 1 .. n1 /\ n1 \in 1 .. n1 /\ \A i \in 1 .. n1 : i \in 1 .. Len(q) \/ i = n1
    BY <1>1
  <1> HIDE DEF r, n1
  <1>3. \A i : Contains(q, i) => Contains(r, i)
    BY <1>1, <1>2 DEF Contains
  <1>4. Contains(r, e)
    BY <1>1, <1>2 DEF Contains
  <1>5. ASSUME \A i \in DOMAIN q : q[i] = i, e = n1 PROVE \A i \in DOMAIN r : r[i] = i
    BY <1>1, <1>2, <1>5
  <1> QED
    BY <1>1, <1>3, <1>4, <1>5 DEF r, n1

\* A file of the lines in their order has them all.
LEMMA PrefixHas ==
  ASSUME NEW q, NEW n, q \in Seq(0 .. n), \A i \in DOMAIN q : q[i] = i
  PROVE  \A i \in 1 .. Len(q) : Contains(q, i)
  BY DEF Contains

LEMMA LineIs ==
  ASSUME OutputTypes, NEW i \in 1 .. Len(array)
  PROVE  array[i] \in 0 .. written
  <1>1. array[i] \in 1 .. written /\ written \in Nat
    BY DEF OutputTypes
  <1> QED
    BY <1>1

\* A step of the flusher or of Done leaves the buffer alone.
LEMMA BufferKept ==
  ASSUME OutputIInv, UNCHANGED buffer
  PROVE  RoomInv' /\ ArrayInv' /\ (Extends' <=> Extends)
         /\ UNCHANGED <<array, length, written, todo, slot>>
  <1>1. UNCHANGED <<array, length, written, todo, slot>>
    BY DEF buffer
  <1>2. Owed' = Owed
    BY <1>1 DEF Owed, Writers
  <1> QED
    BY <1>1, <1>2 DEF OutputIInv, RoomInv, ArrayInv, Extends, Writers

LEMMA FlusherIs ==
  ASSUME OutputTypes
  PROVE  /\ flusher.at \in {"check", "look", "write", "end"} /\ flusher.endIndex \in 0 .. Len(array)
         /\ flusher.next \in Nat /\ flusher.endIndex \in Nat
         /\ closer.at \in {"none", "lock", "write", "closed", "panic"} /\ closer.endIndex \in 0 .. Len(array)
         /\ closer.next \in Nat /\ closer.endIndex \in Nat
         /\ Len(array) \in Nat /\ length \in Nat /\ fileCursor \in Nat /\ length <= Len(array)
         /\ fileCursor <= Len(array)
         /\ flusher.endIndex <= Len(array) /\ closer.endIndex <= Len(array)
  BY DEF OutputTypes

LEMMA FlusherKeeps ==
  ASSUME OutputIInv, Flusher
  PROVE  OutputIInv'
  <1> USE DEF OutputIInv
  <1>1. /\ RoomInv' /\ ArrayInv' /\ (Extends' <=> Extends)
        /\ UNCHANGED <<array, length, written, todo, slot, open, stepped, opened, closer, finished>>
    BY BufferKept DEF Flusher, FlushCheck, FlushLook, FlushWrite, FlushCursor, progress, disk
  <1>2. CASE FlushCheck
    <2>1. UNCHANGED <<file, fileCursor>> /\ flusher.at = "check" /\ closer.at # "write"
          /\ flusher' = [flusher EXCEPT !.at = IF finished THEN "end" ELSE "look"]
      BY <1>2 DEF FlushCheck, disk
    <2>2. flusher'.next = flusher.next /\ flusher'.endIndex = flusher.endIndex
          /\ flusher'.at = IF finished THEN "end" ELSE "look"
      BY <2>1 DEF OutputTypes
    <2>3. flusher' \in [at : {"check", "look", "write", "end"}, endIndex : 0 .. Len(array), next : Nat]
      BY <2>1 DEF OutputTypes
    <2>4. OutputTypes'
      BY <1>1, <2>1, <2>3 DEF OutputTypes, Writers
    <2>5. CursorInv'
      BY <1>1, <2>1, <2>2 DEF CursorInv
    <2>6. FileInv'
      BY <1>1, <2>1, <2>2 DEF FileInv
    <2> QED
      BY <1>1, <2>4, <2>5, <2>6
  <1>3. CASE FlushLook
    <2>1. UNCHANGED <<file, fileCursor>> /\ flusher.at = "look" /\ fileCursor = flusher.endIndex
      BY <1>3 DEF FlushLook, disk, CursorInv
    <2>2. CASE flusher' = [flusher EXCEPT !.at = "check"]
      <3>1. flusher'.next = flusher.next /\ flusher'.endIndex = flusher.endIndex /\ flusher'.at = "check"
        BY <2>2 DEF OutputTypes
      <3>2. flusher' \in [at : {"check", "look", "write", "end"}, endIndex : 0 .. Len(array), next : Nat]
        BY <2>2 DEF OutputTypes
      <3>3. OutputTypes'
        BY <1>1, <2>1, <3>2 DEF OutputTypes, Writers
      <3>4. CursorInv'
        BY <1>1, <2>1, <3>1 DEF CursorInv
      <3>5. FileInv'
        BY <1>1, <2>1, <3>1 DEF FileInv
      <3> QED
        BY <1>1, <3>3, <3>4, <3>5
    <2>3. CASE /\ ~(length <= flusher.endIndex)
               /\ flusher' = [at |-> "write", endIndex |-> length, next |-> fileCursor + 1]
      <3>1. flusher'.next = fileCursor + 1 /\ flusher'.endIndex = length /\ flusher'.at = "write"
        BY <2>3
      <3>2. flusher' \in [at : {"check", "look", "write", "end"}, endIndex : 0 .. Len(array), next : Nat]
        BY <2>3, FlusherIs
      <3>3. OutputTypes'
        BY <1>1, <2>1, <3>2 DEF OutputTypes, Writers
      <3>4. fileCursor < flusher'.next /\ flusher'.next <= flusher'.endIndex + 1
            /\ flusher'.next - 1 = fileCursor
        BY <2>1, <2>3, <3>1, FlusherIs
      <3>5. CursorInv'
        BY <1>1, <2>1, <3>1, <3>4 DEF CursorInv
      <3>6. flusher'.endIndex <= length
        BY <3>1, FlusherIs
      <3>7. FileInv'
        BY <1>1, <2>1, <3>1, <3>4, <3>6 DEF FileInv
      <3> QED
        BY <1>1, <3>3, <3>5, <3>7
    <2> QED
      BY <1>3, <2>2, <2>3 DEF FlushLook
  <1>4. CASE FlushWrite
    <2>1. UNCHANGED fileCursor /\ flusher.at = "write" /\ flusher.next <= flusher.endIndex
          /\ fileCursor < flusher.next
      BY <1>4 DEF FlushWrite, CursorInv
    <2>2. CASE closer.at = "closed"
      <3>1. file' = file /\ flusher' = [flusher EXCEPT !.next = flusher.endIndex + 1] /\ finished
        BY <1>4, <2>2 DEF FlushWrite, CursorInv
      <3>2. flusher'.next = flusher.endIndex + 1 /\ flusher'.endIndex = flusher.endIndex
            /\ flusher'.at = "write"
        BY <2>1, <3>1 DEF OutputTypes
      <3>3. flusher' \in [at : {"check", "look", "write", "end"}, endIndex : 0 .. Len(array), next : Nat]
        <4>1. flusher.endIndex + 1 \in Nat
          BY FlusherIs
        <4> QED
          BY <3>1, <4>1 DEF OutputTypes
      <3>4. OutputTypes'
        BY <1>1, <2>1, <3>1, <3>3 DEF OutputTypes, Writers
      <3>5. fileCursor < flusher'.next /\ flusher'.next <= flusher'.endIndex + 1
        BY <2>1, <3>2, FlusherIs
      <3>6. CursorInv'
        BY <1>1, <2>1, <3>1, <3>2, <3>5 DEF CursorInv
      <3>7. FileInv'
        BY <1>1, <2>1, <3>1, <3>2 DEF FileInv
      <3> QED
        BY <1>1, <3>4, <3>6, <3>7
    <2>3. CASE closer.at # "closed"
      <3> DEFINE e == array[flusher.next]
      <3>1. file' = Append(file, e) /\ flusher' = [flusher EXCEPT !.next = flusher.next + 1]
        BY <1>4, <2>3 DEF FlushWrite
      <3>2. flusher'.next = flusher.next + 1 /\ flusher'.endIndex = flusher.endIndex
            /\ flusher'.at = "write"
        BY <2>1, <3>1 DEF OutputTypes
      <3>3. flusher.next \in 1 .. Len(array)
        BY <2>1, FlusherIs
      <3>4. e \in 0 .. written /\ file \in Seq(0 .. written)
        BY <3>3, LineIs DEF OutputTypes
      <3>5. flusher' \in [at : {"check", "look", "write", "end"}, endIndex : 0 .. Len(array), next : Nat]
        <4>1. flusher.next + 1 \in Nat
          BY FlusherIs
        <4> QED
          BY <3>1, <4>1 DEF OutputTypes
      <3> HIDE DEF e
      <3>6. file' \in Seq(0 .. written) /\ Len(file') = Len(file) + 1 /\ Len(file) \in Nat
            /\ (\A i : Contains(file, i) => Contains(file', i))
            /\ ((\A i \in DOMAIN file : file[i] = i) /\ e = Len(file) + 1
                  => \A i \in DOMAIN file' : file'[i] = i)
        BY <3>1, <3>4, LineAppended
      <3>7. OutputTypes'
        BY <1>1, <2>1, <3>5, <3>6 DEF OutputTypes, Writers
      <3>8. fileCursor < flusher'.next /\ flusher'.next <= flusher'.endIndex + 1
            /\ flusher'.next - 1 = flusher.next
        BY <2>1, <3>2, FlusherIs
      <3>9. CursorInv'
        BY <1>1, <2>1, <3>2, <3>8 DEF CursorInv
      <3>10. Extends => e = flusher.next
        BY <3>3 DEF e, ArrayInv, Extends
      <3>11. ASSUME Extends, ~finished
             PROVE  /\ \A i \in DOMAIN file' : file'[i] = i
                    /\ Len(file') = flusher'.next - 1
        <4>1. Len(file) = flusher.next - 1 /\ \A i \in DOMAIN file : file[i] = i
          BY <2>1, <3>11 DEF FileInv
        <4>2. flusher.next = Len(file) + 1
          BY <3>6, <4>1, FlusherIs
        <4> QED
          BY <3>6, <3>8, <3>10, <3>11, <4>1, <4>2
      <3>12. FileInv'
        BY <1>1, <2>1, <3>2, <3>6, <3>11 DEF FileInv
      <3> QED
        BY <1>1, <3>7, <3>9, <3>12
    <2> QED
      BY <2>2, <2>3
  <1>5. CASE FlushCursor
    <2>1. /\ flusher.at = "write" /\ flusher.next > flusher.endIndex /\ flusher.next <= flusher.endIndex + 1
          /\ fileCursor' = flusher.endIndex /\ flusher' = [flusher EXCEPT !.at = "check"] /\ file' = file
      BY <1>5 DEF FlushCursor, CursorInv
    <2>2. flusher'.next = flusher.next /\ flusher'.endIndex = flusher.endIndex /\ flusher'.at = "check"
      BY <2>1 DEF OutputTypes
    <2>3. flusher' \in [at : {"check", "look", "write", "end"}, endIndex : 0 .. Len(array), next : Nat]
      BY <2>1 DEF OutputTypes
    <2>4. OutputTypes'
      BY <1>1, <2>1, <2>3, FlusherIs DEF OutputTypes, Writers
    <2>5. CursorInv'
      BY <1>1, <2>1, <2>2 DEF CursorInv
    <2>6. flusher.next - 1 = flusher.endIndex
      BY <2>1, FlusherIs
    <2>7. FileInv'
      BY <1>1, <2>1, <2>2, <2>6 DEF FileInv
    <2> QED
      BY <1>1, <2>4, <2>5, <2>7
  <1> QED
    BY <1>2, <1>3, <1>4, <1>5 DEF Flusher

LEMMA DoneKeeps ==
  ASSUME OutputIInv, DoneLock \/ DonePanic \/ DoneWrite \/ DoneClose
  PROVE  OutputIInv'
  <1> USE DEF OutputIInv
  <1>1. /\ RoomInv' /\ ArrayInv' /\ (Extends' <=> Extends)
        /\ UNCHANGED <<array, length, written, todo, slot, open, stepped, opened, fileCursor, flusher>>
    BY BufferKept DEF DoneLock, DonePanic, DoneWrite, DoneClose, progress, disk
  <1>2. CASE DoneLock
    <2>1. /\ closer.at = "lock" /\ ~(fileCursor > length) /\ file' = file /\ finished' = TRUE
          /\ closer' = [at |-> "write", endIndex |-> length, next |-> fileCursor + 1]
      BY <1>2 DEF DoneLock, DonePanics, disk
    <2>2. closer'.at = "write" /\ closer'.endIndex = length /\ closer'.next = fileCursor + 1
      BY <2>1
    <2>3. closer' \in [at : {"none", "lock", "write", "closed", "panic"}, endIndex : 0 .. Len(array), next : Nat]
      BY <2>1, FlusherIs
    <2>4. OutputTypes'
      BY <1>1, <2>1, <2>3 DEF OutputTypes, Writers
    <2>5. 0 < closer'.next /\ closer'.next <= closer'.endIndex + 1 /\ closer'.next - 1 = fileCursor
      BY <2>1, <2>2, FlusherIs
    <2>6. ~finished
      BY <2>1 DEF CursorInv
    <2>7. CursorInv'
      BY <1>1, <2>1, <2>2, <2>5 DEF CursorInv
    <2>8. ASSUME Extends, opened, NEW i \in 1 .. fileCursor PROVE Contains(file, i)
      <3>1. \A k \in DOMAIN file : file[k] = k
        BY <2>6, <2>8 DEF FileInv
      <3>2. fileCursor <= Len(file)
        <4>1. Len(file) = IF flusher.at = "write" THEN flusher.next - 1 ELSE fileCursor
          BY <2>6, <2>8 DEF FileInv
        <4>2. flusher.at = "write" => fileCursor < flusher.next
          BY DEF CursorInv
        <4> QED
          BY <4>1, <4>2, FlusherIs
      <3>3. file \in Seq(0 .. written)
        BY DEF OutputTypes
      <3>4. Len(file) \in Nat
        BY <3>3
      <3>5. i \in 1 .. Len(file)
        BY <3>2, <3>4, FlusherIs
      <3> QED
        BY <3>1, <3>3, <3>5, PrefixHas
    <2>9. FileInv'
      BY <1>1, <2>1, <2>2, <2>5, <2>8 DEF FileInv
    <2> QED
      BY <1>1, <2>4, <2>7, <2>9
  <1>3. CASE DonePanic
    <2>1. /\ closer.at = "lock" /\ fileCursor > length /\ UNCHANGED <<file, finished>>
          /\ closer' = [closer EXCEPT !.at = "panic"]
      BY <1>3 DEF DonePanic, DonePanics, disk
    <2>2. closer'.at = "panic"
      BY <2>1 DEF OutputTypes
    <2>3. OutputTypes'
      BY <1>1, <2>1 DEF OutputTypes, Writers
    <2>4. ~finished
      BY <2>1 DEF CursorInv
    <2>5. CursorInv'
      BY <1>1, <2>1, <2>2 DEF CursorInv
    <2>6. ~Extends
      BY <2>1, FlusherIs DEF FileInv
    <2>7. FileInv'
      BY <1>1, <2>6 DEF FileInv
    <2> QED
      BY <1>1, <2>3, <2>5, <2>7
  <1>4. CASE DoneWrite
    <2> DEFINE e == array[closer.next]
    <2>1. /\ closer.at = "write" /\ closer.next <= closer.endIndex /\ 0 < closer.next /\ UNCHANGED finished
          /\ finished /\ file' = IF opened THEN Append(file, e) ELSE file
          /\ closer' = [closer EXCEPT !.next = closer.next + 1]
      BY <1>4 DEF DoneWrite, CursorInv
    <2>2. closer'.at = "write" /\ closer'.endIndex = closer.endIndex /\ closer'.next = closer.next + 1
      BY <2>1 DEF OutputTypes
    <2>3. closer' \in [at : {"none", "lock", "write", "closed", "panic"}, endIndex : 0 .. Len(array), next : Nat]
      <3>1. closer.next + 1 \in Nat
        BY FlusherIs
      <3> QED
        BY <2>1, <3>1 DEF OutputTypes
    <2>4. closer.next \in 1 .. Len(array)
      BY <2>1, FlusherIs
    <2>5. e \in 0 .. written /\ file \in Seq(0 .. written)
      BY <2>4, LineIs DEF OutputTypes
    <2> HIDE DEF e
    <2>6. /\ file' \in Seq(0 .. written) /\ \A i : Contains(file, i) => Contains(file', i)
          /\ opened => Contains(file', e)
      BY <2>1, <2>5, LineAppended
    <2>7. OutputTypes'
      BY <1>1, <2>1, <2>3, <2>6 DEF OutputTypes, Writers
    <2>8. 0 < closer'.next /\ closer'.next <= closer'.endIndex + 1 /\ closer'.next - 1 = closer.next
          /\ \A i \in 1 .. closer.next : i \in 1 .. closer.next - 1 \/ i = closer.next
      BY <2>1, <2>2, FlusherIs
    <2>9. CursorInv'
      BY <1>1, <2>1, <2>2, <2>8 DEF CursorInv
    <2>10. Extends => e = closer.next
      BY <2>4 DEF e, ArrayInv, Extends
    <2>11. FileInv'
      BY <1>1, <2>1, <2>2, <2>6, <2>8, <2>10 DEF FileInv
    <2> QED
      BY <1>1, <2>7, <2>9, <2>11
  <1>5. CASE DoneClose
    <2>1. /\ closer.at = "write" /\ closer.next > closer.endIndex /\ closer.next <= closer.endIndex + 1
          /\ UNCHANGED finished /\ finished /\ file' = IF opened THEN Append(file, 0) ELSE file
          /\ closer' = [closer EXCEPT !.at = "closed"]
      BY <1>5 DEF DoneClose, CursorInv
    <2>2. closer'.at = "closed" /\ closer'.endIndex = closer.endIndex /\ closer'.next = closer.next
      BY <2>1 DEF OutputTypes
    <2>3. written \in Nat /\ file \in Seq(0 .. written)
      BY DEF OutputTypes
    <2>4. 0 \in 0 .. written
      BY <2>3
    <2>5. file' \in Seq(0 .. written) /\ \A i : Contains(file, i) => Contains(file', i)
      BY <2>1, <2>3, <2>4, LineAppended
    <2>6. OutputTypes'
      BY <1>1, <2>1, <2>5 DEF OutputTypes, Writers
    <2>7. closer'.next = closer'.endIndex + 1
      BY <2>1, <2>2, FlusherIs
    <2>8. CursorInv'
      BY <1>1, <2>1, <2>2, <2>7 DEF CursorInv
    <2>9. FileInv'
      BY <1>1, <2>1, <2>2, <2>5 DEF FileInv
    <2> QED
      BY <1>1, <2>6, <2>8, <2>9
  <1> QED
    BY <1>2, <1>3, <1>4, <1>5

-----------------------------------------------------------------------------
(* The invariant, and what follows from it.                                *)

LEMMA OutputStarts == OutputInit => OutputIInv
  <1> SUFFICES ASSUME OutputInit PROVE OutputIInv
    OBVIOUS
  <1>1. /\ array = <<>> /\ length = 0 /\ written = 0 /\ file = <<>> /\ fileCursor = 0
        /\ open = FALSE /\ stepped = FALSE /\ opened \in BOOLEAN /\ finished = FALSE
        /\ todo = [w \in Writers |-> IF w = "main" THEN 1 ELSE 0] /\ slot = [w \in Writers |-> 0]
        /\ flusher = [at |-> IF opened THEN "check" ELSE "end", endIndex |-> 0, next |-> 0]
        /\ closer = [at |-> "none", endIndex |-> 0, next |-> 0]
    BY DEF OutputInit
  <1>2. OutputTypes
    <2>1. Len(array) = 0 /\ array \in Seq(1 .. written) /\ file \in Seq(0 .. written)
      BY <1>1
    <2>2. todo \in [Writers -> 0 .. MaxLines]
      BY <1>1, LinesAssumption
    <2>3. /\ slot \in [Writers -> 0 .. Len(array)] /\ length \in 0 .. Len(array)
          /\ fileCursor \in 0 .. Len(array)
          /\ flusher \in [at : {"check", "look", "write", "end"}, endIndex : 0 .. Len(array), next : Nat]
          /\ closer \in [at : {"none", "lock", "write", "closed", "panic"}, endIndex : 0 .. Len(array),
                         next : Nat]
      BY <1>1, <2>1
    <2>4. {open, stepped, opened, finished} \subseteq BOOLEAN /\ written \in Nat
      BY <1>1
    <2> QED
      BY <2>1, <2>2, <2>3, <2>4 DEF OutputTypes
  <1>3. RoomInv
    <2>1. Owed \subseteq {<<"main", 1>>}
      <3> SUFFICES ASSUME NEW x \in Owed PROVE x = <<"main", 1>>
        OBVIOUS
      <3>1. x \in Writers \X (1 .. MaxLines) /\ x[2] <= todo[x[1]]
        BY DEF Owed
      <3>2. x[1] = "main" /\ x[2] = 1
        BY <1>1, <3>1
      <3> QED
        BY <3>1, <3>2
    <2>2. IsFiniteSet({<<"main", 1>>}) /\ Cardinality({<<"main", 1>>}) = 1
      BY FS_Singleton
    <2>3. IsFiniteSet(Owed) /\ Cardinality(Owed) <= 1
      BY <2>1, <2>2, FS_Subset
    <2>4. Cardinality(Owed) \in Nat
      BY <2>3, FS_CardinalityType
    <2>5. written + Cardinality(Owed) <= MaxLines
      BY <1>1, <2>3, <2>4, LinesAssumption
    <2> QED
      BY <1>1, <2>5 DEF RoomInv
  <1>4. CursorInv
    BY <1>1 DEF CursorInv
  <1>5. ArrayInv
    BY <1>1 DEF ArrayInv, Extends
  <1>6. FileInv
    BY <1>1 DEF FileInv
  <1> QED
    BY <1>2, <1>3, <1>4, <1>5, <1>6 DEF OutputIInv

LEMMA OutputKeeps == OutputIInv /\ [OutputNext]_outputVars => OutputIInv'
  <1> SUFFICES ASSUME OutputIInv, [OutputNext]_outputVars PROVE OutputIInv'
    OBVIOUS
  <1>1. CASE NewStage \/ NewStep \/ DoneBegin \/ \E w \in Writers : WriteLine(w)
    BY <1>1, TalkKeeps
  <1>2. CASE DoneLock \/ DonePanic \/ DoneWrite \/ DoneClose
    BY <1>2, DoneKeeps
  <1>3. CASE Flusher
    BY <1>3, FlusherKeeps
  <1>4. ASSUME NEW w \in Writers, AppendLine(w) PROVE OutputIInv'
    BY <1>4, AppendElementKeeps, AppendHeaderKeeps DEF AppendLine
  <1>5. CASE UNCHANGED outputVars
    <2>1. UNCHANGED <<array, length, written, todo, slot, open, stepped, opened, file, fileCursor, flusher,
                      closer, finished>> /\ UNCHANGED buffer
      BY <1>5 DEF outputVars, buffer, progress, disk
    <2>2. RoomInv' /\ ArrayInv' /\ (Extends' <=> Extends)
      BY <2>1, BufferKept
    <2>3. OutputTypes'
      BY <2>1 DEF OutputIInv, OutputTypes, Writers
    <2>4. CursorInv' /\ FileInv'
      BY <2>1, <2>2 DEF OutputIInv, CursorInv, FileInv
    <2> QED
      BY <2>2, <2>3, <2>4 DEF OutputIInv
  <1> QED
    BY <1>1, <1>2, <1>3, <1>4, <1>5 DEF OutputNext, Main

\* Lines that are in the buffer or about to be are at most the array's.
LEMMA LostOrExtends ==
  ASSUME OutputIInv, NothingLost
  PROVE  Extends
  <1> DEFINE S == {slot[w] : w \in Writers} \ (0 .. length)
             n == Len(array)
  <1>1. n \in Nat /\ length \in Nat /\ length <= n /\ written \in Nat /\ n <= written
    BY DEF OutputIInv, OutputTypes, ArrayInv
  <1>2. \A w \in Writers : slot[w] \in 0 .. n
    BY DEF OutputIInv, OutputTypes
  <1> HIDE DEF n
  <1>3. S \subseteq length + 1 .. n
    BY <1>1, <1>2
  <1>4. IsFiniteSet(length + 1 .. n) /\ Cardinality(length + 1 .. n) = n - length
    <2>1. length + 1 \in Int /\ n \in Int
      BY <1>1
    <2>2. /\ IsFiniteSet(length + 1 .. n)
          /\ Cardinality(length + 1 .. n) = IF length + 1 > n THEN 0 ELSE n - (length + 1) + 1
      BY <2>1, FS_Interval
    <2> QED
      BY <1>1, <2>2
  <1> HIDE DEF S
  <1>5. IsFiniteSet(S) /\ Cardinality(S) <= n - length
    BY <1>3, <1>4, FS_Subset
  <1>6. Cardinality(S) \in Nat
    BY <1>5, FS_CardinalityType
  <1>7. written = length + Cardinality(S)
    BY DEF NothingLost, S
  <1>8. written = n
    BY ONLY <1>1, <1>5, <1>6, <1>7
  <1> QED
    BY <1>8 DEF Extends, n

\* With any number of goroutines writing lines and any interleaving of their
\* two-step appends, the timed flush and Done: as long as no two appends have
\* overlapped, the file is the lines in their order until Done, Done does not
\* slice beyond the buffer, and no line it found is missing from the closed log.
THEOREM OutputCorrect == OutputSpec => []OutputInv
  <1>1. OutputInit => OutputIInv
    BY OutputStarts
  <1>2. OutputIInv /\ [OutputNext]_outputVars => OutputIInv'
    BY OutputKeeps
  <1>3. OutputIInv => OutputInv
    <2> SUFFICES ASSUME OutputIInv PROVE OutputInv
      OBVIOUS
    <2>1. OutputTypeOK
      <3>1. Cardinality(Owed) \in Nat
        BY LinesFinite, FS_Subset, FS_CardinalityType DEF Owed
      <3>2. written \in Nat /\ written + Cardinality(Owed) <= MaxLines
        BY DEF OutputIInv, OutputTypes, RoomInv
      <3>3. written \in 0 .. MaxLines
        BY <3>1, <3>2, LinesAssumption
      <3> QED
        BY <3>3 DEF OutputIInv, OutputTypes, OutputTypeOK
    <2>2. FileIsPrefix
      BY LostOrExtends DEF FileIsPrefix, OutputIInv, FileInv
    <2>3. NothingMissing
      <3> SUFFICES ASSUME NothingLost
                   PROVE  /\ closer.at # "panic"
                          /\ opened /\ closer.at = "closed" =>
                               \A i \in 1 .. closer.endIndex : Contains(file, array[i])
        BY DEF NothingMissing
      <3>1. Extends
        BY LostOrExtends
      <3>2. closer.at # "panic"
        BY <3>1 DEF OutputIInv, FileInv
      <3>3. ASSUME opened, closer.at = "closed", NEW i \in 1 .. closer.endIndex
            PROVE  Contains(file, array[i])
        <4>1. finished /\ closer.next = closer.endIndex + 1
          BY <3>3 DEF OutputIInv, CursorInv
        <4>2. i \in 1 .. closer.next - 1
          BY <4>1, FlusherIs DEF OutputIInv
        <4>3. Contains(file, i)
          BY <3>1, <3>3, <4>1, <4>2 DEF OutputIInv, FileInv
        <4>4. i \in 1 .. written
          BY <3>1, FlusherIs DEF OutputIInv, Extends
        <4>5. array[i] = i
          BY <3>1, <4>4 DEF OutputIInv, ArrayInv
        <4> QED
          BY <4>3, <4>5
      <3> QED
        BY <3>2, <3>3
    <2> QED
      BY <2>1, <2>2, <2>3 DEF OutputInv
  <1> QED
    BY <1>1, <1>2, <1>3, PTL DEF OutputSpec

-----------------------------------------------------------------------------
(* WorkerLogs.                                                             *)
(*                                                                         *)
(* That nothing overtakes what is in the channel is seen from what is in   *)
(* it: for every RESULT the LOG and the FILE it stands for have arrived,   *)
(* or are before it in the channel, or a nil message is, behind which      *)
(* nothing arrives (ResultInv); and each shipper's LOGs grow from the      *)
(* master's copy along the channel to what the shipper has read (OrderInv).*)

Shippers == Execs \union {Loop}
Shipped == [type : {"LOG"}, from : Shippers, log : 0 .. MaxLog, detail : 0 .. MaxDetail]
             \union [type : {"RESULT"}, status : States] \union [type : {"FILE", "nil"}]
SenderPlaces == {"idle", "check", "readLog", "readDetail", "put", "end"}
LoopPlaces == {"idle", "readLog", "readDetail", "put", "putNil", "putFiles", "putResult"}

FileTypes ==
  /\ run \in [Execs -> {"none", "accepted", "running", "ended", "dropped"}] /\ stops \in 0 .. MaxStops
  /\ log \in 0 .. MaxLog /\ detail \in 0 .. MaxDetail /\ {files, doneJob, up, told} \subseteq BOOLEAN
  /\ master \in States /\ saved \in States
ShipperTypes ==
  /\ shipper \in [Shippers -> [at : SenderPlaces \union LoopPlaces, log : 0 .. MaxLog, detail : 0 .. MaxDetail]]
  /\ \A e \in Execs : shipper[e].at \in SenderPlaces
  /\ shipper[Loop].at \in LoopPlaces
  /\ shippers \subseteq Shippers
QueueTypes ==
  /\ statusChan \in Seq(States)
  /\ errors \in [Execs -> 0 .. (MaxErrors + 1)]
  /\ outQ \in Seq(Shipped) /\ Len(outQ) <= QueueBound
LogTypes == FileTypes /\ ShipperTypes /\ QueueTypes

\* A status was said when the files were not newer than now.
StatusInv ==
  /\ \A i \in DOMAIN statusChan :
       /\ statusChan[i].log <= log /\ statusChan[i].detail <= detail
       /\ statusChan[i].files => files
  /\ shipper[Loop].at # "idle" => statusChan # <<>>

\* What a status stands for has reached the master, is among the first n
\* messages on their way to it, or is behind one that stops the worker.
Blocked(q, n) == \E i \in DOMAIN q : i <= n /\ q[i].type = "nil"
LogSent(q, had, s, n) ==
  \/ Blocked(q, n)
  \/ s.log <= had.log /\ s.detail <= had.detail
  \/ \E i \in DOMAIN q : i <= n /\ q[i].type = "LOG" /\ s.log <= q[i].log /\ s.detail <= q[i].detail
FilesSent(q, had, s, n) ==
  s.files => Blocked(q, n) \/ had.files \/ \E i \in DOMAIN q : i <= n /\ q[i].type = "FILE"

\* What handleDoneJob has read and put for the status it is at.
LoopInv ==
  LET s == statusChan[1] l == shipper[Loop] IN
    up =>
      /\ l.at \in {"readDetail", "put"} => s.log <= l.log
      /\ l.at = "put" => s.detail <= l.detail
      /\ l.at \in {"putFiles", "putResult"} => LogSent(outQ, saved, s, Len(outQ))
      /\ l.at = "putResult" => FilesSent(outQ, saved, s, Len(outQ))

ResultInv ==
  /\ \A i \in DOMAIN outQ :
       outQ[i].type = "RESULT" =>
         LogSent(outQ, saved, outQ[i].status, i - 1) /\ FilesSent(outQ, saved, outQ[i].status, i - 1)
  /\ saved.files = master.files

\* A shipper has read no more than there is.
ReadInv ==
  \A s \in Shippers :
    /\ shipper[s].at \in {"readDetail", "put"} => shipper[s].log <= log
    /\ shipper[s].at = "put" => shipper[s].detail <= detail

\* All that the shipper s, which has read r, ships after the first n messages
\* has l lines and the detail d, or more.
Newer(q, r, l, d, s, n) ==
  /\ \A i \in DOMAIN q : i > n /\ q[i].type = "LOG" /\ q[i].from = s => l <= q[i].log /\ d <= q[i].detail
  /\ r.at \in {"readDetail", "put"} => l <= r.log
  /\ r.at = "put" => d <= r.detail

OrderInv ==
  /\ \A i \in DOMAIN outQ :
       outQ[i].type = "LOG" =>
         /\ Newer(outQ, shipper[outQ[i].from], outQ[i].log, outQ[i].detail, outQ[i].from, i)
         /\ outQ[i].log <= log /\ outQ[i].detail <= detail
  /\ \A s \in Shippers : shippers \subseteq {s} => Newer(outQ, shipper[s], master.log, master.detail, s, 0)
  /\ master.log <= log /\ master.detail <= detail

LogIInv == LogTypes /\ StatusInv /\ LoopInv /\ ResultInv /\ ReadInv /\ OrderInv

-----------------------------------------------------------------------------
(* What is in the channel.                                                 *)

LEMMA Appended ==
  ASSUME NEW S, NEW q \in Seq(S), NEW e \in S
  PROVE  /\ Append(q, e) \in Seq(S) /\ Len(Append(q, e)) = Len(q) + 1
         /\ DOMAIN q = 1 .. Len(q) /\ Len(q) \in Nat
         /\ DOMAIN Append(q, e) = 1 .. Len(q) + 1
         /\ \A i \in DOMAIN q : Append(q, e)[i] = q[i]
         /\ Append(q, e)[Len(q) + 1] = e
  OBVIOUS

LEMMA Tailed ==
  ASSUME NEW S, NEW q \in Seq(S), q # <<>>
  PROVE  /\ Tail(q) \in Seq(S) /\ Len(Tail(q)) = Len(q) - 1
         /\ Head(q) \in S /\ Head(q) = q[1] /\ 1 \in DOMAIN q
         /\ Len(q) \in Nat \ {0} /\ DOMAIN q = 1 .. Len(q)
         /\ DOMAIN Tail(q) = 1 .. Len(q) - 1
         /\ \A i \in DOMAIN Tail(q) : i + 1 \in DOMAIN q /\ Tail(q)[i] = q[i + 1]
  OBVIOUS

LEMMA ShippedHas ==
  ASSUME NEW m \in Shipped
  PROVE  /\ m.type \in {"LOG", "FILE", "RESULT", "nil"}
         /\ m.type = "LOG" => m.from \in Shippers /\ m.log \in 0 .. MaxLog /\ m.detail \in 0 .. MaxDetail
         /\ m.type = "RESULT" => m.status \in States
  BY DEF Shipped

LEMMA StateHas ==
  ASSUME NEW s \in States
  PROVE  s.log \in Nat /\ s.detail \in Nat /\ s.log <= MaxLog /\ s.detail <= MaxDetail /\ s.files \in BOOLEAN
  BY BoundsAssumption DEF States

\* A message more, and no less saved.
LEMMA SentGrows ==
  ASSUME NEW q \in Seq(Shipped), NEW m \in Shipped, NEW had, NEW s, NEW n \in Nat
  PROVE  /\ Blocked(q, n) => Blocked(Append(q, m), n)
         /\ LogSent(q, had, s, n) => LogSent(Append(q, m), had, s, n)
         /\ FilesSent(q, had, s, n) => FilesSent(Append(q, m), had, s, n)
  <1> DEFINE r == Append(q, m)
  <1>1. /\ DOMAIN q = 1 .. Len(q) /\ Len(q) \in Nat /\ DOMAIN r = 1 .. Len(q) + 1
        /\ \A i \in DOMAIN q : r[i] = q[i]
    BY Appended
  <1>2. DOMAIN q \subseteq DOMAIN r
    BY <1>1
  <1> HIDE DEF r
  <1>3. Blocked(q, n) => Blocked(r, n)
    BY <1>1, <1>2 DEF Blocked
  <1>4. LogSent(q, had, s, n) => LogSent(r, had, s, n)
    BY <1>1, <1>2, <1>3 DEF LogSent
  <1>5. FilesSent(q, had, s, n) => FilesSent(r, had, s, n)
    BY <1>1, <1>2, <1>3 DEF FilesSent
  <1> QED
    BY <1>3, <1>4, <1>5 DEF r

\* More places to look at.
LEMMA SentFurther ==
  ASSUME NEW q, NEW had, NEW s, NEW n \in Nat, NEW k \in Nat, n <= k,
         DOMAIN q \subseteq Nat
  PROVE  /\ Blocked(q, n) => Blocked(q, k)
         /\ LogSent(q, had, s, n) => LogSent(q, had, s, k)
         /\ FilesSent(q, had, s, n) => FilesSent(q, had, s, k)
  <1>1. \A i \in DOMAIN q : i <= n => i <= k
    OBVIOUS
  <1>2. Blocked(q, n) => Blocked(q, k)
    BY <1>1 DEF Blocked
  <1> QED
    BY <1>1, <1>2 DEF LogSent, FilesSent

\* The first message has arrived; what it brought is saved.
LEMMA SentArrives ==
  ASSUME NEW q \in Seq(Shipped), q # <<>>, NEW had, NEW got, NEW s, NEW n \in Nat,
         Head(q).type # "nil",
         had.files => got.files,
         Head(q).type = "FILE" => got.files,
         s.log <= had.log /\ s.detail <= had.detail => s.log <= got.log /\ s.detail <= got.detail,
         Head(q).type = "LOG" /\ s.log <= Head(q).log /\ s.detail <= Head(q).detail
           => s.log <= got.log /\ s.detail <= got.detail
  PROVE  /\ LogSent(q, had, s, n) => LogSent(Tail(q), got, s, n - 1)
         /\ FilesSent(q, had, s, n) => FilesSent(Tail(q), got, s, n - 1)
  <1> DEFINE r == Tail(q)
  <1>1. /\ Head(q) = q[1] /\ DOMAIN q = 1 .. Len(q) /\ Len(q) \in Nat \ {0}
        /\ DOMAIN r = 1 .. Len(q) - 1
        /\ \A i \in DOMAIN r : i + 1 \in DOMAIN q /\ r[i] = q[i + 1]
    BY Tailed
  <1> HIDE DEF r
  <1>2. \A i \in DOMAIN q : i <= n => i = 1 \/ (i - 1 \in DOMAIN r /\ i - 1 <= n - 1 /\ r[i - 1] = q[i])
    BY <1>1
  <1>3. Blocked(q, n) => Blocked(r, n - 1)
    BY <1>1, <1>2 DEF Blocked
  <1>4. LogSent(q, had, s, n) => LogSent(r, got, s, n - 1)
    BY <1>1, <1>2, <1>3 DEF LogSent
  <1>5. FilesSent(q, had, s, n) => FilesSent(r, got, s, n - 1)
    BY <1>1, <1>2, <1>3 DEF FilesSent
  <1> QED
    BY <1>4, <1>5 DEF r

\* A channel cut after its first k messages.
LEMMA CutIs ==
  ASSUME NEW q \in Seq(Shipped), NEW k \in Nat, k <= Len(q)
  PROVE  /\ SubSeq(q, 1, k) \in Seq(Shipped) /\ Len(SubSeq(q, 1, k)) = k
         /\ DOMAIN SubSeq(q, 1, k) = 1 .. k /\ DOMAIN q = 1 .. Len(q) /\ Len(q) \in Nat
         /\ \A i \in 1 .. k : SubSeq(q, 1, k)[i] = q[i]
  OBVIOUS

LEMMA SentBeforeCut ==
  ASSUME NEW q \in Seq(Shipped), NEW k \in Nat, k <= Len(q), NEW had, NEW s, NEW n \in Nat, n <= k
  PROVE  /\ LogSent(q, had, s, n) => LogSent(SubSeq(q, 1, k), had, s, n)
         /\ FilesSent(q, had, s, n) => FilesSent(SubSeq(q, 1, k), had, s, n)
  <1> DEFINE r == SubSeq(q, 1, k)
  <1>1. /\ DOMAIN r = 1 .. k /\ DOMAIN q = 1 .. Len(q) /\ Len(q) \in Nat
        /\ \A i \in 1 .. k : r[i] = q[i]
    BY CutIs
  <1> HIDE DEF r
  <1>2. \A i \in DOMAIN q : i <= n => i \in DOMAIN r /\ r[i] = q[i]
    BY <1>1
  <1>3. Blocked(q, n) => Blocked(r, n)
    BY <1>2 DEF Blocked
  <1>4. LogSent(q, had, s, n) => LogSent(r, had, s, n)
    BY <1>2, <1>3 DEF LogSent
  <1>5. FilesSent(q, had, s, n) => FilesSent(r, had, s, n)
    BY <1>2, <1>3 DEF FilesSent
  <1> QED
    BY <1>4, <1>5 DEF r

-----------------------------------------------------------------------------
(* What the types say of the numbers.                                      *)

LEMMA NumbersAre ==
  ASSUME LogTypes
  PROVE  /\ log \in Nat /\ detail \in Nat /\ master.log \in Nat /\ master.detail \in Nat
         /\ saved.log \in Nat /\ saved.detail \in Nat /\ saved.files \in BOOLEAN /\ master.files \in BOOLEAN
         /\ \A s \in Shippers : shipper[s].log \in Nat /\ shipper[s].detail \in Nat
         /\ DOMAIN shipper = Shippers /\ Loop \in Shippers /\ Execs \subseteq Shippers
  <1>1. log \in Nat /\ detail \in Nat
    BY BoundsAssumption DEF LogTypes, FileTypes
  <1>2. master \in States /\ saved \in States
    BY DEF LogTypes, FileTypes
  <1>3. \A s \in Shippers : shipper[s].log \in Nat /\ shipper[s].detail \in Nat
    BY BoundsAssumption DEF LogTypes, ShipperTypes
  <1>4. DOMAIN shipper = Shippers
    BY DEF LogTypes, ShipperTypes
  <1> QED
    BY <1>1, <1>2, <1>3, <1>4, StateHas DEF Shippers

LEMMA ChannelIs ==
  ASSUME LogTypes
  PROVE  /\ DOMAIN outQ = 1 .. Len(outQ) /\ Len(outQ) \in Nat
         /\ \A i \in DOMAIN outQ :
              /\ outQ[i] \in Shipped
              /\ outQ[i].type = "LOG" =>
                   outQ[i].from \in Shippers /\ outQ[i].log \in Nat /\ outQ[i].detail \in Nat
              /\ outQ[i].type = "RESULT" => outQ[i].status \in States
  <1>1. outQ \in Seq(Shipped)
    BY DEF LogTypes, QueueTypes
  <1>2. /\ DOMAIN outQ = 1 .. Len(outQ) /\ Len(outQ) \in Nat
        /\ \A i \in DOMAIN outQ : outQ[i] \in Shipped
    BY <1>1
  <1> QED
    BY <1>2, ShippedHas, BoundsAssumption

LEMMA StatusIs ==
  ASSUME LogTypes
  PROVE  /\ DOMAIN statusChan = 1 .. Len(statusChan) /\ Len(statusChan) \in Nat
         /\ \A i \in DOMAIN statusChan :
              /\ statusChan[i] \in States
              /\ statusChan[i].log \in Nat /\ statusChan[i].detail \in Nat /\ statusChan[i].files \in BOOLEAN
  <1>1. statusChan \in Seq(States)
    BY DEF LogTypes, QueueTypes
  <1>2. /\ DOMAIN statusChan = 1 .. Len(statusChan) /\ Len(statusChan) \in Nat
        /\ \A i \in DOMAIN statusChan : statusChan[i] \in States
    BY <1>1
  <1> QED
    BY <1>2, StateHas

\* One shipper changes its record.
LEMMA ShipperMoves ==
  ASSUME ShipperTypes, NEW s \in Shippers,
         NEW x \in [at : SenderPlaces \union LoopPlaces, log : 0 .. MaxLog, detail : 0 .. MaxDetail],
         s \in Execs => x.at \in SenderPlaces,
         s = Loop => x.at \in LoopPlaces,
         shipper' = [shipper EXCEPT ![s] = x], shippers' = shippers
  PROVE  /\ ShipperTypes'
         /\ shipper'[s] = x
         /\ \A t \in Shippers : t # s => shipper'[t] = shipper[t]
  <1>1. shipper \in [Shippers -> [at : SenderPlaces \union LoopPlaces, log : 0 .. MaxLog, detail : 0 .. MaxDetail]]
    BY DEF ShipperTypes
  <1>2. /\ shipper' \in [Shippers -> [at : SenderPlaces \union LoopPlaces, log : 0 .. MaxLog, detail : 0 .. MaxDetail]]
        /\ shipper'[s] = x
        /\ \A t \in Shippers : t # s => shipper'[t] = shipper[t]
    BY <1>1
  <1>3. \A e \in Execs : shipper'[e].at \in SenderPlaces
    BY <1>2 DEF ShipperTypes, Shippers
  <1>4. shipper'[Loop].at \in LoopPlaces
    BY <1>2 DEF ShipperTypes, Shippers
  <1>5. shippers' \subseteq Shippers
    BY DEF ShipperTypes
  <1> QED
    BY <1>2, <1>3, <1>4, <1>5 DEF ShipperTypes

\* ShipperMoves where the record changes its place only, or its detail too.
LEMMA PlaceMoves ==
  ASSUME ShipperTypes, NEW s \in Shippers, NEW a \in SenderPlaces \union LoopPlaces,
         s \in Execs => a \in SenderPlaces,
         s = Loop => a \in LoopPlaces,
         shipper' = [shipper EXCEPT ![s] = [@ EXCEPT !.at = a]], shippers' = shippers
  PROVE  /\ ShipperTypes'
         /\ shipper'[s].at = a /\ shipper'[s].log = shipper[s].log /\ shipper'[s].detail = shipper[s].detail
         /\ \A t \in Shippers : t # s => shipper'[t] = shipper[t]
  <1> DEFINE x == [shipper[s] EXCEPT !.at = a]
  <1>1. shipper[s] \in [at : SenderPlaces \union LoopPlaces, log : 0 .. MaxLog, detail : 0 .. MaxDetail]
    BY DEF ShipperTypes
  <1>2. /\ x \in [at : SenderPlaces \union LoopPlaces, log : 0 .. MaxLog, detail : 0 .. MaxDetail]
        /\ x.at = a /\ x.log = shipper[s].log /\ x.detail = shipper[s].detail
    BY <1>1
  <1>3. shipper' = [shipper EXCEPT ![s] = x]
    OBVIOUS
  <1> HIDE DEF x
  <1> QED
    BY <1>2, <1>3, ShipperMoves

LEMMA DetailMoves ==
  ASSUME ShipperTypes, NEW s \in Shippers, NEW a \in SenderPlaces \union LoopPlaces, NEW d \in 0 .. MaxDetail,
         s \in Execs => a \in SenderPlaces,
         s = Loop => a \in LoopPlaces,
         shipper' = [shipper EXCEPT ![s] = [@ EXCEPT !.at = a, !.detail = d]], shippers' = shippers
  PROVE  /\ ShipperTypes'
         /\ shipper'[s].at = a /\ shipper'[s].log = shipper[s].log /\ shipper'[s].detail = d
         /\ \A t \in Shippers : t # s => shipper'[t] = shipper[t]
  <1> DEFINE x == [shipper[s] EXCEPT !.at = a, !.detail = d]
  <1>1. shipper[s] \in [at : SenderPlaces \union LoopPlaces, log : 0 .. MaxLog, detail : 0 .. MaxDetail]
    BY DEF ShipperTypes
  <1>2. /\ x \in [at : SenderPlaces \union LoopPlaces, log : 0 .. MaxLog, detail : 0 .. MaxDetail]
        /\ x.at = a /\ x.log = shipper[s].log /\ x.detail = d
    BY <1>1
  <1>3. shipper' = [shipper EXCEPT ![s] = x]
    OBVIOUS
  <1> HIDE DEF x
  <1> QED
    BY <1>2, <1>3, ShipperMoves

-----------------------------------------------------------------------------
(* The order of what each shipper ships.                                   *)

\* A shipper at r goes to x: what it carries it had, or has read just now.
ReadsOn(r, x) ==
  /\ x.at \in {"readDetail", "put"} => x.log = log \/ (r.at \in {"readDetail", "put"} /\ x.log = r.log)
  /\ x.at = "put" => x.detail = detail \/ (r.at = "put" /\ x.detail = r.detail)

LEMMA NewerReads ==
  ASSUME NEW q, NEW r, NEW x, NEW l, NEW d, NEW s, NEW n,
         l <= log, d <= detail, Newer(q, r, l, d, s, n), ReadsOn(r, x)
  PROVE  Newer(q, x, l, d, s, n)
  BY DEF Newer, ReadsOn

\* Fewer messages: the first has arrived, or the last are lost.
LEMMA NewerTail ==
  ASSUME NEW q \in Seq(Shipped), q # <<>>, NEW r, NEW l, NEW d, NEW s, NEW n \in Nat, NEW k \in Nat,
         n <= k + 1, Newer(q, r, l, d, s, n)
  PROVE  Newer(Tail(q), r, l, d, s, k)
  <1> DEFINE t == Tail(q)
  <1>1. /\ DOMAIN t = 1 .. Len(q) - 1 /\ Len(q) \in Nat
        /\ \A i \in DOMAIN t : i + 1 \in DOMAIN q /\ t[i] = q[i + 1]
    BY Tailed
  <1> HIDE DEF t
  <1>2. ASSUME NEW i \in DOMAIN t, i > k PROVE i + 1 \in DOMAIN q /\ i + 1 > n /\ t[i] = q[i + 1]
    BY <1>1, <1>2
  <1>3. Newer(t, r, l, d, s, k)
    BY <1>2 DEF Newer
  <1> QED
    BY <1>3 DEF t

LEMMA NewerCut ==
  ASSUME NEW q \in Seq(Shipped), NEW k \in Nat, k <= Len(q), NEW r, NEW l, NEW d, NEW s, NEW n,
         Newer(q, r, l, d, s, n)
  PROVE  Newer(SubSeq(q, 1, k), r, l, d, s, n)
  <1> DEFINE t == SubSeq(q, 1, k)
  <1>1. \A i \in DOMAIN t : i \in DOMAIN q /\ t[i] = q[i]
    BY CutIs
  <1> HIDE DEF t
  <1>2. Newer(t, r, l, d, s, n)
    BY <1>1 DEF Newer
  <1> QED
    BY <1>2 DEF t

\* One message more, of another shipper or what the shipper had read.
LEMMA NewerPut ==
  ASSUME NEW q \in Seq(Shipped), NEW m \in Shipped, NEW r, NEW l, NEW d, NEW s, NEW n,
         Newer(q, r, l, d, s, n),
         m.type = "LOG" /\ m.from = s => r.at = "put" /\ m.log = r.log /\ m.detail = r.detail
  PROVE  Newer(Append(q, m), r, l, d, s, n)
  <1> DEFINE t == Append(q, m)
  <1>1. /\ \A i \in DOMAIN t : (i \in DOMAIN q /\ t[i] = q[i]) \/ t[i] = m
    <2>1. /\ DOMAIN q = 1 .. Len(q) /\ Len(q) \in Nat /\ DOMAIN t = 1 .. Len(q) + 1
          /\ \A i \in DOMAIN q : t[i] = q[i]
          /\ t[Len(q) + 1] = m
      BY Appended
    <2> HIDE DEF t
    <2>2. \A i \in DOMAIN t : i \in DOMAIN q \/ i = Len(q) + 1
      BY <2>1
    <2> QED
      BY <2>1, <2>2
  <1> HIDE DEF t
  <1>2. Newer(t, r, l, d, s, n)
    BY <1>1 DEF Newer
  <1> QED
    BY <1>2 DEF t

\* A step that puts and takes nothing.
LEMMA OrderStays ==
  ASSUME LogTypes, ReadInv, OrderInv,
         log \in Nat => log' \in Nat /\ log <= log',
         detail \in Nat => detail' \in Nat /\ detail <= detail',
         \A s \in Shippers : ReadsOn(shipper[s], shipper'[s]),
         UNCHANGED <<outQ, master, shippers>>
  PROVE  ReadInv' /\ OrderInv'
  <1>1. /\ log \in Nat /\ detail \in Nat /\ log' \in Nat /\ detail' \in Nat /\ log <= log' /\ detail <= detail'
        /\ master.log \in Nat /\ master.detail \in Nat
        /\ \A s \in Shippers : shipper[s].log \in Nat /\ shipper[s].detail \in Nat
        /\ \A i \in DOMAIN outQ : outQ[i].type = "LOG" =>
             outQ[i].from \in Shippers /\ outQ[i].log \in Nat /\ outQ[i].detail \in Nat
    BY NumbersAre, ChannelIs
  <1>2. ReadInv'
    <2> SUFFICES ASSUME NEW s \in Shippers
                 PROVE  /\ shipper'[s].at \in {"readDetail", "put"} => shipper'[s].log <= log'
                        /\ shipper'[s].at = "put" => shipper'[s].detail <= detail'
      BY DEF ReadInv
    <2>1. /\ shipper'[s].at \in {"readDetail", "put"} =>
               shipper'[s].log = log \/ (shipper[s].log <= log /\ shipper'[s].log = shipper[s].log)
          /\ shipper'[s].at = "put" =>
               shipper'[s].detail = detail \/ (shipper[s].detail <= detail /\ shipper'[s].detail = shipper[s].detail)
      BY DEF ReadsOn, ReadInv
    <2> QED
      BY <1>1, <2>1
  <1>3. ASSUME NEW i \in DOMAIN outQ, outQ[i].type = "LOG"
        PROVE  /\ Newer(outQ, shipper'[outQ[i].from], outQ[i].log, outQ[i].detail, outQ[i].from, i)
               /\ outQ[i].log <= log' /\ outQ[i].detail <= detail'
    <2>1. /\ Newer(outQ, shipper[outQ[i].from], outQ[i].log, outQ[i].detail, outQ[i].from, i)
          /\ outQ[i].log <= log /\ outQ[i].detail <= detail /\ outQ[i].from \in Shippers
      BY <1>1, <1>3 DEF OrderInv
    <2>2. ReadsOn(shipper[outQ[i].from], shipper'[outQ[i].from])
      BY <2>1
    <2>3. Newer(outQ, shipper'[outQ[i].from], outQ[i].log, outQ[i].detail, outQ[i].from, i)
      BY <2>1, <2>2, NewerReads
    <2> QED
      BY <1>1, <1>3, <2>1, <2>3
  <1>4. ASSUME NEW s \in Shippers, shippers \subseteq {s}
        PROVE  Newer(outQ, shipper'[s], master.log, master.detail, s, 0)
    BY <1>4, NewerReads DEF OrderInv
  <1>5. master.log <= log' /\ master.detail <= detail'
    BY <1>1 DEF OrderInv
  <1> QED
    BY <1>2, <1>3, <1>4, <1>5 DEF OrderInv

\* A step that puts the message m.
LEMMA OrderPuts ==
  ASSUME LogTypes, ReadInv, OrderInv, NEW m \in Shipped, outQ' = Append(outQ, m),
         m.type = "LOG" =>
           /\ shipper[m.from].at = "put" /\ shipper'[m.from].at \notin {"readDetail", "put"}
           /\ m.log = shipper[m.from].log /\ m.detail = shipper[m.from].detail,
         \A s \in Shippers : ReadsOn(shipper[s], shipper'[s]),
         UNCHANGED <<log, detail, master, shippers>>
  PROVE  ReadInv' /\ OrderInv'
  <1>1. outQ \in Seq(Shipped)
    BY DEF LogTypes, QueueTypes
  <1> DEFINE n == Len(outQ)
  <1>2. /\ DOMAIN outQ = 1 .. n /\ n \in Nat /\ DOMAIN outQ' = 1 .. n + 1
        /\ \A i \in DOMAIN outQ : outQ'[i] = outQ[i]
        /\ outQ'[n + 1] = m
    BY <1>1, Appended
  <1>3. /\ log \in Nat /\ detail \in Nat
        /\ \A s \in Shippers : shipper[s].log \in Nat /\ shipper[s].detail \in Nat
        /\ \A i \in DOMAIN outQ : outQ[i].type = "LOG" => outQ[i].from \in Shippers
    BY NumbersAre, ChannelIs
  <1>4. m.type = "LOG" => m.from \in Shippers
    BY ShippedHas
  <1>5. ReadInv'
    BY <1>3 DEF ReadInv, ReadsOn
  <1>6. ASSUME NEW s \in Shippers, NEW l, NEW d, NEW k, l <= log, d <= detail, Newer(outQ, shipper[s], l, d, s, k)
        PROVE  Newer(outQ', shipper'[s], l, d, s, k)
    <2>1. m.type = "LOG" /\ m.from = s =>
            shipper[s].at = "put" /\ m.log = shipper[s].log /\ m.detail = shipper[s].detail
      OBVIOUS
    <2>2. Newer(outQ', shipper[s], l, d, s, k)
      BY <1>1, <1>6, <2>1, NewerPut
    <2> QED
      BY <1>6, <2>2, NewerReads
  <1>7. ASSUME NEW i \in DOMAIN outQ', outQ'[i].type = "LOG"
        PROVE  /\ Newer(outQ', shipper'[outQ'[i].from], outQ'[i].log, outQ'[i].detail, outQ'[i].from, i)
               /\ outQ'[i].log <= log /\ outQ'[i].detail <= detail
    <2>1. CASE i \in DOMAIN outQ
      <3>1. outQ'[i] = outQ[i]
        BY <1>2, <2>1
      <3>2. /\ Newer(outQ, shipper[outQ[i].from], outQ[i].log, outQ[i].detail, outQ[i].from, i)
            /\ outQ[i].log <= log /\ outQ[i].detail <= detail /\ outQ[i].from \in Shippers
        BY <1>3, <1>7, <2>1, <3>1 DEF OrderInv
      <3>3. Newer(outQ', shipper'[outQ[i].from], outQ[i].log, outQ[i].detail, outQ[i].from, i)
        BY <1>6, <3>2
      <3> QED
        BY <3>1, <3>2, <3>3
    <2>2. CASE i = n + 1
      <3>1. outQ'[i] = m
        BY <1>2, <2>2
      <3>2. m.type = "LOG"
        BY <1>7, <3>1
      <3>3. m.log <= log /\ m.detail <= detail
        BY <1>4, <3>2 DEF ReadInv
      <3>4. \A j \in DOMAIN outQ' : ~(j > i)
        BY <1>2, <2>2
      <3>5. Newer(outQ', shipper'[m.from], m.log, m.detail, m.from, i)
        BY <3>2, <3>4 DEF Newer
      <3> QED
        BY <3>1, <3>3, <3>5
    <2>3. i \in DOMAIN outQ \/ i = n + 1
      BY <1>2
    <2> QED
      BY <2>1, <2>2, <2>3
  <1>8. ASSUME NEW s \in Shippers, shippers \subseteq {s}
        PROVE  Newer(outQ', shipper'[s], master.log, master.detail, s, 0)
    BY <1>6, <1>8 DEF OrderInv
  <1>9. master.log <= log /\ master.detail <= detail
    BY DEF OrderInv
  <1> QED
    BY <1>5, <1>7, <1>8, <1>9 DEF OrderInv

\* The master's loop takes a message.
LEMMA OrderTaken ==
  ASSUME LogTypes, ReadInv, OrderInv, MasterTakes
  PROVE  ReadInv' /\ OrderInv'
  <1> DEFINE m == Head(outQ)
  <1>1. outQ \in Seq(Shipped)
    BY DEF LogTypes, QueueTypes
  <1>2. outQ # <<>> /\ outQ' = Tail(outQ) /\ UNCHANGED <<log, detail, shipper>>
    BY DEF MasterTakes, Received, worker, shipping
  <1>3. /\ m = outQ[1] /\ 1 \in DOMAIN outQ /\ DOMAIN outQ = 1 .. Len(outQ) /\ Len(outQ) \in Nat
        /\ DOMAIN outQ' = 1 .. Len(outQ) - 1
        /\ \A i \in DOMAIN outQ' : i + 1 \in DOMAIN outQ /\ outQ'[i] = outQ[i + 1]
    BY <1>1, <1>2, Tailed
  <1>4. \/ m.type = "LOG" /\ master'.log = m.log /\ master'.detail = m.detail /\ shippers' = shippers \union {m.from}
        \/ master'.log = master.log /\ master'.detail = master.detail /\ shippers' = shippers
    <2>1. master \in States
      BY DEF LogTypes, FileTypes
    <2>2. CASE /\ m.type = "LOG"
               /\ master' = [master EXCEPT !.log = m.log, !.detail = m.detail]
               /\ shippers' = shippers \union {m.from}
      BY <2>1, <2>2 DEF States
    <2>3. CASE master' = [master EXCEPT !.files = TRUE] /\ UNCHANGED shippers
      BY <2>1, <2>3 DEF States
    <2>4. CASE UNCHANGED <<master, shippers>>
      BY <2>4
    <2> QED
      BY <2>2, <2>3, <2>4 DEF MasterTakes, Received
  <1> HIDE DEF m
  <1>5. ReadInv'
    BY <1>2 DEF ReadInv
  <1>6. ASSUME NEW i \in DOMAIN outQ', outQ'[i].type = "LOG"
        PROVE  /\ Newer(outQ', shipper'[outQ'[i].from], outQ'[i].log, outQ'[i].detail, outQ'[i].from, i)
               /\ outQ'[i].log <= log' /\ outQ'[i].detail <= detail'
    <2>1. i + 1 \in DOMAIN outQ /\ outQ'[i] = outQ[i + 1] /\ i \in Nat /\ i + 1 \in Nat
      BY <1>3
    <2>2. /\ Newer(outQ, shipper[outQ[i + 1].from], outQ[i + 1].log, outQ[i + 1].detail, outQ[i + 1].from, i + 1)
          /\ outQ[i + 1].log <= log /\ outQ[i + 1].detail <= detail
      BY <1>6, <2>1 DEF OrderInv
    <2>3. i + 1 <= i + 1
      BY <2>1
    <2>4. Newer(Tail(outQ), shipper[outQ[i + 1].from], outQ[i + 1].log, outQ[i + 1].detail, outQ[i + 1].from, i)
      BY <1>1, <1>2, <2>1, <2>2, <2>3, NewerTail
    <2> QED
      BY <1>2, <2>1, <2>2, <2>4
  <1>7. ASSUME NEW s \in Shippers, shippers' \subseteq {s}
        PROVE  Newer(outQ', shipper'[s], master'.log, master'.detail, s, 0)
    <2>1. CASE /\ m.type = "LOG" /\ master'.log = m.log /\ master'.detail = m.detail
               /\ shippers' = shippers \union {m.from}
      <3>1. m.from = s
        BY <1>7, <2>1
      <3>2. Newer(outQ, shipper[s], m.log, m.detail, s, 1)
        BY <1>3, <2>1, <3>1 DEF OrderInv
      <3>3. Newer(Tail(outQ), shipper[s], m.log, m.detail, s, 0)
        BY <1>1, <1>2, <3>2, NewerTail
      <3> QED
        BY <1>2, <2>1, <3>3
    <2>2. CASE master'.log = master.log /\ master'.detail = master.detail /\ shippers' = shippers
      <3>1. Newer(outQ, shipper[s], master.log, master.detail, s, 0)
        BY <1>7, <2>2 DEF OrderInv
      <3>2. Newer(Tail(outQ), shipper[s], master.log, master.detail, s, 0)
        BY <1>1, <1>2, <3>1, NewerTail
      <3> QED
        BY <1>2, <2>2, <3>2
    <2> QED
      BY <1>4, <2>1, <2>2
  <1>8. master'.log <= log' /\ master'.detail <= detail'
    BY <1>2, <1>3, <1>4 DEF OrderInv
  <1> QED
    BY <1>5, <1>6, <1>7, <1>8 DEF OrderInv

LEMMA OrderCut ==
  ASSUME LogTypes, ReadInv, OrderInv, NEW k \in Nat, k <= Len(outQ), outQ' = SubSeq(outQ, 1, k),
         UNCHANGED <<log, detail, shipper, master, shippers>>
  PROVE  ReadInv' /\ OrderInv'
  <1>1. outQ \in Seq(Shipped)
    BY DEF LogTypes, QueueTypes
  <1>2. \A i \in DOMAIN outQ' : i \in DOMAIN outQ /\ outQ'[i] = outQ[i]
    BY <1>1, CutIs
  <1>3. ReadInv'
    BY DEF ReadInv
  <1>4. ASSUME NEW i \in DOMAIN outQ', outQ'[i].type = "LOG"
        PROVE  /\ Newer(outQ', shipper'[outQ'[i].from], outQ'[i].log, outQ'[i].detail, outQ'[i].from, i)
               /\ outQ'[i].log <= log' /\ outQ'[i].detail <= detail'
    <2>1. i \in DOMAIN outQ /\ outQ'[i] = outQ[i]
      BY <1>2
    <2>2. /\ Newer(outQ, shipper[outQ[i].from], outQ[i].log, outQ[i].detail, outQ[i].from, i)
          /\ outQ[i].log <= log /\ outQ[i].detail <= detail
      BY <1>4, <2>1 DEF OrderInv
    <2>3. Newer(SubSeq(outQ, 1, k), shipper[outQ[i].from], outQ[i].log, outQ[i].detail, outQ[i].from, i)
      BY <1>1, <2>2, NewerCut
    <2> QED
      BY <2>1, <2>2, <2>3
  <1>5. ASSUME NEW s \in Shippers, shippers' \subseteq {s}
        PROVE  Newer(outQ', shipper'[s], master'.log, master'.detail, s, 0)
    <2>1. Newer(outQ, shipper[s], master.log, master.detail, s, 0)
      BY <1>5 DEF OrderInv
    <2>2. Newer(SubSeq(outQ, 1, k), shipper[s], master.log, master.detail, s, 0)
      BY <1>1, <2>1, NewerCut
    <2> QED
      BY <2>2
  <1>6. master'.log <= log' /\ master'.detail <= detail'
    BY DEF OrderInv
  <1> QED
    BY <1>3, <1>4, <1>5, <1>6 DEF OrderInv

-----------------------------------------------------------------------------
(* What comes before a RESULT.                                             *)

\* A step that leaves the channel and what the master has had.
LEMMA ResultStays ==
  ASSUME ResultInv, UNCHANGED <<outQ, saved, master>>
  PROVE  ResultInv'
  BY DEF ResultInv

LEMMA LoopStays ==
  ASSUME LogTypes, LoopInv, UNCHANGED <<outQ, saved, up>>, shipper'[Loop] = shipper[Loop],
         shipper[Loop].at # "idle" => statusChan'[1] = statusChan[1]
  PROVE  LoopInv'
  BY DEF LoopInv

\* A step that puts the message m: if it is a RESULT, what comes before it is there.
LEMMA ResultPuts ==
  ASSUME LogTypes, ResultInv, NEW m \in Shipped, outQ' = Append(outQ, m), UNCHANGED <<saved, master>>,
         m.type = "RESULT" =>
           LogSent(outQ, saved, m.status, Len(outQ)) /\ FilesSent(outQ, saved, m.status, Len(outQ))
  PROVE  ResultInv'
  <1>1. outQ \in Seq(Shipped)
    BY DEF LogTypes, QueueTypes
  <1> DEFINE n == Len(outQ)
  <1>2. /\ DOMAIN outQ = 1 .. n /\ n \in Nat /\ DOMAIN outQ' = 1 .. n + 1
        /\ \A i \in DOMAIN outQ : outQ'[i] = outQ[i]
        /\ outQ'[n + 1] = m
    BY <1>1, Appended
  <1>3. ASSUME NEW i \in DOMAIN outQ', outQ'[i].type = "RESULT"
        PROVE  LogSent(outQ', saved, outQ'[i].status, i - 1) /\ FilesSent(outQ', saved, outQ'[i].status, i - 1)
    <2>1. i - 1 \in Nat /\ (i \in DOMAIN outQ \/ i = n + 1) /\ (i = n + 1 => i - 1 = n)
      BY <1>2
    <2>2. LogSent(outQ, saved, outQ'[i].status, i - 1) /\ FilesSent(outQ, saved, outQ'[i].status, i - 1)
      <3>1. CASE i \in DOMAIN outQ
        BY <1>2, <1>3, <3>1 DEF ResultInv
      <3>2. CASE i = n + 1
        BY <1>2, <1>3, <2>1, <3>2
      <3> QED
        BY <2>1, <3>1, <3>2
    <2> QED
      BY <1>1, <2>1, <2>2, SentGrows
  <1> QED
    BY <1>3 DEF ResultInv

\* A message more: what was before the end still is, and what m stands for is.
LEMMA SentPuts ==
  ASSUME LogTypes, NEW m \in Shipped, outQ' = Append(outQ, m), NEW had, NEW s
  PROVE  /\ LogSent(outQ, had, s, Len(outQ)) => LogSent(outQ', had, s, Len(outQ'))
         /\ FilesSent(outQ, had, s, Len(outQ)) => FilesSent(outQ', had, s, Len(outQ'))
         /\ m.type = "nil" \/ (m.type = "LOG" /\ s.log <= m.log /\ s.detail <= m.detail)
              => LogSent(outQ', had, s, Len(outQ'))
         /\ m.type = "FILE" => FilesSent(outQ', had, s, Len(outQ'))
  <1>1. outQ \in Seq(Shipped)
    BY DEF LogTypes, QueueTypes
  <1>2. Len(outQ) \in Nat /\ Len(outQ') = Len(outQ) + 1
    BY <1>1, Appended
  <1>3. PICK n \in Nat : n = Len(outQ)
    BY <1>2
  <1>4. DOMAIN outQ' \subseteq Nat
    BY <1>1, Appended
  <1>5. n + 1 \in Nat /\ n <= n + 1
    OBVIOUS
  <1>6. /\ LogSent(outQ, had, s, n) => LogSent(outQ', had, s, n)
        /\ FilesSent(outQ, had, s, n) => FilesSent(outQ', had, s, n)
    BY <1>1, SentGrows
  <1>7. /\ LogSent(outQ', had, s, n) => LogSent(outQ', had, s, n + 1)
        /\ FilesSent(outQ', had, s, n) => FilesSent(outQ', had, s, n + 1)
    BY <1>4, <1>5, SentFurther
  <1>8. n + 1 \in DOMAIN outQ' /\ n + 1 <= n + 1 /\ outQ'[n + 1] = m
    BY <1>1, <1>3, Appended
  <1>9. /\ m.type = "nil" \/ (m.type = "LOG" /\ s.log <= m.log /\ s.detail <= m.detail) => LogSent(outQ', had, s, n + 1)
        /\ m.type = "FILE" => FilesSent(outQ', had, s, n + 1)
    BY <1>8 DEF LogSent, FilesSent, Blocked
  <1> QED
    BY <1>2, <1>3, <1>6, <1>7, <1>9

\* A sender puts a message while handleDoneJob is where it was.
LEMMA LoopPutsStay ==
  ASSUME LogTypes, LoopInv, NEW m \in Shipped, outQ' = Append(outQ, m), UNCHANGED <<saved, up, statusChan>>,
         shipper'[Loop] = shipper[Loop]
  PROVE  LoopInv'
  <1>1. ASSUME NEW s
        PROVE  /\ LogSent(outQ, saved, s, Len(outQ)) => LogSent(outQ', saved, s, Len(outQ'))
               /\ FilesSent(outQ, saved, s, Len(outQ)) => FilesSent(outQ', saved, s, Len(outQ'))
    BY SentPuts
  <1> QED
    BY <1>1 DEF LoopInv

\* The master's loop takes a message: what it stood for is saved.
LEMMA SavedIs ==
  ASSUME LogTypes, ResultInv, MasterTakes
  PROVE  /\ master' \in States /\ saved' \in States /\ shippers' \subseteq Shippers
         /\ saved'.files = master'.files
         /\ saved.log <= saved'.log /\ saved.detail <= saved'.detail
         /\ master.files => master'.files
         /\ Head(outQ).type # "nil"
         /\ Head(outQ).type = "LOG" => Head(outQ).log <= saved'.log /\ Head(outQ).detail <= saved'.detail
         /\ Head(outQ).type = "FILE" => saved'.files
  <1>1. PICK m \in Shipped : m = Head(outQ)
    <2>1. outQ # <<>> /\ outQ \in Seq(Shipped)
      BY DEF MasterTakes, LogTypes, QueueTypes
    <2> QED
      BY <2>1, Tailed
  <1>2. Received(m)
    BY <1>1 DEF MasterTakes
  <1>3. master \in States /\ saved \in States /\ saved.files = master.files /\ shippers \subseteq Shippers
    BY DEF LogTypes, FileTypes, ShipperTypes, ResultInv
  <1>4. /\ master' \in States /\ shippers' \subseteq Shippers /\ m.type # "nil"
        /\ master.files => master'.files
        /\ m.type = "LOG" => master'.log = m.log /\ master'.detail = m.detail
        /\ m.type = "FILE" => master'.files
    <2>1. CASE /\ m.type = "LOG"
               /\ master' = [master EXCEPT !.log = m.log, !.detail = m.detail]
               /\ shippers' = shippers \union {m.from}
      BY <1>3, <2>1, ShippedHas DEF States
    <2>2. CASE m.type = "FILE" /\ master' = [master EXCEPT !.files = TRUE] /\ UNCHANGED shippers
      BY <1>3, <2>2 DEF States
    <2>3. CASE m.type = "RESULT" /\ UNCHANGED <<master, shippers>>
      BY <1>3, <2>3
    <2> QED
      BY <1>2, <2>1, <2>2, <2>3 DEF Received
  <1>5. saved' = [log |-> IF master'.log > saved.log THEN master'.log ELSE saved.log,
                  detail |-> IF master'.detail > saved.detail THEN master'.detail ELSE saved.detail,
                  files |-> master'.files]
    BY <1>2 DEF Received
  <1>6. /\ saved'.log \in 0 .. MaxLog /\ saved'.detail \in 0 .. MaxDetail /\ saved'.files \in BOOLEAN
        /\ saved' = [log |-> saved'.log, detail |-> saved'.detail, files |-> saved'.files]
    BY <1>3, <1>4, <1>5 DEF States
  <1>7. saved' \in States
    BY <1>6 DEF States
  <1>8. /\ saved.log <= saved'.log /\ saved.detail <= saved'.detail
        /\ master'.log <= saved'.log /\ master'.detail <= saved'.detail
    <2>1. /\ saved.log \in Nat /\ saved.detail \in Nat /\ master'.log \in Nat /\ master'.detail \in Nat
      BY <1>3, <1>4, StateHas
    <2>2. /\ saved'.log = IF master'.log > saved.log THEN master'.log ELSE saved.log
          /\ saved'.detail = IF master'.detail > saved.detail THEN master'.detail ELSE saved.detail
      BY <1>5
    <2> QED
      BY ONLY <2>1, <2>2
  <1>9. saved'.files = master'.files
    BY <1>5
  <1> QED
    BY <1>1, <1>4, <1>7, <1>8, <1>9

LEMMA SentTaken ==
  ASSUME LogTypes, ResultInv, MasterTakes, NEW s \in States, NEW n \in Nat
  PROVE  /\ LogSent(outQ, saved, s, n) => LogSent(outQ', saved', s, n - 1)
         /\ FilesSent(outQ, saved, s, n) => FilesSent(outQ', saved', s, n - 1)
  <1>1. outQ \in Seq(Shipped) /\ outQ # <<>> /\ outQ' = Tail(outQ)
    BY DEF LogTypes, QueueTypes, MasterTakes
  <1>2. PICK had, got, m : had = saved /\ got = saved' /\ m = Head(outQ)
    OBVIOUS
  <1>3. m \in Shipped
    BY <1>1, <1>2, Tailed
  <1>4. /\ had \in States /\ got \in States
        /\ had.files => got.files
        /\ had.log <= got.log /\ had.detail <= got.detail
        /\ m.type # "nil"
        /\ m.type = "LOG" => m.log <= got.log /\ m.detail <= got.detail
        /\ m.type = "FILE" => got.files
    BY <1>2, SavedIs DEF ResultInv, LogTypes, FileTypes
  <1>5. /\ s.log \in Nat /\ s.detail \in Nat /\ had.log \in Nat /\ had.detail \in Nat /\ got.log \in Nat /\ got.detail \in Nat
        /\ m.type = "LOG" => m.log \in Nat /\ m.detail \in Nat
    BY <1>3, <1>4, StateHas, ShippedHas, BoundsAssumption
  <1>6. /\ s.log <= had.log /\ s.detail <= had.detail => s.log <= got.log /\ s.detail <= got.detail
        /\ m.type = "LOG" /\ s.log <= m.log /\ s.detail <= m.detail => s.log <= got.log /\ s.detail <= got.detail
    BY ONLY <1>4, <1>5
  <1>7. /\ LogSent(outQ, had, s, n) => LogSent(Tail(outQ), got, s, n - 1)
        /\ FilesSent(outQ, had, s, n) => FilesSent(Tail(outQ), got, s, n - 1)
    BY <1>1, <1>2, <1>4, <1>6, SentArrives
  <1> QED
    BY <1>1, <1>2, <1>7

LEMMA ResultTaken ==
  ASSUME LogTypes, StatusInv, LoopInv, ResultInv, MasterTakes
  PROVE  ResultInv' /\ LoopInv'
  <1>1. outQ \in Seq(Shipped) /\ outQ # <<>> /\ outQ' = Tail(outQ)
    BY DEF LogTypes, QueueTypes, MasterTakes
  <1>2. /\ Len(outQ) \in Nat \ {0} /\ Len(outQ') = Len(outQ) - 1
        /\ DOMAIN outQ' = 1 .. Len(outQ) - 1
        /\ \A i \in DOMAIN outQ' : i + 1 \in DOMAIN outQ /\ outQ'[i] = outQ[i + 1]
    BY <1>1, Tailed
  <1>3. ASSUME NEW i \in DOMAIN outQ', outQ'[i].type = "RESULT"
        PROVE  LogSent(outQ', saved', outQ'[i].status, i - 1) /\ FilesSent(outQ', saved', outQ'[i].status, i - 1)
    <2>1. PICK s : s = outQ[i + 1].status
      OBVIOUS
    <2>2. i + 1 \in DOMAIN outQ /\ outQ'[i] = outQ[i + 1] /\ i \in Nat /\ (i + 1) - 1 = i
      BY <1>2
    <2>3. s \in States
      BY <1>3, <2>1, <2>2, ChannelIs
    <2>4. LogSent(outQ, saved, s, i) /\ FilesSent(outQ, saved, s, i)
      BY <1>3, <2>1, <2>2 DEF ResultInv
    <2> QED
      BY <2>1, <2>2, <2>3, <2>4, SentTaken
  <1>4. ResultInv'
    BY <1>3, SavedIs DEF ResultInv
  <1>5. LoopInv'
    <2>1. UNCHANGED <<statusChan, shipper, up>>
      BY DEF MasterTakes, Received, shipping
    <2>2. PICK s, n : s = statusChan[1] /\ n = Len(outQ)
      OBVIOUS
    <2>3. ASSUME shipper[Loop].at # "idle" PROVE s \in States
      BY <2>2, <2>3, StatusIs DEF StatusInv
    <2>4. n \in Nat /\ Len(outQ') = n - 1
      BY <1>2, <2>2
    <2>5. ASSUME shipper[Loop].at # "idle"
          PROVE  /\ LogSent(outQ, saved, s, n) => LogSent(outQ', saved', s, n - 1)
                 /\ FilesSent(outQ, saved, s, n) => FilesSent(outQ', saved', s, n - 1)
      BY <2>3, <2>4, <2>5, SentTaken
    <2> QED
      BY <2>1, <2>2, <2>4, <2>5 DEF LoopInv
  <1> QED
    BY <1>4, <1>5

LEMMA ResultCut ==
  ASSUME LogTypes, ResultInv, NEW k \in Nat, k <= Len(outQ), outQ' = SubSeq(outQ, 1, k), UNCHANGED <<saved, master>>
  PROVE  ResultInv'
  <1>1. outQ \in Seq(Shipped)
    BY DEF LogTypes, QueueTypes
  <1>2. /\ DOMAIN outQ' = 1 .. k
        /\ \A i \in DOMAIN outQ' : i \in DOMAIN outQ /\ outQ'[i] = outQ[i]
    BY <1>1, CutIs
  <1>3. ASSUME NEW i \in DOMAIN outQ', outQ'[i].type = "RESULT"
        PROVE  LogSent(outQ', saved', outQ'[i].status, i - 1) /\ FilesSent(outQ', saved', outQ'[i].status, i - 1)
    <2>1. i \in DOMAIN outQ /\ outQ'[i] = outQ[i] /\ i - 1 \in Nat /\ i - 1 <= k
      BY <1>2
    <2>2. LogSent(outQ, saved, outQ[i].status, i - 1) /\ FilesSent(outQ, saved, outQ[i].status, i - 1)
      BY <1>3, <2>1 DEF ResultInv
    <2> QED
      BY <1>1, <2>1, <2>2, SentBeforeCut
  <1> QED
    BY <1>3 DEF ResultInv

-----------------------------------------------------------------------------
(* The steps of WorkerLogs.                                                *)

LEMMA Same ==
  ASSUME NEW r
  PROVE  ReadsOn(r, r)
  BY DEF ReadsOn

\* The files grow, the statuses stay.
LEMMA StatusStays ==
  ASSUME LogTypes, StatusInv, UNCHANGED statusChan,
         log' \in Nat /\ log <= log', detail' \in Nat /\ detail <= detail', files => files',
         shipper'[Loop].at # "idle" => statusChan # <<>>
  PROVE  StatusInv'
  <1>1. log \in Nat /\ detail \in Nat
    BY NumbersAre
  <1>2. ASSUME NEW i \in DOMAIN statusChan
        PROVE  /\ statusChan[i].log <= log' /\ statusChan[i].detail <= detail'
               /\ statusChan[i].files => files'
    <2>1. /\ statusChan[i].log \in Nat /\ statusChan[i].detail \in Nat
          /\ statusChan[i].log <= log /\ statusChan[i].detail <= detail
          /\ statusChan[i].files => files
      BY <1>2, StatusIs DEF StatusInv
    <2> QED
      BY <1>1, <2>1
  <1> QED
    BY <1>2 DEF StatusInv

\* A status is said.
LEMMA StatusSaid ==
  ASSUME LogTypes, StatusInv, UNCHANGED <<log, detail, files, shipper>>,
         \/ statusChan' = Append(statusChan, Had(log, detail, files))
         \/ statusChan' = statusChan \o <<Had(log, detail, files), Had(log, detail, files)>>
  PROVE  /\ statusChan' \in Seq(States) /\ StatusInv'
         /\ shipper[Loop].at # "idle" => statusChan'[1] = statusChan[1]
  <1> DEFINE s == Had(log, detail, files)
  <1>1. s \in States /\ s.log = log /\ s.detail = detail /\ s.files = files
    BY DEF Had, States, LogTypes, FileTypes
  <1>2. statusChan \in Seq(States)
    BY DEF LogTypes, QueueTypes
  <1> HIDE DEF s
  <1>3. /\ statusChan' \in Seq(States) /\ statusChan' # <<>>
        /\ DOMAIN statusChan = 1 .. Len(statusChan) /\ Len(statusChan) \in Nat
        /\ \A i \in DOMAIN statusChan' : (i \in DOMAIN statusChan /\ statusChan'[i] = statusChan[i]) \/ statusChan'[i] = s
        /\ statusChan # <<>> => statusChan'[1] = statusChan[1]
    <2>1. CASE statusChan' = Append(statusChan, s)
      BY <1>1, <1>2, <2>1
    <2>2. CASE statusChan' = statusChan \o <<s, s>>
      <3>1. <<s, s>> \in Seq(States) /\ Len(<<s, s>>) = 2 /\ <<s, s>>[1] = s /\ <<s, s>>[2] = s
        BY <1>1
      <3>2. PICK t \in Seq(States) : t = <<s, s>> /\ Len(t) = 2 /\ t[1] = s /\ t[2] = s
        BY <3>1
      <3>3. statusChan' = statusChan \o t
        BY <2>2, <3>2
      <3>4. /\ statusChan \o t \in Seq(States) /\ Len(statusChan \o t) = Len(statusChan) + Len(t)
            /\ \A i \in 1 .. Len(statusChan) + Len(t) :
                 (statusChan \o t)[i] = IF i <= Len(statusChan) THEN statusChan[i] ELSE t[i - Len(statusChan)]
        BY <1>2, ConcatProperties
      <3>5. DOMAIN statusChan = 1 .. Len(statusChan) /\ Len(statusChan) \in Nat
        BY <1>2
      <3>6. statusChan' \in Seq(States) /\ DOMAIN statusChan' = 1 .. Len(statusChan) + 2
        BY <3>2, <3>3, <3>4
      <3>7. \A i \in DOMAIN statusChan' :
              statusChan'[i] = IF i <= Len(statusChan) THEN statusChan[i] ELSE t[i - Len(statusChan)]
        BY <3>2, <3>3, <3>4, <3>6
      <3>8. \A i \in DOMAIN statusChan' : (i \in DOMAIN statusChan /\ i <= Len(statusChan))
                                            \/ (~(i <= Len(statusChan)) /\ i - Len(statusChan) \in {1, 2})
        BY <3>5, <3>6
      <3>9. \A i \in DOMAIN statusChan' : (i \in DOMAIN statusChan /\ statusChan'[i] = statusChan[i]) \/ statusChan'[i] = s
        BY <3>2, <3>7, <3>8
      <3>10. statusChan' # <<>>
        BY <3>5, <3>6
      <3>11. statusChan # <<>> => 1 \in DOMAIN statusChan' /\ 1 <= Len(statusChan)
        BY <1>2, <3>5, <3>6
      <3>12. statusChan # <<>> => statusChan'[1] = statusChan[1]
        BY <3>7, <3>11
      <3> QED
        BY <3>5, <3>6, <3>9, <3>10, <3>12
    <2> QED
      BY <2>1, <2>2 DEF s
  <1>4. log \in Nat /\ detail \in Nat
    BY NumbersAre
  <1>5. ASSUME NEW i \in DOMAIN statusChan'
        PROVE  /\ statusChan'[i].log <= log' /\ statusChan'[i].detail <= detail'
               /\ statusChan'[i].files => files'
    <2>1. CASE i \in DOMAIN statusChan /\ statusChan'[i] = statusChan[i]
      BY <2>1 DEF StatusInv
    <2>2. CASE statusChan'[i] = s
      BY <1>1, <1>4, <2>2
    <2> QED
      BY <1>3, <1>5, <2>1, <2>2
  <1>6. StatusInv'
    BY <1>3, <1>5 DEF StatusInv
  <1> QED
    BY <1>3, <1>6 DEF StatusInv

LEMMA RunKeeps ==
  ASSUME LogIInv, NEW e \in Execs, Executor(e)
  PROVE  LogIInv'
  <1> USE DEF LogIInv
  <1>1. UNCHANGED <<stops, doneJob, errors, outQ, up, master, saved, shippers, told>>
    BY DEF Executor, Accept, RunBegins, RunGoesOn, RunEnds, Dropped, shipping, receiving
  <1>2. ResultInv'
    BY <1>1, ResultStays
  <1>3. ShipperTypes' /\ shipper'[Loop] = shipper[Loop] /\ \A s \in Shippers : ReadsOn(shipper[s], shipper'[s])
    <2>1. CASE Accept(e)
      <3>1. shipper' = [shipper EXCEPT ![e] = [@ EXCEPT !.at = "check"]]
        BY <2>1 DEF Accept
      <3>2. ShipperTypes /\ e \in Shippers /\ Loop \in Shippers /\ e # Loop
        BY LoopAssumption DEF LogTypes, Shippers
      <3>3. "check" \in SenderPlaces
        BY DEF SenderPlaces
      <3>4. /\ ShipperTypes' /\ shipper'[e].at = "check"
            /\ \A t \in Shippers : t # e => shipper'[t] = shipper[t]
        BY <1>1, <3>1, <3>2, <3>3, PlaceMoves
      <3>5. ReadsOn(shipper[e], shipper'[e])
        BY <3>4 DEF ReadsOn
      <3> QED
        BY <3>2, <3>4, <3>5, Same
    <2>2. CASE UNCHANGED shipper
      <3>1. ShipperTypes'
        BY <1>1, <2>2 DEF LogTypes, ShipperTypes
      <3> QED
        BY <2>2, <3>1, Same
    <2> QED
      BY <2>1, <2>2 DEF Executor, RunBegins, RunGoesOn, RunEnds, Dropped, shipping
  <1>4. /\ log' \in 0 .. MaxLog /\ log <= log' /\ detail' \in 0 .. MaxDetail /\ detail <= detail'
        /\ files' \in BOOLEAN /\ (files => files')
        /\ run' \in [Execs -> {"none", "accepted", "running", "ended", "dropped"}]
    <2>1. /\ log \in 0 .. MaxLog /\ detail \in 0 .. MaxDetail /\ files \in BOOLEAN
          /\ run \in [Execs -> {"none", "accepted", "running", "ended", "dropped"}]
      BY DEF LogTypes, FileTypes
    <2>2. \A x \in {"none", "accepted", "running", "ended", "dropped"} :
            [run EXCEPT ![e] = x] \in [Execs -> {"none", "accepted", "running", "ended", "dropped"}]
      BY <2>1
    <2>3. run' \in [Execs -> {"none", "accepted", "running", "ended", "dropped"}]
      BY <2>1, <2>2 DEF Executor, Accept, RunBegins, RunGoesOn, RunEnds, Dropped
    <2>4. \/ UNCHANGED <<log, detail, files>>
          \/ log < MaxLog /\ log' = log + 1 /\ UNCHANGED <<detail, files>>
          \/ detail < MaxDetail /\ detail' = detail + 1 /\ UNCHANGED <<log, files>>
          \/ files' = TRUE /\ UNCHANGED <<log, detail>>
      BY DEF Executor, Accept, RunBegins, RunGoesOn, RunEnds, Dropped
    <2>5. log' \in 0 .. MaxLog /\ log <= log' /\ detail' \in 0 .. MaxDetail /\ detail <= detail'
      <3>1. /\ log' = log \/ (log < MaxLog /\ log' = log + 1)
            /\ detail' = detail \/ (detail < MaxDetail /\ detail' = detail + 1)
        BY <2>4
      <3>2. MaxLog \in Nat /\ MaxDetail \in Nat
        BY BoundsAssumption
      <3>3. log \in 0 .. MaxLog /\ detail \in 0 .. MaxDetail
        BY <2>1
      <3> QED
        BY ONLY <3>1, <3>2, <3>3
    <2>6. files' \in BOOLEAN /\ (files => files')
      BY <2>1, <2>4
    <2> QED
      BY <2>3, <2>5, <2>6
  <1>5. log' \in Nat /\ detail' \in Nat
    BY <1>4, BoundsAssumption
  <1>6. ReadInv' /\ OrderInv'
    BY <1>1, <1>3, <1>4, <1>5, OrderStays
  <1>7. statusChan' \in Seq(States) /\ StatusInv' /\ (shipper[Loop].at # "idle" => statusChan'[1] = statusChan[1])
    <2>1. CASE RunEnds(e)
      <3>1. /\ UNCHANGED <<log, detail, files, shipper>>
            /\ \/ statusChan' = Append(statusChan, Had(log, detail, files))
               \/ statusChan' = statusChan \o <<Had(log, detail, files), Had(log, detail, files)>>
        BY <2>1 DEF RunEnds, shipping
      <3> QED
        BY <3>1, StatusSaid
    <2>2. CASE UNCHANGED statusChan
      <3>1. statusChan \in Seq(States)
        BY DEF LogTypes, QueueTypes
      <3>2. shipper'[Loop].at # "idle" => statusChan # <<>>
        BY <1>3 DEF StatusInv
      <3>3. StatusInv'
        BY <1>4, <1>5, <2>2, <3>2, StatusStays
      <3> QED
        BY <2>2, <3>1, <3>3
    <2> QED
      BY <2>1, <2>2 DEF Executor, Accept, RunBegins, RunGoesOn, Dropped
  <1>8. LoopInv'
    BY <1>1, <1>3, <1>7, LoopStays
  <1>9. LogTypes'
    <2>1. FileTypes'
      BY <1>1, <1>4 DEF LogTypes, FileTypes
    <2>2. QueueTypes'
      BY <1>1, <1>7 DEF LogTypes, QueueTypes
    <2> QED
      BY <1>3, <2>1, <2>2 DEF LogTypes
  <1> QED
    BY <1>2, <1>6, <1>7, <1>8, <1>9

LEMMA StopKeeps ==
  ASSUME LogIInv, Stop
  PROVE  LogIInv'
  <1> USE DEF LogIInv
  <1>1. /\ UNCHANGED <<run, log, detail, files, doneJob, shipper, errors, outQ, up, master, saved, shippers, told>>
        /\ stops < MaxStops /\ stops' = stops + 1
        /\ statusChan' = Append(statusChan, Had(log, detail, files))
    BY DEF Stop, shipping, receiving
  <1>2. statusChan' \in Seq(States) /\ StatusInv' /\ (shipper[Loop].at # "idle" => statusChan'[1] = statusChan[1])
    BY <1>1, StatusSaid
  <1>3. ResultInv'
    BY <1>1, ResultStays
  <1>4. LoopInv'
    BY <1>1, <1>2, LoopStays
  <1>5. ReadInv' /\ OrderInv'
    <2>1. log' \in Nat /\ log <= log' /\ detail' \in Nat /\ detail <= detail'
      BY <1>1, NumbersAre
    <2> QED
      BY <1>1, <2>1, Same, OrderStays
  <1>6. LogTypes'
    <2>1. stops' \in 0 .. MaxStops
      BY <1>1, BoundsAssumption DEF LogTypes, FileTypes
    <2>2. FileTypes'
      BY <1>1, <2>1 DEF LogTypes, FileTypes
    <2>3. QueueTypes'
      BY <1>1, <1>2 DEF LogTypes, QueueTypes
    <2>4. ShipperTypes'
      BY <1>1 DEF LogTypes, ShipperTypes
    <2> QED
      BY <2>2, <2>3, <2>4 DEF LogTypes
  <1> QED
    BY <1>2, <1>3, <1>4, <1>5, <1>6

\* A step of a shipper that puts and takes nothing, and is of handleDoneJob
\* only if what handleDoneJob then has read is as new as the status.
LEMMA ShipperStepKeeps ==
  ASSUME LogIInv, ShipperTypes', \A s \in Shippers : ReadsOn(shipper[s], shipper'[s]),
         doneJob' \in BOOLEAN, errors' \in [Execs -> 0 .. (MaxErrors + 1)],
         shipper'[Loop].at # "idle" => statusChan # <<>>,
         LoopInv',
         UNCHANGED <<worker, statusChan, outQ, up, receiving>>
  PROVE  LogIInv'
  <1> USE DEF LogIInv
  <1>1. UNCHANGED <<run, stops, log, detail, files, statusChan, outQ, up, master, saved, shippers, told>>
    BY DEF worker, receiving
  <1>2. log' \in Nat /\ log <= log' /\ detail' \in Nat /\ detail <= detail'
    BY <1>1, NumbersAre
  <1>3. ResultInv'
    BY <1>1, ResultStays
  <1>4. ReadInv' /\ OrderInv'
    BY <1>1, <1>2, OrderStays
  <1>5. StatusInv'
    BY <1>1, <1>2, StatusStays
  <1>6. LogTypes'
    <2>1. FileTypes'
      BY <1>1 DEF LogTypes, FileTypes
    <2>2. QueueTypes'
      BY <1>1 DEF LogTypes, QueueTypes
    <2> QED
      BY <2>1, <2>2 DEF LogTypes
  <1> QED
    BY <1>3, <1>4, <1>5, <1>6

LEMMA SenderKeeps ==
  ASSUME LogIInv, NEW e \in Execs, Sender(e)
  PROVE  LogIInv'
  <1> USE DEF LogIInv
  <1>1. /\ ShipperTypes /\ e \in Shippers /\ Loop \in Shippers /\ e # Loop
        /\ errors \in [Execs -> 0 .. (MaxErrors + 1)] /\ doneJob \in BOOLEAN
        /\ log \in 0 .. MaxLog /\ detail \in 0 .. MaxDetail
    BY LoopAssumption DEF LogTypes, Shippers, FileTypes, QueueTypes
  <1>2. {"check", "readLog", "readDetail", "put", "end"} \subseteq SenderPlaces
    BY DEF SenderPlaces
  <1>3. ASSUME UNCHANGED <<worker, statusChan, outQ, up, receiving>>,
               doneJob' \in BOOLEAN, errors' \in [Execs -> 0 .. (MaxErrors + 1)],
               ShipperTypes', ReadsOn(shipper[e], shipper'[e]),
               \A t \in Shippers : t # e => shipper'[t] = shipper[t]
        PROVE  LogIInv'
    <2>1. \A s \in Shippers : ReadsOn(shipper[s], shipper'[s])
      BY <1>3, Same
    <2>2. shipper'[Loop] = shipper[Loop] /\ UNCHANGED <<outQ, saved, up, statusChan>>
      BY <1>1, <1>3 DEF receiving
    <2>3. LoopInv'
      BY <2>2, LoopStays
    <2>4. shipper'[Loop].at # "idle" => statusChan # <<>>
      BY <2>2 DEF StatusInv
    <2> QED
      BY <1>3, <2>1, <2>3, <2>4, ShipperStepKeeps
  <1>4. ASSUME NEW a \in {"check", "readLog", "end"},
               shipper' = [shipper EXCEPT ![e] = [@ EXCEPT !.at = a]], UNCHANGED shippers
        PROVE  /\ ShipperTypes' /\ ReadsOn(shipper[e], shipper'[e])
               /\ \A t \in Shippers : t # e => shipper'[t] = shipper[t]
    <2>1. /\ ShipperTypes' /\ shipper'[e].at = a
          /\ \A t \in Shippers : t # e => shipper'[t] = shipper[t]
      BY <1>1, <1>2, <1>4, PlaceMoves
    <2> QED
      BY <2>1 DEF ReadsOn
  <1>5. ASSUME ReadFails(e), UNCHANGED <<worker, statusChan, doneJob, outQ, up, receiving>>
        PROVE  LogIInv'
    <2>1. PICK a \in {"check", "readLog", "end"} :
            shipper' = [shipper EXCEPT ![e] = [@ EXCEPT !.at = a]]
      BY <1>5 DEF ReadFails
    <2>2. /\ ShipperTypes' /\ ReadsOn(shipper[e], shipper'[e])
          /\ \A t \in Shippers : t # e => shipper'[t] = shipper[t]
      BY <1>4, <1>5, <2>1 DEF receiving
    <2>3. errors[e] \in 0 .. (MaxErrors + 1) /\ MaxErrors \in Nat
      BY <1>1, BoundsAssumption
    <2>4. (IF errors[e] > MaxErrors THEN errors[e] ELSE errors[e] + 1) \in 0 .. (MaxErrors + 1)
      BY ONLY <2>3
    <2>5. errors' \in [Execs -> 0 .. (MaxErrors + 1)]
      BY <1>1, <1>5, <2>4 DEF ReadFails
    <2> QED
      BY <1>1, <1>3, <1>5, <2>2, <2>5
  <1>6. CASE SenderCheck(e)
    <2>1. PICK a \in {"check", "readLog", "end"} :
            shipper' = [shipper EXCEPT ![e] = [@ EXCEPT !.at = a]]
      BY <1>6 DEF SenderCheck
    <2>2. doneJob' \in BOOLEAN /\ UNCHANGED <<worker, statusChan, errors, outQ, up, receiving>>
      BY <1>6 DEF SenderCheck
    <2>3. /\ ShipperTypes' /\ ReadsOn(shipper[e], shipper'[e])
          /\ \A t \in Shippers : t # e => shipper'[t] = shipper[t]
      BY <1>4, <2>1, <2>2 DEF receiving
    <2> QED
      BY <1>1, <1>3, <2>2, <2>3
  <1>7. CASE SenderReadLog(e)
    <2>1. UNCHANGED <<worker, statusChan, doneJob, outQ, up, receiving>>
      BY <1>7 DEF SenderReadLog
    <2>2. CASE ReadFails(e)
      BY <1>5, <2>1, <2>2
    <2>3. CASE /\ shipper' = [shipper EXCEPT ![e] = [at |-> "readDetail", log |-> log, detail |-> 0]]
               /\ errors' = errors
      <3>1. PICK x \in [at : SenderPlaces \union LoopPlaces, log : 0 .. MaxLog, detail : 0 .. MaxDetail] :
              x = [at |-> "readDetail", log |-> log, detail |-> 0]
        <4>1. 0 \in 0 .. MaxDetail
          BY BoundsAssumption
        <4> QED
          BY <1>1, <1>2, <4>1
      <3>2. /\ ShipperTypes' /\ shipper'[e] = x
            /\ \A t \in Shippers : t # e => shipper'[t] = shipper[t]
        <4>1. x.at \in SenderPlaces /\ UNCHANGED shippers
          BY <1>2, <2>1, <3>1 DEF receiving
        <4> QED
          BY <1>1, <2>3, <3>1, <4>1, ShipperMoves
      <3>3. ReadsOn(shipper[e], shipper'[e])
        BY <3>1, <3>2 DEF ReadsOn
      <3> QED
        BY <1>1, <1>3, <2>1, <2>3, <3>2, <3>3
    <2> QED
      BY <1>7, <2>2, <2>3 DEF SenderReadLog
  <1>8. CASE SenderReadDetail(e)
    <2>1. UNCHANGED <<worker, statusChan, doneJob, outQ, up, receiving>> /\ shipper[e].at = "readDetail"
      BY <1>8 DEF SenderReadDetail
    <2>2. CASE ReadFails(e)
      BY <1>5, <2>1, <2>2
    <2>3. CASE /\ shipper' = [shipper EXCEPT ![e] = [@ EXCEPT !.at = "put", !.detail = detail]]
               /\ errors' = errors
      <3>1. /\ ShipperTypes' /\ shipper'[e].at = "put" /\ shipper'[e].log = shipper[e].log
            /\ shipper'[e].detail = detail
            /\ \A t \in Shippers : t # e => shipper'[t] = shipper[t]
        <4>1. UNCHANGED shippers
          BY <2>1 DEF receiving
        <4> QED
          BY <1>1, <1>2, <2>3, <4>1, DetailMoves
      <3>2. ReadsOn(shipper[e], shipper'[e])
        BY <2>1, <3>1 DEF ReadsOn
      <3> QED
        BY <1>1, <1>3, <2>1, <2>3, <3>1, <3>2
    <2> QED
      BY <1>8, <2>2, <2>3 DEF SenderReadDetail
  <1>9. CASE SenderPut(e)
    <2>1. /\ shipper[e].at = "put" /\ Len(outQ) < QueueBound /\ outQ' = Append(outQ, Log(e))
          /\ shipper' = [shipper EXCEPT ![e] = [@ EXCEPT !.at = "check"]]
          /\ UNCHANGED <<run, stops, log, detail, files, statusChan, doneJob, errors, up, master, saved, shippers, told>>
      BY <1>9 DEF SenderPut, Put, worker, receiving
    <2>2. PICK m : m = Log(e)
      OBVIOUS
    <2>3. /\ m \in Shipped /\ m.type = "LOG" /\ m.from = e
          /\ m.log = shipper[e].log /\ m.detail = shipper[e].detail
      <3>1. shipper[e].log \in 0 .. MaxLog /\ shipper[e].detail \in 0 .. MaxDetail
        BY <1>1 DEF ShipperTypes
      <3> QED
        BY <1>1, <2>2, <3>1 DEF Log, Shipped
    <2>4. /\ ShipperTypes' /\ shipper'[e].at = "check"
          /\ \A t \in Shippers : t # e => shipper'[t] = shipper[t]
      BY <1>1, <1>2, <2>1, PlaceMoves
    <2>5. \A s \in Shippers : ReadsOn(shipper[s], shipper'[s])
      BY <2>4, Same DEF ReadsOn
    <2>6. shipper'[Loop] = shipper[Loop]
      BY <1>1, <2>4
    <2>7. ReadInv' /\ OrderInv'
      BY <2>1, <2>2, <2>3, <2>4, <2>5, OrderPuts
    <2>8. ResultInv'
      BY <2>1, <2>2, <2>3, ResultPuts
    <2>9. LoopInv'
      BY <2>1, <2>2, <2>3, <2>6, LoopPutsStay
    <2>10. StatusInv'
      BY <2>1, <2>6 DEF StatusInv
    <2>11. LogTypes'
      <3>1. FileTypes'
        BY <2>1 DEF LogTypes, FileTypes
      <3>2. outQ' \in Seq(Shipped) /\ Len(outQ') = Len(outQ) + 1 /\ Len(outQ) \in Nat
        BY <2>1, <2>2, <2>3, Appended DEF LogTypes, QueueTypes
      <3>3. Len(outQ') <= QueueBound
        BY <2>1, <3>2, BoundsAssumption
      <3>4. QueueTypes'
        BY <2>1, <3>2, <3>3 DEF LogTypes, QueueTypes
      <3> QED
        BY <2>4, <3>1, <3>4 DEF LogTypes
    <2> QED
      BY <2>7, <2>8, <2>9, <2>10, <2>11
  <1> QED
    BY <1>6, <1>7, <1>8, <1>9 DEF Sender

\* handleDoneJob takes a status and reads log and detail for it.
LEMMA DoneReadsKeeps ==
  ASSUME LogIInv, DoneTakes \/ DoneReadLog \/ DoneReadDetail
  PROVE  LogIInv'
  <1> USE DEF LogIInv
  <1>1. /\ ShipperTypes /\ Loop \in Shippers /\ Loop \notin Execs
        /\ errors \in [Execs -> 0 .. (MaxErrors + 1)] /\ doneJob \in BOOLEAN
        /\ log \in 0 .. MaxLog /\ detail \in 0 .. MaxDetail
    BY LoopAssumption DEF LogTypes, Shippers, FileTypes, QueueTypes
  <1>2. {"readLog", "readDetail", "put", "putNil"} \subseteq LoopPlaces
    BY DEF LoopPlaces
  <1>3. ASSUME UNCHANGED <<worker, statusChan, errors, outQ, up, receiving>>, doneJob' \in BOOLEAN,
               ShipperTypes', ReadsOn(shipper[Loop], shipper'[Loop]),
               \A t \in Shippers : t # Loop => shipper'[t] = shipper[t],
               statusChan # <<>>,
               LoopInv'
        PROVE  LogIInv'
    <2>1. \A s \in Shippers : ReadsOn(shipper[s], shipper'[s])
      BY <1>3, Same
    <2> QED
      BY <1>1, <1>3, <2>1, ShipperStepKeeps
  <1>4. ASSUME statusChan # <<>>
        PROVE  statusChan[1].log <= log /\ statusChan[1].detail <= detail
    <2>1. 1 \in DOMAIN statusChan
      <3>1. statusChan \in Seq(States)
        BY DEF LogTypes, QueueTypes
      <3> QED
        BY <1>4, <3>1
    <2> QED
      BY <2>1 DEF StatusInv
  <1>5. CASE DoneTakes
    <2>1. /\ shipper' = [shipper EXCEPT ![Loop] = [@ EXCEPT !.at = "readLog"]]
          /\ doneJob' = TRUE /\ statusChan # <<>>
          /\ UNCHANGED <<worker, statusChan, errors, outQ, up, receiving>>
      BY <1>5 DEF DoneTakes
    <2>2. /\ ShipperTypes' /\ shipper'[Loop].at = "readLog"
          /\ \A t \in Shippers : t # Loop => shipper'[t] = shipper[t]
      <3>1. UNCHANGED shippers
        BY <2>1 DEF receiving
      <3> QED
        BY <1>1, <1>2, <2>1, <3>1, PlaceMoves
    <2>3. ReadsOn(shipper[Loop], shipper'[Loop]) /\ LoopInv'
      BY <2>2 DEF ReadsOn, LoopInv
    <2> QED
      BY <1>3, <2>1, <2>2, <2>3
  <1>6. CASE DoneReadLog
    <2>1. /\ shipper' = [shipper EXCEPT ![Loop] =
                          [at |-> IF log = 0 THEN "putNil" ELSE "readDetail", log |-> log, detail |-> 0]]
          /\ shipper[Loop].at = "readLog"
          /\ UNCHANGED <<worker, statusChan, doneJob, errors, outQ, up, receiving>>
      BY <1>6 DEF DoneReadLog
    <2>2. PICK x \in [at : SenderPlaces \union LoopPlaces, log : 0 .. MaxLog, detail : 0 .. MaxDetail] :
            x = [at |-> IF log = 0 THEN "putNil" ELSE "readDetail", log |-> log, detail |-> 0]
      <3>1. PICK a \in {"putNil", "readDetail"} : a = IF log = 0 THEN "putNil" ELSE "readDetail"
        OBVIOUS
      <3>2. 0 \in 0 .. MaxDetail
        BY BoundsAssumption
      <3>3. [at |-> a, log |-> log, detail |-> 0]
              \in [at : SenderPlaces \union LoopPlaces, log : 0 .. MaxLog, detail : 0 .. MaxDetail]
        BY <1>1, <1>2, <3>2
      <3> QED
        BY <3>1, <3>3
    <2>3. x.at \in {"putNil", "readDetail"} /\ x.log = log
      BY <2>2
    <2>4. /\ ShipperTypes' /\ shipper'[Loop] = x
          /\ \A t \in Shippers : t # Loop => shipper'[t] = shipper[t]
      <3>1. UNCHANGED shippers /\ x.at \in LoopPlaces
        BY <1>2, <2>1, <2>3 DEF receiving
      <3> QED
        BY <1>1, <2>1, <2>2, <3>1, ShipperMoves
    <2>5. ReadsOn(shipper[Loop], shipper'[Loop])
      BY <2>3, <2>4 DEF ReadsOn
    <2>6. statusChan # <<>>
      BY <2>1 DEF StatusInv
    <2>7. LoopInv'
      BY <1>4, <2>1, <2>3, <2>4, <2>6 DEF LoopInv
    <2> QED
      BY <1>1, <1>3, <2>1, <2>4, <2>5, <2>6, <2>7
  <1>7. CASE DoneReadDetail
    <2>1. PICK a \in {"putNil", "put"} :
            shipper' = [shipper EXCEPT ![Loop] = [@ EXCEPT !.at = a, !.detail = detail]]
      BY <1>7 DEF DoneReadDetail
    <2>2. /\ shipper[Loop].at = "readDetail"
          /\ UNCHANGED <<worker, statusChan, doneJob, errors, outQ, up, receiving>>
      BY <1>7 DEF DoneReadDetail
    <2>3. /\ ShipperTypes' /\ shipper'[Loop].at = a /\ shipper'[Loop].log = shipper[Loop].log
          /\ shipper'[Loop].detail = detail
          /\ \A t \in Shippers : t # Loop => shipper'[t] = shipper[t]
      <3>1. UNCHANGED shippers
        BY <2>2 DEF receiving
      <3> QED
        BY <1>1, <1>2, <2>1, <3>1, DetailMoves
    <2>4. ReadsOn(shipper[Loop], shipper'[Loop])
      BY <2>1, <2>2, <2>3 DEF ReadsOn
    <2>5. statusChan # <<>>
      BY <2>2 DEF StatusInv
    <2>6. LoopInv'
      <3>1. UNCHANGED <<statusChan, up>>
        BY <2>2
      <3>2. up => statusChan[1].log <= shipper[Loop].log
        BY <2>2 DEF LoopInv
      <3>3. shipper'[Loop].at \notin {"readDetail", "putFiles", "putResult"}
        BY <2>1, <2>3
      <3> QED
        BY <1>4, <2>3, <2>5, <3>1, <3>2, <3>3 DEF LoopInv
    <2> QED
      BY <1>1, <1>3, <2>2, <2>3, <2>4, <2>5, <2>6
  <1> QED
    BY <1>5, <1>6, <1>7

\* handleDoneJob puts the message m and goes on to the place a.
LEMMA DonePutKeeps ==
  ASSUME LogIInv, NEW m \in Shipped, Put(m), NEW a \in {"idle", "putFiles", "putResult"},
         m.type = "LOG" => m = Log(Loop) /\ shipper[Loop].at = "put",
         m.type = "RESULT" =>
           LogSent(outQ, saved, m.status, Len(outQ)) /\ FilesSent(outQ, saved, m.status, Len(outQ)),
         ShipperTypes', shipper'[Loop].at = a,
         \A t \in Shippers : t # Loop => shipper'[t] = shipper[t],
         LoopInv', StatusInv', statusChan' \in Seq(States),
         UNCHANGED <<worker, doneJob, errors, up, receiving>>
  PROVE  LogIInv'
  <1> USE DEF LogIInv
  <1>1. /\ Len(outQ) < QueueBound /\ outQ' = Append(outQ, m)
        /\ UNCHANGED <<run, stops, log, detail, files, doneJob, errors, up, master, saved, shippers, told>>
    BY DEF Put, worker, receiving
  <1>2. m.type = "LOG" => /\ m.from = Loop /\ shipper[m.from].at = "put"
                          /\ m.log = shipper[m.from].log /\ m.detail = shipper[m.from].detail
    BY DEF Log
  <1>3. \A s \in Shippers : ReadsOn(shipper[s], shipper'[s])
    BY Same DEF ReadsOn
  <1>4. shipper'[Loop].at \notin {"readDetail", "put"}
    OBVIOUS
  <1>5. ReadInv' /\ OrderInv'
    BY <1>1, <1>2, <1>3, <1>4, OrderPuts
  <1>6. ResultInv'
    BY <1>1, ResultPuts
  <1>7. LogTypes'
    <2>1. FileTypes'
      BY <1>1 DEF LogTypes, FileTypes
    <2>2. outQ' \in Seq(Shipped) /\ Len(outQ') = Len(outQ) + 1 /\ Len(outQ) \in Nat
      BY <1>1, Appended DEF LogTypes, QueueTypes
    <2>3. Len(outQ') <= QueueBound
      BY <1>1, <2>2, BoundsAssumption
    <2>4. QueueTypes'
      BY <1>1, <2>2, <2>3 DEF LogTypes, QueueTypes
    <2> QED
      BY <2>1, <2>4 DEF LogTypes
  <1> QED
    BY <1>5, <1>6, <1>7

LEMMA DonePutsKeeps ==
  ASSUME LogIInv, DonePutLog \/ DonePutFiles
  PROVE  LogIInv'
  <1> USE DEF LogIInv
  <1>1. ShipperTypes /\ Loop \in Shippers /\ Loop \notin Execs
    BY LoopAssumption DEF LogTypes, Shippers
  <1>2. UNCHANGED <<log, detail, files, statusChan, saved, up, shippers>> /\ UNCHANGED <<worker, doneJob, errors, up, receiving>>
    BY DEF DonePutLog, DonePutFiles, worker, receiving
  <1>3. shipper[Loop].at # "idle"
    BY DEF DonePutLog, DonePutFiles
  <1>4. statusChan \in Seq(States) /\ statusChan # <<>>
    BY <1>3 DEF LogTypes, QueueTypes, StatusInv
  <1>5. StatusInv'
    BY <1>2, <1>4 DEF StatusInv
  <1>6. PICK s \in States : s = statusChan[1]
    BY <1>4
  <1>7. CASE DonePutLog
    <2>1. PICK m : m = IF shipper[Loop].at = "put" THEN Log(Loop) ELSE [type |-> "nil"]
      OBVIOUS
    <2>2. /\ shipper[Loop].at \in {"put", "putNil"} /\ Put(m)
          /\ shipper' = [shipper EXCEPT ![Loop] = [@ EXCEPT !.at = "putFiles"]]
      BY <1>7, <2>1 DEF DonePutLog
    <2>3. /\ m \in Shipped
          /\ \/ m.type = "nil"
             \/ /\ m.type = "LOG" /\ m = Log(Loop) /\ shipper[Loop].at = "put"
                /\ m.log = shipper[Loop].log /\ m.detail = shipper[Loop].detail
      <3>1. shipper[Loop].log \in 0 .. MaxLog /\ shipper[Loop].detail \in 0 .. MaxDetail
        BY <1>1 DEF ShipperTypes
      <3> QED
        BY <1>1, <2>1, <2>2, <3>1 DEF Log, Shipped
    <2>4. /\ ShipperTypes' /\ shipper'[Loop].at = "putFiles"
          /\ \A t \in Shippers : t # Loop => shipper'[t] = shipper[t]
      <3>1. "putFiles" \in LoopPlaces
        BY DEF LoopPlaces
      <3> QED
        BY <1>1, <1>2, <2>2, <3>1, PlaceMoves
    <2>5. LoopInv'
      <3>1. outQ' = Append(outQ, m)
        BY <2>2 DEF Put
      <3>2. up => m.type = "nil" \/ (m.type = "LOG" /\ s.log <= m.log /\ s.detail <= m.detail)
        BY <1>6, <2>2, <2>3 DEF LoopInv
      <3>3. PICK had : had = saved
        OBVIOUS
      <3>4. up => LogSent(outQ', had, s, Len(outQ'))
        BY <2>3, <3>1, <3>2, SentPuts
      <3> QED
        BY <1>2, <1>6, <2>4, <3>3, <3>4 DEF LoopInv
    <2> QED
      BY <1>2, <1>4, <1>5, <2>2, <2>3, <2>4, <2>5, DonePutKeeps
  <1>8. CASE DonePutFiles
    <2>1. /\ up /\ shipper[Loop].at = "putFiles"
          /\ shipper' = [shipper EXCEPT ![Loop] = [@ EXCEPT !.at = "putResult"]]
          /\ IF files THEN Put([type |-> "FILE"]) ELSE outQ' = outQ
      BY <1>8 DEF DonePutFiles
    <2>2. /\ ShipperTypes' /\ shipper'[Loop].at = "putResult"
          /\ \A t \in Shippers : t # Loop => shipper'[t] = shipper[t]
      <3>1. "putResult" \in LoopPlaces
        BY DEF LoopPlaces
      <3> QED
        BY <1>1, <1>2, <2>1, <3>1, PlaceMoves
    <2>3. PICK had : had = saved
      OBVIOUS
    <2>4. LogSent(outQ, had, s, Len(outQ))
      BY <1>6, <2>1, <2>3 DEF LoopInv
    <2>5. s.files => files
      BY <1>4, <1>6 DEF StatusInv
    <2>6. CASE files
      <3>1. PICK m \in Shipped : m = [type |-> "FILE"]
        BY DEF Shipped
      <3>2. Put(m) /\ outQ' = Append(outQ, m) /\ m.type = "FILE"
        BY <2>1, <2>6, <3>1 DEF Put
      <3>3. LogSent(outQ', had, s, Len(outQ')) /\ FilesSent(outQ', had, s, Len(outQ'))
        BY <2>4, <3>2, SentPuts
      <3>4. LoopInv'
        BY <1>2, <1>6, <2>2, <2>3, <3>3 DEF LoopInv
      <3> QED
        BY <1>2, <1>4, <1>5, <2>2, <3>2, <3>4, DonePutKeeps
    <2>7. CASE ~files
      <3>1. outQ' = outQ
        BY <2>1, <2>7
      <3>2. FilesSent(outQ, had, s, Len(outQ))
        BY <2>5, <2>7 DEF FilesSent
      <3>3. LoopInv'
        BY <1>2, <1>6, <2>2, <2>3, <2>4, <3>1, <3>2 DEF LoopInv
      <3>4. \A t \in Shippers : ReadsOn(shipper[t], shipper'[t])
        BY <2>2, Same DEF ReadsOn
      <3>5. doneJob' \in BOOLEAN /\ errors' \in [Execs -> 0 .. (MaxErrors + 1)]
        BY <1>2 DEF LogTypes, FileTypes, QueueTypes
      <3> QED
        BY <1>2, <1>4, <2>2, <3>1, <3>3, <3>4, <3>5, ShipperStepKeeps
    <2> QED
      BY <2>6, <2>7
  <1> QED
    BY <1>7, <1>8

LEMMA DonePutResultKeeps ==
  ASSUME LogIInv, DonePutResult
  PROVE  LogIInv'
  <1> USE DEF LogIInv
  <1>1. /\ up /\ shipper[Loop].at = "putResult" /\ Put([type |-> "RESULT", status |-> Head(statusChan)])
        /\ statusChan' = Tail(statusChan) /\ shipper' = [shipper EXCEPT ![Loop] = Idle]
        /\ UNCHANGED <<worker, doneJob, errors, up, receiving>>
        /\ UNCHANGED <<log, detail, files, saved, shippers>>
    BY DEF DonePutResult, worker, receiving
  <1>2. ShipperTypes /\ Loop \in Shippers /\ Loop \notin Execs
    BY LoopAssumption DEF LogTypes, Shippers
  <1>3. statusChan \in Seq(States) /\ statusChan # <<>>
    BY <1>1 DEF LogTypes, QueueTypes, StatusInv
  <1>4. /\ statusChan' \in Seq(States) /\ Head(statusChan) \in States /\ Head(statusChan) = statusChan[1]
        /\ \A i \in DOMAIN statusChan' : i + 1 \in DOMAIN statusChan /\ statusChan'[i] = statusChan[i + 1]
    BY <1>1, <1>3, Tailed
  <1>5. PICK m \in Shipped : /\ m = [type |-> "RESULT", status |-> Head(statusChan)]
                             /\ m.type = "RESULT" /\ m.status = statusChan[1]
    <2>1. PICK s \in States : s = Head(statusChan) /\ s = statusChan[1]
      BY <1>4
    <2>2. PICK m : m = [type |-> "RESULT", status |-> s]
      OBVIOUS
    <2>3. m \in Shipped /\ m.type = "RESULT" /\ m.status = s
      <3>1. m \in [type : {"RESULT"}, status : States]
        BY <2>2
      <3> QED
        BY <2>2, <3>1 DEF Shipped
    <2> QED
      BY <2>1, <2>2, <2>3
  <1>6. /\ ShipperTypes' /\ shipper'[Loop].at = "idle"
        /\ \A t \in Shippers : t # Loop => shipper'[t] = shipper[t]
    <2>1. PICK x \in [at : SenderPlaces \union LoopPlaces, log : 0 .. MaxLog, detail : 0 .. MaxDetail] :
            x = Idle /\ x.at = "idle" /\ x.at \in LoopPlaces
      <3>1. 0 \in 0 .. MaxLog /\ 0 \in 0 .. MaxDetail
        BY BoundsAssumption
      <3>2. Idle \in [at : {"idle"}, log : 0 .. MaxLog, detail : 0 .. MaxDetail]
        BY <3>1 DEF Idle
      <3>3. "idle" \in LoopPlaces
        BY DEF LoopPlaces
      <3> QED
        BY <3>2, <3>3
    <2> QED
      BY <1>1, <1>2, <2>1, ShipperMoves
  <1>7. LoopInv'
    BY <1>6 DEF LoopInv
  <1>8. StatusInv'
    BY <1>1, <1>4, <1>6 DEF StatusInv
  <1>9. LogSent(outQ, saved, m.status, Len(outQ)) /\ FilesSent(outQ, saved, m.status, Len(outQ))
    BY <1>1, <1>5 DEF LoopInv
  <1>10. Put(m) /\ "idle" \in {"idle", "putFiles", "putResult"}
    BY <1>1, <1>5
  <1> QED
    BY <1>1, <1>4, <1>5, <1>6, <1>7, <1>8, <1>9, <1>10, DonePutKeeps

LEMMA MasterKeeps ==
  ASSUME LogIInv, MasterTakes
  PROVE  LogIInv'
  <1> USE DEF LogIInv
  <1>1. /\ UNCHANGED <<run, stops, log, detail, files, statusChan, doneJob, shipper, errors, up>>
        /\ outQ # <<>> /\ outQ' = Tail(outQ)
    BY DEF MasterTakes, Received, worker, shipping
  <1>2. ResultInv' /\ LoopInv'
    BY ResultTaken
  <1>3. ReadInv' /\ OrderInv'
    BY OrderTaken
  <1>4. StatusInv'
    BY <1>1 DEF StatusInv
  <1>5. LogTypes'
    <2>1. told' \in BOOLEAN
      BY DEF MasterTakes, Received, LogTypes, FileTypes
    <2>2. FileTypes'
      BY <1>1, <2>1, SavedIs DEF LogTypes, FileTypes
    <2>3. ShipperTypes'
      BY <1>1, SavedIs DEF LogTypes, ShipperTypes
    <2>4. outQ' \in Seq(Shipped) /\ Len(outQ') = Len(outQ) - 1 /\ Len(outQ) \in Nat /\ Len(outQ) <= QueueBound
      BY <1>1, Tailed DEF LogTypes, QueueTypes
    <2>5. Len(outQ') <= QueueBound
      BY <2>4, BoundsAssumption
    <2>6. QueueTypes'
      BY <1>1, <2>4, <2>5 DEF LogTypes, QueueTypes
    <2> QED
      BY <2>2, <2>3, <2>6 DEF LogTypes
  <1> QED
    BY <1>2, <1>3, <1>4, <1>5

LEMMA PanicKeeps ==
  ASSUME LogIInv, ClientPanics
  PROVE  LogIInv'
  <1> USE DEF LogIInv
  <1>1. UNCHANGED <<run, stops, log, detail, files, statusChan, doneJob, shipper, errors, master, saved, shippers, told>>
        /\ up' = FALSE
    BY DEF ClientPanics, worker, shipping, receiving
  <1>2. outQ \in Seq(Shipped) /\ Len(outQ) <= QueueBound /\ DOMAIN outQ = 1 .. Len(outQ) /\ Len(outQ) \in Nat
    BY ChannelIs DEF LogTypes, QueueTypes
  <1>3. PICK k \in Nat : k <= Len(outQ) /\ outQ' = SubSeq(outQ, 1, k)
    <2>1. PICK i \in DOMAIN outQ, n \in 0 .. QueueBound : n < i /\ outQ' = SubSeq(outQ, 1, n)
      BY DEF ClientPanics
    <2>2. n \in Nat /\ n <= Len(outQ)
      BY <1>2, <2>1, BoundsAssumption
    <2> QED
      BY <2>1, <2>2
  <1>4. ResultInv'
    BY <1>1, <1>3, ResultCut
  <1>5. ReadInv' /\ OrderInv'
    BY <1>1, <1>3, OrderCut
  <1>6. LoopInv'
    BY <1>1 DEF LoopInv
  <1>7. StatusInv'
    BY <1>1 DEF StatusInv
  <1>8. LogTypes'
    <2>1. FileTypes'
      BY <1>1 DEF LogTypes, FileTypes
    <2>2. ShipperTypes'
      BY <1>1 DEF LogTypes, ShipperTypes
    <2>3. outQ' \in Seq(Shipped) /\ Len(outQ') = k
      BY <1>2, <1>3, CutIs
    <2>4. Len(outQ') <= QueueBound
      BY <1>2, <1>3, <2>3, BoundsAssumption
    <2>5. QueueTypes'
      BY <1>1, <2>3, <2>4 DEF LogTypes, QueueTypes
    <2> QED
      BY <2>1, <2>2, <2>5 DEF LogTypes
  <1> QED
    BY <1>4, <1>5, <1>6, <1>7, <1>8

LEMMA LogStarts == Init => LogIInv
  <1> SUFFICES ASSUME Init PROVE LogIInv
    OBVIOUS
  <1>1. 0 \in 0 .. MaxLog /\ 0 \in 0 .. MaxDetail /\ 0 \in 0 .. MaxStops /\ 0 \in 0 .. (MaxErrors + 1) /\ 0 <= QueueBound
    BY BoundsAssumption
  <1>2. Had(0, 0, FALSE) \in States /\ Had(0, 0, FALSE).log = 0 /\ Had(0, 0, FALSE).detail = 0
    BY <1>1 DEF Had, States
  <1>3. Idle \in [at : {"idle"}, log : 0 .. MaxLog, detail : 0 .. MaxDetail] /\ Idle.at = "idle"
    BY <1>1 DEF Idle
  <1>4. \A s \in Shippers : shipper[s] = Idle
    BY DEF Init, Shippers
  <1>5. /\ log = 0 /\ detail = 0 /\ statusChan = <<>> /\ outQ = <<>> /\ shippers = {}
        /\ master = Had(0, 0, FALSE) /\ saved = Had(0, 0, FALSE)
    BY DEF Init
  <1>6. FileTypes
    BY <1>1, <1>2 DEF Init, FileTypes
  <1>7. ShipperTypes
    <2>1. "idle" \in SenderPlaces /\ "idle" \in LoopPlaces
      BY DEF SenderPlaces, LoopPlaces
    <2>2. Idle \in [at : SenderPlaces \union LoopPlaces, log : 0 .. MaxLog, detail : 0 .. MaxDetail]
      BY <1>3, <2>1
    <2>3. shipper = [s \in Shippers |-> Idle]
      BY DEF Init, Shippers
    <2>4. shipper \in [Shippers -> [at : SenderPlaces \union LoopPlaces, log : 0 .. MaxLog, detail : 0 .. MaxDetail]]
      BY <2>2, <2>3
    <2> QED
      BY <1>3, <1>4, <1>5, <2>1, <2>4 DEF ShipperTypes, Shippers
  <1>8. QueueTypes
    <2>1. errors \in [Execs -> 0 .. (MaxErrors + 1)]
      BY <1>1 DEF Init
    <2>2. <<>> \in Seq(States) /\ <<>> \in Seq(Shipped) /\ Len(<<>>) = 0
      OBVIOUS
    <2> QED
      BY <1>1, <1>5, <2>1, <2>2 DEF QueueTypes
  <1>9. shipper[Loop].at = "idle"
    BY <1>3, <1>4 DEF Shippers
  <1>10. DOMAIN outQ = {} /\ DOMAIN statusChan = {}
    BY <1>5
  <1>11. StatusInv /\ LoopInv
    BY <1>9, <1>10 DEF StatusInv, LoopInv
  <1>12. ResultInv
    BY <1>5, <1>10 DEF ResultInv
  <1>13. ReadInv
    BY <1>3, <1>4 DEF ReadInv
  <1>14. OrderInv
    <2>1. \A s \in Shippers : Newer(outQ, shipper[s], master.log, master.detail, s, 0)
      BY <1>3, <1>4, <1>10 DEF Newer
    <2>2. master.log <= log /\ master.detail <= detail
      <3>1. log = 0 /\ detail = 0 /\ master.log = 0 /\ master.detail = 0
        BY <1>2, <1>5
      <3> QED
        BY ONLY <3>1
    <2> QED
      BY <1>10, <2>1, <2>2 DEF OrderInv
  <1> QED
    BY <1>6, <1>7, <1>8, <1>11, <1>12, <1>13, <1>14 DEF LogIInv, LogTypes

LEMMA LogKeeps == LogIInv /\ [Next]_vars => LogIInv'
  <1> SUFFICES ASSUME LogIInv, [Next]_vars PROVE LogIInv'
    OBVIOUS
  <1>1. CASE \E e \in Execs : Executor(e) \/ Sender(e)
    BY <1>1, RunKeeps, SenderKeeps
  <1>2. CASE Stop
    BY <1>2, StopKeeps
  <1>3. CASE DoneLoop
    BY <1>3, DoneReadsKeeps, DonePutsKeeps, DonePutResultKeeps DEF DoneLoop
  <1>4. CASE ClientPanics
    BY <1>4, PanicKeeps
  <1>5. CASE MasterTakes
    BY <1>5, MasterKeeps
  <1>6. CASE UNCHANGED vars
    <2>1. UNCHANGED <<worker, statusChan, doneJob, shipper, errors, outQ, up, receiving>>
          /\ UNCHANGED <<saved, shippers>>
      BY <1>6 DEF vars, shipping, receiving
    <2>2. ShipperTypes'
      BY <2>1 DEF LogIInv, LogTypes, ShipperTypes
    <2>3. LoopInv'
      BY <2>1 DEF LogIInv, LoopInv
    <2>4. shipper'[Loop].at # "idle" => statusChan # <<>>
      BY <2>1 DEF LogIInv, StatusInv
    <2>5. doneJob' \in BOOLEAN /\ errors' \in [Execs -> 0 .. (MaxErrors + 1)]
      BY <2>1 DEF LogIInv, LogTypes, FileTypes, QueueTypes
    <2> QED
      BY <2>1, <2>2, <2>3, <2>4, <2>5, Same, ShipperStepKeeps
  <1> QED
    BY <1>1, <1>2, <1>3, <1>4, <1>5, <1>6 DEF Next

-----------------------------------------------------------------------------
(* The theorems of WorkerLogs.                                             *)

\* With any number of executions of the job and of CANCELs, log and detail of
\* any size and channels of any capacity, WorkerLogs is well typed: no log
\* sender counts more read errors than it puts up with, and no channel holds
\* more than its capacity.
THEOREM LogTypeCorrect == Spec => []TypeOK
  <1>1. LogIInv => TypeOK
    BY DEF LogIInv, LogTypes, FileTypes, ShipperTypes, QueueTypes, TypeOK, Shippers, SenderPlaces, LoopPlaces
  <1> QED
    BY <1>1, LogStarts, LogKeeps, PTL DEF Spec

\* When handleDoneJob's RESULT arrives at the master, it has had the log lines,
\* the detail and the files of the status before: they are put first by one
\* goroutine, nothing overtakes in the channel, and behind a message that
\* cannot be sent nothing arrives.
THEOREM ResultIsLast == Spec => ResultComesLast
  <1>1. LogIInv /\ [Next]_vars
          => [MasterTakes /\ Head(outQ).type = "RESULT" => AtMost(Head(outQ).status, saved)]_vars
    <2> SUFFICES ASSUME LogIInv, MasterTakes, Head(outQ).type = "RESULT"
                 PROVE  AtMost(Head(outQ).status, saved)
      OBVIOUS
    <2> USE DEF LogIInv
    <2>1. outQ # <<>> /\ outQ \in Seq(Shipped)
      BY DEF MasterTakes, LogTypes, QueueTypes
    <2>2. Head(outQ) = outQ[1] /\ 1 \in DOMAIN outQ /\ DOMAIN outQ \subseteq Nat \ {0}
      BY <2>1, Tailed
    <2>3. PICK s \in States : s = Head(outQ).status
      BY <2>2, ChannelIs
    <2>4. LogSent(outQ, saved, s, 0) /\ FilesSent(outQ, saved, s, 0)
      BY <2>2, <2>3 DEF ResultInv
    <2>5. \A i \in DOMAIN outQ : ~(i <= 0)
      BY <2>2
    <2> QED
      BY <2>3, <2>4, <2>5 DEF LogSent, FilesSent, Blocked, AtMost
  <1> QED
    BY <1>1, LogStarts, LogKeeps, PTL DEF Spec, ResultComesLast

\* The master's copy of log, detail and files goes back only once two
\* goroutines have shipped the job: each alone sends what only grows, in order.
THEOREM OneShipperOrders == Spec => OnlyTwoShippersReorder
  <1>1. LogIInv /\ [Next]_vars
          => [~AtMost(master, master') => \E s, t \in shippers' : s # t]_vars
    <2> SUFFICES ASSUME LogIInv, Next, ~AtMost(master, master')
                 PROVE  \E s, t \in shippers' : s # t
      OBVIOUS
    <2> USE DEF LogIInv
    <2>1. /\ master.log \in Nat /\ master.detail \in Nat
      BY NumbersAre
    <2>2. MasterTakes
      <3>1. master' # master
        BY <2>1 DEF AtMost
      <3> QED
        BY <3>1 DEF Next, Executor, Sender, DoneLoop, Accept, RunBegins, RunGoesOn, RunEnds, Dropped, Stop,
              SenderCheck, SenderReadLog, SenderReadDetail, SenderPut, DoneTakes, DoneReadLog, DoneReadDetail,
              DonePutLog, DonePutFiles, DonePutResult, ClientPanics, receiving
    <2>3. outQ # <<>> /\ outQ \in Seq(Shipped)
      BY <2>2 DEF MasterTakes, LogTypes, QueueTypes
    <2>4. PICK m \in Shipped : m = Head(outQ) /\ m = outQ[1] /\ 1 \in DOMAIN outQ
      BY <2>3, Tailed
    <2>5. Received(m)
      BY <2>2, <2>4 DEF MasterTakes
    <2>6. master \in States
      BY DEF LogTypes, FileTypes
    <2>7. /\ m.type = "LOG" /\ shippers' = shippers \union {m.from}
          /\ ~(master.log <= m.log /\ master.detail <= m.detail)
      <3>1. CASE /\ m.type = "LOG" /\ shippers' = shippers \union {m.from}
                 /\ master' = [master EXCEPT !.log = m.log, !.detail = m.detail]
        BY <2>6, <3>1 DEF AtMost, States
      <3>2. CASE master' = [master EXCEPT !.files = TRUE]
        BY <2>1, <2>6, <3>2 DEF AtMost, States
      <3>3. CASE UNCHANGED master
        BY <2>1, <3>3 DEF AtMost
      <3> QED
        BY <2>5, <3>1, <3>2, <3>3 DEF Received
    <2>8. m.from \in Shippers
      BY <2>7, ShippedHas
    <2>9. ~(shippers \subseteq {m.from})
      <3> SUFFICES ASSUME shippers \subseteq {m.from} PROVE FALSE
        OBVIOUS
      <3>1. Newer(outQ, shipper[m.from], master.log, master.detail, m.from, 0)
        BY <2>8 DEF OrderInv
      <3> QED
        BY <2>4, <2>7, <3>1 DEF Newer
    <2> QED
      BY <2>7, <2>9
  <1> QED
    BY <1>1, LogStarts, LogKeeps, PTL DEF Spec, OnlyTwoShippersReorder

=============================================================================
