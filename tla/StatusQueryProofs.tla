------------------------- MODULE StatusQueryProofs --------------------------
(***************************************************************************)
(* Proofs about StatusQuery, for any number of callers, looks, calls and   *)
(* changes of the job's status.                                            *)
(***************************************************************************)
EXTENDS StatusQuery, TLAPS

(* The one question of call c is on its way, or its answer is, or is in    *)
(* the map, or it is lost; and an answer is a status of the time of c.     *)
Outstanding(c) ==
  \/ questions = 1 /\ answers = <<>> /\ map = None
  \/ questions = 0 /\ map = None /\ \E s \in held[c] : answers = <<s>>
  \/ questions = 0 /\ answers = <<>> /\ map \in held[c] \union {None}

Found(c) == questions = 0 /\ answers = <<>> /\ call[c].seen \in held[c]

Quiet == Busy = {} /\ map = None /\ answers = <<>> /\ questions = 0

OneCall(c) ==
  /\ Busy = {c} /\ record \in held[c]
  /\ IF call[c].at = "delete" THEN Found(c) ELSE Outstanding(c)

(* While no call has given up and no two were made at a time, there is at  *)
(* most one call, and nothing under way but its own question and answer.   *)
OneAtATime == ~late /\ ~shared => Quiet \/ \E c \in Callers : OneCall(c)

(* A call that still looks has a look left.                                *)
LooksLeft ==
  \A c \in Callers :
    /\ call[c].at = "look" => call[c].looks < MaxLooks
    /\ call[c].at = "idle" => call[c].looks = 0

IInv == TypeOK /\ LooksLeft /\ OneAtATime

LEMMA InitInv == Init => IInv
<1> SUFFICES ASSUME Init PROVE IInv
  OBVIOUS
<1>1. TypeOK
  <2>1. call \in [Callers -> [at : {"idle", "look", "delete", "timeout"}, looks : 0 .. MaxLooks,
                              seen : Statuses \union {None}]]
    BY BoundsAssumption DEF Init, NoCall
  <2>2. late \in BOOLEAN /\ shared \in BOOLEAN
    BY Zenon DEF Init
  <2>3. changes \in 0 .. MaxChanges /\ made \in 0 .. MaxCalls
    BY BoundsAssumption DEF Init
  <2> QED BY <2>1, <2>2, <2>3 DEF Init, TypeOK, Statuses
<1>2. LooksLeft
  BY BoundsAssumption DEF Init, LooksLeft, NoCall
<1>3. Quiet
  BY DEF Init, Quiet, Busy, NoCall
<1> QED BY <1>1, <1>2, <1>3 DEF IInv, OneAtATime

LEMMA TypeKept == TypeOK /\ LooksLeft /\ [Next]_vars => TypeOK' /\ LooksLeft'
<1> SUFFICES ASSUME TypeOK, LooksLeft, [Next]_vars PROVE TypeOK' /\ LooksLeft'
  OBVIOUS
<1> USE BoundsAssumption, NoneAssumption DEF TypeOK, LooksLeft, Statuses
<1>1. ASSUME NEW c \in Callers, Ask(c) PROVE TypeOK' /\ LooksLeft'
  <2>1. made' \in 0 .. MaxCalls /\ questions' \in Nat
    BY <1>1 DEF Ask
  <2>2. shared' \in BOOLEAN
    <3>1. shared' = (shared \/ Busy # {})
      BY <1>1 DEF Ask
    <3> QED BY <3>1, Zenon
  <2>3. call' \in [Callers -> [at : {"idle", "look", "delete", "timeout"}, looks : 0 .. MaxLooks,
                               seen : Statuses \union {None}]]
    BY <1>1 DEF Ask
  <2>4. held' \in [Callers -> SUBSET Statuses]
    BY <1>1 DEF Ask
  <2>5. LooksLeft'
    BY <1>1 DEF Ask
  <2> QED BY <1>1, <2>1, <2>2, <2>3, <2>4, <2>5 DEF Ask
<1>2. ASSUME NEW c \in Callers, Look(c) PROVE TypeOK' /\ LooksLeft'
  <2>1. call[c].looks + 1 \in 0 .. MaxLooks
    BY <1>2 DEF Look
  <2>2. call' \in [Callers -> [at : {"idle", "look", "delete", "timeout"}, looks : 0 .. MaxLooks,
                               seen : Statuses \union {None}]]
    <3>1. CASE map # None
      BY <1>2, <3>1 DEF Look
    <3>2. CASE map = None /\ call[c].looks + 1 = MaxLooks
      BY <1>2, <2>1, <3>2 DEF Look
    <3>3. CASE map = None /\ call[c].looks + 1 # MaxLooks
      BY <1>2, <2>1, <3>3 DEF Look
    <3> QED BY <3>1, <3>2, <3>3
  <2>3. ASSUME NEW d \in Callers
        PROVE  /\ call'[d].at = "look" => call'[d].looks < MaxLooks
               /\ call'[d].at = "idle" => call'[d].looks = 0
    <3>1. CASE d # c
      <4>1. call'[d] = call[d]
        BY <1>2, <3>1 DEF Look
      <4> QED BY <4>1
    <3>2. CASE d = c /\ map # None
      <4>1. call'[d].at = "delete"
        BY <1>2, <3>2 DEF Look
      <4> QED BY <4>1
    <3>3. CASE d = c /\ map = None
      <4>1. /\ call'[d].at = IF call[c].looks + 1 = MaxLooks THEN "timeout" ELSE "look"
            /\ call'[d].looks = call[c].looks + 1
        BY <1>2, <3>3 DEF Look
      <4> QED BY <2>1, <4>1
    <3> QED BY <3>1, <3>2, <3>3
  <2> QED BY <1>2, <2>2, <2>3 DEF Look
<1>3. ASSUME NEW c \in Callers, TakeAnswer(c) PROVE TypeOK' /\ LooksLeft'
  BY <1>3 DEF TakeAnswer, NoCall
<1>4. ASSUME NEW c \in Callers, GiveUp(c) PROVE TypeOK' /\ LooksLeft'
  BY <1>4 DEF GiveUp, NoCall
<1>5. CASE RecordChanges
  BY <1>5 DEF RecordChanges
<1>6. CASE Answer
  BY <1>6 DEF Answer
<1>7. CASE LoseQuestion
  BY <1>7 DEF LoseQuestion
<1>8. CASE LoseAnswers
  BY <1>8 DEF LoseAnswers
<1>9. CASE StoreAnswer
  BY <1>9 DEF StoreAnswer
<1>10. CASE UNCHANGED vars
  BY <1>10 DEF vars
<1> QED BY <1>1, <1>2, <1>3, <1>4, <1>5, <1>6, <1>7, <1>8, <1>9, <1>10 DEF Next, Call

(* What the map, the answers and the questions do to the one call.         *)
LEMMA MessagesKept ==
  ASSUME IInv, RecordChanges \/ Answer \/ LoseQuestion \/ LoseAnswers \/ StoreAnswer
  PROVE  OneAtATime'
<1> SUFFICES ASSUME ~late, ~shared PROVE (Quiet \/ \E c \in Callers : OneCall(c))'
  BY DEF OneAtATime, RecordChanges, Answer, LoseQuestion, LoseAnswers, StoreAnswer
<1>1. Busy' = Busy /\ call' = call
  BY DEF Busy, RecordChanges, Answer, LoseQuestion, LoseAnswers, StoreAnswer
<1>2. CASE Quiet
  <2>1. RecordChanges
    BY <1>2 DEF Quiet, Answer, LoseQuestion, LoseAnswers, StoreAnswer
  <2>2. Quiet'
    BY <1>1, <1>2, <2>1 DEF Quiet, RecordChanges
  <2> QED BY <2>2
<1>3. ASSUME NEW c \in Callers, OneCall(c) PROVE OneCall(c)'
  <2>1. CASE RecordChanges
    <3>1. /\ held[c] \subseteq held'[c] /\ record' \in held'[c]
          /\ UNCHANGED <<questions, answers, map, call>>
      BY <1>3, <2>1 DEF RecordChanges, OneCall, IInv, TypeOK
    <3> QED BY <1>1, <1>3, <3>1 DEF OneCall, Found, Outstanding
  <2>2. CASE Answer
    <3>1. questions = 1 /\ answers = <<>> /\ map = None /\ call[c].at # "delete"
      BY <1>3, <2>2 DEF Answer, OneCall, Found, Outstanding
    <3>2. /\ questions' = 0 /\ map' = None /\ answers' = <<record>>
          /\ record' = record /\ held' = held
      BY <2>2, <3>1 DEF Answer
    <3> QED BY <1>1, <1>3, <3>1, <3>2 DEF OneCall, Outstanding
  <2>3. CASE LoseQuestion
    BY <1>1, <1>3, <2>3 DEF LoseQuestion, OneCall, Found, Outstanding
  <2>4. CASE LoseAnswers
    BY <1>1, <1>3, <2>4 DEF LoseAnswers, OneCall, Found, Outstanding
  <2>5. CASE StoreAnswer
    <3>1. call[c].at # "delete" /\ questions = 0
      BY <1>3, <2>5 DEF StoreAnswer, OneCall, Found, Outstanding
    <3>2. PICK s \in held[c] : answers = <<s>>
      BY <1>3, <2>5, <3>1 DEF StoreAnswer, OneCall, Outstanding
    <3>3. /\ map' = s /\ answers' = <<>> /\ questions' = 0
          /\ record' = record /\ held' = held
      BY <2>5, <3>1, <3>2 DEF StoreAnswer
    <3> QED BY <1>1, <1>3, <3>1, <3>2, <3>3 DEF OneCall, Outstanding
  <2> QED BY <2>1, <2>2, <2>3, <2>4, <2>5
<1> QED BY <1>2, <1>3 DEF IInv, OneAtATime

(* What the callers do.                                                    *)
LEMMA CallsKept ==
  ASSUME IInv, NEW d \in Callers, Ask(d) \/ Call(d)
  PROVE  OneAtATime'
<1> SUFFICES ASSUME ~late', ~shared' PROVE (Quiet \/ \E c \in Callers : OneCall(c))'
  BY DEF OneAtATime
<1>1. ~late /\ ~shared
  <2>1. CASE Ask(d)
    <3>1. late' = late /\ shared' = (shared \/ Busy # {})
      BY <2>1 DEF Ask
    <3> QED BY <3>1, Zenon
  <2>2. CASE Call(d)
    <3>1. CASE GiveUp(d)
      BY <3>1 DEF GiveUp
    <3>2. CASE ~GiveUp(d)
      <4>1. late' = late /\ shared' = shared
        BY <2>2, <3>2 DEF Call, Look, TakeAnswer
      <4> QED BY <4>1
    <3> QED BY <3>1, <3>2
  <2> QED BY <2>1, <2>2
<1>2. CASE Ask(d)
  <2>1. Busy = {}
    BY <1>2 DEF Ask
  <2>2. Quiet
    BY <1>1, <2>1 DEF IInv, OneAtATime, OneCall
  <2>3. /\ call' = [call EXCEPT ![d].at = "look"] /\ held' = [held EXCEPT ![d] = {record}]
        /\ questions' = 1 /\ answers' = <<>> /\ map' = None /\ record' = record
    BY <1>2, <2>2 DEF Ask, Quiet
  <2>4. call'[d].at = "look" /\ \A c \in Callers \ {d} : call'[c].at = "idle"
    BY <2>1, <2>3 DEF IInv, TypeOK, Busy
  <2>5. Busy' = {d}
    BY <2>4 DEF Busy
  <2>6. record' \in held'[d]
    BY <2>3 DEF IInv, TypeOK
  <2> QED BY <2>3, <2>4, <2>5, <2>6 DEF OneCall, Outstanding
<1>3. CASE Call(d)
  <2>1. d \in Busy
    BY <1>3 DEF Call, Look, TakeAnswer, GiveUp, Busy
  <2>2. OneCall(d)
    BY <1>1, <2>1 DEF IInv, OneAtATime, OneCall, Quiet
  <2>3. CASE Look(d)
    <3>1. UNCHANGED <<record, held, questions, answers, map>>
      BY <2>3 DEF Look
    <3>2. Outstanding(d)
      BY <2>2, <2>3 DEF OneCall, Look
    <3>3. call'[d].at # "idle" /\ \A c \in Callers \ {d} : call'[c] = call[c]
      BY <2>3 DEF Look, IInv, TypeOK
    <3>4. Busy' = {d}
      BY <2>2, <3>3 DEF OneCall, Busy
    <3>5. CASE map # None
      <4>1. call'[d].at = "delete" /\ call'[d].seen = map
        BY <2>3, <3>5 DEF Look, IInv, TypeOK
      <4>2. questions = 0 /\ answers = <<>> /\ map \in held[d]
        BY <3>2, <3>5 DEF Outstanding
      <4> QED BY <2>2, <3>1, <3>4, <4>1, <4>2 DEF OneCall, Found
    <3>6. CASE map = None
      <4>1. call'[d].at # "delete"
        BY <2>3, <3>6 DEF Look, IInv, TypeOK
      <4> QED BY <2>2, <3>1, <3>2, <3>4, <4>1 DEF OneCall, Outstanding
    <3> QED BY <3>5, <3>6
  <2>4. CASE TakeAnswer(d)
    <3>1. call' = [call EXCEPT ![d] = NoCall] /\ map' = None /\ questions' = 0 /\ answers' = <<>>
      BY <2>2, <2>4 DEF TakeAnswer, OneCall, Found
    <3>2. Busy' = {}
      BY <2>2, <3>1 DEF OneCall, Busy, NoCall, IInv, TypeOK
    <3> QED BY <3>1, <3>2 DEF Quiet
  <2>5. CASE GiveUp(d)
    BY <2>5 DEF GiveUp
  <2> QED BY <1>3, <2>3, <2>4, <2>5 DEF Call
<1> QED BY <1>2, <1>3

LEMMA StepInv == IInv /\ [Next]_vars => IInv'
<1> SUFFICES ASSUME IInv, [Next]_vars PROVE IInv'
  OBVIOUS
<1>1. TypeOK' /\ LooksLeft'
  BY TypeKept DEF IInv
<1>2. CASE UNCHANGED vars
  <2>1. Busy' = Busy
    BY <1>2 DEF vars, Busy
  <2>2. Quiet => Quiet'
    BY <1>2, <2>1 DEF vars, Quiet
  <2>3. ASSUME NEW c \in Callers, OneCall(c) PROVE OneCall(c)'
    BY <1>2, <2>1, <2>3 DEF vars, OneCall, Found, Outstanding
  <2>4. late' = late /\ shared' = shared
    BY <1>2 DEF vars
  <2>5. OneAtATime'
    BY <2>2, <2>3, <2>4 DEF IInv, OneAtATime
  <2> QED BY <1>1, <2>5 DEF IInv
<1>3. OneAtATime'
  BY <1>2, MessagesKept, CallsKept DEF Next, IInv
<1> QED BY <1>1, <1>3 DEF IInv

THEOREM TypeCorrect == Spec => []TypeOK
<1>1. IInv => TypeOK
  BY DEF IInv
<1> QED BY <1>1, InitInv, StepInv, PTL DEF Spec

(* The next call finds nothing of an earlier one, neither in jobStatusMap  *)
(* nor on its way to it, unless one gave up or two were made at a time     *)
(* (engine_master.go:215-224).                                             *)
THEOREM NoLeftovers == Spec => []LeftoversHaveACause
<1>1. IInv => LeftoversHaveACause
  BY DEF IInv, OneAtATime, LeftoversHaveACause, Quiet, OneCall
<1> QED BY <1>1, InitInv, StepInv, PTL DEF Spec

(* With the same exceptions GetCurrentJobStatus answers with a status the  *)
(* job had on its worker between the call and its return.                  *)
THEOREM AnswersAreOfTheCall == Spec => OldAnswersHaveACause
<1>1. IInv /\ [Next]_vars =>
        [\A c \in Callers, s \in Statuses : Returns(c, s) => s \in held[c] \/ late \/ shared]_vars
  <2> SUFFICES ASSUME IInv, ~late, ~shared, NEW c \in Callers, NEW s \in Statuses, Returns(c, s)
               PROVE  s \in held[c]
    OBVIOUS
  <2>1. call[c].at = "delete" /\ call[c].seen = s
    BY DEF Returns, TakeAnswer
  <2>2. OneCall(c)
    BY <2>1 DEF IInv, OneAtATime, Quiet, OneCall, Busy
  <2> QED BY <2>1, <2>2 DEF OneCall, Found
<1> QED BY <1>1, InitInv, StepInv, PTL DEF Spec, OldAnswersHaveACause
=============================================================================
