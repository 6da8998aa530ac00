---------------------------- MODULE ExecutorProofs ----------------------------
(***************************************************************************)
(* Proofs about Executor, for any jobs, runs, pipeline and capacities.     *)
(***************************************************************************)
EXTENDS Executor, SequenceTheorems, TLAPS

(* Types, by the group of variables a step changes together.               *)

Begun == {"stage", "docker", "begin", "step", "stageEnd", "finish"}
Ending == {"report", "untime", "reportAgain", "done"}

QueueType ==
  /\ queue \in Seq({"start", "stop"} \X Jobs) /\ Len(queue) <= QueueCap
  /\ stops \in 0 .. MaxStops

\* A run has a job from the time it is taken, and a step of its stage while
\* it is in one; at most the handlers of a container and a step are pushed.
RunType ==
  /\ job \in [Runs -> Jobs \union {NoJob}] /\ pc \in [Runs -> Pcs]
  /\ \A r \in Runs : pc[r] = "none" <=> job[r] = NoJob
  /\ stage \in [Runs -> DOMAIN Pipeline] /\ step \in [Runs -> Nat \ {0}]
  /\ \A r \in Runs : pc[r] \in {"docker", "begin", "step"} => step[r] <= Len(Pipeline[stage[r]])
  /\ status \in [Runs -> Statuses] /\ err \in [Runs -> BOOLEAN]
  /\ failedSteps \in [Runs -> SUBSET Steps]

StackType ==
  /\ stack \in [Runs -> 0 .. 1]
  /\ \A r \in Runs : pc[r] \in {"none", "sort", "stage", "docker"} => stack[r] = 0
  /\ \A r \in Runs : pc[r] = "stageEnd" => stack[r] = 0 \/ err[r]

CancellerAts == {"idle", "load", "call", "send"}
Cancellings == [Cancellers -> [at : CancellerAts, job : Jobs \union {NoJob}, entry : Runs \union {NoRun}]]

CancelType ==
  /\ cancelMap \in [Jobs -> Runs \union {NoRun}]
  /\ cancelled \subseteq Runs /\ timers \subseteq Jobs /\ canceller \in Cancellings
  /\ \A c \in Cancellers : canceller[c].at # "idle" => canceller[c].job \in Jobs
  /\ \A c \in Cancellers : canceller[c].at = "call" => canceller[c].entry \in Runs

ReportType ==
  /\ statusChan \in Seq([job : Jobs, run : Runs \union {NoRun}, status : Statuses])
  /\ Len(statusChan) <= StatusCap
  /\ verdicts \in [Runs -> Seq(Statuses)]

SaveType ==
  /\ saver \in [Runs -> {"off", "idle", "ended"} \union Statuses]
  /\ \A r \in Runs : saver[r] # "off" => pc[r] \notin {"none", "sort"}
  /\ disk \in [Jobs -> Statuses]

TypeInv == QueueType /\ RunType /\ StackType /\ CancelType /\ ReportType /\ SaveType

(* What a run's error has to do with its status and its steps: a failed    *)
(* step that was the last of its stage is an error to the end.             *)
FailInv ==
  \A r \in Runs :
    /\ \A s \in failedSteps[r] :
         s[2] < Len(Pipeline[s[1]]) \/ (err[r] /\ pc[r] \in {"stageEnd", "finish"} \union Ending)
    /\ status[r] = "success" => ~err[r] /\ pc[r] \in Ending

(* The entries of cancelMap, stored or in the hands of a Cancel, are of    *)
(* runs of their job.                                                      *)
EntryInv ==
  /\ \A j \in Jobs : cancelMap[j] # NoRun => job[cancelMap[j]] = j
  /\ \A c \in Cancellers : canceller[c].at = "call" => job[canceller[c].entry] = canceller[c].job

(* A timer is of a job that has begun and not yet removed it; a listener   *)
(* cancels only such jobs, and by the time it sends, the context of the    *)
(* only run of the job is cancelled.                                       *)
TimerInv ==
  /\ \A j \in timers : \E r \in Runs : job[r] = j /\ pc[r] \in Begun \union {"report", "untime"}
  /\ \A c \in Runs : canceller[c].at # "idle" =>
       \E r \in Runs : job[r] = canceller[c].job /\ pc[r] \notin {"none", "sort"}
  /\ \A c \in Runs, r \in Runs :
       canceller[c].at = "send" /\ canceller[c].job = job[r] /\ Active(r) /\ OnlyRunOf(r) => r \in cancelled

(* What a run has said of itself, by where it is.                          *)
VerdictOf(r) ==
  /\ pc[r] \notin {"untime", "reportAgain", "done"} => verdicts[r] = <<>>
  /\ pc[r] \in {"untime", "reportAgain", "done"} => verdicts[r] # <<>>
  /\ pc[r] \in Ending => (status[r] = "success" <=> ~err[r])
  /\ pc[r] = "reportAgain" => err[r]
  /\ Returned(r) /\ ~err[r] /\ verdicts[r] # <<>> => verdicts[r][Len(verdicts[r])] = "success"

VerdictInv == \A r \in Runs : VerdictOf(r)

IInv == TypeInv /\ FailInv /\ EntryInv /\ RunningIsKnown /\ TimersFollowRuns /\ TimerInv /\ VerdictInv

-----------------------------------------------------------------------------
(* Lemmas about the data.                                                  *)

LEMMA PipelineFacts ==
  /\ Len(Pipeline) \in Nat \ {0} /\ DOMAIN Pipeline = 1 .. Len(Pipeline)
  /\ \A i \in DOMAIN Pipeline : Len(Pipeline[i]) \in Nat \ {0} /\ DOMAIN Pipeline[i] = 1 .. Len(Pipeline[i])
<1>1. Pipeline \in Seq(Seq(BOOLEAN)) /\ Pipeline # <<>>
  BY PipelineAssumption
<1>2. Len(Pipeline) \in Nat \ {0} /\ DOMAIN Pipeline = 1 .. Len(Pipeline)
  BY <1>1, EmptySeq, LenProperties
<1>3. ASSUME NEW i \in DOMAIN Pipeline
      PROVE  Len(Pipeline[i]) \in Nat \ {0} /\ DOMAIN Pipeline[i] = 1 .. Len(Pipeline[i])
  <2>1. Pipeline[i] \in Seq(BOOLEAN)
    BY <1>1, <1>2, ElementOfSeq
  <2>2. Pipeline[i] # <<>>
    BY PipelineAssumption
  <2> QED
    BY <2>1, <2>2, EmptySeq, LenProperties
<1> QED
  BY <1>2, <1>3

\* What Append leaves at the end.
LEMMA Appended ==
  ASSUME NEW S, NEW s \in Seq(S), NEW e \in S
  PROVE  /\ Append(s, e) \in Seq(S) /\ Append(s, e) # <<>>
         /\ Len(Append(s, e)) = Len(s) + 1
         /\ Append(s, e)[Len(Append(s, e))] = e
  BY AppendProperties

LEMMA StepOfPipeline ==
  ASSUME NEW i \in DOMAIN Pipeline, NEW k \in 1 .. Len(Pipeline[i]) PROVE <<i, k>> \in Steps
<1>1. <<i, k>> \in {i} \X DOMAIN Pipeline[i]
  BY PipelineFacts
<1> QED
  BY <1>1 DEF Steps

-----------------------------------------------------------------------------
(* The variables most steps leave alone.                                   *)

LEMMA ControlFrame ==
  ASSUME [Next]_vars, ~ \E r \in Runs : TakeStart(r) \/ Execute(r)
  PROVE  UNCHANGED control
<1> USE DEF vars, control
<1>1. ASSUME NEW j \in Jobs, EnqueueStart(j) \/ EnqueueStop(j) PROVE UNCHANGED control
  BY <1>1 DEF EnqueueStart, EnqueueStop
<1>2. CASE DropStart \/ TakeStop
  BY <1>2 DEF DropStart, TakeStop
<1>3. ASSUME NEW r \in Runs, Saver(r) PROVE UNCHANGED control
  BY <1>3 DEF Saver, SaverMarshal, SaverWrite, SaverEnd
<1>4. CASE TakeStatus
  BY <1>4 DEF TakeStatus
<1>5. ASSUME NEW l \in Runs, NEW j \in Jobs, TimerFires(l, j) PROVE UNCHANGED control
  BY <1>5 DEF TimerFires
<1>6. ASSUME NEW c \in Cancellers, Cancel(c) PROVE UNCHANGED control
  BY <1>6 DEF Cancel, CancelLoad, CancelCall, CancelSend
<1> QED
  BY <1>1, <1>2, <1>3, <1>4, <1>5, <1>6 DEF Next, TakeMessage

LEMMA CancelFrame ==
  ASSUME [Next]_vars, ~TakeStop,
         ~ \E r \in Runs : Register(r) \/ StepBegin(r) \/ StageEnd(r) \/ Untime(r),
         ~ \E l \in Runs, j \in Jobs : TimerFires(l, j), ~ \E c \in Cancellers : Cancel(c)
  PROVE  UNCHANGED cancelling
<1> USE DEF vars, cancelling
<1>1. ASSUME NEW j \in Jobs, EnqueueStart(j) \/ EnqueueStop(j) PROVE UNCHANGED cancelling
  BY <1>1 DEF EnqueueStart, EnqueueStop
<1>2. ASSUME NEW r \in Runs, TakeStart(r) PROVE UNCHANGED cancelling
  BY <1>2 DEF TakeStart
<1>3. CASE DropStart \/ TakeStatus
  BY <1>3 DEF DropStart, TakeStatus
<1>4. ASSUME NEW r \in Runs, Execute(r) PROVE UNCHANGED cancelling
  BY <1>4 DEF Execute, SortFails, StageBegin, DockerStart, StepEnd, Finish, Report, ReportAgain
<1>5. ASSUME NEW r \in Runs, Saver(r) PROVE UNCHANGED cancelling
  BY <1>5 DEF Saver, SaverMarshal, SaverWrite, SaverEnd
<1> QED
  BY <1>1, <1>2, <1>3, <1>4, <1>5 DEF Next, TakeMessage

LEMMA ReportFrame ==
  ASSUME [Next]_vars, ~TakeStatus, ~ \E r \in Runs : Report(r) \/ ReportAgain(r),
         ~ \E c \in Cancellers : CancelSend(c)
  PROVE  UNCHANGED reporting
<1> USE DEF vars, reporting
<1>1. ASSUME NEW j \in Jobs, EnqueueStart(j) \/ EnqueueStop(j) PROVE UNCHANGED reporting
  BY <1>1 DEF EnqueueStart, EnqueueStop
<1>2. CASE TakeMessage
  BY <1>2 DEF TakeMessage, TakeStart, DropStart, TakeStop
<1>3. ASSUME NEW r \in Runs, Execute(r) PROVE UNCHANGED reporting
  BY <1>3 DEF Execute, SortFails, Register, StageBegin, DockerStart, StepBegin, StepEnd, StageEnd, Finish, Untime
<1>4. ASSUME NEW r \in Runs, Saver(r) PROVE UNCHANGED reporting
  BY <1>4 DEF Saver, SaverMarshal, SaverWrite, SaverEnd
<1>5. ASSUME NEW l \in Runs, NEW j \in Jobs, TimerFires(l, j) PROVE UNCHANGED reporting
  BY <1>5 DEF TimerFires
<1>6. ASSUME NEW c \in Cancellers, Cancel(c) PROVE UNCHANGED reporting
  BY <1>6 DEF Cancel, CancelLoad, CancelCall
<1> QED
  BY <1>1, <1>2, <1>3, <1>4, <1>5, <1>6 DEF Next

-----------------------------------------------------------------------------
(* Types.                                                                  *)

LEMMA TypeInit == Init => TypeInv
<1> SUFFICES ASSUME Init PROVE TypeInv
  OBVIOUS
<1> USE RunsAssumption, CapAssumption DEF Init
<1>1. QueueType
  BY EmptySeq DEF QueueType
<1>2. RunType
  BY PipelineFacts DEF RunType, Pcs, Statuses
<1>3. StackType /\ SaveType
  BY DEF StackType, SaveType, Statuses
<1>4. CancelType
  BY DEF CancelType, CancellerAts, Cancellings, NotCancelling, Cancellers
<1>5. ReportType
  BY EmptySeq DEF ReportType
<1> QED
  BY <1>1, <1>2, <1>3, <1>4, <1>5 DEF TypeInv

LEMMA QueueNext == ASSUME QueueType, [Next]_vars PROVE QueueType'
<1> USE CapAssumption DEF QueueType
<1>1. ASSUME NEW kind \in {"start", "stop"}, NEW j \in Jobs
      PROVE  /\ Append(queue, <<kind, j>>) \in Seq({"start", "stop"} \X Jobs)
             /\ Len(Append(queue, <<kind, j>>)) = Len(queue) + 1
  BY <1>1, Appended
<1>2. queue # <<>> => Tail(queue) \in Seq({"start", "stop"} \X Jobs) /\ Len(Tail(queue)) = Len(queue) - 1
  BY HeadTailProperties
<1>3. Len(queue) \in Nat
  BY LenProperties
<1> HIDE DEF QueueType
<1>4. ASSUME NEW j \in Jobs, EnqueueStart(j) PROVE QueueType'
  BY <1>1, <1>3, <1>4 DEF EnqueueStart, QueueType
<1>5. ASSUME NEW j \in Jobs, EnqueueStop(j) PROVE QueueType'
  <2>1. queue' = Append(queue, <<"stop", j>>) /\ Len(queue) < QueueCap /\ stops' = stops + 1 /\ stops < MaxStops
    BY <1>5 DEF EnqueueStop
  <2>2. stops' \in 0 .. MaxStops
    BY <2>1 DEF QueueType
  <2> QED
    BY <1>1, <1>3, <2>1, <2>2 DEF QueueType
<1>6. CASE TakeMessage
  <2>1. queue # <<>> /\ queue' = Tail(queue) /\ stops' = stops
    BY <1>6 DEF TakeMessage, TakeStart, DropStart, TakeStop, QueueIdle
  <2> QED
    BY <1>2, <1>3, <2>1 DEF QueueType
<1>7. ASSUME UNCHANGED <<queue, stops>> PROVE QueueType'
  BY <1>7 DEF QueueType
<1>8. ASSUME NEW r \in Runs, Execute(r) \/ Saver(r) PROVE UNCHANGED <<queue, stops>>
  BY <1>8 DEF Execute, SortFails, Register, StageBegin, DockerStart, StepBegin, StepEnd, StageEnd, Finish,
              Report, Untime, ReportAgain, Saver, SaverMarshal, SaverWrite, SaverEnd
<1>9. ASSUME NEW c \in Cancellers, Cancel(c) PROVE UNCHANGED <<queue, stops>>
  BY <1>9 DEF Cancel, CancelLoad, CancelCall, CancelSend
<1>10. TakeStatus \/ (\E l \in Runs, j \in Jobs : TimerFires(l, j)) \/ UNCHANGED vars => UNCHANGED <<queue, stops>>
  BY DEF TakeStatus, TimerFires, vars
<1> QED
  BY <1>4, <1>5, <1>6, <1>7, <1>8, <1>9, <1>10 DEF Next

\* The job of the message at the head.
LEMMA HeadType ==
  ASSUME QueueType, queue # <<>> PROVE Head(queue)[2] \in Jobs
<1>1. Head(queue) \in {"start", "stop"} \X Jobs
  BY HeadTailProperties DEF QueueType
<1> QED
  BY <1>1

LEMMA Outcomes ==
  ASSUME NEW r, NEW o \in ExecuteAction(r)
  PROVE  /\ o.err \in BOOLEAN /\ o.pushed \in {0, 1} /\ o.fails \in BOOLEAN
         /\ o.fails => o.err /\ status[r] = "running"
<1>1. CASE status[r] = "running"
  <2>1. o \in [err : BOOLEAN, pushed : {0, 1}, fails : BOOLEAN] /\ (o.fails => o.err)
    BY <1>1, Zenon DEF ExecuteAction, Executed
  <2> QED
    BY <1>1, <2>1
<1>2. CASE status[r] # "running"
  <2>1. o = [err |-> FALSE, pushed |-> 0, fails |-> FALSE]
    BY <1>2 DEF ExecuteAction, Skipped
  <2> QED
    BY <2>1
<1> QED
  BY <1>1, <1>2

\* Where StageEnd and the end of a step go.
LEMMA StageEndMoves ==
  ASSUME NEW r \in Runs, StageEnd(r)
  PROVE  \/ ~err[r] /\ stage[r] < Len(Pipeline) /\ pc' = [pc EXCEPT ![r] = "stage"] /\ stage' = [stage EXCEPT ![r] = @ + 1]
         \/ pc' = [pc EXCEPT ![r] = "finish"] /\ stage' = stage
<1>1. CASE ~err[r] /\ stage[r] < Len(Pipeline)
  BY <1>1 DEF StageEnd, Goto
<1>2. CASE ~(~err[r] /\ stage[r] < Len(Pipeline))
  BY <1>2 DEF StageEnd, Goto
<1> QED
  BY <1>1, <1>2

LEMMA StepEndMoves ==
  ASSUME NEW r \in Runs, StepEnd(r)
  PROVE  \/ /\ step[r] < Len(Pipeline[stage[r]]) /\ step' = [step EXCEPT ![r] = @ + 1]
            /\ \E label \in {"docker", "begin"} : pc' = [pc EXCEPT ![r] = label]
         \/ ~(step[r] < Len(Pipeline[stage[r]])) /\ step' = step /\ pc' = [pc EXCEPT ![r] = "stageEnd"]
<1>1. CASE step[r] < Len(Pipeline[stage[r]])
  <2>1. StepLabel(stage[r], step[r] + 1) \in {"docker", "begin"}
    BY DEF StepLabel
  <2> QED
    BY <1>1, <2>1 DEF StepEnd, Goto
<1>2. CASE ~(step[r] < Len(Pipeline[stage[r]]))
  BY <1>2 DEF StepEnd, Goto
<1> QED
  BY <1>1, <1>2

LEMMA RunNext == ASSUME QueueType, RunType, [Next]_vars PROVE RunType'
<1> USE PipelineFacts, RunsAssumption DEF RunType, Goto, Pcs, Statuses
<1>1. ASSUME NEW r \in Runs, TakeStart(r) PROVE RunType'
  <2>1. Head(queue)[2] \in Jobs
    BY <1>1, HeadType DEF TakeStart, QueueIdle
  <2> QED
    BY <1>1, <2>1 DEF TakeStart
<1>2. ASSUME NEW r \in Runs, SortFails(r) PROVE RunType'
  BY <1>2 DEF SortFails
<1>3. ASSUME NEW r \in Runs, Register(r) PROVE RunType'
  BY <1>3 DEF Register
<1>4. ASSUME NEW r \in Runs, StageBegin(r) PROVE RunType'
  BY <1>4 DEF StageBegin, StepLabel
<1>5. ASSUME NEW r \in Runs, DockerStart(r) PROVE RunType'
  <2>1. PICK o \in ExecuteAction(r) :
          /\ err' = [err EXCEPT ![r] = o.err] /\ SetStatus(r, o)
          /\ pc' = [pc EXCEPT ![r] = IF o.err THEN "stageEnd" ELSE "begin"]
    BY <1>5 DEF DockerStart
  <2>2. pc[r] = "docker" /\ UNCHANGED <<job, stage, step, failedSteps>>
    BY <1>5 DEF DockerStart
  <2>3. err' \in [Runs -> BOOLEAN]
    BY <2>1, Outcomes
  <2>4. status' \in [Runs -> Statuses]
    BY <2>1 DEF SetStatus
  <2> QED
    BY <2>1, <2>2, <2>3, <2>4
<1>6. ASSUME NEW r \in Runs, StepBegin(r) PROVE RunType'
  BY <1>6 DEF StepBegin
<1>7. ASSUME NEW r \in Runs, StepEnd(r) PROVE RunType'
  <2>1. PICK o \in ExecuteAction(r) :
          /\ err' = [err EXCEPT ![r] = o.err] /\ SetStatus(r, o)
          /\ failedSteps' = [failedSteps EXCEPT ![r] = IF o.err THEN @ \union {<<stage[r], step[r]>>} ELSE @]
    BY <1>7 DEF StepEnd
  <2>2. pc[r] = "step" /\ UNCHANGED <<job, stage>>
    BY <1>7 DEF StepEnd
  <2>3. err' \in [Runs -> BOOLEAN]
    BY <2>1, Outcomes
  <2>4. status' \in [Runs -> Statuses]
    BY <2>1 DEF SetStatus
  <2>5. failedSteps' \in [Runs -> SUBSET Steps]
    <3>1. <<stage[r], step[r]>> \in Steps
      BY <2>2, StepOfPipeline
    <3> QED
      BY <2>1, <3>1
  <2>6. /\ step' \in [Runs -> Nat \ {0}] /\ pc' \in [Runs -> Pcs]
        /\ \A q \in Runs : pc'[q] \in {"docker", "begin", "step"} => step'[q] <= Len(Pipeline[stage[q]])
        /\ pc'[r] # "none" /\ \A q \in Runs \ {r} : pc'[q] = pc[q]
    <3>1. step[r] \in Nat \ {0} /\ Len(Pipeline[stage[r]]) \in Nat
      OBVIOUS
    <3>2. ASSUME step[r] < Len(Pipeline[stage[r]]), step' = [step EXCEPT ![r] = @ + 1],
                 NEW label \in {"docker", "begin"}, pc' = [pc EXCEPT ![r] = label]
          PROVE  /\ step' \in [Runs -> Nat \ {0}] /\ pc' \in [Runs -> Pcs]
                 /\ \A q \in Runs : pc'[q] \in {"docker", "begin", "step"} => step'[q] <= Len(Pipeline[stage[q]])
                 /\ pc'[r] # "none" /\ \A q \in Runs \ {r} : pc'[q] = pc[q]
      <4>1. step[r] + 1 \in Nat \ {0} /\ step[r] + 1 <= Len(Pipeline[stage[r]])
        BY <3>1, <3>2
      <4>2. step' \in [Runs -> Nat \ {0}] /\ step'[r] = step[r] + 1
        BY <3>2, <4>1
      <4> QED
        BY <3>2, <4>1, <4>2
    <3>3. ASSUME step' = step, pc' = [pc EXCEPT ![r] = "stageEnd"]
          PROVE  /\ step' \in [Runs -> Nat \ {0}] /\ pc' \in [Runs -> Pcs]
                 /\ \A q \in Runs : pc'[q] \in {"docker", "begin", "step"} => step'[q] <= Len(Pipeline[stage[q]])
                 /\ pc'[r] # "none" /\ \A q \in Runs \ {r} : pc'[q] = pc[q]
      BY <3>3
    <3> QED
      BY <1>7, <3>2, <3>3, StepEndMoves
  <2> QED
    BY <2>2, <2>3, <2>4, <2>5, <2>6
<1>8. ASSUME NEW r \in Runs, StageEnd(r) PROVE RunType'
  <2>1. pc[r] = "stageEnd" /\ UNCHANGED <<job, step, status, err, failedSteps>>
    BY <1>8 DEF StageEnd
  <2>2. stage[r] \in 1 .. Len(Pipeline)
    OBVIOUS
  <2>3. ASSUME stage[r] < Len(Pipeline), pc' = [pc EXCEPT ![r] = "stage"], stage' = [stage EXCEPT ![r] = @ + 1]
        PROVE  RunType'
    <3>1. stage[r] + 1 \in DOMAIN Pipeline
      BY <2>2, <2>3
    <3>2. stage' \in [Runs -> DOMAIN Pipeline] /\ \A q \in Runs \ {r} : stage'[q] = stage[q]
      BY <2>3, <3>1
    <3> QED
      BY <2>1, <2>3, <3>2
  <2>4. ASSUME pc' = [pc EXCEPT ![r] = "finish"], stage' = stage PROVE RunType'
    BY <2>1, <2>4
  <2> QED
    BY <1>8, <2>3, <2>4, StageEndMoves
<1>9. ASSUME NEW r \in Runs, Finish(r) PROVE RunType'
  BY <1>9 DEF Finish
<1>10. ASSUME NEW r \in Runs, Report(r) \/ Untime(r) \/ ReportAgain(r) PROVE RunType'
  BY <1>10 DEF Report, Untime, ReportAgain
<1>11. CASE UNCHANGED control
  BY <1>11 DEF control
<1> QED
  BY <1>1, <1>2, <1>3, <1>4, <1>5, <1>6, <1>7, <1>8, <1>9, <1>10, <1>11, ControlFrame DEF Execute

LEMMA StackNext == ASSUME RunType, StackType, [Next]_vars PROVE StackType'
<1> USE DEF RunType, StackType, Goto
<1>1. ASSUME NEW r \in Runs, TakeStart(r) \/ SortFails(r) \/ Register(r) PROVE StackType'
  BY <1>1 DEF TakeStart, SortFails, Register
<1>2. ASSUME NEW r \in Runs, StageBegin(r) PROVE StackType'
  BY <1>2 DEF StageBegin, StepLabel
<1>3. ASSUME NEW r \in Runs, DockerStart(r) PROVE StackType'
  <2>1. PICK o \in ExecuteAction(r) :
          /\ err' = [err EXCEPT ![r] = o.err] /\ stack' = [stack EXCEPT ![r] = @ + o.pushed]
          /\ pc' = [pc EXCEPT ![r] = IF o.err THEN "stageEnd" ELSE "begin"]
    BY <1>3 DEF DockerStart
  <2>2. pc[r] = "docker" /\ stack[r] = 0
    BY <1>3 DEF DockerStart
  <2>3. o.err \in BOOLEAN /\ o.pushed \in {0, 1}
    BY Outcomes
  <2>4. stack' \in [Runs -> 0 .. 1] /\ \A q \in Runs \ {r} : stack'[q] = stack[q]
    BY <2>1, <2>2, <2>3
  <2>5. pc'[r] = "stageEnd" => err'[r]
    BY <2>1, <2>3
  <2>6. \A q \in Runs \ {r} : pc'[q] = pc[q] /\ err'[q] = err[q]
    BY <2>1
  <2>7. pc'[r] \in {"stageEnd", "begin"}
    BY <2>1
  <2> QED
    BY <2>4, <2>5, <2>6, <2>7
<1>4. ASSUME NEW r \in Runs, StepEnd(r) PROVE StackType'
  <2>1. stack' = [stack EXCEPT ![r] = 0] /\ \A q \in Runs \ {r} : err'[q] = err[q]
    BY <1>4 DEF StepEnd, StackAfterPost
  <2> QED
    BY <1>4, <2>1, StepEndMoves
<1>5. ASSUME NEW r \in Runs, StepBegin(r) \/ Finish(r) \/ Report(r) \/ Untime(r) \/ ReportAgain(r)
      PROVE  StackType'
  BY <1>5 DEF StepBegin, Finish, Report, Untime, ReportAgain
<1>6. ASSUME NEW r \in Runs, StageEnd(r) PROVE StackType'
  <2>1. pc[r] = "stageEnd" /\ UNCHANGED <<stack, err>>
    BY <1>6 DEF StageEnd
  <2> QED
    BY <1>6, <2>1, StageEndMoves
<1>7. CASE UNCHANGED control
  BY <1>7 DEF control
<1> QED
  BY <1>1, <1>2, <1>3, <1>4, <1>5, <1>6, <1>7, ControlFrame DEF Execute

\* What the steps of Cancel do with the canceller they move.
LEMMA TakeStopMoves ==
  ASSUME QueueType, CancelType, TakeStop
  PROVE  /\ canceller' \in Cancellings /\ canceller["queue"].at = "idle" /\ canceller'["queue"].at = "load"
         /\ canceller'["queue"].job \in Jobs
         /\ \A d \in Cancellers \ {"queue"} : canceller'[d] = canceller[d]
<1>1. canceller \in Cancellings /\ "queue" \in Cancellers
  BY DEF CancelType, Cancellings, Cancellers
<1>2. Head(queue)[2] \in Jobs
  BY HeadType DEF TakeStop, QueueIdle
<1>3. canceller["queue"].at = "idle" /\ "load" \in CancellerAts
  BY DEF TakeStop, QueueIdle, CancellerAts
<1> QED
  BY <1>1, <1>2, <1>3 DEF TakeStop, Cancellings

LEMMA TimerFiresMoves ==
  ASSUME CancelType, NEW l \in Runs, NEW j \in Jobs, TimerFires(l, j)
  PROVE  /\ canceller' \in Cancellings /\ canceller[l].at = "idle" /\ canceller'[l].at = "load"
         /\ canceller'[l].job = j /\ \A d \in Cancellers \ {l} : canceller'[d] = canceller[d]
<1>1. canceller \in Cancellings /\ l \in Cancellers
  BY DEF CancelType, Cancellings, Cancellers
<1>2. canceller[l].at = "idle" /\ "load" \in CancellerAts
  BY DEF TimerFires, CancellerAts
<1> QED
  BY <1>1, <1>2 DEF TimerFires, Cancellings

LEMMA CancelLoadMoves ==
  ASSUME CancelType, NEW c \in Cancellers, CancelLoad(c)
  PROVE  /\ canceller' \in Cancellings /\ canceller[c].at = "load" /\ canceller'[c].job = canceller[c].job
         /\ canceller[c].job \in Jobs /\ canceller'[c].entry = cancelMap[canceller[c].job]
         /\ canceller'[c].at = IF cancelMap[canceller[c].job] = NoRun THEN "send" ELSE "call"
         /\ \A d \in Cancellers \ {c} : canceller'[d] = canceller[d]
<1> DEFINE r == cancelMap[canceller[c].job]
           at == IF r = NoRun THEN "send" ELSE "call"
<1>1. canceller \in Cancellings
  BY DEF CancelType, Cancellings
<1>2. canceller[c].at = "load" /\ canceller' = [canceller EXCEPT ![c] = [at |-> at, job |-> @.job, entry |-> r]]
  BY DEF CancelLoad
<1>3. canceller[c].job \in Jobs
  BY <1>2 DEF CancelType
<1>4. r \in Runs \union {NoRun} /\ at \in CancellerAts
  BY <1>3 DEF CancelType, CancellerAts
<1> HIDE DEF r, at
<1>5. /\ canceller' \in Cancellings /\ canceller'[c].at = at /\ canceller'[c].job = canceller[c].job
      /\ canceller'[c].entry = r /\ \A d \in Cancellers \ {c} : canceller'[d] = canceller[d]
  BY <1>1, <1>2, <1>4 DEF Cancellings
<1> QED
  BY <1>2, <1>3, <1>5 DEF r, at

LEMMA CancelCallMoves ==
  ASSUME CancelType, NEW c \in Cancellers, CancelCall(c)
  PROVE  /\ canceller' \in Cancellings /\ canceller[c].at = "call" /\ canceller'[c].at = "send"
         /\ canceller'[c].job = canceller[c].job /\ canceller[c].job \in Jobs /\ canceller[c].entry \in Runs
         /\ \A d \in Cancellers \ {c} : canceller'[d] = canceller[d]
<1>1. canceller \in Cancellings
  BY DEF CancelType, Cancellings
<1>2. canceller[c].at = "call"
      /\ canceller' = [canceller EXCEPT ![c] = [at |-> "send", job |-> @.job, entry |-> @.entry]]
  BY DEF CancelCall
<1>3. canceller[c].job \in Jobs /\ canceller[c].entry \in Runs /\ "send" \in CancellerAts
  BY <1>2 DEF CancelType, CancellerAts
<1> QED
  BY <1>1, <1>2, <1>3 DEF Cancellings

LEMMA CancelSendMoves ==
  ASSUME CancelType, NEW c \in Cancellers, CancelSend(c)
  PROVE  /\ canceller' \in Cancellings /\ canceller[c].at = "send" /\ canceller'[c].at = "idle"
         /\ canceller[c].job \in Jobs /\ \A d \in Cancellers \ {c} : canceller'[d] = canceller[d]
<1>1. canceller \in Cancellings
  BY DEF CancelType, Cancellings
<1>2. canceller[c].at = "send" /\ canceller' = [canceller EXCEPT ![c] = NotCancelling]
  BY DEF CancelSend
<1>3. canceller[c].job \in Jobs
  BY <1>2 DEF CancelType
<1> QED
  BY <1>1, <1>2, <1>3 DEF Cancellings, CancellerAts, NotCancelling

LEMMA CancelNext == ASSUME QueueType, RunType, CancelType, [Next]_vars PROVE CancelType'
<1> USE RunsAssumption
<1>1. ASSUME TakeStop PROVE CancelType'
  BY <1>1, TakeStopMoves DEF CancelType, TakeStop
<1>2. ASSUME NEW l \in Runs, NEW j \in Jobs, TimerFires(l, j) PROVE CancelType'
  <2>1. /\ canceller' \in Cancellings /\ canceller'[l].at = "load" /\ canceller'[l].job = j
        /\ \A d \in Cancellers \ {l} : canceller'[d] = canceller[d]
    BY <1>2, TimerFiresMoves
  <2> QED
    BY <1>2, <2>1 DEF CancelType, TimerFires
<1>3. ASSUME NEW c \in Cancellers, CancelLoad(c) PROVE CancelType'
  <2>1. canceller'[c].at = "call" => canceller'[c].entry \in Runs
    BY <1>3, CancelLoadMoves DEF CancelType
  <2> QED
    BY <1>3, <2>1, CancelLoadMoves DEF CancelType, CancelLoad
<1>4. ASSUME NEW c \in Cancellers, CancelCall(c) PROVE CancelType'
  BY <1>4, CancelCallMoves DEF CancelType, CancelCall
<1>5. ASSUME NEW c \in Cancellers, CancelSend(c) PROVE CancelType'
  BY <1>5, CancelSendMoves DEF CancelType, CancelSend
<1>6. ASSUME NEW r \in Runs, Register(r) \/ StepBegin(r) PROVE CancelType'
  <2>1. job[r] \in Jobs
    BY <1>6 DEF Register, StepBegin, RunType
  <2> QED
    BY <1>6, <2>1 DEF Register, StepBegin, CancelType
<1>7. ASSUME NEW r \in Runs, StageEnd(r) \/ Untime(r) PROVE CancelType'
  BY <1>7 DEF StageEnd, Untime, TimersAfterRun, CancelType
<1>8. CASE UNCHANGED cancelling
  BY <1>8 DEF cancelling, CancelType
<1> QED
  BY <1>1, <1>2, <1>3, <1>4, <1>5, <1>6, <1>7, <1>8, CancelFrame DEF Cancel

LEMMA ReportNext == ASSUME RunType, CancelType, ReportType, [Next]_vars PROVE ReportType'
<1> DEFINE Messages == [job : Jobs, run : Runs \union {NoRun}, status : Statuses]
<1>1. ASSUME NEW j \in Jobs, NEW r \in Runs \union {NoRun}, NEW s \in Statuses, Send(j, r, s)
      PROVE  statusChan' \in Seq(Messages) /\ Len(statusChan') <= StatusCap
  <2>1. statusChan \in Seq(Messages) /\ Len(statusChan) \in Nat /\ StatusCap \in Nat
    BY CapAssumption, LenProperties DEF ReportType
  <2>2. statusChan' = Append(statusChan, [job |-> j, run |-> r, status |-> s]) /\ Len(statusChan) < StatusCap
    BY <1>1 DEF Send
  <2>3. [job |-> j, run |-> r, status |-> s] \in Messages
    OBVIOUS
  <2> HIDE DEF Messages
  <2>4. statusChan' \in Seq(Messages) /\ Len(statusChan') = Len(statusChan) + 1
    BY <2>1, <2>2, <2>3, Appended
  <2> QED
    BY <2>1, <2>2, <2>4
<1>2. ASSUME NEW r \in Runs, NEW s \in Statuses, verdicts' = [verdicts EXCEPT ![r] = Append(@, s)]
      PROVE  verdicts' \in [Runs -> Seq(Statuses)]
  <2>1. Append(verdicts[r], s) \in Seq(Statuses)
    BY Appended DEF ReportType
  <2> QED
    BY <1>2, <2>1 DEF ReportType
<1>3. ASSUME NEW r \in Runs, Report(r) PROVE ReportType'
  <2>1. job[r] \in Jobs /\ status[r] \in Statuses
    BY <1>3 DEF Report, RunType
  <2>2. statusChan' \in Seq(Messages) /\ Len(statusChan') <= StatusCap
    BY <1>1, <1>3, <2>1 DEF Report
  <2>3. verdicts' \in [Runs -> Seq(Statuses)]
    BY <1>2, <1>3, <2>1 DEF Report
  <2> QED
    BY <2>2, <2>3 DEF ReportType
<1>4. ASSUME NEW r \in Runs, ReportAgain(r) PROVE ReportType'
  <2>1. job[r] \in Jobs /\ "fail" \in Statuses
    BY <1>4 DEF ReportAgain, RunType, Statuses
  <2>2. statusChan' \in Seq(Messages) /\ Len(statusChan') <= StatusCap
    BY <1>1, <1>4, <2>1 DEF ReportAgain
  <2>3. verdicts' \in [Runs -> Seq(Statuses)]
    BY <1>2, <1>4, <2>1 DEF ReportAgain
  <2> QED
    BY <2>2, <2>3 DEF ReportType
<1>5. ASSUME NEW c \in Cancellers, CancelSend(c) PROVE ReportType'
  <2>1. canceller[c].job \in Jobs /\ "stop" \in Statuses
    BY <1>5, CancelSendMoves DEF Statuses
  <2>2. statusChan' \in Seq(Messages) /\ Len(statusChan') <= StatusCap
    BY <1>1, <1>5, <2>1 DEF CancelSend
  <2> QED
    BY <1>5, <2>2 DEF CancelSend, ReportType
<1>6. CASE TakeStatus
  <2>1. Tail(statusChan) \in Seq(Messages) /\ Len(Tail(statusChan)) <= Len(statusChan)
    BY <1>6, HeadTailProperties, LenProperties DEF TakeStatus, ReportType
  <2>2. Len(Tail(statusChan)) \in Nat /\ Len(statusChan) \in Nat /\ StatusCap \in Nat
    BY <2>1, CapAssumption, LenProperties DEF ReportType
  <2> QED
    BY <1>6, <2>1, <2>2 DEF TakeStatus, ReportType
<1>7. CASE UNCHANGED reporting
  BY <1>7 DEF reporting, ReportType
<1> QED
  BY <1>3, <1>4, <1>5, <1>6, <1>7, ReportFrame

LEMMA SaveNext == ASSUME RunType, SaveType, [Next]_vars, RunType' PROVE SaveType'
<1>1. ASSUME NEW r \in Runs, job[r] \in Jobs, Save(r), UNCHANGED saver,
             \A q \in Runs : pc[q] \notin {"none", "sort"} => pc'[q] \notin {"none", "sort"}
      PROVE  SaveType'
  BY <1>1 DEF Save, SaveType, RunType
<1>2. ASSUME NEW r \in Runs, StageBegin(r) \/ StepBegin(r) \/ StepEnd(r) \/ StageEnd(r) \/ Finish(r)
      PROVE  SaveType'
  <2>1. job[r] \in Jobs /\ Save(r) /\ UNCHANGED saver
    BY <1>2 DEF StageBegin, StepBegin, StepEnd, StageEnd, Finish, RunType
  <2>2. \A q \in Runs : pc[q] \notin {"none", "sort"} => pc'[q] \notin {"none", "sort"}
    <3>1. CASE StageBegin(r) \/ StepBegin(r) \/ Finish(r)
      BY <3>1 DEF StageBegin, StepBegin, Finish, Goto, StepLabel, RunType
    <3>2. CASE StepEnd(r)
      BY <3>2, StepEndMoves DEF RunType
    <3>3. CASE StageEnd(r)
      BY <3>3, StageEndMoves DEF RunType
    <3> QED
      BY <1>2, <3>1, <3>2, <3>3
  <2> QED
    BY <1>1, <2>1, <2>2
<1>3. ASSUME NEW r \in Runs, TakeStart(r) \/ SortFails(r) \/ DockerStart(r) \/ Report(r) \/ Untime(r) \/ ReportAgain(r)
      PROVE  SaveType'
  BY <1>3 DEF TakeStart, SortFails, DockerStart, Report, Untime, ReportAgain, Goto, RunType, SaveType, saving
<1>4. ASSUME NEW r \in Runs, Register(r) PROVE SaveType'
  BY <1>4 DEF Register, Goto, RunType, SaveType
<1>5. ASSUME NEW r \in Runs, Saver(r) PROVE SaveType'
  <2>1. CASE SaverMarshal(r) \/ SaverEnd(r)
    BY <2>1 DEF SaverMarshal, SaverEnd, SaveType, RunType, control
  <2>2. CASE SaverWrite(r)
    <3>1. saver[r] \in Statuses /\ saver[r] # "off"
      BY <2>2 DEF SaverWrite, Statuses
    <3>2. job[r] \in Jobs
      BY <3>1 DEF SaveType, RunType
    <3> QED
      BY <2>2, <3>1, <3>2 DEF SaverWrite, SaveType, RunType, control
  <2> QED
    BY <1>5, <2>1, <2>2 DEF Saver
<1>6. CASE UNCHANGED <<pc, saving>>
  BY <1>6 DEF saving, SaveType
<1>7. ASSUME NEW j \in Jobs, EnqueueStart(j) \/ EnqueueStop(j) PROVE UNCHANGED saving
  BY <1>7 DEF EnqueueStart, EnqueueStop
<1>8. ASSUME NEW c \in Cancellers, Cancel(c) PROVE UNCHANGED saving
  BY <1>8 DEF Cancel, CancelLoad, CancelCall, CancelSend
<1>9. DropStart \/ TakeStop \/ TakeStatus \/ (\E l \in Runs, j \in Jobs : TimerFires(l, j)) \/ UNCHANGED vars
      => UNCHANGED saving
  BY DEF DropStart, TakeStop, TakeStatus, TimerFires, vars
<1>10. (~ \E r \in Runs : TakeStart(r) \/ Execute(r)) => UNCHANGED pc
  BY ControlFrame DEF control
<1> QED
  BY <1>2, <1>3, <1>4, <1>5, <1>6, <1>7, <1>8, <1>9, <1>10 DEF Next, TakeMessage, Execute

LEMMA TypeNext == TypeInv /\ [Next]_vars => TypeInv'
BY QueueNext, RunNext, StackNext, CancelNext, ReportNext, SaveNext DEF TypeInv

LEMMA TypeImpliesInv == TypeInv => ExecutorInv
<1> SUFFICES ASSUME TypeInv PROVE ExecutorInv
  OBVIOUS
<1> USE DEF TypeInv
<1>1. \A r \in Runs : pc[r] \in {"docker", "begin", "step"} => step[r] \in DOMAIN Pipeline[stage[r]]
  BY PipelineFacts DEF RunType
<1>2. stack \in [Runs -> 0 .. 2] /\ PostBeforeNextStep
  BY DEF StackType, PostBeforeNextStep
<1>3. \A r \in Runs : stage[r] \in DOMAIN Pipeline
  BY DEF RunType
<1> QED
  BY <1>1, <1>2, <1>3 DEF ExecutorInv, TypeOK, QueueType, RunType, CancelType, CancellerAts, Cancellings,
                          ReportType, SaveType

\* What a step of the code may conclude from an outcome: the job's status
\* fails with a Pre or a Hook only, and never by itself succeeds.
LEMMA SetStatusType ==
  ASSUME RunType, NEW r \in Runs, NEW o \in ExecuteAction(r), SetStatus(r, o)
  PROVE  /\ \A q \in Runs \ {r} : status'[q] = status[q]
         /\ status'[r] = status[r] \/ status'[r] = "fail"
BY DEF SetStatus, RunType

-----------------------------------------------------------------------------
(* Errors and statuses.                                                    *)

LEMMA FailInit == Init => FailInv
BY DEF Init, FailInv

LEMMA FailNext == ASSUME QueueType, RunType, FailInv, [Next]_vars PROVE FailInv'
<1> USE DEF FailInv, RunType, Goto, Ending
<1>1. ASSUME NEW r \in Runs, TakeStart(r) \/ SortFails(r) \/ Register(r) PROVE FailInv'
  BY <1>1 DEF TakeStart, SortFails, Register
<1>2. ASSUME NEW r \in Runs, StageBegin(r) \/ StepBegin(r) PROVE FailInv'
  BY <1>2 DEF StageBegin, StepBegin, StepLabel
<1>3. ASSUME NEW r \in Runs, DockerStart(r) PROVE FailInv'
  <2>1. PICK o \in ExecuteAction(r) :
          /\ err' = [err EXCEPT ![r] = o.err] /\ SetStatus(r, o)
          /\ pc' = [pc EXCEPT ![r] = IF o.err THEN "stageEnd" ELSE "begin"]
    BY <1>3 DEF DockerStart
  <2>2. pc[r] = "docker" /\ UNCHANGED failedSteps
    BY <1>3 DEF DockerStart
  <2>3. /\ \A q \in Runs \ {r} : status'[q] = status[q] /\ pc'[q] = pc[q] /\ err'[q] = err[q]
        /\ status'[r] # "success"
    BY <2>1, <2>2, SetStatusType
  <2>4. \A s \in failedSteps[r] : s[2] < Len(Pipeline[s[1]])
    BY <2>2
  <2> QED
    BY <2>2, <2>3, <2>4
<1>4. ASSUME NEW r \in Runs, StepEnd(r) PROVE FailInv'
  <2>1. PICK o \in ExecuteAction(r) :
          /\ err' = [err EXCEPT ![r] = o.err] /\ SetStatus(r, o)
          /\ failedSteps' = [failedSteps EXCEPT ![r] = IF o.err THEN @ \union {<<stage[r], step[r]>>} ELSE @]
    BY <1>4 DEF StepEnd
  <2>2. pc[r] = "step"
    BY <1>4 DEF StepEnd
  <2>3. /\ \A q \in Runs \ {r} : status'[q] = status[q] /\ err'[q] = err[q] /\ failedSteps'[q] = failedSteps[q]
        /\ status'[r] # "success"
    BY <2>1, <2>2, SetStatusType
  <2>4. \A s \in failedSteps[r] : s[2] < Len(Pipeline[s[1]])
    BY <2>2
  <2>5. \A q \in Runs \ {r} : pc'[q] = pc[q]
    BY <1>4, StepEndMoves
  <2>6. \A s \in failedSteps'[r] : s[2] < Len(Pipeline[s[1]]) \/ (err'[r] /\ pc'[r] = "stageEnd")
    <3>1. CASE step[r] < Len(Pipeline[stage[r]])
      BY <2>1, <2>4, <3>1
    <3>2. CASE ~(step[r] < Len(Pipeline[stage[r]]))
      <4>1. pc'[r] = "stageEnd"
        BY <1>4, <3>2, StepEndMoves
      <4>2. CASE o.err
        BY <2>1, <2>4, <4>1, <4>2
      <4>3. CASE ~o.err
        BY <2>1, <2>4, <4>3
      <4> QED
        BY <4>2, <4>3
    <3> QED
      BY <3>1, <3>2
  <2> QED
    BY <2>3, <2>5, <2>6
<1>5. ASSUME NEW r \in Runs, StageEnd(r) PROVE FailInv'
  <2>1. pc[r] = "stageEnd" /\ UNCHANGED <<status, err, failedSteps>>
    BY <1>5 DEF StageEnd
  <2>2. /\ \A q \in Runs \ {r} : pc'[q] = pc[q]
        /\ pc'[r] = "finish" \/ ~err[r]
    BY <1>5, StageEndMoves
  <2> QED
    BY <2>1, <2>2
<1>6. ASSUME NEW r \in Runs, Finish(r) PROVE FailInv'
  BY <1>6 DEF Finish
<1>7. ASSUME NEW r \in Runs, Report(r) \/ Untime(r) \/ ReportAgain(r) PROVE FailInv'
  BY <1>7 DEF Report, Untime, ReportAgain
<1>8. CASE UNCHANGED control
  BY <1>8 DEF control
<1> QED
  BY <1>1, <1>2, <1>3, <1>4, <1>5, <1>6, <1>7, <1>8, ControlFrame DEF Execute

LEMMA FailImpliesKept == RunType /\ FailInv => OnlyInnerFailuresAreLost
BY DEF FailInv, OnlyInnerFailuresAreLost

-----------------------------------------------------------------------------
(* cancelMap.                                                              *)

LEMMA EntryInit == Init => EntryInv
BY DEF Init, EntryInv, NotCancelling

\* A run's job is set once.
LEMMA JobSteps ==
  ASSUME QueueType, RunType, [Next]_vars
  PROVE  \/ job' = job
         \/ \E r \in Runs, j \in Jobs : TakeStart(r) /\ job[r] = NoJob /\ job' = [job EXCEPT ![r] = j]
<1>1. ASSUME NEW r \in Runs, TakeStart(r)
      PROVE  \E j \in Jobs : job[r] = NoJob /\ job' = [job EXCEPT ![r] = j]
  BY <1>1, HeadType DEF TakeStart, QueueIdle, RunType
<1>2. ASSUME NEW r \in Runs, Execute(r) PROVE job' = job
  BY <1>2 DEF Execute, SortFails, Register, StageBegin, DockerStart, StepBegin, StepEnd, StageEnd, Finish,
              Report, Untime, ReportAgain
<1> QED
  BY <1>1, <1>2, ControlFrame DEF control

LEMMA EntryNext == ASSUME QueueType, RunType, CancelType, EntryInv, [Next]_vars PROVE EntryInv'
<1> USE RunsAssumption
<1>1. ASSUME NEW r \in Runs, NEW j \in Jobs, TakeStart(r), job[r] = NoJob, job' = [job EXCEPT ![r] = j]
      PROVE  EntryInv'
  <2>1. UNCHANGED cancelling
    BY <1>1 DEF TakeStart
  <2>2. \A q \in Runs : job[q] # NoJob => job'[q] = job[q]
    BY <1>1 DEF RunType
  <2>3. ASSUME NEW i \in Jobs, cancelMap[i] # NoRun PROVE job'[cancelMap[i]] = i
    <3>1. job[cancelMap[i]] = i /\ cancelMap[i] \in Runs /\ i # NoJob
      BY <2>3 DEF EntryInv, CancelType
    <3> QED
      BY <2>2, <3>1
  <2>4. ASSUME NEW c \in Cancellers, canceller[c].at = "call" PROVE job'[canceller[c].entry] = canceller[c].job
    <3>1. /\ job[canceller[c].entry] = canceller[c].job /\ canceller[c].entry \in Runs
          /\ canceller[c].job \in Jobs /\ canceller[c].job # NoJob
      BY <2>4 DEF EntryInv, CancelType
    <3> QED
      BY <2>2, <3>1
  <2> QED
    BY <2>1, <2>3, <2>4 DEF EntryInv, cancelling
<1>2. ASSUME job' = job, UNCHANGED cancelling PROVE EntryInv'
  BY <1>2 DEF EntryInv, cancelling
<1>3. ASSUME NEW r \in Runs, Register(r) PROVE EntryInv'
  BY <1>3 DEF Register, EntryInv, CancelType, RunType
<1>4. ASSUME NEW r \in Runs, StepBegin(r) \/ StageEnd(r) \/ Untime(r) PROVE UNCHANGED <<cancelMap, canceller, job>>
  BY <1>4 DEF StepBegin, StageEnd, Untime
<1>5. UNCHANGED <<cancelMap, canceller, job>> => EntryInv'
  BY DEF EntryInv
<1>6. ASSUME TakeStop PROVE EntryInv'
  <2>1. canceller'["queue"].at = "load" /\ \A d \in Cancellers \ {"queue"} : canceller'[d] = canceller[d]
    BY <1>6, TakeStopMoves
  <2>2. UNCHANGED <<cancelMap, job>>
    BY <1>6 DEF TakeStop, control
  <2> QED
    BY <2>1, <2>2 DEF EntryInv
<1>7. ASSUME NEW l \in Runs, NEW j \in Jobs, TimerFires(l, j) PROVE EntryInv'
  <2>1. canceller'[l].at = "load" /\ \A d \in Cancellers \ {l} : canceller'[d] = canceller[d]
    BY <1>7, TimerFiresMoves
  <2>2. UNCHANGED <<cancelMap, job>>
    BY <1>7 DEF TimerFires, control
  <2> QED
    BY <2>1, <2>2 DEF EntryInv
<1>8. ASSUME NEW c \in Cancellers, CancelLoad(c) PROVE EntryInv'
  <2>1. /\ canceller'[c].job = canceller[c].job /\ canceller[c].job \in Jobs
        /\ canceller'[c].entry = cancelMap[canceller[c].job]
        /\ canceller'[c].at = "call" => cancelMap[canceller[c].job] # NoRun
        /\ \A d \in Cancellers \ {c} : canceller'[d] = canceller[d]
    BY <1>8, CancelLoadMoves
  <2>2. UNCHANGED <<cancelMap, job>>
    BY <1>8 DEF CancelLoad, control
  <2>3. canceller'[c].at = "call" => job'[canceller'[c].entry] = canceller'[c].job
    BY <2>1, <2>2 DEF EntryInv
  <2> QED
    BY <2>1, <2>2, <2>3 DEF EntryInv
<1>9. ASSUME NEW c \in Cancellers, CancelCall(c) PROVE EntryInv'
  <2>1. canceller'[c].at = "send" /\ \A d \in Cancellers \ {c} : canceller'[d] = canceller[d]
    BY <1>9, CancelCallMoves
  <2>2. job' = job /\ \A j \in Jobs : cancelMap'[j] # NoRun => cancelMap'[j] = cancelMap[j]
    BY <1>9 DEF CancelCall, CancelType, control
  <2> QED
    BY <2>1, <2>2 DEF EntryInv
<1>10. ASSUME NEW c \in Cancellers, CancelSend(c) PROVE EntryInv'
  <2>1. canceller'[c].at = "idle" /\ \A d \in Cancellers \ {c} : canceller'[d] = canceller[d]
    BY <1>10, CancelSendMoves
  <2>2. UNCHANGED <<cancelMap, job>>
    BY <1>10 DEF CancelSend, control
  <2> QED
    BY <2>1, <2>2 DEF EntryInv
<1>11. TakeStop \/ (\E l \in Runs, j \in Jobs : TimerFires(l, j)) \/ (\E c \in Cancellers : Cancel(c)) => EntryInv'
  BY <1>6, <1>7, <1>8, <1>9, <1>10 DEF Cancel
<1>12. (\E r \in Runs : Register(r) \/ StepBegin(r) \/ StageEnd(r) \/ Untime(r)) => EntryInv'
  BY <1>3, <1>4, <1>5
<1>13. job' = job /\ UNCHANGED cancelling => EntryInv'
  BY <1>2
<1>14. (\E r \in Runs, j \in Jobs : TakeStart(r) /\ job[r] = NoJob /\ job' = [job EXCEPT ![r] = j]) => EntryInv'
  BY <1>1
<1> QED
  BY <1>11, <1>12, <1>13, <1>14, CancelFrame, JobSteps

-----------------------------------------------------------------------------
(* How a call of Execute moves.                                            *)

LEMMA ExecuteMoves ==
  ASSUME RunType, NEW r \in Runs, Execute(r)
  PROVE  /\ pc[r] # "none" /\ pc'[r] \notin {"none", "sort"} /\ \A q \in Runs \ {r} : pc'[q] = pc[q]
         /\ pc'[r] \in Begun => pc[r] \in Begun \/ Register(r)
         /\ pc'[r] = "step" => StepBegin(r)
         /\ pc[r] \in Begun \union {"report", "untime"} => pc'[r] \in Begun \union {"report", "untime"} \/ Untime(r)
<1> USE DEF RunType, Begun, Goto
<1>1. CASE SortFails(r) \/ Register(r) \/ Finish(r) \/ Report(r)
  BY <1>1 DEF SortFails, Register, Finish, Report
<1>2. CASE StageBegin(r) \/ StepBegin(r)
  BY <1>2 DEF StageBegin, StepBegin, StepLabel
<1>3. CASE DockerStart(r)
  <2>1. pc[r] = "docker" /\ \E l \in {"stageEnd", "begin"} : pc' = [pc EXCEPT ![r] = l]
    BY <1>3 DEF DockerStart
  <2> QED
    BY <2>1
<1>4. CASE StepEnd(r)
  <2>1. pc[r] = "step"
    BY <1>4 DEF StepEnd
  <2>2. \E l \in {"docker", "begin", "stageEnd"} : pc' = [pc EXCEPT ![r] = l]
    BY <1>4, StepEndMoves
  <2> QED
    BY <2>1, <2>2
<1>5. CASE StageEnd(r)
  <2>1. pc[r] = "stageEnd"
    BY <1>5 DEF StageEnd
  <2>2. \E l \in {"stage", "finish"} : pc' = [pc EXCEPT ![r] = l]
    BY <1>5, StageEndMoves
  <2> QED
    BY <2>1, <2>2
<1>6. CASE Untime(r)
  <2>1. pc[r] = "untime" /\ \E l \in {"reportAgain", "done"} : pc' = [pc EXCEPT ![r] = l]
    BY <1>6 DEF Untime
  <2> QED
    BY <1>6, <2>1
<1>7. CASE ReportAgain(r)
  BY <1>7 DEF ReportAgain
<1> QED
  BY <1>1, <1>2, <1>3, <1>4, <1>5, <1>6, <1>7 DEF Execute

\* Any step, seen by one call.
LEMMA RunMoves ==
  ASSUME RunType, [Next]_vars, NEW r \in Runs
  PROVE  /\ pc[r] \notin {"none", "sort"} => pc'[r] \notin {"none", "sort"}
         /\ pc'[r] \in Begun => pc[r] \in Begun \/ Register(r)
         /\ pc'[r] = "step" => pc[r] = "step" \/ StepBegin(r)
         /\ pc[r] \in Begun \union {"report", "untime"} => pc'[r] \in Begun \union {"report", "untime"} \/ Untime(r)
<1>1. CASE Execute(r)
  BY <1>1, ExecuteMoves
<1>2. CASE TakeStart(r)
  BY <1>2 DEF TakeStart, Goto, Begun, RunType
<1>3. CASE pc'[r] = pc[r]
  BY <1>3
<1>4. ASSUME NEW q \in Runs \ {r}, TakeStart(q) \/ Execute(q) PROVE pc'[r] = pc[r]
  <2>1. CASE TakeStart(q)
    BY <2>1 DEF TakeStart, Goto, RunType
  <2>2. CASE Execute(q)
    BY <2>2, ExecuteMoves
  <2> QED
    BY <1>4, <2>1, <2>2
<1> QED
  BY <1>1, <1>2, <1>3, <1>4, ControlFrame DEF control

\* A call keeps its job, and was the only one of its job if it still is.
LEMMA JobKept ==
  ASSUME QueueType, RunType, [Next]_vars, NEW r \in Runs, pc[r] # "none"
  PROVE  job'[r] = job[r] /\ job[r] \in Jobs /\ (OnlyRunOf(r)' => OnlyRunOf(r))
<1>1. job[r] # NoJob /\ job[r] \in Jobs
  BY DEF RunType
<1>2. CASE job' = job
  BY <1>1, <1>2 DEF OnlyRunOf
<1>3. ASSUME NEW q \in Runs, NEW j \in Jobs, job[q] = NoJob, job' = [job EXCEPT ![q] = j]
      PROVE  job'[r] = job[r] /\ (OnlyRunOf(r)' => OnlyRunOf(r))
  <2>1. \A p \in Runs : job[p] # NoJob => job'[p] = job[p]
    BY <1>3 DEF RunType
  <2>2. ASSUME OnlyRunOf(r)', NEW p \in Runs, job[p] = job[r] PROVE p = r
    BY <1>1, <2>1, <2>2 DEF OnlyRunOf
  <2> QED
    BY <1>1, <2>1, <2>2 DEF OnlyRunOf
<1> QED
  BY <1>1, <1>2, <1>3, JobSteps

\* Who writes cancelMap, and that a cancelled context stays cancelled.
LEMMA CancelMapSteps ==
  ASSUME [Next]_vars
  PROVE  /\ cancelMap' = cancelMap \/ (\E q \in Runs : Register(q)) \/ (\E c \in Cancellers : CancelCall(c))
         /\ cancelled \subseteq cancelled'
<1>1. TakeStop \/ (\E l \in Runs, j \in Jobs : TimerFires(l, j)) => UNCHANGED <<cancelMap, cancelled>>
  BY DEF TakeStop, TimerFires
<1>2. ASSUME NEW c \in Cancellers, Cancel(c)
      PROVE  (cancelMap' = cancelMap \/ CancelCall(c)) /\ cancelled \subseteq cancelled'
  BY <1>2 DEF Cancel, CancelLoad, CancelCall, CancelSend
<1>3. ASSUME NEW r \in Runs, Register(r) \/ StepBegin(r) \/ StageEnd(r) \/ Untime(r)
      PROVE  (cancelMap' = cancelMap \/ Register(r)) /\ cancelled \subseteq cancelled'
  BY <1>3 DEF Register, StepBegin, StageEnd, Untime
<1> QED
  BY <1>1, <1>2, <1>3, CancelFrame DEF cancelling

LEMMA KnownInit == Init => RunningIsKnown
BY DEF Init, RunningIsKnown, Active

LEMMA KnownNext ==
  ASSUME QueueType, RunType, CancelType, EntryInv, RunningIsKnown, [Next]_vars PROVE RunningIsKnown'
<1> SUFFICES ASSUME NEW r \in Runs, Active(r)', r \notin cancelled', OnlyRunOf(r)'
             PROVE  cancelMap'[job'[r]] = r
  BY DEF RunningIsKnown
<1>1. CASE Register(r)
  BY <1>1 DEF Register, RunType, CancelType
<1>2. CASE ~Register(r)
  <2>1. pc[r] \in Begun
    BY <1>2, RunMoves DEF Active, Begun
  <2>2. job'[r] = job[r] /\ job[r] \in Jobs /\ OnlyRunOf(r)
    BY <2>1, JobKept DEF Begun
  <2>3. r \notin cancelled
    BY CancelMapSteps
  <2>4. cancelMap[job[r]] = r
    BY <2>1, <2>2, <2>3 DEF RunningIsKnown, Active, Begun
  <2>5. ASSUME NEW q \in Runs, Register(q) PROVE cancelMap'[job[r]] = r
    <3>1. job[q] # job[r]
      BY <1>2, <2>2, <2>5 DEF OnlyRunOf
    <3> QED
      BY <2>2, <2>4, <2>5, <3>1 DEF Register, CancelType
  <2>6. ASSUME NEW c \in Cancellers, CancelCall(c) PROVE cancelMap'[job[r]] = r
    <3>1. canceller[c].at = "call" /\ canceller[c].entry \in Runs
      BY <2>6 DEF CancelCall, CancelType
    <3>2. canceller[c].entry # r
      BY <2>6 DEF CancelCall
    <3>3. canceller[c].job # job[r]
      BY <2>2, <3>1, <3>2 DEF EntryInv, OnlyRunOf
    <3> QED
      BY <2>2, <2>4, <2>6, <3>3 DEF CancelCall, CancelType
  <2> QED
    BY <2>2, <2>4, <2>5, <2>6, CancelMapSteps
<1> QED
  BY <1>1, <1>2

-----------------------------------------------------------------------------
(* Step timers.                                                            *)

\* Who moves a timer listener.
LEMMA ListenerSteps ==
  ASSUME QueueType, CancelType, [Next]_vars, NEW c \in Runs
  PROVE  \/ canceller'[c] = canceller[c] \/ \E j \in Jobs : TimerFires(c, j)
         \/ CancelLoad(c) \/ CancelCall(c) \/ CancelSend(c)
<1>0. c \in Cancellers /\ c # "queue"
  BY RunsAssumption DEF Cancellers
<1>1. CASE TakeStop
  BY <1>0, <1>1, TakeStopMoves
<1>2. ASSUME NEW l \in Runs, NEW j \in Jobs, TimerFires(l, j), l # c PROVE canceller'[c] = canceller[c]
  BY <1>0, <1>2, TimerFiresMoves
<1>3. ASSUME NEW d \in Cancellers, Cancel(d), d # c PROVE canceller'[c] = canceller[c]
  <2>1. CASE CancelLoad(d)
    BY <1>0, <1>3, <2>1, CancelLoadMoves
  <2>2. CASE CancelCall(d)
    BY <1>0, <1>3, <2>2, CancelCallMoves
  <2>3. CASE CancelSend(d)
    BY <1>0, <1>3, <2>3, CancelSendMoves
  <2> QED
    BY <1>3, <2>1, <2>2, <2>3 DEF Cancel
<1>4. ASSUME NEW r \in Runs, Register(r) \/ StepBegin(r) \/ StageEnd(r) \/ Untime(r) PROVE canceller' = canceller
  BY <1>4 DEF Register, StepBegin, StageEnd, Untime
<1> QED
  BY <1>0, <1>1, <1>2, <1>3, <1>4, CancelFrame DEF Cancel, cancelling

\* Who writes timers: what a step takes away is the job of the call that
\* untimes, or of the listener that answers.
LEMMA TimerSteps ==
  ASSUME QueueType, RunType, CancelType, [Next]_vars, NEW j \in Jobs
  PROVE  /\ j \in timers' => j \in timers \/ \E r \in Runs : StepBegin(r) /\ job[r] = j
         /\ j \in timers => \/ j \in timers' \/ \E r \in Runs : Untime(r) /\ job[r] = j
                            \/ \E c \in Runs : canceller[c].at = "send" /\ canceller[c].job = j
         /\ \A r \in Runs : Untime(r) /\ job[r] = j => j \notin timers'
<1>1. ASSUME NEW r \in Runs, Untime(r)
      PROVE  timers' = timers \ {job[r]} /\ \A q \in Runs : Untime(q) => job[q] \notin timers'
  BY <1>1 DEF Untime, TimersAfterRun
<1>2. ASSUME NEW r \in Runs, StepBegin(r)
      PROVE  timers' = timers \union {job[r]} /\ \A q \in Runs : ~Untime(q)
  <2>1. pc[r] = "begin" /\ pc' = [pc EXCEPT ![r] = "step"]
    BY <1>2 DEF StepBegin, Goto
  <2>2. \A q \in Runs : Untime(q) => pc[q] = "untime" /\ pc'[q] \in {"reportAgain", "done"}
    BY DEF Untime, Goto, RunType
  <2> QED
    BY <1>2, <2>1, <2>2 DEF StepBegin, RunType
<1>3. ASSUME NEW q \in Runs, Untime(q) PROVE timers' = timers \ {job[q]}
  BY <1>3 DEF Untime, TimersAfterRun
<1>4. ASSUME NEW c \in Cancellers, CancelSend(c)
      PROVE  \/ timers' = timers
             \/ c \in Runs /\ canceller[c].at = "send" /\ timers' = timers \ {canceller[c].job}
  BY <1>4 DEF CancelSend
<1>5. ASSUME NEW r \in Runs, Register(r) \/ StageEnd(r) PROVE timers' = timers
  BY <1>5 DEF Register, StageEnd
<1>6. ASSUME NEW c \in Cancellers, CancelLoad(c) \/ CancelCall(c) PROVE timers' = timers
  BY <1>6 DEF CancelLoad, CancelCall
<1>7. TakeStop \/ (\E l \in Runs, i \in Jobs : TimerFires(l, i)) => timers' = timers
  BY DEF TakeStop, TimerFires
<1>8. \/ timers' = timers
      \/ \E r \in Runs : Untime(r) /\ timers' = timers \ {job[r]}
      \/ \E r \in Runs : StepBegin(r) /\ timers' = timers \union {job[r]}
      \/ \E c \in Runs : canceller[c].at = "send" /\ timers' = timers \ {canceller[c].job}
  BY <1>1, <1>2, <1>4, <1>5, <1>6, <1>7, CancelFrame DEF Cancel, cancelling
<1> QED
  BY <1>3, <1>8

LEMMA TimerInit == Init => TimersFollowRuns /\ TimerInv
BY RunsAssumption DEF Init, TimersFollowRuns, TimerInv, NotCancelling, Cancellers

\* A job with a timer has a call in the range where the timer is due.
LEMMA TimedNext ==
  ASSUME QueueType, RunType, CancelType, TimerInv, [Next]_vars, NEW j \in timers', j \in Jobs
  PROVE  \E r \in Runs : job'[r] = j /\ pc'[r] \in Begun \union {"report", "untime"}
<1>1. CASE \E r \in Runs : StepBegin(r) /\ job[r] = j
  <2>1. PICK r \in Runs : StepBegin(r) /\ job[r] = j
    BY <1>1
  <2>2. pc'[r] = "step" /\ job'[r] = j
    BY <2>1 DEF StepBegin, Goto, RunType
  <2> QED
    BY <2>2 DEF Begun
<1>2. CASE j \in timers
  <2>1. PICK r \in Runs : job[r] = j /\ pc[r] \in Begun \union {"report", "untime"}
    BY <1>2 DEF TimerInv
  <2>2. ~Untime(r)
    BY <2>1, TimerSteps
  <2>3. pc'[r] \in Begun \union {"report", "untime"}
    BY <2>1, <2>2, RunMoves
  <2>4. pc[r] # "none"
    BY <2>1 DEF Begun
  <2>5. job'[r] = j
    BY <2>1, <2>4, JobKept
  <2> QED
    BY <2>3, <2>5
<1> QED
  BY <1>1, <1>2, TimerSteps

\* A listener at work is so for a job that has begun.
LEMMA ListenedNext ==
  ASSUME QueueType, RunType, CancelType, TimerInv, [Next]_vars, NEW c \in Runs, canceller'[c].at # "idle"
  PROVE  \E r \in Runs : job'[r] = canceller'[c].job /\ pc'[r] \notin {"none", "sort"}
<1>0. c \in Cancellers
  BY DEF Cancellers
<1>1. ASSUME NEW j, \E r \in Runs : job[r] = j /\ pc[r] \notin {"none", "sort"}
      PROVE  \E r \in Runs : job'[r] = j /\ pc'[r] \notin {"none", "sort"}
  <2>1. PICK r \in Runs : job[r] = j /\ pc[r] \notin {"none", "sort"}
    BY <1>1
  <2>2. pc'[r] \notin {"none", "sort"} /\ job'[r] = job[r]
    BY <2>1, RunMoves, JobKept
  <2> QED
    BY <2>1, <2>2
<1>2. ASSUME canceller[c].at # "idle", canceller'[c].job = canceller[c].job
      PROVE  \E r \in Runs : job'[r] = canceller'[c].job /\ pc'[r] \notin {"none", "sort"}
  <2>1. \E r \in Runs : job[r] = canceller[c].job /\ pc[r] \notin {"none", "sort"}
    BY <1>2 DEF TimerInv
  <2> QED
    BY <1>1, <1>2, <2>1
<1>3. ASSUME NEW j \in Jobs, TimerFires(c, j)
      PROVE  \E r \in Runs : job'[r] = canceller'[c].job /\ pc'[r] \notin {"none", "sort"}
  <2>1. canceller'[c].job = j /\ j \in timers
    BY <1>3, TimerFiresMoves DEF TimerFires
  <2>2. \E r \in Runs : job[r] = j /\ pc[r] \notin {"none", "sort"}
    BY <2>1 DEF TimerInv, Begun
  <2> QED
    BY <1>1, <2>1, <2>2
<1>4. CASE CancelLoad(c)
  BY <1>0, <1>2, <1>4, CancelLoadMoves
<1>5. CASE CancelCall(c)
  BY <1>0, <1>2, <1>5, CancelCallMoves
<1>6. CASE CancelSend(c)
  BY <1>0, <1>6, CancelSendMoves
<1>7. CASE canceller'[c] = canceller[c]
  BY <1>2, <1>7
<1> QED
  BY <1>3, <1>4, <1>5, <1>6, <1>7, ListenerSteps

\* When a listener is about to answer, the context of the only call of its
\* job is cancelled.
LEMMA AnsweredNext ==
  ASSUME QueueType, RunType, CancelType, EntryInv, RunningIsKnown, TimerInv, [Next]_vars,
         NEW c \in Runs, NEW r \in Runs,
         canceller'[c].at = "send", canceller'[c].job = job'[r], Active(r)', OnlyRunOf(r)'
  PROVE  r \in cancelled'
<1> USE RunsAssumption
<1>0. c \in Cancellers
  BY DEF Cancellers
<1>1. pc[r] \in Begun \/ Register(r)
  BY RunMoves DEF Active, Begun
<1>2. pc[r] # "none" /\ (Register(r) => pc[r] = "sort")
  BY <1>1 DEF Begun, Register
<1>3. job'[r] = job[r] /\ job[r] \in Jobs /\ OnlyRunOf(r)
  BY <1>2, JobKept
<1>4. CASE canceller'[c] = canceller[c]
  <2>1. canceller[c].at = "send" /\ canceller[c].job = job[r]
    BY <1>3, <1>4
  <2>2. \E q \in Runs : job[q] = canceller[c].job /\ pc[q] \notin {"none", "sort"}
    BY <2>1 DEF TimerInv
  <2>3. pc[r] # "sort"
    BY <1>3, <2>1, <2>2 DEF OnlyRunOf
  <2>4. r \in cancelled
    BY <1>1, <1>2, <1>3, <2>1, <2>3 DEF TimerInv, Active, Begun
  <2> QED
    BY <2>4, CancelMapSteps
<1>5. CASE CancelLoad(c)
  <2>1. canceller[c].job = job[r] /\ cancelMap[job[r]] = NoRun
    BY <1>0, <1>3, <1>5, CancelLoadMoves
  <2>2. UNCHANGED <<pc, cancelled>>
    BY <1>5 DEF CancelLoad, control
  <2>3. Active(r)
    BY <2>2 DEF Active
  <2> QED
    BY <1>3, <2>1, <2>2, <2>3 DEF RunningIsKnown
<1>6. CASE CancelCall(c)
  <2>1. canceller[c].at = "call" /\ canceller[c].job = job[r] /\ canceller[c].entry \in Runs
    BY <1>0, <1>3, <1>6, CancelCallMoves
  <2>2. canceller[c].entry = r
    BY <1>0, <1>3, <2>1 DEF EntryInv, OnlyRunOf
  <2> QED
    BY <1>6, <2>2 DEF CancelCall
<1>7. CASE CancelSend(c)
  BY <1>0, <1>7, CancelSendMoves
<1>8. ASSUME NEW j \in Jobs, TimerFires(c, j) PROVE FALSE
  BY <1>8, TimerFiresMoves
<1> QED
  BY <1>4, <1>5, <1>6, <1>7, <1>8, ListenerSteps

LEMMA TimersNext ==
  ASSUME QueueType, RunType, CancelType, EntryInv, RunningIsKnown, TimersFollowRuns, TimerInv, [Next]_vars,
         CancelType'
  PROVE  TimersFollowRuns' /\ TimerInv'
<1>1. TimerInv'
  <2>1. \A j \in timers' : \E r \in Runs : job'[r] = j /\ pc'[r] \in Begun \union {"report", "untime"}
    BY TimedNext DEF CancelType
  <2>2. \A c \in Runs : canceller'[c].at # "idle" =>
          \E r \in Runs : job'[r] = canceller'[c].job /\ pc'[r] \notin {"none", "sort"}
    BY ListenedNext
  <2>3. \A c \in Runs, r \in Runs :
          canceller'[c].at = "send" /\ canceller'[c].job = job'[r] /\ Active(r)' /\ OnlyRunOf(r)' => r \in cancelled'
    BY AnsweredNext
  <2> QED
    BY <2>1, <2>2, <2>3 DEF TimerInv
<1>2. ASSUME NEW j \in timers' PROVE \E r \in Runs : job'[r] = j /\ pc'[r] \notin {"none", "done"}
  BY <1>1 DEF TimerInv, Begun
<1>3. ASSUME NEW r \in Runs, pc'[r] = "step", OnlyRunOf(r)' PROVE job'[r] \in timers' \/ r \in cancelled'
  <2>1. CASE StepBegin(r)
    BY <2>1 DEF StepBegin
  <2>2. CASE pc[r] = "step"
    <3>1. job'[r] = job[r] /\ job[r] \in Jobs /\ OnlyRunOf(r)
      BY <1>3, <2>2, JobKept
    <3>2. CASE r \in cancelled
      BY <3>2, CancelMapSteps
    <3>3. CASE job[r] \in timers
      <4>1. ASSUME NEW q \in Runs, Untime(q), job[q] = job[r] PROVE FALSE
        <5>1. q = r /\ pc[q] = "untime"
          BY <3>1, <4>1 DEF OnlyRunOf, Untime
        <5> QED
          BY <2>2, <5>1
      <4>2. ASSUME NEW c \in Runs, canceller[c].at = "send", canceller[c].job = job[r] PROVE r \in cancelled'
        <5>1. r \in cancelled
          BY <2>2, <3>1, <4>2 DEF TimerInv, Active
        <5> QED
          BY <5>1, CancelMapSteps
      <4> QED
        BY <3>1, <3>3, <4>1, <4>2, TimerSteps
    <3> QED
      BY <2>2, <3>1, <3>2, <3>3 DEF TimersFollowRuns
  <2> QED
    BY <1>3, <2>1, <2>2, RunMoves
<1> QED
  BY <1>1, <1>2, <1>3 DEF TimersFollowRuns

-----------------------------------------------------------------------------
(* Verdicts.                                                               *)

LEMMA VerdictInit == Init => VerdictInv
BY DEF Init, VerdictInv, VerdictOf, Ending, Returned

LEMMA VerdictNext ==
  ASSUME QueueType, RunType, ReportType, FailInv, VerdictInv, [Next]_vars PROVE VerdictInv'
<1> USE DEF RunType, Goto, Ending, Returned, Statuses
<1>1. ASSUME NEW q \in Runs, UNCHANGED <<pc[q], status[q], err[q], verdicts[q]>> PROVE VerdictOf(q)'
  BY <1>1 DEF VerdictInv, VerdictOf
<1>2. ASSUME NEW r \in Runs, TakeStart(r) PROVE VerdictInv'
  <2>1. VerdictOf(r)'
    BY <1>2 DEF TakeStart, reporting, VerdictInv, VerdictOf
  <2>2. \A q \in Runs \ {r} : UNCHANGED <<pc[q], status[q], err[q], verdicts[q]>>
    BY <1>2 DEF TakeStart, reporting
  <2> QED
    BY <1>1, <2>1, <2>2 DEF VerdictInv
<1>3. ASSUME NEW r \in Runs, SortFails(r) PROVE VerdictInv'
  <2>1. VerdictOf(r)'
    <3>1. status[r] # "success" /\ verdicts[r] = <<>>
      BY <1>3 DEF SortFails, FailInv, VerdictInv, VerdictOf
    <3>2. pc'[r] = "report" /\ err'[r] /\ status'[r] = status[r] /\ verdicts'[r] = verdicts[r]
      <4>1. err'[r]
        BY <1>3 DEF SortFails
      <4> QED
        BY <1>3, <4>1 DEF SortFails, reporting
    <3> QED
      BY <3>1, <3>2 DEF VerdictOf
  <2>2. \A q \in Runs \ {r} : UNCHANGED <<pc[q], status[q], err[q], verdicts[q]>>
    BY <1>3 DEF SortFails, reporting
  <2> QED
    BY <1>1, <2>1, <2>2 DEF VerdictInv
<1>4. ASSUME NEW r \in Runs, pc'[r] \in Begun, verdicts[r] = <<>>, UNCHANGED verdicts,
             \A q \in Runs \ {r} : UNCHANGED <<pc[q], status[q], err[q]>>
      PROVE  VerdictInv'
  <2>1. VerdictOf(r)'
    BY <1>4 DEF VerdictOf, Begun
  <2> QED
    BY <1>1, <1>4, <2>1 DEF VerdictInv
<1>5. ASSUME NEW r \in Runs, Register(r) \/ StageBegin(r) \/ DockerStart(r) \/ StepBegin(r) \/ StepEnd(r) \/ StageEnd(r)
      PROVE  VerdictInv'
  <2>1. pc[r] \notin {"untime", "reportAgain", "done"} /\ UNCHANGED verdicts
    BY <1>5 DEF Register, StageBegin, DockerStart, StepBegin, StepEnd, StageEnd, reporting
  <2>2. verdicts[r] = <<>>
    BY <2>1 DEF VerdictInv, VerdictOf
  <2>3. pc'[r] \in Begun /\ \A q \in Runs \ {r} : UNCHANGED <<pc[q], status[q], err[q]>>
    <3>1. CASE Register(r) \/ StageBegin(r) \/ StepBegin(r)
      BY <3>1 DEF Register, StageBegin, StepBegin, StepLabel, Begun
    <3>2. CASE DockerStart(r)
      BY <3>2 DEF DockerStart, SetStatus, Begun
    <3>3. CASE StepEnd(r)
      <4>1. \A q \in Runs \ {r} : UNCHANGED <<status[q], err[q]>>
        BY <3>3 DEF StepEnd, SetStatus
      <4> QED
        BY <3>3, <4>1, StepEndMoves DEF Begun
    <3>4. CASE StageEnd(r)
      BY <3>4, StageEndMoves DEF StageEnd, Begun
    <3> QED
      BY <1>5, <3>1, <3>2, <3>3, <3>4
  <2> QED
    BY <1>4, <2>1, <2>2, <2>3
<1>6. ASSUME NEW r \in Runs, Finish(r) PROVE VerdictInv'
  <2>1. VerdictOf(r)'
    BY <1>6 DEF Finish, reporting, VerdictInv, VerdictOf
  <2>2. \A q \in Runs \ {r} : UNCHANGED <<pc[q], status[q], err[q], verdicts[q]>>
    BY <1>6 DEF Finish, reporting
  <2> QED
    BY <1>1, <2>1, <2>2 DEF VerdictInv
<1>7. ASSUME NEW r \in Runs, NEW s \in Statuses, verdicts' = [verdicts EXCEPT ![r] = Append(@, s)]
      PROVE  /\ verdicts'[r] # <<>> /\ verdicts'[r][Len(verdicts'[r])] = s
             /\ \A q \in Runs \ {r} : verdicts'[q] = verdicts[q]
  <2>1. verdicts[r] \in Seq(Statuses) /\ verdicts' \in [Runs -> Seq(Statuses)] /\ verdicts'[r] = Append(verdicts[r], s)
    <3>1. verdicts \in [Runs -> Seq(Statuses)]
      BY DEF ReportType
    <3>2. Append(verdicts[r], s) \in Seq(Statuses)
      BY <3>1, Appended
    <3> HIDE DEF Statuses
    <3> QED
      BY <1>7, <3>1, <3>2
  <2> HIDE DEF Statuses
  <2>2. Append(verdicts[r], s) # <<>> /\ Append(verdicts[r], s)[Len(Append(verdicts[r], s))] = s
    BY <2>1, Appended
  <2>3. verdicts'[r] # <<>> /\ verdicts'[r][Len(verdicts'[r])] = s
    BY <2>1, <2>2
  <2> QED
    BY <1>7, <2>3 DEF ReportType
<1>8. ASSUME NEW r \in Runs, Report(r) PROVE VerdictInv'
  <2>1. /\ verdicts'[r] # <<>> /\ verdicts'[r][Len(verdicts'[r])] = status[r]
        /\ \A q \in Runs \ {r} : verdicts'[q] = verdicts[q]
    <3>1. status[r] \in Statuses /\ verdicts' = [verdicts EXCEPT ![r] = Append(@, status[r])]
      BY <1>8 DEF Report
    <3> HIDE DEF Statuses, RunType
    <3> QED
      BY <1>7, <3>1
  <2>2. VerdictOf(r)'
    <3>1. pc[r] = "report" /\ pc'[r] = "untime" /\ UNCHANGED <<status, err>>
      BY <1>8 DEF Report
    <3>2. status[r] = "success" <=> ~err[r]
      BY <3>1 DEF VerdictInv, VerdictOf
    <3> QED
      BY <2>1, <3>1, <3>2 DEF VerdictOf
  <2>3. \A q \in Runs \ {r} : UNCHANGED <<pc[q], status[q], err[q], verdicts[q]>>
    BY <1>8, <2>1 DEF Report
  <2> QED
    BY <1>1, <2>2, <2>3 DEF VerdictInv
<1>9. ASSUME NEW r \in Runs, Untime(r) PROVE VerdictInv'
  <2>1. VerdictOf(r)'
    <3>1. pc[r] = "untime" /\ UNCHANGED <<status, err, verdicts>> /\ pc'[r] \in {"reportAgain", "done"}
      BY <1>9 DEF Untime, reporting
    <3>2. pc'[r] = "reportAgain" => err[r]
      BY <1>9 DEF Untime
    <3> QED
      BY <3>1, <3>2 DEF VerdictInv, VerdictOf
  <2>2. \A q \in Runs \ {r} : UNCHANGED <<pc[q], status[q], err[q], verdicts[q]>>
    BY <1>9 DEF Untime, reporting
  <2> QED
    BY <1>1, <2>1, <2>2 DEF VerdictInv
<1>10. ASSUME NEW r \in Runs, ReportAgain(r) PROVE VerdictInv'
  <2>1. verdicts'[r] # <<>> /\ \A q \in Runs \ {r} : verdicts'[q] = verdicts[q]
    BY <1>7, <1>10 DEF ReportAgain
  <2>2. VerdictOf(r)'
    <3>1. pc[r] = "reportAgain" /\ pc'[r] = "done" /\ UNCHANGED <<status, err>>
      BY <1>10 DEF ReportAgain
    <3>2. err[r] /\ (status[r] = "success" <=> ~err[r])
      BY <3>1 DEF VerdictInv, VerdictOf
    <3> QED
      BY <2>1, <3>1, <3>2 DEF VerdictOf
  <2>3. \A q \in Runs \ {r} : UNCHANGED <<pc[q], status[q], err[q], verdicts[q]>>
    BY <1>10, <2>1 DEF ReportAgain
  <2> QED
    BY <1>1, <2>2, <2>3 DEF VerdictInv
<1>11. (~ \E r \in Runs : TakeStart(r) \/ Execute(r)) => VerdictInv'
  <2>1. ASSUME ~ \E r \in Runs : TakeStart(r) \/ Execute(r) PROVE UNCHANGED <<pc, status, err, verdicts>>
    <3>1. UNCHANGED control
      BY <2>1, ControlFrame
    <3>2. TakeStatus \/ (\E c \in Cancellers : CancelSend(c)) => UNCHANGED verdicts
      BY DEF TakeStatus, CancelSend
    <3>3. ~ \E r \in Runs : Report(r) \/ ReportAgain(r)
      BY <2>1 DEF Execute
    <3> QED
      BY <3>1, <3>2, <3>3, ReportFrame DEF control, reporting
  <2> QED
    BY <1>1, <2>1 DEF VerdictInv
<1> QED
  BY <1>2, <1>3, <1>5, <1>6, <1>8, <1>9, <1>10, <1>11 DEF Execute

-----------------------------------------------------------------------------
(* The executor implements JobRuns, step by step.                          *)

LEMMA OutcomeValues ==
  ASSUME RunType, NEW r \in Runs
  PROVE  /\ Outcome(r) = "waiting" <=> pc[r] = "none"
         /\ Outcome(r) = "accepted" <=> pc[r] = "sort" \/ pc[r] \in Begun
         /\ Returned(r) => Outcome(r) = IF err[r] THEN "fail" ELSE "success"
<1>1. pc[r] = "none" => Outcome(r) = "waiting"
  BY DEF Outcome, Returned
<1>2. Returned(r) => Outcome(r) = IF err[r] THEN "fail" ELSE "success"
  BY DEF Outcome, Returned
<1>3. pc[r] = "sort" \/ pc[r] \in Begun => Outcome(r) = "accepted"
  BY DEF Outcome, Returned, Begun
<1>4. pc[r] = "none" \/ Returned(r) \/ pc[r] = "sort" \/ pc[r] \in Begun
  BY DEF RunType, Pcs, Returned, Begun
<1>5. Returned(r) => Outcome(r) \in {"fail", "success"}
  BY <1>2
<1> QED
  BY <1>1, <1>2, <1>3, <1>4, <1>5

LEMMA PromiseInit == Init => Promise!Init
<1> SUFFICES ASSUME Init PROVE Promise!Init
  OBVIOUS
<1>1. ASSUME NEW r \in Runs PROVE Outcome(r) = "waiting"
  <2>1. pc[r] = "none"
    BY DEF Init
  <2> QED
    BY <2>1 DEF Outcome, Returned
<1>2. Told = {}
  BY DEF Init, Told
<1> QED
  BY <1>1, <1>2 DEF Promise!Init

\* A step that leaves what JobRuns sees of every call but one.
LEMMA PromiseStep ==
  ASSUME NEW r \in Runs,
         \A q \in Runs \ {r} : Outcome(q)' = Outcome(q) /\ verdicts'[q] = verdicts[q],
         \/ Outcome(r)' = Outcome(r) /\ (r \in Told <=> r \in Told')
         \/ Outcome(r) = "waiting" /\ Outcome(r)' = "accepted" /\ r \notin Told /\ r \notin Told'
         \/ Outcome(r) = "accepted" /\ Outcome(r)' \in {"success", "fail"} /\ r \notin Told /\ r \notin Told'
         \/ Outcome(r) \in {"success", "fail"} /\ Outcome(r)' = Outcome(r) /\ r \notin Told /\ r \in Told'
  PROVE  Promise!Next \/ UNCHANGED Promise!vars
<1> DEFINE state == [q \in Runs |-> Outcome(q)]
<1>1. \A q \in Runs \ {r} : q \in Told' <=> q \in Told
  BY DEF Told
<1>2. Told \subseteq Runs /\ Told' \subseteq Runs
  BY DEF Told
<1>3. state' = [state EXCEPT ![r] = Outcome(r)']
  OBVIOUS
<1>4. CASE Outcome(r)' = Outcome(r) /\ (r \in Told <=> r \in Told')
  <2>1. state' = state /\ Told' = Told
    BY <1>1, <1>2, <1>4
  <2> QED
    BY <2>1 DEF Promise!vars
<1>5. CASE Outcome(r) = "waiting" /\ Outcome(r)' = "accepted" /\ r \notin Told /\ r \notin Told'
  <2>1. Told' = Told
    BY <1>1, <1>2, <1>5
  <2>2. Promise!Accept(r)
    BY <1>3, <1>5, <2>1 DEF Promise!Accept
  <2> QED
    BY <2>2 DEF Promise!Next
<1>6. CASE Outcome(r) = "accepted" /\ Outcome(r)' \in {"success", "fail"} /\ r \notin Told /\ r \notin Told'
  <2>1. Told' = Told
    BY <1>1, <1>2, <1>6
  <2>2. Promise!Decide(r)
    BY <1>3, <1>6, <2>1 DEF Promise!Decide, Promise!Outcomes
  <2> QED
    BY <2>2 DEF Promise!Next
<1>7. CASE Outcome(r) \in {"success", "fail"} /\ Outcome(r)' = Outcome(r) /\ r \notin Told /\ r \in Told'
  <2>1. Told' = Told \union {r} /\ state' = state
    BY <1>1, <1>2, <1>7
  <2>2. Promise!Tell(r)
    BY <1>7, <2>1 DEF Promise!Tell, Promise!Outcomes
  <2> QED
    BY <2>2 DEF Promise!Next
<1> QED
  BY <1>4, <1>5, <1>6, <1>7

\* Every step is a step of JobRuns for one call, or nothing JobRuns sees.
LEMMA PromiseNext ==
  ASSUME QueueType, RunType, ReportType, FailInv, VerdictInv, [Next]_vars, RunType', VerdictInv'
  PROVE  Promise!Next \/ UNCHANGED Promise!vars
<1>1. ASSUME NEW q \in Runs, UNCHANGED <<pc[q], err[q]>> PROVE Outcome(q)' = Outcome(q)
  <2>1. CASE pc[q] = "none"
    BY <1>1, <2>1 DEF Outcome, Returned
  <2>2. CASE Returned(q)
    BY <1>1, <2>2 DEF Outcome, Returned
  <2>3. CASE pc[q] # "none" /\ ~Returned(q)
    BY <1>1, <2>3 DEF Outcome, Returned
  <2> QED
    BY <2>1, <2>2, <2>3
<1>2. ASSUME NEW q \in Runs, pc[q] \notin {"untime", "reportAgain", "done"} PROVE q \notin Told
  BY <1>2 DEF VerdictInv, VerdictOf, Told
<1>3. ASSUME NEW q \in Runs, pc'[q] \notin {"untime", "reportAgain", "done"} PROVE q \notin Told'
  BY <1>3 DEF VerdictInv, VerdictOf, Told
<1>4. ASSUME NEW r \in Runs, TakeStart(r) PROVE Promise!Next \/ UNCHANGED Promise!vars
  <2>1. pc[r] = "none" /\ pc'[r] = "sort" /\ UNCHANGED <<err, verdicts>> /\ \A q \in Runs \ {r} : pc'[q] = pc[q]
    BY <1>4 DEF TakeStart, Goto, RunType, reporting
  <2>2. Outcome(r) = "waiting" /\ Outcome(r)' = "accepted"
    BY <2>1 DEF Outcome, Returned
  <2>3. r \notin Told /\ r \notin Told'
    BY <1>2, <1>3, <2>1
  <2>4. \A q \in Runs \ {r} : Outcome(q)' = Outcome(q) /\ verdicts'[q] = verdicts[q]
    BY <1>1, <2>1
  <2> QED
    BY <2>2, <2>3, <2>4, PromiseStep
<1>5. ASSUME NEW r \in Runs, SortFails(r) \/ Finish(r) PROVE Promise!Next \/ UNCHANGED Promise!vars
  <2>1. /\ pc[r] \in {"sort", "finish"} /\ pc'[r] = "report" /\ UNCHANGED verdicts
        /\ \A q \in Runs \ {r} : UNCHANGED <<pc[q], err[q]>>
    BY <1>5 DEF SortFails, Finish, Goto, RunType, reporting
  <2>2. Outcome(r) = "accepted"
    BY <2>1 DEF Outcome, Returned
  <2>3. Outcome(r)' \in {"success", "fail"}
    <3>1. Returned(r)' /\ pc'[r] # "none"
      BY <2>1 DEF Returned
    <3>2. Outcome(r)' = IF err'[r] THEN "fail" ELSE "success"
      BY <3>1 DEF Outcome, Returned
    <3> QED
      BY <3>2
  <2>4. r \notin Told /\ r \notin Told'
    BY <1>2, <1>3, <2>1
  <2>5. \A q \in Runs \ {r} : Outcome(q)' = Outcome(q) /\ verdicts'[q] = verdicts[q]
    BY <1>1, <2>1
  <2> QED
    BY <2>2, <2>3, <2>4, <2>5, PromiseStep
<1>6. ASSUME NEW r \in Runs, pc[r] = "sort" \/ pc[r] \in Begun, pc'[r] \in Begun, UNCHANGED verdicts,
             \A q \in Runs \ {r} : UNCHANGED <<pc[q], err[q]>>
      PROVE  Promise!Next \/ UNCHANGED Promise!vars
  <2>1. Outcome(r) = "accepted" /\ Outcome(r)' = "accepted"
    <3>1. Outcome(r) = "accepted"
      BY <1>6 DEF Outcome, Returned, Begun
    <3>2. Outcome(r)' = "accepted"
      BY <1>6 DEF Outcome, Returned, Begun
    <3> QED
      BY <3>1, <3>2
  <2>2. r \notin Told /\ r \notin Told'
    BY <1>2, <1>3, <1>6 DEF Begun
  <2>3. \A q \in Runs \ {r} : Outcome(q)' = Outcome(q) /\ verdicts'[q] = verdicts[q]
    BY <1>1, <1>6
  <2> QED
    BY <2>1, <2>2, <2>3, PromiseStep
<1>7. ASSUME NEW r \in Runs, Register(r) \/ StageBegin(r) \/ DockerStart(r) \/ StepBegin(r) \/ StepEnd(r) \/ StageEnd(r)
      PROVE  Promise!Next \/ UNCHANGED Promise!vars
  <2> USE DEF Goto, RunType, Begun, reporting
  <2>1. CASE Register(r) \/ StageBegin(r) \/ StepBegin(r)
    <3>1. UNCHANGED <<verdicts, err>> /\ \E l \in Begun : pc' = [pc EXCEPT ![r] = l]
      BY <2>1 DEF Register, StageBegin, StepBegin, StepLabel
    <3>2. pc[r] = "sort" \/ pc[r] \in Begun
      BY <2>1 DEF Register, StageBegin, StepBegin
    <3> QED
      BY <1>6, <3>1, <3>2
  <2>2. CASE DockerStart(r)
    <3>1. UNCHANGED verdicts /\ pc[r] \in Begun /\ \A q \in Runs \ {r} : err'[q] = err[q]
      BY <2>2 DEF DockerStart
    <3>2. \E l \in Begun : pc' = [pc EXCEPT ![r] = l]
      BY <2>2 DEF DockerStart
    <3> QED
      BY <1>6, <3>1, <3>2
  <2>3. CASE StepEnd(r)
    <3>1. UNCHANGED verdicts /\ pc[r] \in Begun /\ \A q \in Runs \ {r} : err'[q] = err[q]
      BY <2>3 DEF StepEnd
    <3>2. \E l \in Begun : pc' = [pc EXCEPT ![r] = l]
      BY <2>3, StepEndMoves
    <3> QED
      BY <1>6, <3>1, <3>2
  <2>4. CASE StageEnd(r)
    <3>1. UNCHANGED <<verdicts, err>> /\ pc[r] \in Begun
      BY <2>4 DEF StageEnd
    <3>2. \E l \in Begun : pc' = [pc EXCEPT ![r] = l]
      BY <2>4, StageEndMoves
    <3> QED
      BY <1>6, <3>1, <3>2
  <2> QED
    BY <1>7, <2>1, <2>2, <2>3, <2>4
<1>8. ASSUME NEW r \in Runs, Returned(r), Returned(r)', UNCHANGED err,
             \A q \in Runs \ {r} : pc'[q] = pc[q] /\ verdicts'[q] = verdicts[q],
             r \in Told => r \in Told'
      PROVE  Promise!Next \/ UNCHANGED Promise!vars
  <2>1. Outcome(r) \in {"success", "fail"} /\ Outcome(r)' = Outcome(r)
    <3>1. Outcome(r) = IF err[r] THEN "fail" ELSE "success"
      BY <1>8 DEF Outcome, Returned
    <3>2. Outcome(r)' = IF err[r] THEN "fail" ELSE "success"
      BY <1>8 DEF Outcome, Returned
    <3> QED
      BY <3>1, <3>2
  <2>2. \A q \in Runs \ {r} : Outcome(q)' = Outcome(q) /\ verdicts'[q] = verdicts[q]
    BY <1>1, <1>8
  <2> QED
    BY <1>8, <2>1, <2>2, PromiseStep
<1>9. ASSUME NEW r \in Runs, NEW s \in Statuses, verdicts' = [verdicts EXCEPT ![r] = Append(@, s)]
      PROVE  \A q \in Runs \ {r} : verdicts'[q] = verdicts[q]
  BY <1>9 DEF ReportType
<1>10. ASSUME NEW r \in Runs, Report(r) PROVE Promise!Next \/ UNCHANGED Promise!vars
  <2>1. pc[r] = "report" /\ Returned(r) /\ Returned(r)' /\ UNCHANGED err /\ \A q \in Runs \ {r} : pc'[q] = pc[q]
    BY <1>10 DEF Report, Goto, Returned, RunType
  <2>2. r \notin Told
    BY <1>2, <2>1
  <2>3. \A q \in Runs \ {r} : verdicts'[q] = verdicts[q]
    BY <1>9, <1>10 DEF Report, RunType
  <2> QED
    BY <1>8, <2>1, <2>2, <2>3
<1>11. ASSUME NEW r \in Runs, Untime(r) PROVE Promise!Next \/ UNCHANGED Promise!vars
  <2>1. pc[r] = "untime" /\ pc'[r] \in {"reportAgain", "done"} /\ UNCHANGED <<err, verdicts>>
        /\ \A q \in Runs \ {r} : pc'[q] = pc[q]
    BY <1>11 DEF Untime, Goto, RunType, reporting
  <2>2. Outcome(r) = IF err[r] THEN "fail" ELSE "success"
    BY <2>1 DEF Outcome, Returned
  <2>3. Outcome(r)' = IF err[r] THEN "fail" ELSE "success"
    BY <2>1 DEF Outcome, Returned
  <2>4. Returned(r) /\ Returned(r)'
    BY <2>1 DEF Returned
  <2>5. r \in Told => r \in Told'
    BY <2>1, <2>2, <2>3 DEF Told
  <2> QED
    BY <1>8, <2>1, <2>4, <2>5
<1>12. ASSUME NEW r \in Runs, ReportAgain(r) PROVE Promise!Next \/ UNCHANGED Promise!vars
  <2>1. /\ pc[r] = "reportAgain" /\ pc'[r] = "done" /\ UNCHANGED err /\ "fail" \in Statuses
        /\ verdicts' = [verdicts EXCEPT ![r] = Append(@, "fail")]
        /\ \A q \in Runs \ {r} : pc'[q] = pc[q]
    BY <1>12 DEF ReportAgain, Goto, RunType, Statuses
  <2>2. err[r] /\ err'[r]
    BY <2>1 DEF VerdictInv, VerdictOf
  <2>3. Outcome(r)' = "fail"
    BY <2>1, <2>2 DEF Outcome, Returned
  <2>4. verdicts'[r] # <<>> /\ verdicts'[r][Len(verdicts'[r])] = "fail"
    <3>1. verdicts[r] \in Seq(Statuses)
      BY DEF ReportType
    <3>2. Append(verdicts[r], "fail") # <<>> /\ Append(verdicts[r], "fail")[Len(Append(verdicts[r], "fail"))] = "fail"
      BY <2>1, <3>1, Appended
    <3>3. verdicts'[r] = Append(verdicts[r], "fail")
      BY <2>1 DEF ReportType
    <3> QED
      BY <3>2, <3>3
  <2>5. r \in Told'
    BY <2>3, <2>4 DEF Told
  <2>6. Returned(r) /\ Returned(r)'
    BY <2>1 DEF Returned
  <2>7. \A q \in Runs \ {r} : verdicts'[q] = verdicts[q]
    BY <1>9, <2>1
  <2> QED
    BY <1>8, <2>1, <2>5, <2>6, <2>7
<1>13. ASSUME ~ \E r \in Runs : TakeStart(r) \/ Execute(r) PROVE UNCHANGED Promise!vars
  <2>1. UNCHANGED control
    BY <1>13, ControlFrame
  <2>2. TakeStatus \/ (\E c \in Cancellers : CancelSend(c)) => UNCHANGED verdicts
    BY DEF TakeStatus, CancelSend
  <2>3. ~ \E r \in Runs : Report(r) \/ ReportAgain(r)
    BY <1>13 DEF Execute
  <2>4. UNCHANGED <<pc, err, verdicts>>
    BY <2>1, <2>2, <2>3, ReportFrame DEF control, reporting
  <2>5. \A q \in Runs : Outcome(q)' = Outcome(q)
    BY <1>1, <2>4
  <2>6. Told' = Told
    BY <2>4, <2>5 DEF Told
  <2> QED
    BY <2>5, <2>6 DEF Promise!vars
<1> QED
  BY <1>4, <1>5, <1>7, <1>10, <1>11, <1>12, <1>13 DEF Execute

-----------------------------------------------------------------------------
(* The theorems.                                                           *)

LEMMA InvInit == Init => IInv
BY TypeInit, FailInit, EntryInit, KnownInit, TimerInit, VerdictInit DEF IInv

LEMMA InvNext == IInv /\ [Next]_vars => IInv'
<1> SUFFICES ASSUME IInv, [Next]_vars PROVE IInv'
  OBVIOUS
<1> USE DEF IInv
<1>1. TypeInv'
  BY TypeNext
<1>2. FailInv' /\ EntryInv' /\ RunningIsKnown'
  BY FailNext, EntryNext, KnownNext DEF TypeInv
<1>3. TimersFollowRuns' /\ TimerInv'
  BY <1>1, TimersNext DEF TypeInv
<1>4. VerdictInv'
  BY VerdictNext DEF TypeInv
<1> QED
  BY <1>1, <1>2, <1>3, <1>4

LEMMA Invariant == Spec => []IInv
BY InvInit, InvNext, PTL DEF Spec

\* In every reachable state the variables have their types, the channels
\* keep within their capacities, a step in progress is one of its stage, and
\* no handler waits for its Post when the next container starts (executor.go,
\* Execute).
THEOREM ExecutorCorrect == Spec => []ExecutorInv
<1>1. IInv => ExecutorInv
  BY TypeImpliesInv DEF IInv
<1> QED
  BY <1>1, Invariant, PTL

\* Whatever the pipeline, a job with a failed step succeeds only if that step
\* was not the last of its stage (executor.go, Execute: err is overwritten by
\* the next step's executeAction).
THEOREM FailuresKept == Spec => []OnlyInnerFailuresAreLost
<1>1. IInv => OnlyInnerFailuresAreLost
  BY FailImpliesKept DEF IInv, TypeInv
<1> QED
  BY <1>1, Invariant, PTL

\* However many Cancels, timers and other runs interleave, a job executed once
\* that is under way and not cancelled is in cancelMap (executor.go, Cancel and
\* GetJobStatus).
THEOREM RunsKnown == Spec => []RunningIsKnown
<1>1. IInv => RunningIsKnown
  BY DEF IInv
<1> QED
  BY <1>1, Invariant, PTL

\* A step under way is timed or its context cancelled, for a job executed
\* once, and no timer outlives the calls of its job (executor.go, stepTimerMap).
THEOREM TimersFollow == Spec => []TimersFollowRuns
<1>1. IInv => TimersFollowRuns
  BY DEF IInv
<1> QED
  BY <1>1, Invariant, PTL

\* Every step of the executor is a step of JobRuns or stutters: the outcome of
\* a call is decided once, told after that, and never contradicted by what is
\* said later (executor.go:54-62, client.go:40-47).
THEOREM PromiseKept == Spec => Promise!Safety
<1>1. IInv /\ IInv' /\ [Next]_vars => [Promise!Next]_Promise!vars
  BY PromiseNext DEF IInv, TypeInv
<1> QED
  BY <1>1, PromiseInit, Invariant, PTL DEF Spec, Promise!Safety

=============================================================================
