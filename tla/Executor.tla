------------------------------ MODULE Executor ------------------------------
(***************************************************************************)
(* A worker's executor (executor/executor.go, executor/client.go): the job *)
(* queue, one goroutine per Execute with its stages and steps, Cancel from *)
(* the queue and from the timer listeners, the goroutine that keeps saving *)
(* the job detail, and the status channel.                                 *)
(*                                                                         *)
(* What an action (git, shell, metascan, ...) does inside its Pre and Hook *)
(* is abstracted to the outcome executeAction can see; an action may or    *)
(* may not give up when its context is cancelled.                          *)
(***************************************************************************)
EXTENDS Naturals, Sequences, FiniteSets

CONSTANTS
  Jobs,       \* one (job name, job detail id) per element
  Runs,       \* one element per Execute call
  Pipeline,   \* the sorted stages: for each step, TRUE if it has a runs-on
  QueueCap,   \* capacity of QueueChan (100 in the code)
  StatusCap,  \* capacity of StatusChan (100 in the code)
  MaxStops,   \* bound: CANCEL messages that reach the worker
  Saved,      \* bound: the calls whose saver does something
  NoJob, NoRun

ASSUME RunsAssumption == NoRun \notin Runs /\ "queue" \notin Runs /\ NoJob \notin Jobs
ASSUME PipelineAssumption ==
  /\ Pipeline \in Seq(Seq(BOOLEAN)) /\ Pipeline # <<>>
  /\ \A i \in DOMAIN Pipeline : Pipeline[i] # <<>>
ASSUME CapAssumption == QueueCap \in Nat \ {0} /\ StatusCap \in Nat \ {0} /\ MaxStops \in Nat
ASSUME SavedAssumption == Saved \subseteq Runs

VARIABLES
  queue,       \* QueueChan: <<"start", j>> and <<"stop", j>>
  stops,       \* CANCEL messages received so far
  job,         \* job[r]: the job Execute call r is for
  pc,          \* pc[r]: where that call is
  stage, step, \* position in the pipeline, from 1
  status,      \* jobWrapper.Status
  err,         \* Execute's err # nil
  stack,       \* handlers pushed and not yet popped
  failedSteps, \* steps whose Status has become FAIL
  cancelMap,   \* cancelMap[j]: the call whose cancel function is stored
  cancelled,   \* calls whose context is cancelled
  timers,      \* jobs with a stepTimerMap entry
  canceller,   \* per goroutine that calls Cancel: where it is, the job, the entry loaded
  statusChan,  \* StatusChan: [job, run, status]; run is not in the message, it is for the properties
  verdicts,    \* history: the statuses sent by each call itself
  saver,       \* saver[r]: the goroutine of executor.go:167-185 and what it has marshalled
  disk         \* the status in the job detail file of each job

control == <<job, pc, stage, step, status, err, stack, failedSteps>>
cancelling == <<cancelMap, cancelled, timers, canceller>>
reporting == <<statusChan, verdicts>>
saving == <<saver, disk>>
vars == <<queue, stops, control, cancelling, reporting, saving>>

Statuses == {"notrun", "running", "fail", "success", "stop"}
Steps == UNION {{i} \X DOMAIN Pipeline[i] : i \in DOMAIN Pipeline}

\* The goroutines that call Cancel: handleJobQueue, and one timer listener
\* per Execute, which is never ended.
Cancellers == {"queue"} \union Runs
NotCancelling == [at |-> "idle", job |-> NoJob, entry |-> NoRun]

Init ==
  /\ queue = <<>> /\ stops = 0
  /\ job = [r \in Runs |-> NoJob] /\ pc = [r \in Runs |-> "none"]
  /\ stage = [r \in Runs |-> 1] /\ step = [r \in Runs |-> 1]
  /\ status = [r \in Runs |-> "notrun"] /\ err = [r \in Runs |-> FALSE]
  /\ stack = [r \in Runs |-> 0] /\ failedSteps = [r \in Runs |-> {}]
  /\ cancelMap = [j \in Jobs |-> NoRun] /\ cancelled = {} /\ timers = {}
  /\ canceller = [c \in Cancellers |-> NotCancelling]
  /\ statusChan = <<>> /\ verdicts = [r \in Runs |-> <<>>]
  /\ saver = [r \in Runs |-> "off"] /\ disk = [j \in Jobs |-> "notrun"]

Goto(r, label) == pc' = [pc EXCEPT ![r] = label]

-----------------------------------------------------------------------------
(* The worker's message loop puts EXECUTE and CANCEL messages in QueueChan.*)

EnqueueStart(j) ==
  /\ Len(queue) < QueueCap
  /\ \E r \in Runs : pc[r] = "none"
  /\ queue' = Append(queue, <<"start", j>>)
  /\ UNCHANGED <<stops, control, cancelling, reporting, saving>>

EnqueueStop(j) ==
  /\ Len(queue) < QueueCap /\ stops < MaxStops
  /\ queue' = Append(queue, <<"stop", j>>)
  /\ stops' = stops + 1
  /\ UNCHANGED <<control, cancelling, reporting, saving>>

(* handleJobQueue, one message at a time.                                  *)
QueueIdle == canceller["queue"].at = "idle" /\ queue # <<>>

\* The job file is saved and read back, and a goroutine is started.
TakeStart(r) ==
  /\ QueueIdle /\ Head(queue)[1] = "start"
  /\ pc[r] = "none"
  /\ queue' = Tail(queue)
  /\ job' = [job EXCEPT ![r] = Head(queue)[2]]
  /\ Goto(r, "sort")
  /\ UNCHANGED <<stops, stage, step, status, err, stack, failedSteps, cancelling, reporting, saving>>

\* SaveJob or GetJobObject failed: the message is dropped, nobody is told.
DropStart ==
  /\ QueueIdle /\ Head(queue)[1] = "start"
  /\ queue' = Tail(queue)
  /\ UNCHANGED <<stops, control, cancelling, reporting, saving>>

TakeStop ==
  /\ QueueIdle /\ Head(queue)[1] = "stop"
  /\ queue' = Tail(queue)
  /\ canceller' = [canceller EXCEPT !["queue"] = [at |-> "load", job |-> Head(queue)[2], entry |-> NoRun]]
  /\ UNCHANGED <<stops, control, cancelMap, cancelled, timers, reporting, saving>>

-----------------------------------------------------------------------------
(* Execute.                                                                *)

\* StageSort finds a missing or circular dependency, or the order.
SortFails(r) ==
  /\ pc[r] = "sort"
  /\ err' = [err EXCEPT ![r] = TRUE]
  /\ Goto(r, "report")
  /\ UNCHANGED <<queue, stops, job, stage, step, status, stack, failedSteps, cancelling, reporting, saving>>

\* The cancel function is stored, the status becomes RUNNING, the saver starts.
Register(r) ==
  /\ pc[r] = "sort"
  /\ cancelMap' = [cancelMap EXCEPT ![job[r]] = r]
  /\ status' = [status EXCEPT ![r] = "running"]
  /\ saver' = [saver EXCEPT ![r] = "idle"]
  /\ Goto(r, "stage")
  /\ UNCHANGED <<queue, stops, job, stage, step, err, stack, failedSteps, cancelled, timers, canceller, reporting, disk>>

\* Every SaveJobDetail in Execute writes the status of the moment.
Save(r) == disk' = [disk EXCEPT ![job[r]] = status'[r]]

StepLabel(i, k) == IF Pipeline[i][k] THEN "docker" ELSE "begin"

StageBegin(r) ==
  /\ pc[r] = "stage"
  /\ step' = [step EXCEPT ![r] = 1]
  /\ Goto(r, StepLabel(stage[r], 1))
  /\ UNCHANGED <<queue, stops, job, stage, status, err, stack, failedSteps, cancelling, reporting, saver>>
  /\ Save(r)

\* executeAction: once the job is not RUNNING nothing is executed and the
\* result is nil.  Otherwise: Pre and Hook succeed; the handler is nil (an
\* unknown `uses`); Pre fails; Hook fails; a runtime panic, before or after
\* the push, turned into an error that leaves the status; any other panic,
\* which is swallowed.
Skipped == [err |-> FALSE, pushed |-> 0, fails |-> FALSE]
Executed == {o \in [err : BOOLEAN, pushed : {0, 1}, fails : BOOLEAN] : o.fails => o.err}

ExecuteAction(r) == IF status[r] = "running" THEN Executed ELSE {Skipped}

SetStatus(r, o) == status' = IF o.fails THEN [status EXCEPT ![r] = "fail"] ELSE status

\* A runs-on step first starts its container; a failure leaves the step
\* loop without popping the stack.
DockerStart(r) ==
  /\ pc[r] = "docker"
  /\ \E o \in ExecuteAction(r) :
       /\ err' = [err EXCEPT ![r] = o.err]
       /\ stack' = [stack EXCEPT ![r] = @ + o.pushed]
       /\ SetStatus(r, o)
       /\ Goto(r, IF o.err THEN "stageEnd" ELSE "begin")
  /\ UNCHANGED <<queue, stops, job, stage, step, failedSteps, cancelling, reporting, saving>>

\* The step becomes RUNNING, is saved, and gets a fresh timer.
StepBegin(r) ==
  /\ pc[r] = "begin"
  /\ timers' = timers \union {job[r]}
  /\ Goto(r, "step")
  /\ UNCHANGED <<queue, stops, job, stage, step, status, err, stack, failedSteps, cancelMap, cancelled, canceller, reporting, saver>>
  /\ Save(r)

\* The action ends, every handler on the stack gets its Post, the step its
\* status; then the next step, or the end of the stage.
\* Fault: Post is called for the last handler pushed only.
StackAfterPostOnce(n) == IF n = 0 THEN 0 ELSE n - 1
StackAfterPost(n) == 0

StepEnd(r) ==
  /\ pc[r] = "step"
  /\ \E o \in ExecuteAction(r) :
       /\ err' = [err EXCEPT ![r] = o.err]
       /\ SetStatus(r, o)
       /\ stack' = [stack EXCEPT ![r] = StackAfterPost(@ + o.pushed)]
       /\ failedSteps' = [failedSteps EXCEPT ![r] = IF o.err THEN @ \union {<<stage[r], step[r]>>} ELSE @]
  /\ IF step[r] < Len(Pipeline[stage[r]])
       THEN /\ step' = [step EXCEPT ![r] = @ + 1]
            /\ Goto(r, StepLabel(stage[r], step[r] + 1))
       ELSE step' = step /\ Goto(r, "stageEnd")
  /\ UNCHANGED <<queue, stops, job, stage, cancelling, reporting, saver>>
  /\ Save(r)

\* An error of the last step executed fails the stage: the context is
\* cancelled and the remaining stages are left out.
\* Fault: the stage loop goes on.
StageEndIgnoresErr(r) ==
  /\ pc[r] = "stageEnd"
  /\ cancelled' = cancelled
  /\ IF stage[r] < Len(Pipeline)
       THEN stage' = [stage EXCEPT ![r] = @ + 1] /\ Goto(r, "stage")
       ELSE stage' = stage /\ Goto(r, "finish")
  /\ UNCHANGED <<queue, stops, job, step, status, err, stack, failedSteps, cancelMap, timers, canceller, reporting, saver>>
  /\ Save(r)

StageEnd(r) ==
  /\ pc[r] = "stageEnd"
  /\ cancelled' = IF err[r] THEN cancelled \union {r} ELSE cancelled
  /\ IF ~err[r] /\ stage[r] < Len(Pipeline)
       THEN stage' = [stage EXCEPT ![r] = @ + 1] /\ Goto(r, "stage")
       ELSE stage' = stage /\ Goto(r, "finish")
  /\ UNCHANGED <<queue, stops, job, step, status, err, stack, failedSteps, cancelMap, timers, canceller, reporting, saver>>
  /\ Save(r)

\* `delete(e.cancelMap, job.Name)` names a key that is never in the map, so
\* the entry stays.
Finish(r) ==
  /\ pc[r] = "finish"
  /\ status' = [status EXCEPT ![r] = IF err[r] THEN "fail" ELSE "success"]
  /\ Goto(r, "report")
  /\ UNCHANGED <<queue, stops, job, stage, step, err, stack, failedSteps, cancelling, reporting, saver>>
  /\ Save(r)

-----------------------------------------------------------------------------
(* The deferred report, and the second one of client.go for an error.      *)
Send(j, r, s) ==
  /\ Len(statusChan) < StatusCap
  /\ statusChan' = Append(statusChan, [job |-> j, run |-> r, status |-> s])

Report(r) ==
  /\ pc[r] = "report"
  /\ Send(job[r], r, status[r])
  /\ verdicts' = [verdicts EXCEPT ![r] = Append(@, status[r])]
  /\ Goto(r, "untime")
  /\ UNCHANGED <<queue, stops, job, stage, step, status, err, stack, failedSteps, cancelling, saving>>

\* Fault: the timer outlives the run.
TimersAfterRunKept(j) == timers
TimersAfterRun(j) == timers \ {j}

\* Fault: the worker's client does not repeat the failure.
UntimeOnly(r) ==
  /\ pc[r] = "untime"
  /\ timers' = timers \ {job[r]}
  /\ Goto(r, "done")
  /\ UNCHANGED <<queue, stops, job, stage, step, status, err, stack, failedSteps,
                 cancelMap, cancelled, canceller, reporting, saving>>

Untime(r) ==
  /\ pc[r] = "untime"
  /\ timers' = TimersAfterRun(job[r])
  /\ Goto(r, IF err[r] THEN "reportAgain" ELSE "done")
  /\ UNCHANGED <<queue, stops, job, stage, step, status, err, stack, failedSteps,
                 cancelMap, cancelled, canceller, reporting, saving>>

ReportAgain(r) ==
  /\ pc[r] = "reportAgain"
  /\ Send(job[r], r, "fail")
  /\ verdicts' = [verdicts EXCEPT ![r] = Append(@, "fail")]
  /\ Goto(r, "done")
  /\ UNCHANGED <<queue, stops, job, stage, step, status, err, stack, failedSteps, cancelling, saving>>

\* The worker's handleDoneJob takes the message.
TakeStatus ==
  /\ statusChan # <<>>
  /\ statusChan' = Tail(statusChan)
  /\ UNCHANGED <<queue, stops, control, cancelling, verdicts, saving>>

-----------------------------------------------------------------------------
(* Cancel, called by handleJobQueue for a stop message and by a timer      *)
(* listener for a step that took too long.                                 *)

TimerFires(l, j) ==
  /\ saver[l] # "off" \* a listener starts with the run and never ends
  /\ canceller[l].at = "idle" /\ j \in timers
  /\ canceller' = [canceller EXCEPT ![l] = [at |-> "load", job |-> j, entry |-> NoRun]]
  /\ UNCHANGED <<queue, stops, control, cancelMap, cancelled, timers, reporting, saving>>

\* Fault: an unknown job is waited for.
CancelLoadWaits(c) ==
  /\ canceller[c].at = "load"
  /\ cancelMap[canceller[c].job] # NoRun
  /\ canceller' = [canceller EXCEPT ![c] = [at |-> "call", job |-> @.job, entry |-> cancelMap[@.job]]]
  /\ UNCHANGED <<queue, stops, control, cancelMap, cancelled, timers, reporting, saving>>

CancelLoad(c) ==
  /\ canceller[c].at = "load"
  /\ LET r == cancelMap[canceller[c].job] IN
       canceller' = [canceller EXCEPT ![c] = [at |-> IF r = NoRun THEN "send" ELSE "call", job |-> @.job, entry |-> r]]
  /\ UNCHANGED <<queue, stops, control, cancelMap, cancelled, timers, reporting, saving>>

\* Fault: the entry is deleted and its function not called.
CancelForgotten(c) ==
  /\ canceller[c].at = "call"
  /\ cancelMap' = [cancelMap EXCEPT ![canceller[c].job] = NoRun]
  /\ canceller' = [canceller EXCEPT ![c] = [at |-> "send", job |-> @.job, entry |-> @.entry]]
  /\ UNCHANGED <<queue, stops, control, cancelled, timers, reporting, saving>>

CancelCall(c) ==
  /\ canceller[c].at = "call"
  /\ cancelled' = cancelled \union {canceller[c].entry}
  /\ cancelMap' = [cancelMap EXCEPT ![canceller[c].job] = NoRun]
  /\ canceller' = [canceller EXCEPT ![c] = [at |-> "send", job |-> @.job, entry |-> @.entry]]
  /\ UNCHANGED <<queue, stops, control, timers, reporting, saving>>

CancelSend(c) ==
  /\ canceller[c].at = "send"
  /\ Send(canceller[c].job, NoRun, "stop")
  /\ timers' = IF c \in Runs THEN timers \ {canceller[c].job} ELSE timers
  /\ canceller' = [canceller EXCEPT ![c] = NotCancelling]
  /\ UNCHANGED <<queue, stops, control, cancelMap, cancelled, verdicts, saving>>

-----------------------------------------------------------------------------
(* The saver: until jobDone is closed, when Execute returns, it marshals   *)
(* the detail and writes the file, in two steps.                           *)
Returned(r) == pc[r] \in {"report", "untime", "reportAgain", "done"}

SaverMarshal(r) ==
  /\ r \in Saved /\ saver[r] = "idle" /\ ~Returned(r)
  /\ saver' = [saver EXCEPT ![r] = status[r]]
  /\ UNCHANGED <<queue, stops, control, cancelling, reporting, disk>>

SaverWrite(r) ==
  /\ saver[r] \in Statuses
  /\ disk' = [disk EXCEPT ![job[r]] = saver[r]]
  /\ saver' = [saver EXCEPT ![r] = "idle"]
  /\ UNCHANGED <<queue, stops, control, cancelling, reporting>>

SaverEnd(r) ==
  /\ r \in Saved /\ saver[r] = "idle" /\ Returned(r)
  /\ saver' = [saver EXCEPT ![r] = "ended"]
  /\ UNCHANGED <<queue, stops, control, cancelling, reporting, disk>>

-----------------------------------------------------------------------------
Execute(r) ==
  \/ SortFails(r) \/ Register(r) \/ StageBegin(r) \/ DockerStart(r) \/ StepBegin(r)
  \/ StepEnd(r) \/ StageEnd(r) \/ Finish(r) \/ Report(r) \/ Untime(r) \/ ReportAgain(r)

Cancel(c) == CancelLoad(c) \/ CancelCall(c) \/ CancelSend(c)
Saver(r) == SaverMarshal(r) \/ SaverWrite(r) \/ SaverEnd(r)
TakeMessage == (\E r \in Runs : TakeStart(r)) \/ DropStart \/ TakeStop

Next ==
  \/ \E j \in Jobs : EnqueueStart(j) \/ EnqueueStop(j)
  \/ TakeMessage
  \/ \E r \in Runs : Execute(r) \/ Saver(r)
  \/ TakeStatus
  \/ \E l \in Runs, j \in Jobs : TimerFires(l, j)
  \/ \E c \in Cancellers : Cancel(c)

\* Every goroutine keeps being scheduled; an action's Pre and Hook return
\* (an HTTP client, a child process or the step's cancelled context ends
\* them).  Messages and timeouts are up to the environment.
Fairness ==
  /\ WF_vars(TakeMessage) /\ WF_vars(TakeStatus)
  /\ \A r \in Runs : WF_vars(Execute(r))
  /\ \A c \in Cancellers : WF_vars(Cancel(c))

Spec == Init /\ [][Next]_vars /\ Fairness

-----------------------------------------------------------------------------
(* Properties.                                                             *)

Pcs == {"none", "sort", "stage", "docker", "begin", "step", "stageEnd", "finish",
        "report", "untime", "reportAgain", "done"}

TypeOK ==
  /\ queue \in Seq({"start", "stop"} \X Jobs) /\ Len(queue) <= QueueCap
  /\ stops \in 0 .. MaxStops
  /\ job \in [Runs -> Jobs \union {NoJob}] /\ pc \in [Runs -> Pcs]
  /\ \A r \in Runs : stage[r] \in DOMAIN Pipeline
  /\ \A r \in Runs : pc[r] \in {"docker", "begin", "step"} => step[r] \in DOMAIN Pipeline[stage[r]]
  /\ status \in [Runs -> Statuses] /\ err \in [Runs -> BOOLEAN]
  /\ stack \in [Runs -> 0 .. 2] /\ failedSteps \in [Runs -> SUBSET Steps]
  /\ cancelMap \in [Jobs -> Runs \union {NoRun}]
  /\ cancelled \subseteq Runs /\ timers \subseteq Jobs
  /\ canceller \in [Cancellers -> [at : {"idle", "load", "call", "send"},
                                   job : Jobs \union {NoJob}, entry : Runs \union {NoRun}]]
  /\ statusChan \in Seq([job : Jobs, run : Runs \union {NoRun}, status : Statuses])
  /\ Len(statusChan) <= StatusCap
  /\ saver \in [Runs -> {"off", "idle", "ended"} \union Statuses]
  /\ disk \in [Jobs -> Statuses]

\* The stages of call r are under way: registered, result not yet decided.
Active(r) == pc[r] \in {"stage", "docker", "begin", "step", "stageEnd", "finish"}
OnlyRunOf(r) == \A q \in Runs : job[q] = job[r] => q = r

\* A handler pushed by a step or its container has had its Post before the
\* next step's container starts: none is carried over from step to step.
PostBeforeNextStep == \A r \in Runs : pc[r] \in {"stage", "docker"} => stack[r] = 0

\* Both together: the types hold and no Post is put off.
ExecutorInv == TypeOK /\ PostBeforeNextStep

\* A job ends as a success although a step failed only when that step was
\* followed by another in its own stage (executeAction then answers nil for
\* the next one): an error of a stage's last step is never lost.
OnlyInnerFailuresAreLost ==
  \A r \in Runs : status[r] = "success" =>
    \A s \in failedSteps[r] : s[2] < Len(Pipeline[s[1]])

\* GetJobStatus and Cancel find a job that is under way and has not been
\* cancelled, as long as the job is executed once.
RunningIsKnown ==
  \A r \in Runs : Active(r) /\ r \notin cancelled /\ OnlyRunOf(r) => cancelMap[job[r]] = r

\* A step in progress is watched by the timer listeners or its context has
\* been cancelled, as long as the job is executed once; and "the step timer
\* must be deleted too, to avoid unexpected errors" (executor.go:59): no timer
\* stays behind when no call for its job is left.
TimersFollowRuns ==
  /\ \A r \in Runs : pc[r] = "step" /\ OnlyRunOf(r) => job[r] \in timers \/ r \in cancelled
  /\ \A j \in timers : \E r \in Runs : job[r] = j /\ pc[r] \notin {"none", "done"}

\* Every Cancel answers with STATUS_STOP: neither caller stays blocked.
CancelReturns == \A c \in Cancellers : canceller[c].at # "idle" ~> canceller[c].at = "idle"

\* The outcome of a call is decided when its error is; the one who waits
\* for it knows it once it is the last verdict sent.
Outcome(r) ==
  CASE pc[r] = "none" -> "waiting"
    [] Returned(r) -> IF err[r] THEN "fail" ELSE "success"
    [] OTHER -> "accepted"
Told == {r \in Runs : verdicts[r] # <<>> /\ verdicts[r][Len(verdicts[r])] = Outcome(r)}

Promise == INSTANCE JobRuns WITH state <- [r \in Runs |-> Outcome(r)], told <- Told

\* The executor does what JobRuns promises of every run: one outcome, told in
\* the end, and never contradicted, whichever way Execute returns.
KeepsPromise == Promise!Spec

\* GetJobStatus answers RUNNING for the jobs in cancelMap (executor.go:329-335).
GetJobStatus(j) == IF cancelMap[j] # NoRun THEN "running" ELSE "notrun"

-----------------------------------------------------------------------------
(* What the comments of the code say and the code does not do.             *)

\* engine.go:203: the status of the current job can be asked, not that of a
\* past one.
OnlyCurrentIsRunning ==
  \A j \in Jobs : GetJobStatus(j) = "running" => \E r \in Runs : job[r] = j /\ pc[r] # "done"

\* action/hander.go:15: whether it succeeds or not, there is a Post.
EveryPushIsPosted == \A r \in Runs : pc[r] = "done" => stack[r] = 0

\* executor.go:370: a step that takes too long is cancelled; so a step in
\* progress has a timer.
EveryStepIsTimed == \A r \in Runs : pc[r] = "step" => job[r] \in timers \/ r \in cancelled

\* executor.go:166: the saver is there to refresh the running time of steps;
\* so the detail of a job that has ended says how it ended.
FinalDetailStands ==
  \A r \in Runs : pc[r] = "done" /\ OnlyRunOf(r) => disk[job[r]] = status[r]
=============================================================================
