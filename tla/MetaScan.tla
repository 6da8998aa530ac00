------------------------------- MODULE MetaScan -------------------------------
(***************************************************************************)
(* The MetaScan check (action/action_metascan_check.go): a step lists the  *)
(* projects of its title, makes one if there is none, starts a scan, asks  *)
(* for its state without a pause until it has ended, well or not, and      *)
(* makes its report from the result and, but for STATIC, the summary.      *)
(*                                                                         *)
(* Each call is made with the token the step holds; a 401 is answered with *)
(* one request for a new token, which the step keeps and puts into the     *)
(* parameters all steps of the job share.                                  *)
(***************************************************************************)
EXTENDS Naturals, FiniteSets, Sequences

CONSTANTS
  Scans,     \* executions of jobs whose steps scan the same project
  Engines,   \* engine types of the steps
  Codes,     \* what a scan can find: sequences of [severity, files]
  MaxSteps,  \* bound: scan steps of a job
  MaxTokens  \* bound: tokens the service gives out

ASSUME ScanAssumption == Engines # {} /\ MaxSteps \in Nat /\ MaxTokens \in Nat
ASSUME CodesAssumption == \A c \in Codes : c \in Seq([severity : STRING, files : Seq(STRING)])

VARIABLES
  call,      \* call[j]: the request under way, or "idle", "done", "failed"
  try,       \* try[j]: "first", "token" (a new one is asked for) or "again"
  steps,     \* steps[j]: the scan steps of the job begun
  engine,    \* engine[j]: engine_type of the step
  held,      \* held[j]: m.scanToken
  param,     \* param[j]: parameter scanToken of the job
  code,      \* code[j]: what there is to find in its sources
  task,      \* task[j]: the scan: "none", "running", "SUCCESS", "FAILURE"
  engineTasks, \* engineTasks[j]: the answer to start named an engine task
  report,    \* report[j]: [total, listed] of the step that ended last
  issued,    \* the last token given out; 0 is the one jobs are given
  projects,  \* the number of projects with the title
  refused,   \* history: refused[j]: tokens refused to job j
  met        \* history: two steps were under way at once

tokens == <<held, param, issued, refused>>
scanned == <<code, task, engineTasks, report>>
scanVars == <<call, try, steps, engine, tokens, scanned, projects, met>>

Calls == {"list", "create", "start", "state", "result", "summary"}
Failures == {"FAILURE"}     \* with SYS_ABORT and ABORT
Scanning(j) == call[j] \in Calls
NoReport == [total |-> 0, listed |-> {}]

ScanInit ==
  /\ call = [j \in Scans |-> "idle"] /\ try = [j \in Scans |-> "first"]
  /\ steps = [j \in Scans |-> 0] /\ engine = [j \in Scans |-> CHOOSE e \in Engines : TRUE]
  /\ held = [j \in Scans |-> 0] /\ param = held
  /\ code \in [Scans -> Codes] /\ task = [j \in Scans |-> "none"]
  /\ engineTasks = [j \in Scans |-> FALSE] /\ report = [j \in Scans |-> NoReport]
  /\ issued = 0 /\ projects = 0
  /\ refused = [j \in Scans |-> {}] /\ met = FALSE

Proceed(j, to) == call' = [call EXCEPT ![j] = to] /\ try' = [try EXCEPT ![j] = "first"]

\* Pre of the job's first scan step, or of the one after a step that ended well.
BeginScan(j) ==
  /\ call[j] \in {"idle", "done"} /\ steps[j] < MaxSteps
  /\ Proceed(j, "list")
  /\ steps' = [steps EXCEPT ![j] = @ + 1]
  /\ \E e \in Engines : engine' = [engine EXCEPT ![j] = e]
  /\ held' = [held EXCEPT ![j] = param[j]]
  /\ task' = [task EXCEPT ![j] = "none"] /\ engineTasks' = [engineTasks EXCEPT ![j] = FALSE]
  /\ report' = [report EXCEPT ![j] = NoReport]
  /\ met' = (met \/ \E k \in Scans \ {j} : Scanning(k))
  /\ UNCHANGED <<param, issued, code, projects, refused>>

-----------------------------------------------------------------------------
(* One exchange: the same in all six calls.                                *)

\* 401: the first time for a new token, the second time the end.
Unauthorized(j) ==
  /\ Scanning(j) /\ try[j] # "token"
  /\ IF try[j] = "first" THEN try' = [try EXCEPT ![j] = "token"] /\ call' = call
                         ELSE Proceed(j, "failed")
  /\ refused' = [refused EXCEPT ![j] = @ \union {held[j]}]
  /\ UNCHANGED <<steps, engine, held, param, issued, scanned, projects, met>>

\* Fault: the new token is the step's alone.
RenewTokenForStep(j) ==
  /\ Scanning(j) /\ try[j] = "token" /\ issued < MaxTokens
  /\ issued' = issued + 1
  /\ held' = [held EXCEPT ![j] = issued']
  /\ try' = [try EXCEPT ![j] = "again"]
  /\ UNCHANGED <<call, steps, engine, param, refused, scanned, projects, met>>

RenewToken(j) ==
  /\ Scanning(j) /\ try[j] = "token" /\ issued < MaxTokens
  /\ issued' = issued + 1
  /\ held' = [held EXCEPT ![j] = issued'] /\ param' = [param EXCEPT ![j] = issued']
  /\ try' = [try EXCEPT ![j] = "again"]
  /\ UNCHANGED <<call, steps, engine, refused, scanned, projects, met>>

\* No token, no connection, or a status that is neither 200 nor 401; the
\* service may have made the project.
Breaks(j) ==
  /\ Scanning(j) /\ Proceed(j, "failed")
  /\ \/ projects' = projects
     \/ call[j] = "create" /\ try[j] # "token" /\ projects' = projects + 1
  /\ UNCHANGED <<steps, engine, tokens, scanned, met>>

\* A 200 to call c of job j; whether a token still holds is the service's affair.
Answered(j, c) == call[j] = c /\ try[j] # "token"
Same(j) == UNCHANGED <<steps, engine, tokens, code, met>>

-----------------------------------------------------------------------------
(* The calls of Hook, in order.                                            *)

\* Fault: the projects of the list are not looked at.
GetProjectsUnread(j) ==
  /\ Answered(j, "list")
  /\ Proceed(j, "create")
  /\ UNCHANGED <<task, engineTasks, report, projects>> /\ Same(j)

GetProjects(j) ==
  /\ Answered(j, "list")
  /\ Proceed(j, IF projects > 0 THEN "start" ELSE "create")
  /\ UNCHANGED <<task, engineTasks, report, projects>> /\ Same(j)

CreateProject(j) ==
  /\ Answered(j, "create")
  /\ Proceed(j, "start") /\ projects' = projects + 1
  /\ UNCHANGED <<task, engineTasks, report>> /\ Same(j)

StartScanTask(j) ==
  /\ Answered(j, "start")
  /\ Proceed(j, "state") /\ task' = [task EXCEPT ![j] = "running"]
  /\ \E b \in BOOLEAN : engineTasks' = [engineTasks EXCEPT ![j] = b]
  /\ UNCHANGED <<report, projects>> /\ Same(j)

\* Fault: any answer ends the loop.
QueryTaskStatusOnce(j) ==
  /\ Answered(j, "state")
  /\ Proceed(j, IF engineTasks[j] THEN "result" ELSE "failed")
  /\ UNCHANGED <<task, engineTasks, report, projects>> /\ Same(j)

\* Neither a success nor a failure: asked again at once.  Both end the loop,
\* and then there must be an engine task.
QueryTaskStatus(j) ==
  /\ Answered(j, "state")
  /\ Proceed(j, IF task[j] \notin {"SUCCESS"} \union Failures THEN "state"
                ELSE IF engineTasks[j] THEN "result" ELSE "failed")
  /\ UNCHANGED <<task, engineTasks, report, projects>> /\ Same(j)

\* The findings in a result, one per finding and file; a scan that has not
\* succeeded has an empty text for its result.
Entries(c) == UNION {{i} \X DOMAIN c[i].files : i \in DOMAIN c}
Found(j) == IF task[j] = "SUCCESS" THEN Entries(code[j]) ELSE {}

\* formatSAData puts each entry under its file and counts it under its
\* severity, under informational when it is none of the four.
Severities == {"Critical", "High", "Medium", "LOW"}
Rank(c, e) == IF c[e[1]].severity \in Severities THEN c[e[1]].severity ELSE "informational"
Counted(c, es, rank) == Cardinality({e \in es : Rank(c, e) = rank})
StaticTotal(c, es) ==
  Counted(c, es, "Critical") + Counted(c, es, "High") + Counted(c, es, "Medium")
    + Counted(c, es, "LOW") + Counted(c, es, "informational")

\* The empty text is no JSON for STATIC and PROVER; LINT (gjson), SCA and
\* the rest take any text.
Parsed(j) == task[j] = "SUCCESS" \/ engine[j] \notin {"STATIC", "PROVER"}

GetTaskResult(j) ==
  /\ Answered(j, "result")
  /\ IF ~Parsed(j) THEN Proceed(j, "failed") /\ report' = report
     ELSE /\ Proceed(j, IF engine[j] = "STATIC" THEN "done" ELSE "summary")
          /\ report' = [report EXCEPT ![j] =
               [listed |-> Found(j), total |-> IF engine[j] = "STATIC" THEN StaticTotal(code[j], Found(j)) ELSE 0]]
  /\ UNCHANGED <<task, engineTasks, projects>> /\ Same(j)

\* The service counts findings, whatever files they touch.
GetEngineTaskSummary(j) ==
  /\ Answered(j, "summary")
  /\ Proceed(j, "done")
  /\ report' = [report EXCEPT ![j] =
       [listed |-> @.listed, total |-> IF task[j] = "SUCCESS" THEN Len(code[j]) ELSE 0]]
  /\ UNCHANGED <<task, engineTasks, projects>> /\ Same(j)

ScanStep(j) ==
  \/ Unauthorized(j) \/ RenewToken(j) \/ Breaks(j)
  \/ GetProjects(j) \/ CreateProject(j) \/ StartScanTask(j)
  \/ QueryTaskStatus(j) \/ GetTaskResult(j) \/ GetEngineTaskSummary(j)

\* The service: a scan ends (one whose step has failed nobody asks about).
TaskEnds(j) ==
  /\ task[j] = "running" /\ Scanning(j)
  /\ \E s \in {"SUCCESS"} \union Failures : task' = [task EXCEPT ![j] = s]
  /\ UNCHANGED <<call, try, steps, engine, tokens, code, engineTasks, report, projects, met>>

ScanNext == \E j \in Scans : BeginScan(j) \/ ScanStep(j) \/ TaskEnds(j)

\* Requests are answered or break, and scans end.
ScanFairness == \A j \in Scans : WF_scanVars(ScanStep(j)) /\ WF_scanVars(TaskEnds(j))

ScanSpec == ScanInit /\ [][ScanNext]_scanVars /\ ScanFairness

ScanTypeOK ==
  /\ call \in [Scans -> Calls \union {"idle", "done", "failed"}]
  /\ try \in [Scans -> {"first", "token", "again"}]
  /\ steps \in [Scans -> 0 .. MaxSteps] /\ engine \in [Scans -> Engines]
  /\ issued \in 0 .. MaxTokens
  /\ held \in [Scans -> 0 .. issued] /\ param \in [Scans -> 0 .. issued]
  /\ refused \in [Scans -> SUBSET (0 .. issued)]
  /\ task \in [Scans -> {"none", "running", "SUCCESS"} \union Failures]
  /\ engineTasks \in [Scans -> BOOLEAN]
  /\ projects \in Nat /\ met \in BOOLEAN

-----------------------------------------------------------------------------
(* Properties.                                                             *)

\* No step begins with a token that was refused to an earlier step of its
\* job: the renewed token reaches the parameters the next Pre reads.
StepsStartFresh ==
  [][\A j \in Scans : steps'[j] # steps[j] => held'[j] \notin refused[j]]_scanVars

\* Steps that run one after the other never make a second project of the
\* same title, answers lost or not: only a list made while another step is
\* between its list and its create leads to one.
OneProjectWithoutOverlap == ~met => projects <= 1

\* A report that says nothing was found in code with findings is of a scan
\* that failed and of an engine whose result may be any text: a scan still
\* running is never reported, a success always in full.
CleanReportHasACause ==
  \A j \in Scans :
    call[j] = "done" /\ report[j].total = 0 /\ Entries(code[j]) # {} =>
      task[j] \in Failures /\ engine[j] \notin {"STATIC", "PROVER"}
=============================================================================
