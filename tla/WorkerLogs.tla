----------------------------- MODULE WorkerLogs -----------------------------
(***************************************************************************)
(* How the log, the job detail and the files of one job get from a worker  *)
(* on another host to the master (engine_worker.go, engine_master.go):     *)
(* per EXECUTE a goroutine that sends log and detail every half second     *)
(* until it finds the job in doneJobList, and handleDoneJob, which for     *)
(* each status of the executor sends them once more, then the files, then  *)
(* the RESULT.  All go through one SendMsgChan, one stream and the         *)
(* master's one message loop, so nothing overtakes what is in the channel. *)
(*                                                                         *)
(* A log is the number of its lines, a detail the number of times it has   *)
(* been saved; 0 is no file.  How a run ends is Executor.tla's subject: it *)
(* says one status when it succeeds and two when it fails, and Cancel says *)
(* STOP, whether the job is known or not.                                  *)
(***************************************************************************)
EXTENDS Naturals, SequencesExt

CONSTANTS
  Execs,      \* one element per EXECUTE of the job
  MaxStops,   \* bound: CANCEL messages
  MaxLog,     \* bound: log lines
  MaxDetail,  \* bound: times the detail is saved
  MaxErrors,  \* read errors a log sender puts up with, less one (10 in the code)
  QueueBound, \* bound: messages in SendMsgChan and on the stream
  Loop        \* the goroutine of handleDoneJob

ASSUME LoopAssumption == Loop \notin Execs
ASSUME BoundsAssumption == {MaxStops, MaxLog, MaxDetail, MaxErrors} \subseteq Nat /\ QueueBound \in Nat \ {0}

VARIABLES
  run,         \* run[e]: "none", "accepted", "running" or "ended"
  stops,
  log, detail, \* the files on the worker
  files,       \* TRUE once the job has reports or artifacts
  statusChan,  \* for each status, the log, detail and files of the moment
  doneJob,     \* TRUE if doneJobList has the job
  shipper,     \* per log sender, and for Loop: where it is and what it has read
  errors,      \* errors[e]: errorCounter of the sender of e
  outQ,        \* SendMsgChan, the stream and the master's RecvMsgChan
  up,          \* FALSE once the worker has panicked
  master,      \* log, detail and files on the master
  saved,       \* history: the most the master has had
  shippers,    \* history: goroutines whose LOG the master has saved
  told         \* TRUE once the master has had a RESULT

worker == <<run, stops, log, detail, files>>
shipping == <<doneJob, shipper, errors>>
receiving == <<master, saved, shippers, told>>
vars == <<worker, statusChan, shipping, outQ, up, receiving>>

Had(l, d, f) == [log |-> l, detail |-> d, files |-> f]
Idle == [at |-> "idle", log |-> 0, detail |-> 0]
AtMost(a, b) == a.log <= b.log /\ a.detail <= b.detail /\ (a.files => b.files)

Init ==
  /\ run = [e \in Execs |-> "none"] /\ stops = 0
  /\ log = 0 /\ detail = 0 /\ files = FALSE
  /\ statusChan = <<>> /\ doneJob = FALSE
  /\ shipper = [s \in Execs \union {Loop} |-> Idle]
  /\ errors = [e \in Execs |-> 0]
  /\ outQ = <<>> /\ up = TRUE
  /\ master = Had(0, 0, FALSE) /\ saved = Had(0, 0, FALSE) /\ shippers = {} /\ told = FALSE

-----------------------------------------------------------------------------
(* The executor, as far as the files and the status channel show it.       *)

\* An EXECUTE message: the job is queued and its log sender starts.
Accept(e) ==
  /\ up /\ run[e] = "none"
  /\ run' = [run EXCEPT ![e] = "accepted"]
  /\ shipper' = [shipper EXCEPT ![e] = [@ EXCEPT !.at = "check"]]
  /\ UNCHANGED <<stops, log, detail, files, statusChan, doneJob, errors, outQ, up, receiving>>

\* The log file is opened for appending, then the detail is saved.
RunBegins(e) ==
  /\ up /\ run[e] = "accepted" /\ log < MaxLog
  /\ run' = [run EXCEPT ![e] = "running"]
  /\ log' = log + 1
  /\ UNCHANGED <<stops, detail, files, statusChan, shipping, outQ, up, receiving>>

RunGoesOn(e) ==
  /\ up /\ run[e] = "running"
  /\ \/ log < MaxLog /\ log' = log + 1 /\ UNCHANGED <<detail, files>>
     \/ detail < MaxDetail /\ detail' = detail + 1 /\ UNCHANGED <<log, files>>
     \/ files' = TRUE /\ UNCHANGED <<log, detail>>
  /\ UNCHANGED <<run, stops, statusChan, shipping, outQ, up, receiving>>

\* One status for a success, two for a failure; the order of the stages may
\* be refused before there is a log or a detail.
RunEnds(e) ==
  /\ up
  /\ \/ run[e] = "running" /\ detail # 0
     \/ run[e] = "accepted"
  /\ run' = [run EXCEPT ![e] = "ended"]
  /\ LET s == Had(log, detail, files) IN
       \/ statusChan' = Append(statusChan, s) /\ run[e] = "running"
       \/ statusChan' = statusChan \o <<s, s>>
  /\ UNCHANGED <<stops, log, detail, files, shipping, outQ, up, receiving>>

\* SaveJob or GetJobObject fails: the job is dropped and nobody is told.
Dropped(e) ==
  /\ up /\ run[e] = "accepted"
  /\ run' = [run EXCEPT ![e] = "dropped"]
  /\ UNCHANGED <<stops, log, detail, files, statusChan, shipping, outQ, up, receiving>>

Stop ==
  /\ up /\ stops < MaxStops
  /\ stops' = stops + 1
  /\ statusChan' = Append(statusChan, Had(log, detail, files))
  /\ UNCHANGED <<run, log, detail, files, shipping, outQ, up, receiving>>

-----------------------------------------------------------------------------
(* sendLogJobDetail, one goroutine per EXECUTE.                            *)

SenderCheck(e) ==
  /\ up /\ shipper[e].at = "check"
  /\ doneJob' = FALSE
  /\ shipper' = [shipper EXCEPT ![e] = [@ EXCEPT !.at = IF doneJob THEN "end" ELSE "readLog"]]
  /\ UNCHANGED <<worker, statusChan, errors, outQ, up, receiving>>

\* Fault: one error more is put up with.
ReadFailsOnceMore(e) ==
  /\ errors' = [errors EXCEPT ![e] = IF @ > MaxErrors + 1 THEN @ ELSE @ + 1]
  /\ shipper' = [shipper EXCEPT ![e] = [@ EXCEPT !.at = IF errors[e] > MaxErrors + 1 THEN "end" ELSE "check"]]

\* A file that is not there: again later, or the end after too many times.
ReadFails(e) ==
  /\ errors' = [errors EXCEPT ![e] = IF @ > MaxErrors THEN @ ELSE @ + 1]
  /\ shipper' = [shipper EXCEPT ![e] = [@ EXCEPT !.at = IF errors[e] > MaxErrors THEN "end" ELSE "check"]]

SenderReadLog(e) ==
  /\ up /\ shipper[e].at = "readLog"
  /\ IF log = 0
       THEN ReadFails(e)
       ELSE shipper' = [shipper EXCEPT ![e] = [at |-> "readDetail", log |-> log, detail |-> 0]] /\ errors' = errors
  /\ UNCHANGED <<worker, statusChan, doneJob, outQ, up, receiving>>

SenderReadDetail(e) ==
  /\ up /\ shipper[e].at = "readDetail"
  /\ IF detail = 0
       THEN ReadFails(e)
       ELSE shipper' = [shipper EXCEPT ![e] = [@ EXCEPT !.at = "put", !.detail = detail]] /\ errors' = errors
  /\ UNCHANGED <<worker, statusChan, doneJob, outQ, up, receiving>>

Log(s) == [type |-> "LOG", from |-> s, log |-> shipper[s].log, detail |-> shipper[s].detail]
Put(m) == Len(outQ) < QueueBound /\ outQ' = Append(outQ, m)

SenderPut(e) ==
  /\ up /\ shipper[e].at = "put"
  /\ Put(Log(e))
  /\ shipper' = [shipper EXCEPT ![e] = [@ EXCEPT !.at = "check"]]
  /\ UNCHANGED <<worker, statusChan, doneJob, errors, up, receiving>>

-----------------------------------------------------------------------------
(* handleDoneJob.                                                          *)

\* Fault: the job is not marked as done.
DoneTakesUnmarked ==
  /\ up /\ shipper[Loop].at = "idle" /\ statusChan # <<>>
  /\ shipper' = [shipper EXCEPT ![Loop] = [@ EXCEPT !.at = "readLog"]]
  /\ UNCHANGED <<worker, statusChan, doneJob, errors, outQ, up, receiving>>

DoneTakes ==
  /\ up /\ shipper[Loop].at = "idle" /\ statusChan # <<>>
  /\ doneJob' = TRUE
  /\ shipper' = [shipper EXCEPT ![Loop] = [@ EXCEPT !.at = "readLog"]]
  /\ UNCHANGED <<worker, statusChan, errors, outQ, up, receiving>>

\* The error of reading them is thrown away, and the message is then nil.
DoneReadLog ==
  /\ up /\ shipper[Loop].at = "readLog"
  /\ shipper' = [shipper EXCEPT ![Loop] =
                  [at |-> IF log = 0 THEN "putNil" ELSE "readDetail", log |-> log, detail |-> 0]]
  /\ UNCHANGED <<worker, statusChan, doneJob, errors, outQ, up, receiving>>

DoneReadDetail ==
  /\ up /\ shipper[Loop].at = "readDetail"
  /\ shipper' = [shipper EXCEPT ![Loop] =
                  [@ EXCEPT !.at = IF detail = 0 THEN "putNil" ELSE "put", !.detail = detail]]
  /\ UNCHANGED <<worker, statusChan, doneJob, errors, outQ, up, receiving>>

DonePutLog ==
  /\ up /\ shipper[Loop].at \in {"put", "putNil"}
  /\ Put(IF shipper[Loop].at = "put" THEN Log(Loop) ELSE [type |-> "nil"])
  /\ shipper' = [shipper EXCEPT ![Loop] = [@ EXCEPT !.at = "putFiles"]]
  /\ UNCHANGED <<worker, statusChan, doneJob, errors, up, receiving>>

\* Fault: the RESULT is sent first.
DonePutFilesAfterwards ==
  /\ up /\ shipper[Loop].at = "putFiles"
  /\ outQ' = outQ
  /\ shipper' = [shipper EXCEPT ![Loop] = [@ EXCEPT !.at = "putResult"]]
  /\ UNCHANGED <<worker, statusChan, doneJob, errors, up, receiving>>

DonePutFiles ==
  /\ up /\ shipper[Loop].at = "putFiles"
  /\ IF files THEN Put([type |-> "FILE"]) ELSE outQ' = outQ
  /\ shipper' = [shipper EXCEPT ![Loop] = [@ EXCEPT !.at = "putResult"]]
  /\ UNCHANGED <<worker, statusChan, doneJob, errors, up, receiving>>

DonePutResult ==
  /\ up /\ shipper[Loop].at = "putResult"
  /\ Put([type |-> "RESULT", status |-> Head(statusChan)])
  /\ statusChan' = Tail(statusChan)
  /\ shipper' = [shipper EXCEPT ![Loop] = Idle]
  /\ UNCHANGED <<worker, doneJob, errors, up, receiving>>

-----------------------------------------------------------------------------
(* The client's send loop panics on a nil message, which cannot be         *)
(* marshalled; what it sent before may still arrive.                       *)
ClientPanics ==
  /\ up
  /\ \E i \in DOMAIN outQ, n \in 0 .. QueueBound :
       outQ[i].type = "nil" /\ n < i /\ outQ' = SubSeq(outQ, 1, n)
  /\ up' = FALSE
  /\ UNCHANGED <<worker, statusChan, shipping, receiving>>

(* The master's message loop.                                              *)
Received(m) ==
  /\ \/ /\ m.type = "LOG"
        /\ master' = [master EXCEPT !.log = m.log, !.detail = m.detail]
        /\ shippers' = shippers \union {m.from}
        /\ told' = told
     \/ m.type = "FILE" /\ master' = [master EXCEPT !.files = TRUE] /\ UNCHANGED <<shippers, told>>
     \/ m.type = "RESULT" /\ told' = TRUE /\ UNCHANGED <<master, shippers>>
  /\ saved' = [log |-> IF master'.log > saved.log THEN master'.log ELSE saved.log,
               detail |-> IF master'.detail > saved.detail THEN master'.detail ELSE saved.detail,
               files |-> master'.files]
  /\ UNCHANGED <<worker, statusChan, shipping, up>>

\* Fault: messages are handled side by side.
MasterTakesAny ==
  \E i \in DOMAIN outQ : Received(outQ[i]) /\ outQ' = RemoveAt(outQ, i)

MasterTakes == outQ # <<>> /\ Received(Head(outQ)) /\ outQ' = Tail(outQ)

-----------------------------------------------------------------------------
Executor(e) == Accept(e) \/ RunBegins(e) \/ RunGoesOn(e) \/ RunEnds(e) \/ Dropped(e)
Sender(e) == SenderCheck(e) \/ SenderReadLog(e) \/ SenderReadDetail(e) \/ SenderPut(e)
DoneLoop == DoneTakes \/ DoneReadLog \/ DoneReadDetail \/ DonePutLog \/ DonePutFiles \/ DonePutResult

Next ==
  \/ \E e \in Execs : Executor(e) \/ Sender(e)
  \/ Stop \/ DoneLoop \/ ClientPanics \/ MasterTakes

\* The goroutines and the connection keep going; a run may take for ever.
Fairness ==
  /\ \A e \in Execs : WF_vars(Sender(e))
  /\ WF_vars(DoneLoop) /\ WF_vars(ClientPanics) /\ WF_vars(MasterTakes)

Spec == Init /\ [][Next]_vars /\ Fairness

-----------------------------------------------------------------------------
(* Properties.                                                             *)

States == [log : 0 .. MaxLog, detail : 0 .. MaxDetail, files : BOOLEAN]

TypeOK ==
  /\ run \in [Execs -> {"none", "accepted", "running", "ended", "dropped"}] /\ stops \in 0 .. MaxStops
  /\ log \in 0 .. MaxLog /\ detail \in 0 .. MaxDetail /\ {files, doneJob, up, told} \subseteq BOOLEAN
  /\ statusChan \in Seq(States)
  /\ \A s \in DOMAIN shipper : shipper[s].at \in
       {"idle", "check", "readLog", "readDetail", "put", "putNil", "putFiles", "putResult", "end"}
  /\ errors \in [Execs -> 0 .. (MaxErrors + 1)]
  /\ Len(outQ) <= QueueBound
  /\ {master, saved} \subseteq States

\* When the RESULT of a status has reached the master, all the log lines, the
\* job detail and the files there were when the status was said have reached
\* it before: the hook may look at them.
ResultComesLast ==
  [][MasterTakes /\ Head(outQ).type = "RESULT" => AtMost(Head(outQ).status, saved)]_vars

\* The master's copy goes back to an older one only between two goroutines
\* that ship the same job: each alone keeps the order.
OnlyTwoShippersReorder ==
  [][~AtMost(master, master') => \E s, t \in shippers' : s # t]_vars

\* The log sender of a job executed once ends when the job has ended, or
\* when it was dropped: it is not left behind.
SendersEnd ==
  \A e \in Execs :
    run[e] \in {"ended", "dropped"} /\ Execs = {e} ~> (shipper[e].at = "end" \/ ~up)

-----------------------------------------------------------------------------
(* What the comments of the code say and the code does not do.             *)

\* engine_worker.go:163: log and job detail are sent back; so when all is sent
\* the master has what the worker has.
AllSent ==
  /\ outQ = <<>> /\ statusChan = <<>> /\ up
  /\ \A e \in Execs : run[e] = "ended" /\ shipper[e].at = "end"
LogsAreSentBack == AllSent => master.log = log /\ master.detail = detail

\* engine_worker.go:171: the sender checks whether the job is done; it goes on
\* while the job runs.
SenderStopsWhenDone ==
  [][\A e \in Execs : SenderCheck(e) /\ doneJob => run[e] = "ended"]_vars

\* engine_worker.go:147: the master is told that the job is done.
ResultIsSent == \A e \in Execs : run[e] = "ended" ~> told
=============================================================================
