----------------------------- MODULE StatusQuery ----------------------------
(***************************************************************************)
(* Asking a worker for the status of a job: getJobStatus and the STATUS    *)
(* case of the message loop in engine_master.go, sendJobStatus in          *)
(* engine_worker.go.  The master sends a STATUS message and looks into     *)
(* jobStatusMap once a second, ten times, for the answer, which names the  *)
(* job and not the call it answers.                                        *)
(*                                                                         *)
(* One job, on a node that Dispatcher.tla's JobNodeMap knows.  Messages    *)
(* may be lost with a connection (Link.tla).  Whether the worker's own     *)
(* record, cancelMap, is right is Executor.tla's subject.                  *)
(***************************************************************************)
EXTENDS Naturals, Sequences

CONSTANTS
  Callers,    \* goroutines of the embedding program
  MaxLooks,   \* looks into jobStatusMap (10 in the code)
  MaxCalls,   \* bound: calls
  MaxChanges, \* bound: changes of the job's status on the worker
  None

ASSUME NoneAssumption == None \notin {"running", "notrun"}
ASSUME BoundsAssumption == MaxLooks \in Nat \ {0} /\ {MaxCalls, MaxChanges} \subseteq Nat

VARIABLES
  record,    \* what cancelMap says of the job: "running" or "notrun"
  changes,
  questions, \* STATUS messages on their way to the worker
  answers,   \* their answers on the way to the message loop
  map,       \* the job's entry in jobStatusMap
  call,      \* call[c]: where it is, looks made, status loaded
  made,      \* calls made
  held,      \* history: held[c], the statuses the job has had since call c began
  late,      \* history: TRUE once a call gave up
  shared     \* history: TRUE once two calls were under way at a time

vars == <<record, changes, questions, answers, map, call, made, held, late, shared>>

Statuses == {"running", "notrun"}
NoCall == [at |-> "idle", looks |-> 0, seen |-> None]
Busy == {c \in Callers : call[c].at # "idle"}

Init ==
  /\ record = "notrun" /\ changes = 0
  /\ questions = 0 /\ answers = <<>> /\ map = None
  /\ call = [c \in Callers |-> NoCall] /\ made = 0
  /\ held = [c \in Callers |-> {}] /\ late = FALSE /\ shared = FALSE

-----------------------------------------------------------------------------
(* getJobStatus.                                                           *)

Ask(c) ==
  /\ call[c].at = "idle" /\ made < MaxCalls
  /\ made' = made + 1
  /\ questions' = questions + 1
  /\ call' = [call EXCEPT ![c].at = "look"]
  /\ held' = [held EXCEPT ![c] = {record}]
  /\ shared' = (shared \/ Busy # {})
  /\ UNCHANGED <<record, changes, answers, map, late>>

\* Fault: the call does not give up.
LookForEver(c) ==
  /\ call[c].at = "look" /\ map # None
  /\ call' = [call EXCEPT ![c].at = "delete", ![c].seen = map]
  /\ UNCHANGED <<record, changes, questions, answers, map, made, held, late, shared>>

Look(c) ==
  /\ call[c].at = "look"
  /\ call' = IF map # None
               THEN [call EXCEPT ![c].at = "delete", ![c].seen = map]
               ELSE [call EXCEPT ![c].looks = @ + 1,
                                 ![c].at = IF call[c].looks + 1 = MaxLooks THEN "timeout" ELSE "look"]
  /\ UNCHANGED <<record, changes, questions, answers, map, made, held, late, shared>>

\* Fault: the answer stays.
TakeAnswerKept(c) ==
  /\ call[c].at = "delete"
  /\ map' = map
  /\ call' = [call EXCEPT ![c] = NoCall]
  /\ UNCHANGED <<record, changes, questions, answers, made, held, late, shared>>

\* The entry is deleted, whichever it is by now; the call returns.
TakeAnswer(c) ==
  /\ call[c].at = "delete"
  /\ map' = None
  /\ call' = [call EXCEPT ![c] = NoCall]
  /\ UNCHANGED <<record, changes, questions, answers, made, held, late, shared>>

GiveUp(c) ==
  /\ call[c].at = "timeout"
  /\ late' = TRUE
  /\ call' = [call EXCEPT ![c] = NoCall]
  /\ UNCHANGED <<record, changes, questions, answers, map, made, held, shared>>

-----------------------------------------------------------------------------
(* The worker and the message loop.                                        *)

RecordChanges ==
  /\ changes < MaxChanges
  /\ \E s \in Statuses \ {record} :
       record' = s /\ held' = [c \in Callers |-> IF c \in Busy THEN held[c] \union {s} ELSE held[c]]
  /\ changes' = changes + 1
  /\ UNCHANGED <<questions, answers, map, call, made, late, shared>>

\* An unknown job is answered with NOTRUN.
Answer ==
  /\ questions > 0
  /\ questions' = questions - 1
  /\ answers' = Append(answers, record)
  /\ UNCHANGED <<record, changes, map, call, made, held, late, shared>>

LoseQuestion ==
  /\ questions > 0
  /\ questions' = questions - 1
  /\ UNCHANGED <<record, changes, answers, map, call, made, held, late, shared>>

LoseAnswers ==
  /\ answers # <<>>
  /\ answers' = <<>>
  /\ UNCHANGED <<record, changes, questions, map, call, made, held, late, shared>>

StoreAnswer ==
  /\ answers # <<>>
  /\ map' = Head(answers)
  /\ answers' = Tail(answers)
  /\ UNCHANGED <<record, changes, questions, call, made, held, late, shared>>

-----------------------------------------------------------------------------
Call(c) == Look(c) \/ TakeAnswer(c) \/ GiveUp(c)

Next ==
  \/ \E c \in Callers : Ask(c) \/ Call(c)
  \/ RecordChanges \/ Answer \/ LoseQuestion \/ LoseAnswers \/ StoreAnswer

\* A call sleeps and looks again: it never waits for a message.
Spec == Init /\ [][Next]_vars /\ \A c \in Callers : WF_vars(Call(c))

-----------------------------------------------------------------------------
(* Properties.                                                             *)

TypeOK ==
  /\ record \in Statuses /\ changes \in 0 .. MaxChanges
  /\ questions \in Nat /\ answers \in Seq(Statuses) /\ map \in Statuses \union {None}
  /\ call \in [Callers -> [at : {"idle", "look", "delete", "timeout"}, looks : 0 .. MaxLooks,
                           seen : Statuses \union {None}]]
  /\ made \in 0 .. MaxCalls /\ held \in [Callers -> SUBSET Statuses]
  /\ late \in BOOLEAN /\ shared \in BOOLEAN

Returns(c, s) == TakeAnswer(c) /\ call[c].seen = s

\* A call returns a status the job had while the call was under way, unless an
\* earlier call gave up or two calls were made at a time.
OldAnswersHaveACause ==
  [][\A c \in Callers, s \in Statuses : Returns(c, s) => s \in held[c] \/ late \/ shared]_vars

\* Between two calls nothing is left for the second to find, neither in the
\* map nor on the way, with the same exceptions.
LeftoversHaveACause ==
  Busy = {} /\ ~late /\ ~shared => map = None /\ answers = <<>> /\ questions = 0

\* A call returns, whether or not the worker answers.
CallsReturn == \A c \in Callers : call[c].at # "idle" ~> call[c].at = "idle"

-----------------------------------------------------------------------------
(* What the comments of the code say and the code does not do.             *)

\* engine.go:203: the status is that of the current job, not a past one.
AnswerIsCurrent ==
  [][\A c \in Callers, s \in Statuses : Returns(c, s) => s \in held[c]]_vars
=============================================================================
