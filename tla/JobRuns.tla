------------------------------ MODULE JobRuns -------------------------------
(***************************************************************************)
(* What a worker promises about each job it accepts: the run ends, as a    *)
(* success or a failure, once; and the one who waits for the result is     *)
(* told that outcome, after it is known, and is never told another one     *)
(* later.  (The comment on executor.go:54: "a defer, to be sure that the   *)
(* final result is sent to StatusChan".)                                   *)
(***************************************************************************)
CONSTANT Runs

VARIABLES
  state,  \* state[r]: "waiting", "accepted", or how the run ended
  told    \* the runs whose outcome is the last thing said of them

vars == <<state, told>>

Outcomes == {"success", "fail"}

Init == state = [r \in Runs |-> "waiting"] /\ told = {}

Accept(r) ==
  /\ state[r] = "waiting"
  /\ state' = [state EXCEPT ![r] = "accepted"]
  /\ told' = told

Decide(r) ==
  /\ state[r] = "accepted"
  /\ \E o \in Outcomes : state' = [state EXCEPT ![r] = o]
  /\ told' = told

Tell(r) ==
  /\ state[r] \in Outcomes /\ r \notin told
  /\ told' = told \union {r}
  /\ state' = state

Next == \E r \in Runs : Accept(r) \/ Decide(r) \/ Tell(r)

Safety == Init /\ [][Next]_vars

Spec == Safety /\ \A r \in Runs : WF_vars(Decide(r)) /\ WF_vars(Tell(r))
=============================================================================
