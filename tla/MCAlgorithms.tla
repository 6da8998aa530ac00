----------------------------- MODULE MCAlgorithms -----------------------------
(***************************************************************************)
(* The sequential algorithms: StageSort, the log parser, the reports of   *)
(* the checks and the pages of lists.  They share no state, so one of them *)
(* moves in a behaviour while the others rest.                             *)
(***************************************************************************)
EXTENDS StageSort, LogParser, CheckReport, Paging

CONSTANTS a, b, c, other, s1, s2, n1, n2

VARIABLE algorithm

Shows(ls, n) == [lines |-> ls, finds |-> n]

MCPrinted ==
  [solhint |-> {Shows(<<"other">>, 0), Shows(<<"finding", "other", "finding">>, 2), Shows(<<"odd">>, 1)},
   mythril |-> {Shows(<<"end">>, 0), Shows(<<"note", "other", "place">>, 1), Shows(<<"place", "note", "place", "end">>, 2)},
   slither |-> {Shows(<<"other">>, 1)},
   sol_profiler |-> {Shows(<<"row">>, 0), Shows(<<"odd">>, 0)},
   eslint |-> {Shows(<<>>, 0), Shows(<<"bad">>, 0), Shows(<<"message", "message">>, 2)}]
  @@ ("move-prover" :> {Shows(<<"other">>, 0), Shows(<<"error", "place", "other", "error", "place">>, 2)})
  @@ ("eth-gas-reporter" :>
        {Shows(<<"contract", "other", "border", "row">>, 0),
         Shows(<<"contract", "number", "contract", "number", "other", "border", "row", "number", "other", "number">>, 2)})

MCPlans == {<<t, u>> : t, u \in DOMAIN MCPrinted}
MCSources == {<<"A">>, <<"A", "B">>, <<"A", "A">>}
MCPageSizes == -1 .. 3

Idle == [s \in Stages |-> {}]
OnePlan == <<"slither", "slither">>

MCInit ==
  /\ algorithm \in {"sort", "log", "checks", "pages"}
  /\ (algorithm # "sort" => needs = Idle) /\ Init
  /\ LogInit
  /\ (algorithm # "checks" => plan = OnePlan /\ bases = <<"A">> /\ left = {}) /\ CheckInit
  /\ (algorithm # "pages" => listing = <<>> /\ size = 0) /\ PageInit

MCNext ==
  \/ algorithm = "sort" /\ Next /\ UNCHANGED <<algorithm, logVars, checkVars, pageVars>>
  \/ algorithm = "log" /\ LogNext /\ UNCHANGED <<algorithm, vars, checkVars, pageVars>>
  \/ algorithm = "checks" /\ CheckNext /\ UNCHANGED <<algorithm, vars, logVars, pageVars>>
  \/ algorithm = "pages" /\ PageNext /\ UNCHANGED <<algorithm, vars, logVars, checkVars>>

\* The fairness of StageSort, with the test of algorithm first.
MCSpec ==
  /\ MCInit /\ [][MCNext]_<<algorithm, vars, logVars, checkVars, pageVars>>
  /\ WF_vars(algorithm = "sort" /\ Next)

SortReturns == algorithm = "sort" => SortEnds
=============================================================================
