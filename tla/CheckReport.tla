------------------------------ MODULE CheckReport ------------------------------
(***************************************************************************)
(* Check steps of a job and the step that puts their reports together      *)
(* (action_solhint.go, action_mythril.go, action_slither.go,               *)
(* action_sol_profiler.go, action_eslint.go, action_move_prover.go,        *)
(* action_eth_gas_reporter.go, action_check_aggregation.go).               *)
(*                                                                         *)
(* Hook of a check runs the tool, on each source file or once, and writes  *)
(* what it printed to a file named after the source, in the directory of   *)
(* the job's id and the tool.  Post, called before the next step, reads    *)
(* all files there and writes total_result.txt beside them.  The           *)
(* aggregation reads every total_result.txt under the job's id.            *)
(***************************************************************************)
EXTENDS Naturals, SequencesExt

CONSTANTS
  Plans,     \* sequences of tools a job may check with
  Sources,   \* sequences of base names of source files in a workdir
  Printed    \* Printed[t]: what tool t may print for one source

\* A print is a sequence of kinds of lines with the number of findings meant.
ASSUME PlansAssumption == \A p \in Plans : p \in Seq(DOMAIN Printed) /\ p # <<>>
ASSUME SourcesAssumption == \A bs \in Sources : bs \in Seq(ToSet(bs))
ASSUME PrintedAssumption == \A t \in DOMAIN Printed : \A p \in Printed[t] : p.finds \in Nat

VARIABLES
  plan,      \* the tools of the job's check steps, in order
  bases,     \* base names of the source files
  left,      \* tools whose directory an earlier job of this name and id filled
  step,      \* index of the step
  phase,     \* "pre", "hook", "post", "aggregate", "done", "failed", "crashed"
  nextFile,  \* index of the source Hook runs the tool on
  dirs,      \* dirs[t]: base name -> lines, the files in t's directory
  meant,     \* history: meant[t]: findings printed in the last step with t
  results,   \* tool -> its total_result.txt
  aggregate  \* what check-aggregation wrote: entries by tool

checkVars == <<plan, bases, left, step, phase, nextFile, dirs, meant, results, aggregate>>

Tools == DOMAIN Printed
PerFile == {"solhint", "mythril", "slither", "sol_profiler", "move-prover"}
Tool == plan[step]

\* by is the step that wrote it; mixed: a total_result.txt was there already
\* and was parsed with the prints.
Result(total, success, by, mixed) == [total |-> total, success |-> success, by |-> by, mixed |-> mixed]

\* A file written under a name, over the one of that name.
Put(files, name, v) == [n \in DOMAIN files \union {name} |-> IF n = name THEN v ELSE files[n]]

-----------------------------------------------------------------------------
(* The parsers: of the lines of one file, the number of details.           *)

\* stylish: a line with two blanks is a finding; one without line:column
\* after them makes Post panic.
SolHintDetails(ls) == Len(SelectSeq(ls, LAMBDA l : l \in {"finding", "odd"}))

\* Fault: a place makes a detail of its own.
MythRilLinePlaces(acc, l) ==
  IF acc.ended \/ l = "end" THEN [acc EXCEPT !.ended = TRUE]
  ELSE [acc EXCEPT !.details = IF l \in {"note", "place"} THEN @ + 1 ELSE @]

\* A note makes a detail, a place completes the last one, or makes one when
\* there is none; nothing counts after a ruler or "completed successfully".
MythRilLine(acc, l) ==
  IF acc.ended \/ l = "end" THEN [acc EXCEPT !.ended = TRUE]
  ELSE [acc EXCEPT !.details = IF l = "note" \/ (l = "place" /\ @ = 0) THEN @ + 1 ELSE @]
MythRilDetails(ls) == FoldLeft(MythRilLine, [details |-> 0, ended |-> FALSE], ls).details

\* An error takes the next line with it, whatever that is: a place, another
\* error, or a place cut short, which drops the error.
MoveProverLine(acc, l) ==
  IF acc.error THEN [details |-> IF l = "short" THEN acc.details ELSE acc.details + 1, error |-> FALSE]
               ELSE [acc EXCEPT !.error = (l = "error")]
MoveProverDetails(ls) == FoldLeft(MoveProverLine, [details |-> 0, error |-> FALSE], ls).details

\* truffle test: the numbered lines under a contract count, up to a table; of
\* those further down ("info") each takes the lines up to the next one.  The
\* line that ends a contract or an explanation is held, and the line after it
\* is read as the first of the next, whatever it is.
EthGasLine(acc, l) ==
  LET testing == acc.mode = "unit" \/ acc.held = "contract" IN
    [issues |-> IF l = "number" /\ testing THEN acc.issues + 1 ELSE acc.issues,
     mode |-> CASE acc.mode = "unit" -> IF l \in {"contract", "border"} THEN "out" ELSE "unit"
                [] acc.mode = "info" -> IF l = "number" THEN "out" ELSE "info"
                [] acc.mode = "out" -> IF testing \/ l = "contract" THEN "unit"
                                       ELSE IF l # "row" /\ "number" \in {l, acc.held} THEN "info"
                                       ELSE "out",
     held |-> CASE acc.mode = "unit" /\ l = "contract" -> "contract"
                [] acc.mode = "info" /\ l = "number" -> "number"
                [] acc.mode = "out" /\ l = "row" /\ acc.held = "number" -> "number"
                [] OTHER -> "nothing"]
EthGasIssues(ls) == FoldLeft(EthGasLine, [issues |-> 0, mode |-> "out", held |-> "nothing"], ls).issues

\* Each message of each file in the list is a finding.
EslintMessages(ls) == Len(SelectSeq(ls, LAMBDA l : l = "message"))

\* The issues of one file: none are counted by sol-profiler, and the gas
\* report counts each failing test once in each of its four parts.
Issues(t, ls) ==
  CASE t = "solhint" -> SolHintDetails(ls)
    [] t = "mythril" -> MythRilDetails(ls)
    [] t = "move-prover" -> MoveProverDetails(ls)
    [] t = "eth-gas-reporter" -> 4 * EthGasIssues(ls)
    [] t = "eslint" -> EslintMessages(ls)
    [] OTHER -> 0

\* eslint and sol-profiler always write Success.
Verdict(t, total) == t \in {"eslint", "sol_profiler"} \/ total = 0

\* A line that Post cuts past its end; Post is not called under a recover.
Panics(t, ls) == t \in {"solhint", "mythril", "sol_profiler", "eth-gas-reporter"} /\ Contains(ls, "odd")

\* No result is written for a list of no files or what is no list.
Writes(t, ls) == t # "eslint" \/ ls \notin {<<>>, <<"bad">>}

-----------------------------------------------------------------------------
(* The steps.                                                              *)

\* A worker keeps the files of jobs that were deleted and made again.
CheckInit ==
  /\ plan \in Plans /\ bases \in Sources
  /\ left \in {{}, {"mythril"} \intersect Tools}
  /\ step = 1 /\ phase = "pre" /\ nextFile = 1
  /\ dirs = [t \in Tools |-> IF t \in left THEN Put(<<>>, "old", <<"note">>) ELSE <<>>]
  /\ meant = [t \in Tools |-> 0]
  /\ results = [t \in left |-> Result(1, FALSE, 0, FALSE)]
  /\ aggregate = <<>>

\* .solhint.json, .myhril.json with the remappings of node_modules, the
\* checks of package.json: done, or the step fails and Post is not called.
PreCheck ==
  /\ phase = "pre"
  /\ phase' \in {"hook", "failed"} /\ nextFile' = 1
  /\ meant' = [meant EXCEPT ![Tool] = 0]
  /\ UNCHANGED <<plan, bases, left, step, dirs, results, aggregate>>

Files == IF Tool \in PerFile THEN bases ELSE <<Tool>>

\* The tool on one source; a source of the same base name in another
\* directory overwrites what was printed for the first.
CheckSource ==
  /\ phase = "hook" /\ nextFile <= Len(Files)
  /\ \E p \in Printed[Tool] :
       /\ dirs' = [dirs EXCEPT ![Tool] = Put(@, Files[nextFile], p.lines)]
       /\ meant' = [meant EXCEPT ![Tool] = @ + p.finds]
  /\ nextFile' = nextFile + 1
  /\ UNCHANGED <<plan, bases, left, step, phase, results, aggregate>>

\* A tool that cannot be run (or, for solhint, slither and sol-profiler, one
\* that exits with an error) ends the job: a.path is still the path of the
\* step, and Post finds nothing there.
CheckFails ==
  /\ phase = "hook" /\ nextFile <= Len(Files)
  /\ phase' = "failed"
  /\ UNCHANGED <<plan, bases, left, step, nextFile, dirs, meant, results, aggregate>>

\* Fault: Post is left for the end of the job.
AfterHookNext == IF step < Len(plan) THEN "pre" ELSE "post"
AfterHook == "post"

HookEnds ==
  /\ phase = "hook" /\ nextFile > Len(Files)
  /\ phase' = AfterHook
  /\ step' = IF phase' = "pre" THEN step + 1 ELSE step
  /\ UNCHANGED <<plan, bases, left, nextFile, dirs, meant, results, aggregate>>

\* Post parses every file in the directory, a total_result.txt of an earlier
\* step with the tool included: a line that may count or not, or cut short.
Texts == {dirs[Tool][b] : b \in DOMAIN dirs[Tool]}
Own == FoldSet(LAMBDA b, sum : sum + Issues(Tool, dirs[Tool][b]), 0, DOMAIN dirs[Tool])
Mixed == Tool \in PerFile /\ Tool \in left \union DOMAIN results

\* The error of a Post is not looked at.
AfterPost ==
  /\ phase' = IF step < Len(plan) THEN "pre" ELSE "aggregate"
  /\ step' = IF step < Len(plan) THEN step + 1 ELSE step

PostCheck ==
  /\ phase = "post" /\ ~\E ls \in Texts : Panics(Tool, ls)
  /\ AfterPost
  /\ IF Tool = "slither" \/ \E ls \in Texts : ~Writes(Tool, ls) THEN results' = results
     ELSE \E more \in IF Mixed THEN {0, 1} ELSE {0} :
            results' = Put(results, Tool, Result(Own + more, Verdict(Tool, Own + more), step, Mixed))
  /\ UNCHANGED <<plan, bases, left, nextFile, dirs, meant, aggregate>>

PostPanics ==
  /\ phase = "post"
  /\ (\E ls \in Texts : Panics(Tool, ls)) \/ (Mixed /\ Tool = "solhint")
  /\ phase' = "crashed"
  /\ UNCHANGED <<plan, bases, left, step, nextFile, dirs, meant, results, aggregate>>

\* Every result there is; one that cannot be read fails the step.
CheckAggregation ==
  /\ phase = "aggregate"
  /\ \/ phase' = "done" /\ aggregate' = results
     \/ phase' = "failed" /\ aggregate' = aggregate
  /\ UNCHANGED <<plan, bases, left, step, nextFile, dirs, meant, results>>

CheckNext == 
  PreCheck \/ CheckSource \/ CheckFails \/ HookEnds \/ PostCheck \/ PostPanics \/ CheckAggregation

CheckSpec == CheckInit /\ [][CheckNext]_checkVars

-----------------------------------------------------------------------------
(* Properties.                                                             *)

LastStep(t) == CHOOSE i \in DOMAIN plan : plan[i] = t /\ \A k \in (i + 1) .. Len(plan) : plan[k] # t

AggregateIsComplete ==
  phase = "done" =>
    \A t \in ToSet(plan) \ {"slither"} :
      (\A b \in DOMAIN dirs[t] : Writes(t, dirs[t][b])) =>
        t \in DOMAIN aggregate /\ aggregate[t].by = LastStep(t)

TotalsAreOfTheSources ==
  \A t \in (DOMAIN aggregate \intersect ToSet(plan)) \ {"sol_profiler"} :
    aggregate[t].by = LastStep(t) /\ ~aggregate[t].mixed /\ IsInjective(bases) =>
      /\ aggregate[t].total = meant[t] * (IF t = "eth-gas-reporter" THEN 4 ELSE 1)
      /\ t # "eslint" => (aggregate[t].success <=> meant[t] = 0)

\* The aggregate has the result of the last step with each tool of the plan,
\* unless there was nothing to write: every Post has run when the aggregation
\* reads, and none of an earlier step has the last word.  Such a result counts
\* each finding the tool printed once (the gas report four times) and says Fail
\* when there is one, unless two sources have one base name or a result was
\* there already and was parsed too.
ReportsAreRight == AggregateIsComplete /\ TotalsAreOfTheSources
=============================================================================
