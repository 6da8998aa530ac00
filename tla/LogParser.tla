------------------------------ MODULE LogParser -----------------------------
(***************************************************************************)
(* Reading a job's log back (parseLogLines and ParseStageSteps of          *)
(* output/output.go, GetJobStageLog and GetJobStepLog of job/job.go).  The *)
(* log is written as Output.tla has it; a job executed again appends to    *)
(* the log of the earlier execution, so the names of stages come back.     *)
(***************************************************************************)
EXTENDS Naturals, SequencesExt

CONSTANTS StageNames, StepNames, MaxLines, NoName

ASSUME MaxLinesAssumption == MaxLines \in Nat
ASSUME NameAssumption == NoName \notin StageNames \union StepNames

VARIABLES
  lines,   \* the lines of the log file
  current, \* the stage being written
  parts,   \* history: for each stage begun, its name and its lines so far
  steps    \* history: for each step of the current stage, its name and its lines

logVars == <<lines, current, parts, steps>>

Line(kind, name) == [kind |-> kind, name |-> name]
Plain(kind) == Line(kind, NoName)
Part(name, ls) == [name |-> name, lines |-> ls]

-----------------------------------------------------------------------------
(* The parser.                                                             *)

\* One line: "[Job] ..." and empty lines are passed over, a stage line starts
\* the lines of its stage anew, and any line but those belongs to the stage.
\* Fault: a stage that comes back keeps the lines it had.
ScanKept(log, line) ==
  CASE line.kind \in {"started", "finished", "blank"} -> log
    [] line.kind = "stage" ->
         [stage |-> line.name, names |-> Append(log.names, line.name),
          map |-> [log.map EXCEPT ![line.name] = Append(@, line)]]
    [] OTHER -> [log EXCEPT !.map[log.stage] = Append(@, line)]

Scan(log, line) ==
  CASE line.kind \in {"started", "finished", "blank"} -> log
    [] line.kind = "stage" ->
         [stage |-> line.name, names |-> Append(log.names, line.name),
          map |-> [log.map EXCEPT ![line.name] = <<line>>]]
    [] OTHER -> [log EXCEPT !.map[log.stage] = Append(@, line)]

Scanned(ls) ==
  FoldLeft(Scan, [stage |-> NoName, names |-> <<>>, map |-> [s \in StageNames \union {NoName} |-> <<>>]], ls)

\* The stages come out in the order of the map, that is in any order, each as
\* often as its name is in the list.
Times(name, names) == Cardinality({i \in DOMAIN names : names[i] = name})
Repeated(name, names, map) == [i \in 1 .. Times(name, names) |-> Part(name, map[name])]
Ordered(order, log) == FlattenSeq([i \in DOMAIN order |-> Repeated(order[i], log.names, log.map)])
ParseLogLines(ls) ==
  LET log == Scanned(ls) IN
    {Ordered(order, log) : order \in SetToSeqs(ToSet(log.names))}

\* Lines before the first step belong to none.
\* Fault: a step that comes back keeps the lines it had.
ScanStepKept(log, line) ==
  CASE line.kind \in {"start", "end"} -> log
    [] line.kind = "step" -> [log EXCEPT !.names = Append(@, line.name)]
    [] OTHER -> IF log.names = <<>> THEN log
                ELSE [log EXCEPT !.map[Last(log.names)] = Append(@, line)]

ScanStep(log, line) ==
  CASE line.kind \in {"start", "end"} -> log
    [] line.kind = "step" ->
         [names |-> Append(log.names, line.name), map |-> [log.map EXCEPT ![line.name] = <<>>]]
    [] OTHER -> IF log.names = <<>> THEN log
                ELSE [log EXCEPT !.map[Last(log.names)] = Append(@, line)]

ScannedSteps(ls) == FoldLeft(ScanStep, [names |-> <<>>, map |-> [n \in StepNames |-> <<>>]], ls)

ParseStageSteps(part) ==
  LET log == ScannedSteps(part.lines)
  IN [i \in DOMAIN log.names |-> Part(log.names[i], log.map[log.names[i]])]

\* GetJobStageLog and GetJobStepLog take the first that has the name.
First(ps, name) == ps[CHOOSE i \in DOMAIN ps : ps[i].name = name /\ \A k \in 1 .. (i - 1) : ps[k].name # name]
Named(ps, name) == \E i \in DOMAIN ps : ps[i].name = name
Names(ps) == [i \in DOMAIN ps |-> ps[i].name]

\* The lines from start on, and where to start the next time.
\* Fault: the reader is told of one line more.
StageLogOffByOne(part, start) ==
  [content |-> IF start <= Len(part.lines) THEN SubSeq(part.lines, start + 1, Len(part.lines)) ELSE <<>>,
   lastLine |-> Len(part.lines) + 1]

StageLog(part, start) ==
  [content |-> IF start <= Len(part.lines) THEN SubSeq(part.lines, start + 1, Len(part.lines)) ELSE <<>>,
   lastLine |-> Len(part.lines)]

-----------------------------------------------------------------------------
(* The writer.                                                             *)

LogInit == lines = <<Plain("started")>> /\ current = NoName /\ parts = <<>> /\ steps = <<>>

Write(ls) == Len(lines) + Len(ls) <= MaxLines /\ lines' = lines \o ls

\* The current stage gets the lines.
Grown(ls) == [parts EXCEPT ![Len(parts)].lines = @ \o ls]

BeginStage(s) ==
  LET head == <<Line("stage", s), Plain("start")>>
      end == IF current = NoName THEN <<>> ELSE <<Plain("end")>> IN
    /\ Write(end \o <<Plain("blank")>> \o head)
    /\ parts' = Append(IF current = NoName THEN parts ELSE Grown(end), Part(s, head))
    /\ current' = s /\ steps' = <<>>

BeginStep(n) ==
  /\ current # NoName
  /\ Write(<<Line("step", n)>>)
  /\ parts' = Grown(<<Line("step", n)>>)
  /\ steps' = Append(steps, Part(n, <<>>))
  /\ current' = current

Text ==
  /\ steps # <<>>
  /\ Write(<<Plain("text")>>)
  /\ parts' = Grown(<<Plain("text")>>)
  /\ steps' = [steps EXCEPT ![Len(steps)].lines = Append(@, Plain("text"))]
  /\ current' = current

\* Done; then, maybe, New for the next execution of the job.
EndJob ==
  /\ current # NoName
  /\ Write(<<Plain("end"), Plain("blank"), Plain("finished"), Plain("started")>>)
  /\ parts' = Grown(<<Plain("end")>>)
  /\ current' = NoName /\ steps' = <<>>

LogNext == (\E s \in StageNames : BeginStage(s)) \/ (\E n \in StepNames : BeginStep(n)) \/ Text \/ EndJob

LogSpec == LogInit /\ [][LogNext]_logVars

-----------------------------------------------------------------------------
(* Properties.                                                             *)

LastPart(ps, name) == ps[CHOOSE i \in DOMAIN ps : ps[i].name = name /\ \A k \in (i + 1) .. Len(ps) : ps[k].name # name]

StageIsFound ==
  \A parsed \in ParseLogLines(lines), s \in StageNames :
    /\ Named(parsed, s) <=> Named(parts, s)
    /\ Named(parts, s) => First(parsed, s) = LastPart(parts, s)

StepIsFound ==
  parts # <<>> /\ current # NoName =>
    LET parsed == ParseStageSteps(LastPart(parts, current)) IN
      \A n \in StepNames :
        /\ Named(parsed, n) <=> Named(steps, n)
        /\ Named(steps, n) => First(parsed, n) = LastPart(steps, n)

\* Whatever the order of the map, asking for a stage gives the lines of its
\* last execution, all of them and no other, in the order written; and, in the
\* stage under way, asking for a step those of the last begun under its name.
LatestIsFound == StageIsFound /\ StepIsFound

\* What a reader of stage s has before a step, and what it is given after the
\* step from there on, make up the lines of the stage.
Continues(s) ==
  LET old == StageLog(LastPart(parts, s), 0) IN
    \A parsed \in ParseLogLines(lines') :
      old.content \o StageLog(First(parsed, s), old.lastLine).content = LastPart(parts', s).lines

\* A reader that asks for a stage again and again, each time from the lastLine
\* it was told, misses no line and sees none twice, whatever is written in
\* between, until the stage is begun anew.
PollingIsComplete ==
  [][\A s \in StageNames :
       Named(parts, s) /\ Times(s, Names(parts)) = Times(s, Names(parts')) => Continues(s)]_logVars

-----------------------------------------------------------------------------
\* output.go:328: an array records the order, since a map has none; so the
\* stages come out in the order of the log.
StagesInOrder ==
  \A parsed \in ParseLogLines(lines) :
    Names(parsed) = Names(parts)
=============================================================================
