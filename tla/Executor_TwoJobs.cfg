SPECIFICATION Spec
CONSTANTS
  j1 = j1
  j2 = j2
  r1 = r1
  r2 = r2
  NoJob = NoJob
  NoRun = NoRun
  Jobs = {j1, j2}
  Runs = {r1, r2}
  Pipeline <- OneStep
  QueueCap = 1
  StatusCap = 1
  MaxStops = 1
  Saved = {}
SYMMETRY Symmetry
INVARIANTS RunningIsKnown TimersFollowRuns
CHECK_DEADLOCK FALSE
