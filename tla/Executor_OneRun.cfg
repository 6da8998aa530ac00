SPECIFICATION Spec
CONSTANTS
  j1 = j1
  j2 = j2
  r1 = r1
  r2 = r2
  NoJob = NoJob
  NoRun = NoRun
  Jobs = {j1}
  Runs = {r1}
  Pipeline <- TwoStages
  QueueCap = 2
  StatusCap = 2
  MaxStops = 1
  Saved = {r1}
INVARIANTS ExecutorInv OnlyInnerFailuresAreLost
PROPERTIES  CancelReturns
CHECK_DEADLOCK FALSE
