SPECIFICATION MCSpec
CONSTANTS
  a = a
  b = b
  c = c
  other = other
  s1 = s1
  s2 = s2
  n1 = n1
  n2 = n2
  NoName = NoName
  Stages = {a, b, c}
  Others = {other}
  StageNames = {s1, s2}
  StepNames = {n1, n2}
  MaxLines = 14
  Plans <- MCPlans
  Sources <- MCSources
  Printed <- MCPrinted
  Items = {s1, s2, n1, n2}
  PageSizes <- MCPageSizes
  MaxChanges = 3
INVARIANTS OrderIsValid RefusedIffStuck LatestIsFound ReportsAreRight 
PROPERTIES PollingIsComplete SortReturns
CHECK_DEADLOCK FALSE
