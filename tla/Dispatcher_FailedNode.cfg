CONSTANTS
  n1 = n1  n2 = n2  n3 = n3  j1 = j1  c1 = c1  c2 = c2
  Keys = {n1, n2}
  Jobs = {j1}
  Callers = {c1}
  Leavers = {}
  MaxSends = 2
  NoKey = NoKey
  NoJob = NoJob
SYMMETRY Symmetry
SPECIFICATION Spec
PROPERTIES FailedNodeRemoved
CHECK_DEADLOCK FALSE
