SPECIFICATION Spec
CONSTANTS
  c1 = c1
  c2 = c2
  None = None
  Callers = {c1, c2}
  MaxLooks = 2
  MaxCalls = 3
  MaxChanges = 3
INVARIANTS LeftoversHaveACause
PROPERTIES OldAnswersHaveACause CallsReturn
CHECK_DEADLOCK FALSE
