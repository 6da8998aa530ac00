SPECIFICATION Spec
CONSTANTS
  a = a
  b = b
  c1 = c1
  c2 = c2
  Names = {a, b}
  Ids = {1}
  Callers = {c1, c2}
  Matching = TRUE
  MaxOps = 4
  MaxCrashes = 1
  NoName = NoName
  Nowhere = Nowhere
SYMMETRY Symmetry
INVARIANTS  NoNamelessJob 
CHECK_DEADLOCK FALSE
