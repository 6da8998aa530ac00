SPECIFICATION OutputSpec
CONSTANTS
  w1 = w1
  Scanners = {w1}
  MaxLines = 8
INVARIANTS OutputInv
PROPERTIES FlusherEnds 
CHECK_DEADLOCK FALSE
