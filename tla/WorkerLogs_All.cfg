SPECIFICATION Spec
CONSTANTS
  e1 = e1
  e2 = e2
  Loop = Loop
  Execs = {e1}
  MaxStops = 1
  MaxLog = 2
  MaxDetail = 1
  MaxErrors = 1
  QueueBound = 2
INVARIANT TypeOK
PROPERTIES   SendersEnd
CHECK_DEADLOCK FALSE
