SPECIFICATION Spec
CONSTANTS
  k1 = k1
  k2 = k2
  j1 = j1
  j2 = j2
  c1 = c1
  c2 = c2
  NoJob = NoJob
  NoKey = NoKey
  Keys = {k1}
  Jobs = {j1}
  Callers = {c1}
  HasHook = TRUE
  SendCap = 1
  ErrorCap = 1
  StatusCap = 1
  QueueBound = 1
  MaxStreams <- OneReturns
  MaxCalls = 0
INVARIANT FailedExecuteIsReported
CHECK_DEADLOCK FALSE
