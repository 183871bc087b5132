SPECIFICATION Spec
CONSTANTS
  r1 = r1
  N = 3
  FlushSize = 2
  Reader = {r1}
  StartAfter <- MCFromStart
  BatchSize = 2
  MaxReconnects = 0
  MaxFailures = 0
  MayInterrupt = FALSE
INVARIANT EndedReaderHasAll
CHECK_DEADLOCK FALSE
