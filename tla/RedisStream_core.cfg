SPECIFICATION FairSpec
CONSTANTS
  r1 = r1
  N = 3
  FlushSize = 2
  Reader = {r1}
  StartAfter <- MCFromStart
  BatchSize = 2
  MaxReconnects = 1
  MaxFailures = 1
  MayInterrupt = TRUE
INVARIANTS TypeOK NoDuplicateChunk NoChunkLostWhileStreaming NumberIdentifiesChunk
PROPERTIES ImplementsSseLog FromStartTerminates BufferedIsFlushed
CHECK_DEADLOCK FALSE
