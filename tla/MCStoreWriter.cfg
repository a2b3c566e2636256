SPECIFICATION Spec
CONSTANTS
  Capacity = 2
  MaxBatchSize = 2
  MaxEvents = 5
  DbFails = TRUE
INVARIANTS WrittenInOrder EveryEventAccountedFor ShutdownFlushes
PROPERTIES WriterStops AcceptedIsWritten
CHECK_DEADLOCK FALSE
