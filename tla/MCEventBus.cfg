SPECIFICATION Spec
CONSTANTS
  NumSinks = 2
  Capacity = 2
  BatchSize = 2
  MaxEvents = 5
  NotAsked = NotAsked
INVARIANTS DeliveryExact ShutdownDrains
PROPERTIES ShutdownReturns AcceptedIsFlushed BroadcastSpec
CHECK_DEADLOCK FALSE
