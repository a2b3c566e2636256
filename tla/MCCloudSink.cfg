SPECIFICATION Spec
CONSTANTS
  Capacity = 2
  BatchSize = 2
  Attempts = 2
  MaxEvents = 4
INVARIANTS AccountedFor RepeatsAreWhole ReportsAreTrue
PROPERTIES EventuallySettled SinkStops
CHECK_DEADLOCK FALSE
