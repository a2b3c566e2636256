SPECIFICATION Spec
CONSTANTS
  NumRequests = 2
INVARIANT InFlightFinish
CHECK_DEADLOCK FALSE
