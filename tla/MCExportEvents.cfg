SPECIFICATION FairSpec
CONSTANTS
  e1 = e1  e2 = e2  e3 = e3  e4 = e4
  Events = {e1, e2, e3, e4}
  SizeOf <- MCSizeOf
  Limit = 4
  MAXIMUM_RETRIES = 1
  MaxPending = 1
INVARIANTS TypeOK BatchesWithinLimit
PROPERTIES ImplementsRetries EventsSettle
CHECK_DEADLOCK FALSE
