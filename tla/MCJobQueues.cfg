SPECIFICATION FairSpec
CONSTANTS
  c1 = c1  c2 = c2  j1 = j1  j2 = j2  j3 = j3
  Jobs = {j1, j2, j3}
  Slots = {c1, c2}
  MaxRunners = 4
  MaxFaults = 1
INVARIANTS TypeOK SequentialSyncIsSafe RunnersAreHeld
PROPERTY JobsAreTaken
CHECK_DEADLOCK FALSE
