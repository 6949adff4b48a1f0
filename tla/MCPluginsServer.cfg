SPECIFICATION LiveServerSpec
CONSTANTS
  s1 = s1  a = a  b = b
  Servers = {s1}
  Key <- MCKey
  N = 2
  BATCH_SIZE = 2
  ByKey = TRUE
  MaxFaults = 2
  MaxMishaps = 1
  NoOne = NoOne
INVARIANTS ServerTypeOK CommittedIsAccountedFor
PROPERTY ShutdownEnds
CHECK_DEADLOCK FALSE
