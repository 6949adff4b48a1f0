SPECIFICATION LiveSpec
CONSTANTS
  s1 = s1  s2 = s2  a = a  b = b
  Servers <- MCServers
  Key <- MCKey
  N = 3
  BATCH_SIZE = 3
  ByKey = TRUE
  MaxFaults = 2
  NoOne = NoOne
INVARIANTS TypeOK OverlapNeedsAFault
PROPERTIES ImplementsLog StartsInOrder EventuallyCommitted
