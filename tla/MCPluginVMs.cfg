SPECIFICATION VmFairSpec
CONSTANTS
  c1 = c1  c2 = c2  k1 = k1
  Calls = {c1, c2}
  Timers = {k1}
  VM_INIT_MAX_RETRIES = 2
  MaxReloads = 3
  MaxVms = 2
  MaxVersion = 2
  MaxVmFaults = 1
INVARIANTS SetupsAlone ReloadsConverge
PROPERTY NobodyWaitsForEver
CHECK_DEADLOCK FALSE
