SPECIFICATION LiveSpec
CONSTANTS
  s1 = s1  s2 = s2  minute = minute  plugin = plugin
  Servers = {s1, s2}
  Names = {minute}
  Configs = {plugin}
  MaxFaults = 1
  NoOne = NoOne
INVARIANTS TypeOK SchedulerHoldsTheLock OverlapIsExplained
PROPERTY AlwaysAScheduler
