SPECIFICATION Spec
CONSTANTS
  t1 = t1  t2 = t2  admin = admin
  Last = 2
  K = 2
  Sign <- ExemptThenFirst
  Tasks = {t1, t2}
  Requests = {admin}
  Checker = Checker
  NoTask = NoTask
  AutoStart = TRUE
  AutoContinue = TRUE
  DisableAutoRollback = FALSE
  MaxFaults = 1
  MaxRequests = 2
SYMMETRY Symmetric
INVARIANTS TypeOK NothingSkipped CompletedIsInForce DependenciesFirst
CHECK_DEADLOCK FALSE
