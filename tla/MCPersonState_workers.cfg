SPECIFICATION FairSpec
CONSTANTS
  a = a  b = b  c = c
  p1 = p1  p2 = p2  p3 = p3
  w1 = w1  w2 = w2
  Events = {p1, p2}
  Workers = {w1, w2}
  WorkerOf <- TwoWorkers
  Dids = {a, b, c}
  IllegalIds = {}
  Inputs <- Mixed
  Starts <- AllStarts
  MaxPerson = 3
  MaxFaults = 2
PROPERTY EventsSettle
