SPECIFICATION Spec
CONSTANTS
  a = a  b = b  c = c
  p1 = p1  p2 = p2  p3 = p3
  w1 = w1  w2 = w2
  Events = {p1, p2, p3}
  Workers = {w1}
  WorkerOf <- OneWorker
  Dids = {a, b, c}
  IllegalIds = {}
  Inputs <- Handover
  Starts <- Acquainted
  MaxPerson = 3
  MaxFaults = 0
SYMMETRY Symmetric
PROPERTY IdentifyKeepsIdentified
