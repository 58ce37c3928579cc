SPECIFICATION SliceFairSpec
CONSTANTS
  QRIF = 84
  ProbeRate = 200
  RemoveRate = 100
  DriftRate = 100
  MaxSize = 2
  Entry = {e1, e2, e3}
  Client = {c1}
  Server = {s1}
  RIFs = {1, 2, 3}
  Latencies = {1, 2}
  Budgets = {1}
  AgeLimit = 0
  MaxAge = 1
INVARIANTS  ChoiceAgrees
PROPERTIES ImplementsPool StaleLeaves
