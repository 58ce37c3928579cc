SPECIFICATION PrequalSafety
CONSTANTS
  QRIF = 84
  ProbeRate = 100
  RemoveRate = 100
  DriftRate = 100
  MaxSize = 2
  Entry = {e1, e2, e3}
  Client = {c1}
  Server = {s1, s2}
  Probe = {k1}
  RIFs = {1}
  Latencies = {1}
  Budgets = {2}
  AgeLimit = 0
  MaxAge = 0
  MaxOwed = 1
SYMMETRY Symmetry
PROPERTY KeepsPromise
