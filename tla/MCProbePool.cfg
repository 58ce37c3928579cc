SPECIFICATION PoolSpec
CONSTANTS
  QRIF = 84
  ProbeRate = 200
  RemoveRate = 100
  DriftRate = 100
  MaxSize = 2
  Entry = {e1, e2, e3, e4}
  Client = {c1, c2}
  Server = {s1}
  RIFs = {1}
  Latencies = {1}
  Budgets = {1, 2}
  AgeLimit = 0
  MaxAge = 1
SYMMETRY Symmetry
INVARIANTS SizeBound LiveBudget OveruseBound
PROPERTY NeverReturns
