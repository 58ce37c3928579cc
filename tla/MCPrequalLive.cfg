SPECIFICATION PrequalSpec
CONSTANTS
  QRIF = 84
  ProbeRate = 100
  RemoveRate = 100
  DriftRate = 100
  MaxSize = 2
  Entry = {e1, e2}
  Client = {c1}
  Server = {s1}
  Probe = {k1}
  RIFs = {1}
  Latencies = {1}
  Budgets = {3}
  AgeLimit = 0
  MaxAge = 1
  MaxOwed = 1
PROPERTIES SelectionAnswered 
