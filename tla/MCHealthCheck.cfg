SPECIFICATION HealthSpec
CONSTANTS
  Server = {s1, s2}
  Probe = {k1, k2}
  RIFs = {1}
  Latencies = {1}
  AgeLimit = 0
  MaxAge = 0
PROPERTIES NoFalseAlarm StatusSettles
