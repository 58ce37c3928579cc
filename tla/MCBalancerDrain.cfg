SPECIFICATION BalancerSpec
CONSTANTS
  Server = {s1, s2}
  Handler = {h1, h2}
  Malformed = {s2}
  MaxRequests = 3
SYMMETRY Symmetry
INVARIANT NoneDropped
CHECK_DEADLOCK FALSE
