SPECIFICATION PoliciesSpec
CONSTANTS
  N = 3
  Client = {c1, c2}
  Weights = {1, 2}
  Wrap = 4
SYMMETRY Symmetry
INVARIANTS RoundRobinFair  RunsPastOnlyWhenLighter
PROPERTY KeepsPromise
