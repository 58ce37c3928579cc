SPECIFICATION BackendSpec
CONSTANTS
  NumBuckets = 3
  KeepSamples = 3
  Latency = {1, 2}
  Handler = {h1, h2, h3}
  MaxConc = 1
  Backlog = 2
  MaxSamples = 3
SYMMETRY Symmetry
CONSTRAINT FewSamples
INVARIANTS BackendTypeOK SlotsExact EstimateAgrees
PROPERTY RefusedUnderPressure
