SPECIFICATION ExperimentFairSpec
CONSTANTS
  b1 = b1
  b2 = b2
  Backends <- MCBackends
  ProbeRates <- MCProbeRates
  Steps = 2
  PreparedRate = 2
  MaxRuns = 2
  MaxRows = 3
INVARIANTS
  DoneMeansComplete MeasuresWhatItSays 
  
PROPERTIES KeepsDirectory RunEnds
CHECK_DEADLOCK FALSE
