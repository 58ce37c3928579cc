SPECIFICATION ReportSpec
CONSTANTS
  NoNumber = NoNumber
  wrr = wrr
  prequal = prequal
  Quantiles = {250, 500, 900}
  Deadline = 2
  FileLine <- MCFileLine
  Plans <- MCPlans
  Duration = 5
  BinSeconds = 2
  Windows = {1, 3}
  MaxLines = 3
CONSTRAINT Bound
INVARIANTS
   EveryResponseCounted DeadlineNeverFlatters
  SmoothingStaysInPhase AggregateFaithful
CHECK_DEADLOCK FALSE
