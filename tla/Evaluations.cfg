SPECIFICATION ClientFairSpec
CONSTANTS
  r1 = r1
  r2 = r2
  none = none
  Runs <- TwoRuns
  NoRun = none
INVARIANTS
  InFlightHoldsSlot
  OutcomeIsReported
  ReportIsFresh
PROPERTIES
  SlotIsReturned
  BenchmarkEnds
