SPECIFICATION FairSpec
CONSTANTS
  s1 = s1
  s2 = s2
  k1 = k1
  k2 = k2
  c1 = c1
  none = none
  nobody = nobody
  Sessions <- TwoSessions
  Tasks <- TwoTasks
  Cases <- OneCase
  CaseOf <- Mixed
  NoCase = none
  Nobody = nobody
  MaxBatch = 2
  MaxEvents = 3
INVARIANTS
  LedgerAgreesWithRow
  ResolvedAfterDecided
  DeadlocksInvolveDeletion
PROPERTIES
  RequestsFinish
