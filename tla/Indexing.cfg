SPECIFICATION FairSpec
CONSTANTS
  contract = contract
  invoice = invoice
  c1 = c1
  c2 = c2
  c3 = c3
  t1 = t1
  r1 = r1
  s1 = s1
  Documents <- TwoDocuments
  ChunksOf <- TheirChunks
  Tasks <- OneTask
  Requests <- OneRequest
  Suites <- OneSuite
  MaxFaults = 1
INVARIANTS
  AllOrNothing
PROPERTIES
  ConflictsAreCovered
  ScheduledIsIndexed
