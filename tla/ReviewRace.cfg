SPECIFICATION Spec
CONSTANTS
  s1 = s1
  s2 = s2
  k1 = k1
  k2 = k2
  c1 = c1
  none = none
  nobody = nobody
  Sessions <- TwoSessions
  Tasks <- OneTask
  Cases <- OneCase
  CaseOf <- InCase
  NoCase = none
  Nobody = nobody
  MaxBatch = 1
  MaxEvents = 2
PROPERTIES
  Lifecycle
