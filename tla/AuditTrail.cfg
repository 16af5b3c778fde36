SPECIFICATION TrailSpec
CONSTANTS
  c = c
  d = d
  w = w
  t1 = t1
  t2 = t2
  none = none
  Entities <- Trailed
  KindOf <- KindOfTrailed
  CaseOf <- CaseOfTrailed
  NoCase = none
  OldRows <- OldCase
  OldOrder <- OldOrderByKind
  MaxRows = 1
  MaxEvents = 2
PROPERTIES
  NothingIsOverlooked
  ShownStaysShown
