SPECIFICATION Spec
CONSTANTS
  c1 = c1
  c2 = c2
  f1 = f1
  f2 = f2
  f3 = f3
  d1 = d1
  d2 = d2
  none = none
  Cases <- TwoCases
  NoCase = none
  MaxInFlight = 2
  MaxJobs = 1
  MaxRuns = 1
  CaseServers <- NewOrRunning
  Findings <- ThreeFindings
  Order <- FindingsInOrder
  CaseOf <- CaseOfFinding
  Severity <- AllHigh
  Description <- OwnWords
  Filters <- OpenOrAll
  pageSize = 2
  pageLimit = 1
  NoFinding = none
  MaxSettled = 2
  InitialStatuses <- OneToFind
  Documents <- TwoDocuments
  NoDocument = none
  DocsOf <- DocumentsOfFirst
  MaxMessages = 2
  Searches <- TwoSearches
  QuietTabs <- ReviewsAndAsk
INVARIANTS
  ViewerOfOneCase
  ExportIsWhole
  ExportsDrift
  AnswersFollowQuestions
  PaneShowsSelection
  NoClaimWithoutAnswer
PROPERTIES
  OnlyStrangersDisagree
  PollsStopOnlyByFailure
  SilentOnlyAfterDismissal
  LateListsOnly
