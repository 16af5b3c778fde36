SPECIFICATION FairSpec
CONSTANTS
  q1 = q1
  q2 = q2
  w1 = w1
  c1 = c1
  invoice = invoice
  high = high
  none = none
  Requests <- TwoRequests
  Runs <- OneRun
  Cases <- OneCase
  Documents <- InvoiceOnly
  DocumentCase <- OfInvoice
  Required <- InvoiceOnly
  Findings <- HighOnly
  HighSeverity <- HighOnly
  NoCase = none
  NoRun = none
  NoRow = none
  NoDocument = none
  MaxFaults = 1
INVARIANTS
  NothingPassesSilently
  TerminalIsRecorded
  CompletedShowsAllSteps
PROPERTIES
  DeletedStaysDeleted
  AnalysesFinish
