SPECIFICATION Spec
CONSTANTS
  q1 = q1
  q2 = q2
  d1 = d1
  d2 = d2
  d3 = d3
  d4 = d4
  d5 = d5
  c1 = c1
  contract = contract
  invoice = invoice
  image = image
  note = note
  none = none
  old = old
  Requests <- TwoRequests
  Documents <- OneDocument
  OldRows <- NoOldRows
  Cases <- OneCase
  Scopes <- InvoiceScope
  ScopeCase <- InvoiceCase
  ScopeType <- InvoiceType
  Parsing <- InvoiceParsing
  Uploads <- InvoiceUpload
  DemoCase = c1
  DemoPack <- DemoInvoice
  NoCase = none
  NoScope = none
  OldKey = old
  NoDocument = none
  MaxDeletions = 1
  MaxFaults = 0
INVARIANTS
  StoredFilesAreDeleted
