SPECIFICATION Spec
CONSTANTS
  None = None
  Documents <- Cases
  MaxDocuments = 3
  MaxMissing = 1
  normalize_company_name <- CompanyName
INVARIANTS
  ExcessIsReportedOnce
  ReproducibleWithOneOfEach
PROPERTIES
  MissedValuesAccuseNobody
  UploadsKeepReview
