SPECIFICATION Spec
CONSTANTS
  photo = photo
  text = text
  Photos <- OnePhoto
  Texts <- OneText
  MaxRetries = 1
  MaxConfirms = 2
  MaxFaults = 3
CHECK_DEADLOCK FALSE
INVARIANTS
  TypeOK
  AcceptedIsKept
  OrphansAreExcused
  StockIsParsed
PROPERTY
  RowsAreJobs
