SPECIFICATION FairSpec
CONSTANTS
  Request = {r1, r2}
  Email = {e1, e2}
  Blank = Blank
  Short = Short
  MaxRows = 2
  MaxRetries = 2
  Faults = {"lost", "db", "crash"}
INVARIANT SuccessIsRecorded
INVARIANT LossIsLocal
INVARIANT FailedMeansNotCreated
PROPERTY RequestsEnd
CHECK_DEADLOCK FALSE
