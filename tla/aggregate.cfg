SPECIFICATION Spec
CONSTANTS
  None = None
  LastDate = 3
  PerDate = 2
  Row <- MCRow
  PeriodOf <- MCPeriodOf
  Filter <- MCFilter
CHECK_DEADLOCK FALSE
INVARIANT TypeOK
INVARIANT TrafficConserved
INVARIANT StoredIsLastDay
INVARIANT TotalIsOfBuckets
