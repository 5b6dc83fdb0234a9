SPECIFICATION Spec
CONSTANTS
  Timings <- MCTimings
  Policies <- MCPolicies
  Banks = {1, 2}
  GroupOf <- MCGroupOf
  Requests <- MCRequests
  QueueMax = 2
  HighMark = 1
  LowMark = 2
  Cap = 1
  Timeout = 3
  MaxRequests = 3
  MaxRefresh = 1
INVARIANTS
  TypeOK
  RowsAgree
  Coherent
PROPERTY
  Answered
