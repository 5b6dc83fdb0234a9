SPECIFICATION Spec
CONSTANTS
  Timings <- MCTimings
  Banks = {1, 2}
  Rows = {1, 2}
  Requests <- MCRequests
  QueueMax = 2
  MaxRequests = 3
  MaxRefresh = 1
INVARIANTS
  TypeOK
  BanksAgree
PROPERTIES
  NoUselessActivate
  Spacing
  ServedInOrder
  Answered
