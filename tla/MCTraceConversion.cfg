\* The programs end.
CHECK_DEADLOCK FALSE
SPECIFICATION Spec
CONSTANTS
  AddrBits <- MCAddrBits
  GlobalOffset = 1
  QueueMax = 2
  Addresses <- MCAddresses
  MaxLines = 4
INVARIANT TypeOK
INVARIANT OwnData
PROPERTY Converted
