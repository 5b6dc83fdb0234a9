SPECIFICATION Spec
CONSTANTS
  GrfEntries = 2
  SrfEntries = 2
  HalfRange = 128
  MULT_STAGES = 2
  ADD_STAGES = 2
  AddrBits = 3
  MaxCommands = 3
  Instructions <- MCInstructions
  Columns <- MCColumns
  BankWords <- MCBankWords
  HostWords <- MCHostWords
  Loaded <- MCLoaded
  Gap <- MCDeepGap
INVARIANTS
  TypeOK
  Retired
  Stored
  OneDriver
