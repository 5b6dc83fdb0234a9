SPECIFICATION Spec
CONSTANTS
  GrfEntries = 2
  SrfEntries = 2
  HalfRange = 128
  MULT_STAGES = 1
  ADD_STAGES = 1
  AddrBits = 3
  MaxCommands = 1
  Instructions <- MCMad
  Columns <- MCColumns
  BankWords <- MCBankWords
  HostWords <- MCHostWords
  Loaded <- MCLoaded
  Gap <- MCGap
INVARIANT MadFormula
