SPECIFICATION Spec
CONSTANTS
  DqClk = 4
  InstrClk = 2
  Cols = {0, 1}
  Beat <- MCBeat
  Payload <- MCPayload
  EarlyBank = TRUE
INVARIANTS
  TypeOK
  InPhase
PROPERTIES
  WriteLands
  TransferEnds
  AtomicWrites
