SPECIFICATION Spec
CONSTANTS
  CrfEntries = 4
  Imm0Mod = 4
  Imm1Mod = 4
  PcMod = 4
  NopMod = 4
  JmpMod = 4
  Words <- MCWords
INVARIANTS
  TypeOK
  TripCount
  NoStaleLoop
  InProgress
PROPERTY
  KernelEnds
