SPECIFICATION Spec
CONSTANTS
  CrfEntries = 3
  Imm0Mod = 4
  Imm1Mod = 4
  PcMod = 4
  NopMod = 4
  JmpMod = 8
  ImmMod = 8
  ExecMod = 4
  MaxLines = 6
  MaxRaw = 20
  Spacing = 2
  Source <- MCSource
INVARIANTS
  TypeOK
  InStep
  Drained
PROPERTIES
  BankCommand
  WalkEnds
