SPECIFICATION Spec
CHECK_DEADLOCK FALSE
CONSTANTS
  CrfEntries = 32
  Imm0Mod = 256
  Imm1Mod = 2048
  PcMod = 256
  NopMod = 256
  JmpMod = 4096
  DqClk = 4
  InstrClk = 1
  GrfEntries = 8
  SrfEntries = 8
  HalfRange = 32768
  MULT_STAGES = 1
  ADD_STAGES = 1
  AddrBits = 3
  AamMod = 8
  BeatsPerGrf = 4
  MultStages = 1
  AddStages = 1
INVARIANTS
  TypeOK
  Retired
  Stored
  AsAnnounced
