CONSTANTS
  SIMD_WIDTH = 2
  COLPERROW = 8
  Jobs <- MCJobs
SPECIFICATION Spec
INVARIANTS TypeOK FilesAgree OneMemory Result
