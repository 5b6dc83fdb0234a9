CONSTANTS
  SIMD_WIDTH = 2
  COLPERROW = 8
  Jobs <- ConvResultJobs
SPECIFICATION Spec
INVARIANT BiasAddedOnce
