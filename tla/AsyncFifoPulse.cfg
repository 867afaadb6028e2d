CONSTANTS
  DEPTH = 4
  Data = {d1}
  Gray <- ToGray
  FullGray <- FullGrayOfDepth
SPECIFICATION PulseSpec
INVARIANT FlagsConservative
