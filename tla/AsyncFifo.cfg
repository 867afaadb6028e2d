CONSTANTS
  DEPTH = 4
  Data = {d1, d2}
  Gray <- ToGray
  FullGray <- FullGrayOfDepth
SPECIFICATION FairSpec
INVARIANTS
  FifoInv
  FlagsConservative
PROPERTIES
  ImplementsChannel
  EntryBecomesVisible
  RoomBecomesVisible
