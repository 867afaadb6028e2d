CONSTANTS
  LANE_BYTES = 2
  LOGICAL_ROWS = 16
  MAX_LENGTH = 6
  COMPLETION_FIFO_WORDS = 2
  RELEASE_SLOTS = 7
  READ_PORTS = 2
  FrameLengths <- MCLengths
  MaxHeld = 2
  BackToBack = FALSE
  Ids <- MCIds
SPECIFICATION FairSpec
INVARIANTS
  TypeOK
  PacketsIntact
  RegionTiled
  NoError
PROPERTY ReadyAgain
