SPECIFICATION Spec
CONSTANTS
  STREAMS = 3
  LANE_BYTES = 3
  FIFO_WORDS = 7
  MAX_FRAME_BYTES = 7
  FLUSH_CYCLES = 3
  PIPE_STAGES = 3
  OUTPUT_FIFO_WORDS = 3
  RAW_STORE = 1
  OUTPUT_BYTES = 3
  RX_FIFO_DEPTH = 1
  DESCRIPTOR_WORDS = 2
  CPU_COUNT = 2
  READ_PORTS = 2
  READ_META_DEPTH = 2
  COMPLETION_FIFO_WORDS = 1
  CHUNK_BYTES = 4
  STREAM_FIFO = 2
  TX_FIFO_WORDS = 4
  WINDOW_WORDS = 3
  MIN_IPG_BYTES = 2
  L2_BYTES = 4
  DESCRIPTOR_FIFO = 1
  COMMAND_FIFO = 1
  CLUSTER_FIFO = 2
  SIMULTANEOUS = 2
  Plans <- SharedBankPlans
INVARIANTS
  ReadsIntact
CHECK_DEADLOCK FALSE
