CONSTANTS
  QUEUES = {0, 1}
  RING_DEPTH = 2
  DEPTH = 3
  QUEUE_DATA_BYTES = 4
  ALIGNMENT = 2
  RxDescriptors <- Buffers
  RxLengths = {10}
  TxSplits <- Splits
  RxQueues = {0}
  TxQueues = {1}
  Switches <- EnableOnly
SPECIFICATION FairSpec
INVARIANTS
  NoError
PROPERTIES
  TxInOrder
  RxServed
  TxServed
