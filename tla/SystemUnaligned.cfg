CONSTANTS
  QUEUES = {0, 1}
  RING_DEPTH = 2
  DEPTH = 3
  QUEUE_DATA_BYTES = 4
  ALIGNMENT = 2
  RxDescriptors <- Buffers
  RxLengths = {5}
  TxSplits <- TwoFragments
  RxQueues = {0}
  TxQueues = {1}
  Switches <- EnableOnly
SPECIFICATION FairSpec
PROPERTY RxServed
