SPECIFICATION Spec
CONSTANTS
  FETCH_DEPTH = 2
  DESCRIPTOR_WORDS = 2
  SLOTS = 4
  WORDS_PER_BEAT = 2
  CMD_DEPTH = 3
  BACKING_DEPTH = 2
  CLEAR_DEPTH = 2
  Plans <- AllPrograms
  READ_CDC = 2
  LINE_CDC = 2
  COMMIT_CDC = 1
  SIMULTANEOUS = 2
INVARIANTS
  TypeOK
  ServedAtRest
  NoError
  LoadedIsReady
  SentIntact
  ReadsMatch
  StagingExclusive
  AnswersReachOwner
