SPECIFICATION FairSpec
CONSTANTS
  Clients = {1}
  Stream <- MixedStream
  BufferSize = 8
  MaxRecv = 2
  MaxBacklog = 4
  WordSize = 16
  Coalesce = TRUE
  WaitCovers = FALSE
  MaxSession = 1
PROPERTIES
  EveryRequestIsTaken
CHECK_DEADLOCK FALSE
