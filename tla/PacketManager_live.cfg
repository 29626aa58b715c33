SPECIFICATION FairSpec
CONSTANTS
  Clients = {1}
  Stream <- MixedStream
  BufferSize = 8
  MaxRecv = 2
  MaxBacklog = 3
  WordSize = 16
  Coalesce = FALSE
  WaitCovers = FALSE
  MaxSession = 1
INVARIANT
  EveryPacketHasItsTurn
CHECK_DEADLOCK FALSE
