SPECIFICATION Spec
CONSTANTS
  Clients = {1}
  Stream <- ShortStream
  BufferSize = 6
  MaxRecv = 2
  MaxBacklog = 3
  WordSize = 16
  Coalesce = FALSE
  WaitCovers = TRUE
  MaxSession = 2
INVARIANTS
  RequestOfOneSession
CHECK_DEADLOCK FALSE
