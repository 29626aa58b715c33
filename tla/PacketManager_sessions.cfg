SPECIFICATION Spec
CONSTANTS
  Clients = {1}
  Stream <- ShortStream
  BufferSize = 4
  MaxRecv = 2
  MaxBacklog = 2
  WordSize = 16
  Coalesce = TRUE
  WaitCovers = FALSE
  MaxSession = 2
INVARIANTS
  WindowIsBacklog
  RequestsIntact
CHECK_DEADLOCK FALSE
