SPECIFICATION FairSpec
CONSTANT
  MaxSent = 3
INVARIANTS
  HandledUnlessOverwritten
  InGameReaderSeesNoLobbyPacket
PROPERTY
  ShutdownReturns
CHECK_DEADLOCK FALSE
