CONSTANTS
  Clients = {c1}
  Workers = {w1, w2}
  ReuseWait = 1
  DrainTime = 1
  Never = Never
  Faults <- SendFaults
  MaxSession = 2
  MaxSend = 2
SPECIFICATION FairSpec
PROPERTIES SlotIsReused QueueDrains DestroyReturns
CHECK_DEADLOCK FALSE
