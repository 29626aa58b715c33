CONSTANTS
  Clients = {c1}
  Workers = {w1, w2}
  ReuseWait = 1
  DrainTime = 1
  Never = Never
  Faults <- AllFaults
  MaxSession = 2
  MaxSend = 3
SPECIFICATION Spec
SYMMETRY Symmetry
INVARIANTS TypeOK NoStaleIo OneReceiver SendDiscipline NoLostSend
PROPERTIES ImplementsLifecycle OnlyAcceptCrashes
CHECK_DEADLOCK FALSE
