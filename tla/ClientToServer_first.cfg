SPECIFICATION Spec
CONSTANT
  MaxSent = 2
INVARIANT
  FirstReceivedIsHandled
CHECK_DEADLOCK FALSE
