SPECIFICATION Spec
CONSTANTS
  MaxWrites <- BothWays
  MaxTransports = 2
  ReplayLimit = 1
  InboundLimit = 2
  HalfClosers = {}
  Closers = {"client", "exit"}
  Deadlines = {"client"}
INVARIANTS ExactlyOnce
CHECK_DEADLOCK FALSE
