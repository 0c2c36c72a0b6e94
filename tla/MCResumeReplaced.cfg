SPECIFICATION Spec
CONSTANTS
  MaxWrites <- OneWay
  MaxTransports = 2
  ReplayLimit = 2
  InboundLimit = 1
  HalfClosers = {"client"}
  Closers = {}
  Deadlines = {}
INVARIANTS Continuous
CHECK_DEADLOCK FALSE
