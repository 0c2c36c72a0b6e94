SPECIFICATION FairSpec
CONSTANTS
  MaxWrites <- OneWay
  MaxTransports = 2
  ReplayLimit = 2
  InboundLimit = 1
  HalfClosers = {"client"}
  Closers = {}
  Deadlines = {}
INVARIANTS NoProtocolError OfferAgrees ContinuousUntilReplaced
PROPERTIES ImplementsReliableStream StableDelivery
CHECK_DEADLOCK FALSE
