SPECIFICATION FairSpec
CONSTANTS
  q1 = q1 t1 = t1
  c1 = c1 reconnect = reconnect none = none
  Quic <- OneQuic
  Tls <- OneTls
  Callers <- OneCaller
  Loop <- reconnect
  Nobody <- none
  MaxChanges = 2
INVARIANTS NothingLeaks OldAttemptsCanceled
PROPERTIES ImplementsTunnelEvents Recovers CloseCompletes
