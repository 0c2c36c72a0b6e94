SPECIFICATION FairSpec
CONSTANTS
  Channels = {a, b}
  Ids = {1}
  Lifetime = {a}
  Fragments <- Arriving
  FrameQueue = 1
  SendQueue = 1
  AssociationLimit = 2
  QueueLimit = 2
  ReassemblyLimit = 2
  MaxPending = 1
  MaxEvents = 6
INVARIANTS BudgetIsExact StagesHold
PROPERTIES DueIsReaped ReadEnds
CHECK_DEADLOCK FALSE
