SPECIFICATION FairSpec
CONSTANTS
  Addresses = {manual}
  Candidates <- Everywhere
  Checks = {c1, c2}
  MaxSessions = 2
  Ends = {1}
  MaxMoves = 1
  MaxRequests = 2
INVARIANTS PublishedWasProbed VerifyingHasCheck
PROPERTIES EndpointReturns
CHECK_DEADLOCK FALSE
