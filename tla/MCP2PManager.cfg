SPECIFICATION FairSpec
CONSTANTS
  Exits = {e}
  Offers = {o}
  AnswerLimit = 1
  MaxAttempts = 2
  MaxNetworks = 2
  MaxEvents = 2
INVARIANTS NothingLeaks OnePathPerExit AnswerIsNotLost
PROPERTIES OldNetworkLeaves
CHECK_DEADLOCK FALSE
