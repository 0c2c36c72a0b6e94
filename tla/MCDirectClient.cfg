SPECIFICATION FairSpec
CONSTANTS
  Exits = {e}
  Requests = {r1, r2}
  MaxAttempts = 3
  MaxTickets = 3
INVARIANTS TicketOnce NothingLeaks SessionIsOfEntry
PROPERTIES AttemptsEnd
CHECK_DEADLOCK FALSE
