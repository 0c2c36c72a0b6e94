SPECIFICATION AgentFairSpec
CONSTANTS
  Sessions = {s1, s2}
  Granted = {s1}
  Nobody = Nobody
  Gaps = {"DISCONNECTED"}
  MaxTruth = 1
INVARIANTS ReadyIsActive
PROPERTIES ListOfReadySession ListConverges ApprovedOrGivenUp
