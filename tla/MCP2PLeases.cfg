SPECIFICATION FairSpec
CONSTANTS
  Clients = {c}
  Exits = {e}
  Ids = {i1, i2}
  Handlers = {h1, h2}
  MaxPerDevice = 1
  MaxActive = 2
INVARIANTS
  CountsAgree
  AnsweredIsAuthorized
PROPERTIES
  LeaseNeedsBoth
