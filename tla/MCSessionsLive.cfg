SPECIFICATION LiveSpec
CONSTANTS
  Devices = {d1}
  Identities = {i1, i2}
  Tunnels = {t1, t2}
  Admins = {a1}
  Caps = {exit}
  ExitCap = exit
  Nobody = Nobody
  MaxChanges = 1
PROPERTIES DeadSessionLeaves RevokedIsClosed
CHECK_DEADLOCK FALSE
