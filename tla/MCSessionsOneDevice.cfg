SPECIFICATION Spec
CONSTANTS
  Devices = {d1}
  Identities = {i1, i2}
  Tunnels = {t1, t2}
  Admins = {a1, a2}
  Caps = {exit, client}
  ExitCap = exit
  Nobody = Nobody
  MaxChanges = 2
SYMMETRY Interchangeable
INVARIANTS UnregisteredIsClosed NothingAfterStop DisabledIsBeingSwept
PROPERTIES UnwindingHandlerSparesOthers ImplementsDeviceAdmission
CHECK_DEADLOCK FALSE
