SPECIFICATION Spec
CONSTANTS
  ALT_MAX_FD = 5
  uart = uart
  hostfs = hostfs
  Devices = {uart}
  FileSystems = {hostfs}
  Callbacks <- MCCallbacks
  Null = null
  None = none
  Stdio = uart
INVARIANTS
  HeldAsOpened
PROPERTIES
  LockKeepsOut
