SPECIFICATION FairSpec
CONSTANTS
  PowerUp = 3
  RefPeriod = 29
  TRP = 2
  TRFC = 3
  TMRD = 2
  TRCD = 2
  TCL = 3
  TDAL = 3
  WrByte = 4
  RdByte = 5
  Rows = 4
  Banks = 2
  GapCap = 8
  Pages <- MCPages
INVARIANTS
  RefreshDeadline
  AcksMatchBurst
  RefreshedInTime
  DriveWindow
PROPERTIES
  ObeysChip
  OperationsEnd
