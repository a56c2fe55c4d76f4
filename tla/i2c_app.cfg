SPECIFICATION AppSpec
CONSTANTS
  Size = 4
  Page = 2
  ByteValues = 4
  Device = 2
  Contents <- MCContents
  Reg = 2
  Num = 2
  Block <- MCBlock
INVARIANTS
  ReportsTruly
  StopOnFreeLine
PROPERTIES
  KeepsReporting
