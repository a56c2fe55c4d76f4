SPECIFICATION RdSpec
CONSTANTS
  PowerUp = 2
  RefPeriod = 19
  TRP = 1
  TRFC = 1
  TMRD = 1
  TRCD = 2
  TCL = 2
  TDAL = 2
  WrByte = 4
  RdByte = 4
  RdDepth = 15
  RdLevel = 11
  RdPopLag = 3
  RdPages = 16
  RdWordCap = 30
  XLast = 6
  YLast = 4
  XOn = 1
  XOff = 5
  YOn = 2
  YOff = 4
  HSync = 1
  VSync = 1
  WrGap = 24
INVARIANTS
  RdFifoNeverFull
  ReadPagesInStep
  LcdNeverStarves
  PixelInPlace
