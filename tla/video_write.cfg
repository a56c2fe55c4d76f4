SPECIFICATION WrSpec
CONSTANTS
  PowerUp = 1
  RefPeriod = 16
  TRP = 1
  TRFC = 1
  TMRD = 1
  TRCD = 2
  TCL = 2
  TDAL = 2
  WrByte = 6
  RdByte = 3
  WrDepth = 11
  WrLevel = 4
  PopLag = 3
  MaxPages = 4
  WrWordCap = 13
  VfDepth = 10
  VfLevel = 4
  VBurst = 6
  DcntSize = 11
  CamMin = 4
  CamMax = 5
  LineWords = 6
  FieldWords = 12
  ClearMin = 15
  StoreTime = 28
INVARIANTS
  WrFifoNeverDry
  WrFifoNeverFull
  PagesInStep
  CameraWordsOnce
  FieldStored
