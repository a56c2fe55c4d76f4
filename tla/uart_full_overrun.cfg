SPECIFICATION Spec
CONSTANTS
  RxSize = 2
  TxSize = 2
  MaxLen = 1
PROPERTIES
  FullIsKept
