SPECIFICATION Spec
CONSTANTS
  RxSize = 2
  TxSize = 2
  MaxLen = 2
INVARIANTS
  TxArmed
PROPERTIES
  TxIsFifo
  RxInOrder
  TxPaced
