SPECIFICATION Spec
CONSTANT
  Wrap = 16
INVARIANT
  LostInPairs
PROPERTY
  DeliversOnce
