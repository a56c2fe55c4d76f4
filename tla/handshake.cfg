SPECIFICATION MCFairSpec
CONSTANT
  Wrap = 3
INVARIANTS
  OneEdge
PROPERTIES
  DeliversOnce
  PulseArrives
  PauseHeals
