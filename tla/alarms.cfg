SPECIFICATION ApartSpec
CONSTANTS
  Alarm = {a1, a2, a3}
  Head = head
  Unset = unset
  Wrap = 4
  Rate = 2
  ALT_US = 3
  MaxTicks = 3
  Times <- MCTimes
INVARIANTS
  RingIsStarted
PROPERTIES
  CalledOnTime
  KeepsToRing
  TickEnds
  ClockAdvances
