SPECIFICATION Spec
CONSTANTS
  Alarm = {a1, a2}
  Head = head
  Unset = unset
  Wrap = 4
  Rate = 2
  ALT_US = 4
  MaxTicks = 3
  Times = {}
PROPERTIES
  NotCalledEarly
