SPECIFICATION Spec
CONSTANTS
  Alarm = {a1}
  Head = head
  Unset = unset
  Wrap = 12
  Rate = 3
  ALT_US = 4
  MaxTicks = 1
  Times = {}
PROPERTIES
  TimeGoesOn
