SPECIFICATION MCFairSpec
CONSTANTS
  ASIZE = 2
  Data <- MCData
  Zero = 7
INVARIANTS
  SamplesLag
PROPERTIES
  IsFifo
  WordSeen
  RoomSeen
