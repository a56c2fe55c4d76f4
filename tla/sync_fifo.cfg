SPECIFICATION Spec
CONSTANTS
  Data = {0, 1}
  Zero = 0
  Depth = 4
PROPERTIES
  IsFifo
