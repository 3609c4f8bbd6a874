SPECIFICATION Spec
CONSTANTS
  N = 2
  CAPACITY = 2
  WORD = 16
  START = 3
  FREE = 5
  Modes = {"REUSEPORT", "FAIR_BALANCING"}
  MaxAccepts = 5
INVARIANTS NoneBeforeGreenLight LoadExact WithinCapacity ServerInv
PROPERTIES LaunchCompletes StopsWhenServing
CHECK_DEADLOCK FALSE
