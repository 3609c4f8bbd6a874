CONSTANTS
  Conns = {1, 2}
  Clients <- MCClients
  RADIX = 3
  PAGE = 6
  MaxTicks = 2
SPECIFICATION Spec
INVARIANTS
  
  DamagedOnlyIfWaited
PROPERTY
  DateHoldsOneTick
CHECK_DEADLOCK FALSE
