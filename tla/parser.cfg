CONSTANTS
  Clients <- MCClients
  CHUNK = 24
  BUFFER = 20
  MAX_REQUEST = 64
  EXTRA = 1
  MaxKeepAlive = 2
SPECIFICATION Spec
INVARIANTS
  IndicesInside
  RequestsAsSent
  NeverStuck
PROPERTY
  ParserReturns
CHECK_DEADLOCK FALSE
