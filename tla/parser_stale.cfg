CONSTANTS
  Clients <- StaleClients
  CHUNK = 24
  BUFFER = 20
  MAX_REQUEST = 64
  EXTRA = 1
  MaxKeepAlive = 2
SPECIFICATION Spec
INVARIANT
  RequestsAsSent
CHECK_DEADLOCK FALSE
