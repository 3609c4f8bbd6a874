CONSTANTS
  Conns = {c1}
  MaxKeepAlive = 1
  KeepAlive = TRUE
  Timeout = 1
  PageSize = 1
  Env = {}
  MaxTime = 1
  MaxBatch = 2
  MaxStreams = 2
  MaxAccepts = 1
SPECIFICATION WorkerFairSpec
PROPERTY
  BusyIsLeftToEpoll
