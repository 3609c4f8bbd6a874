CONSTANTS
  Conns = {c1, c2}
  MaxKeepAlive = 1
  KeepAlive = TRUE
  Timeout = 1
  PageSize = 1
  Env = {"eio", "async"}
  MaxTime = 1
  MaxBatch = 2
  MaxStreams = 1
  MaxAccepts = 2
SYMMETRY ConnSymmetry
SPECIFICATION Spec
INVARIANTS
  NoDanglingEvent
  TimeoutQueueLive
  AccountedFor
