CONSTANTS
  Conns = {c1, c2}
  MaxKeepAlive = 1
  KeepAlive = TRUE
  Timeout = 1
  PageSize = 1
  Env = {}
  MaxTime = 1
  MaxBatch = 2
  MaxStreams = 2
  MaxAccepts = 2
SPECIFICATION FairSpec
INVARIANTS
  QueuedIsWatched
  IncompleteIsTimed
  CompletedIsPending
  KeepAliveBound
PROPERTIES
  Answered
  Reaped
