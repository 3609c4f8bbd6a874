CONSTANTS
  Conns = {c1}
  MaxKeepAlive = 1
  KeepAlive = TRUE
  Timeout = 1
  PageSize = 1
  Env = {"eio", "malformed", "oversize", "pipeline", "error", "abort", "async"}
  MaxTime = 2
  MaxBatch = 2
  MaxStreams = 3
  MaxAccepts = 2
SPECIFICATION Spec
INVARIANTS
  ClosedIsReleased
  PluginHasSession
