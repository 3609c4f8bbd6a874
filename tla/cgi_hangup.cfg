CONSTANTS
  Workers = {w1, w2}
  MaxSocket = 1
  MaxRuns = 2
  Script <- MCScript
  BUFLEN = 5
  Bodies = {}
  Env = {"drain"}
SYMMETRY WorkerSymmetry
SPECIFICATION Spec
INVARIANT
  HangupReachesRun
CHECK_DEADLOCK FALSE
