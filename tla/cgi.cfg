CONSTANTS
  Workers = {w1, w2}
  MaxSocket = 2
  MaxRuns = 2
  Script <- MCScript
  BUFLEN = 5
  Bodies = {1}
  Env = {"reader", "fail", "drain"}
SYMMETRY WorkerSymmetry
SPECIFICATION Spec
INVARIANTS
  RunHasConnection
  NothingLeftBehind
  AnswerIntact
  SomebodyMoves
PROPERTY
  SilentUnlessInherited
CHECK_DEADLOCK FALSE
