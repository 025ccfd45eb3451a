SPECIFICATION SuiteSpec
CONSTANTS
  None = None
  Problems <- CFLProblems
  Searches <- SccSearches
  Unset = 0
  Parts = {"cycles", "geps", "calls", "scc", "cfl", "json", "intervals", "threads"}
INVARIANTS
  AndersenCorrect
  CFLCorrect
  DetectionCorrect
  JsonCorrect
  AbstractSound
  ThreadsCorrect
\* Each part comes to its end.
CHECK_DEADLOCK FALSE
