SPECIFICATION SuiteSpec
CONSTANTS
  None = None
  Problems <- CFLProblems
  Searches <- SccSearches
  Unset = 0
  Parts = {"unprotected"}
INVARIANT
  ProtectedByLocks
\* The program comes to its end.
CHECK_DEADLOCK FALSE
