SPECIFICATION SuiteSpec
CONSTANTS
  None = None
  Problems <- CFLProblems
  Searches <- SccSearches
  Unset = 0
  Parts = {"cycles"}
INVARIANT
  EdgesDerived
\* Each part comes to its end.
CHECK_DEADLOCK FALSE
