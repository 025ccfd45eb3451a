SPECIFICATION SuiteSpec
CONSTANTS
  None = None
  SuiteParts = {"modref new"}
  Obj <- ChObj
  Base <- ChBase
  Pointing <- AllPointing
  MaxQueries = 2
  ObjId = {1, 2, 3, 4}
  Fun <- PaFun
  Accesses <- PaAccesses
INVARIANTS
  UnionsKept
\* Each part comes to its end.
CHECK_DEADLOCK FALSE
