SPECIFICATION SuiteSpec
CONSTANTS
  None = None
  SuiteParts = {"chain", "chain circles", "modref old", "modref new", "modref rec", "partition",
                "ssa", "ssa two"}
  Obj <- ChObj
  Base <- ChBase
  Pointing <- AllPointing
  MaxQueries = 2
  ObjId = {1, 2, 3, 4}
  Fun <- PaFun
  Accesses <- PaAccesses
INVARIANTS
  ChainsCorrect
  EffectsExact
  RegionsCorrect
  UsesCorrect
PROPERTIES
  Finishes
\* Each part comes to its end.
CHECK_DEADLOCK FALSE
