SPECIFICATION SuiteSpec
CONSTANTS
  Cases <- DiffCases
  Options <- DriverChoices
  Word = 16
  Node <- CgNode
  Obj <- CgObj
  Func <- CgFunc
  Site <- CgSite
  Direct <- CgDirect
  Virtual <- CgVirtual
  FunPtr <- CgFunPtr
  Callee <- CgCallee
  Caller <- CgCaller
  Params <- CgParams
  Limit = 100
  Programs <- CgPrograms
  MaxStep <- CgMaxStep
  MaxRounds <- CgMaxRounds
INVARIANTS
  SharedParamsKept
\* Each part comes to its end.
CHECK_DEADLOCK FALSE
