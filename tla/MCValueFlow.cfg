SPECIFICATION SuiteSpec
CONSTANTS
  None = None
  Top = Top
  s1 = s1
  l1 = l1
  s2 = s2
  phF = phF
  phG = phG
  aiC = aiC
  aoC = aoC
  fi = fi
  fo = fo
  aiD = aiD
  aoD = aoD
  a1 = a1
  u1 = u1
  a2 = a2
  u2 = u2
  apC = apC
  apD = apD
  fp = fp
  fr = fr
  arC = arC
  arD = arD
  Node <- OptNode
  Kind <- OptKind
  Programs <- AllPrograms
  MaxCalls = 2
INVARIANTS
  FlowKept
  GraphCorrect
  SolutionExact
  DataExact
PROPERTIES
  BackendsKeepPromise
  Ended
\* The graph is optimised once.
CHECK_DEADLOCK FALSE
