SPECIFICATION WatchedSpec
CONSTANTS
  p1 = p1
  p2 = p2
  p3 = p3
  p4 = p4
  o1 = o1
  o2 = o2
  o3 = o3
  fld = fld
  Node <- CycleNode
  Obj <- CycleObj
  NonPtrObj = {}
  FIObjVar <- CycleId
  GepObjVar <- CycleId
  Modes <- Mode
  Programs <- CycleAndWatched
  MaxStep = 2
  MaxRounds = 2
INVARIANTS
  SuperMirrorsFlat
  SuperEdgesUsed
  SubsMatchReps
  RedetectReady
  DeletionExactAcyclic
  RoundExact
  MergedAreCycles
PROPERTIES
  RoundTerminates
\* The program ends: there are only MaxRounds rounds.
CHECK_DEADLOCK FALSE
