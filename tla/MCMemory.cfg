SPECIFICATION Spec
CONSTANTS
  p1 = p1
  p2 = p2
  p3 = p3
  p4 = p4
  o1 = o1
  o2 = o2
  o3 = o3
  fld = fld
  Node <- BothNode
  Obj <- BothObj
  NonPtrObj = {o3}
  FIObjVar <- BothBase
  GepObjVar <- BothField
  Modes <- Mode
  Programs <- BothPrograms
  MaxStep = 2
  MaxRounds = 1
INVARIANTS
  TypeOK
  OwnersLive
  CacheExact
  CacheBacked
  NoOrphanCopy
  PendingOwnerLive
  TempGSync
  DeletionSound
  Closed
PROPERTIES
  DeletionOnlyRemoves
  ImplementsPromise
\* The program ends: there are only MaxRounds rounds.
CHECK_DEADLOCK FALSE
