SPECIFICATION Spec
CONSTANTS
  p1 = p1
  p2 = p2
  p3 = p3
  p4 = p4
  o1 = o1
  o2 = o2
  o3 = o3
  fld = fld
  Node <- GepNode
  Obj <- GepObj
  NonPtrObj = {}
  FIObjVar <- Base
  GepObjVar <- Field
  Modes <- StepOnly
  Programs <- GepPrograms
  MaxStep = 1
  MaxRounds = 1
INVARIANTS
  NormalGepRetracted
\* The program ends: there are only MaxRounds rounds.
CHECK_DEADLOCK FALSE
