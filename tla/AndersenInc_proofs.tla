------------------------- MODULE AndersenInc_proofs -------------------------
(***************************************************************************)
(* Theorems about AndersenInc for every program, every set of nodes and    *)
(* objects and any number of rounds: what the structures of the analysis   *)
(* owe one another; what the solution is; and that nothing the analysis    *)
(* holds goes beyond it, in whatever order constraints are deleted and     *)
(* inserted.                                                               *)
(***************************************************************************)
EXTENDS AndersenInc, Iteration_proofs

-----------------------------------------------------------------------------
(* What the operators the model is built from return. *)

(* A direct edge carries objects to objects. *)
LEMMA TransferType ==
  ASSUME NEW k \in DirectKind, NEW S \in SUBSET Obj
  PROVE  Transfer(k, S) \in SUBSET Obj
BY ConstraintsAssumption DEF DirectKind, Transfer, ConstraintsAssumption

(* A derived copy is a copy edge, and the bit it has in the cache of its
   load or store is the object it was derived for. *)
LEMMA DerivedCopyType ==
  ASSUME NEW ce \in Edge, NEW o \in Obj
  PROVE  /\ DerivedCopy(ce, o) \in DirectEdge
         /\ DerivedCopy(ce, o).kind = "Copy"
         /\ CacheBit(DerivedCopy(ce, o), ce) = o
BY ConstraintsAssumption
   DEF ConstraintsAssumption, DirectEdge, IsDirect, IsComplex, DerivedCopy, CacheBit,
       CopyEdge, Edge, Kind, DirectKind, ComplexKind

LEMMA LiftType ==
  ASSUME NEW m \in [Node -> Node], NEW e \in Edge
  PROVE  LiftBy(m, e) \in Edge /\ LiftBy(m, e).kind = e.kind
BY DEF LiftBy, Edge

(* The super edges that leave a node are edges of the graph. *)
LEMMA DirectOutType ==
  ASSUME SuperTypeOK, NEW r \in Node
  PROVE  DirectOut(r) \in SUBSET DirectEdge
BY DEF SuperTypeOK, DirectOut, DirectEdge

LEMMA ComplexAtType ==
  ASSUME SuperTypeOK, NEW r \in Node
  PROVE  ComplexAt(r) \in SUBSET Edge
BY DEF SuperTypeOK, ComplexAt

(* A call of a propagation opens a frame of the right type. *)
LEMMA DelCallType ==
  ASSUME SuperTypeOK, PtsTypeOK,
         NEW S \in SUBSET Obj, NEW n \in Node, NEW callers \in Seq(Frame),
         propagateDelPts(S, n, callers)
  PROVE  pts' \in [Node -> SUBSET Obj] /\ stack' \in Seq(Frame)
<1> DEFINE r == rep[n]
           dPts == (S \cap pts[r]) \ Supported(r)
           frame == [node |-> r, d |-> dPts, outs |-> DirectOut(r)]
<1>1. r \in Node
  BY DEF SuperTypeOK
<1>2. dPts \in SUBSET Obj
  OBVIOUS
<1>3. frame \in Frame
  BY <1>1, <1>2, DirectOutType DEF Frame
<1>4. CASE dPts = {}
  BY <1>4 DEF propagateDelPts, PtsTypeOK
<1>5. CASE dPts # {}
  <2> HIDE DEF frame
  <2>1. <<frame>> \o callers \in Seq(Frame)
    BY <1>3
  <2>2. stack' = <<frame>> \o callers
    BY <1>5 DEF propagateDelPts, frame
  <2>3. pts' \in [Node -> SUBSET Obj]
    BY <1>1, <1>2, <1>5 DEF propagateDelPts, PtsTypeOK
  <2> QED BY <2>1, <2>2, <2>3
<1> QED BY <1>4, <1>5

LEMMA InsCallType ==
  ASSUME SuperTypeOK, PtsTypeOK, NEW sameSCC \in BOOLEAN,
         NEW S \in SUBSET Obj, NEW n \in Node, NEW callers \in Seq(Frame),
         propagateInsPts(S, n, sameSCC, callers)
  PROVE  pts' \in [Node -> SUBSET Obj] /\ stack' \in Seq(Frame)
<1> DEFINE r == rep[n]
           dPts == IF sameSCC THEN S ELSE S \ pts[r]
           frame == [node |-> r, d |-> dPts, outs |-> DirectOut(r)]
<1>1. r \in Node
  BY DEF SuperTypeOK
<1>2. dPts \in SUBSET Obj
  OBVIOUS
<1>3. frame \in Frame
  BY <1>1, <1>2, DirectOutType DEF Frame
<1>4. CASE dPts = {}
  BY <1>4 DEF propagateInsPts, PtsTypeOK
<1>5. CASE dPts # {}
  <2> HIDE DEF frame
  <2>1. <<frame>> \o callers \in Seq(Frame)
    BY <1>3
  <2>2. stack' = <<frame>> \o callers
    BY <1>5 DEF propagateInsPts, frame
  <2>3. pts' \in [Node -> SUBSET Obj]
    BY <1>1, <1>2, <1>5 DEF propagateInsPts, PtsTypeOK
  <2> QED BY <2>1, <2>2, <2>3
<1> QED BY <1>4, <1>5

(* The innermost frame and the frame left when it makes one more call. *)
LEMMA HeadType ==
  ASSUME PtsTypeOK, stack # <<>>
  PROVE  /\ Head(stack) \in Frame
         /\ Tail(stack) \in Seq(Frame)
         /\ \A s : Resumed(s) \in Seq(Frame)
<1>1. Head(stack) \in Frame /\ Tail(stack) \in Seq(Frame)
  BY DEF PtsTypeOK
<1>2. ASSUME NEW s PROVE Resumed(s) \in Seq(Frame)
  <2> DEFINE top == [Head(stack) EXCEPT !.outs = @ \ {s}]
  <2>1. top \in Frame
    BY <1>1 DEF Frame
  <2> HIDE DEF top
  <2>2. <<top>> \o Tail(stack) \in Seq(Frame)
    BY <1>1, <2>1
  <2> QED BY <2>2 DEF Resumed, top
<1> QED BY <1>1, <1>2

-----------------------------------------------------------------------------
(* Initial states are well typed. *)
LEMMA InitType == Init => TypeOK
<1> SUFFICES ASSUME Init PROVE TypeOK
  OBVIOUS
<1> USE AndersenIncAssumption, ConstraintsAssumption DEF AndersenIncAssumption, ConstraintsAssumption
<1>1. base \subseteq ProgramEdge /\ base \subseteq Edge
  BY DEF Init, WellFormed, ProgramEdge
<1>2. PICK p \in [Node -> SUBSET Obj] :
        /\ SolvedFlat(base, p)
        /\ \E m \in RepChoices(Node, Components(Node, {e \in fEdges : IsDirect(e)})) :
             /\ SolvedSuper(m)
             /\ \E stale \in BOOLEAN : pts = SolvedPts(p, m, stale)
        /\ prePts = p
  BY DEF Init
<1>3. PICK m \in [Node -> Node] :
        /\ SolvedSuper(m)
        /\ \E stale \in BOOLEAN : pts = SolvedPts(p, m, stale)
  BY <1>2 DEF RepChoices
<1>4. PtsTypeOK
  <2>1. pts \in [Node -> SUBSET Obj]
    BY <1>2, <1>3 DEF SolvedPts
  <2> QED BY <1>2, <2>1 DEF Init, PtsTypeOK
<1>5. FlatTypeOK
  <2> DEFINE cx == {x \in {e \in base : IsComplex(e)} \X (Obj \ NonPtrObj) :
                      x[2] \in p[Pointer(x[1])]}
  <2>1. \A x \in cx : /\ x[1] \in Edge /\ x[2] \in Obj
                      /\ DerivedCopy(x[1], x[2]) \in Edge
    BY <1>1, DerivedCopyType DEF DirectEdge
  <2>2. /\ fEdges = base \cup {DerivedCopy(x[1], x[2]) : x \in cx}
        /\ complexEdgeSet = {<<e, e>> : e \in {e \in base : e.kind = "Copy"}}
                              \cup {<<DerivedCopy(x[1], x[2]), x[1]>> : x \in cx}
        /\ compCache = cx
    BY <1>2 DEF SolvedFlat
  <2>3. cx \subseteq Edge \X Obj
    BY <1>1
  <2> HIDE DEF cx
  <2> QED BY <1>1, <2>1, <2>2, <2>3 DEF FlatTypeOK
<1>6. SuperTypeOK
  <2>1. \A e \in fEdges : LiftBy(m, e) \in Edge
    BY <1>5, LiftType DEF FlatTypeOK
  <2>2. DOMAIN rep2tempG = {}
    BY <1>3 DEF SolvedSuper
  <2> QED BY <1>3, <1>5, <2>1, <2>2 DEF SuperTypeOK, SolvedSuper, FlatTypeOK
<1>7. DelTypeOK /\ InsTypeOK
  BY DEF Init, DelTypeOK, InsTypeOK
<1>8. RoundTypeOK
  BY <1>1 DEF Init, RoundTypeOK, Phase
<1> QED BY <1>4, <1>5, <1>6, <1>7, <1>8 DEF TypeOK

-----------------------------------------------------------------------------
(* Every step keeps the types. *)
LEMMA StartType ==
  ASSUME TypeOK, NEW D \in SUBSET base, StartRound(D)
  PROVE  TypeOK'
<1> USE DEF TypeOK, StartRound
<1>1. /\ D \subseteq ProgramEdge /\ DirectPart(D) \subseteq DirectEdge
      /\ OtherPart(D) \subseteq ProgramEdge /\ OtherPart(D) \subseteq Edge
  BY DEF RoundTypeOK, DirectPart, OtherPart, DirectEdge, ProgramEdge
<1>2. FlatTypeOK' /\ SuperTypeOK' /\ PtsTypeOK'
  BY DEF flatVars, superVars, FlatTypeOK, SuperTypeOK, pdmVars, PtsTypeOK
<1>3. DelTypeOK'
  BY <1>1 DEF DelTypeOK, Deletions
<1>4. InsTypeOK'
  <2>1. {<<e, e>> : e \in DirectPart(D)} \subseteq Request
    BY <1>1 DEF Request, DirectEdge, IsDirect, IsComplex, DirectKind, ComplexKind
  <2> QED BY <1>1, <2>1 DEF InsTypeOK, Insertions
<1>5. RoundTypeOK'
  BY DEF RoundTypeOK, Phase
<1> QED BY <1>2, <1>3, <1>4, <1>5

LEMMA DelOutType ==
  ASSUME TypeOK, NEW s \in PendingOuts, DelOut(s)
  PROVE  TypeOK'
<1> USE DEF TypeOK, DelOut
<1>1. s \in DirectEdge /\ Head(stack).d \in SUBSET Obj
  BY HeadType DEF Frame
<1>2. Transfer(s.kind, Head(stack).d) \in SUBSET Obj /\ s.dst \in Node
  BY <1>1, TransferType DEF DirectEdge, IsDirect, Edge
<1>3. pts' \in [Node -> SUBSET Obj] /\ stack' \in Seq(Frame)
  BY <1>2, HeadType, DelCallType
<1>4. PtsTypeOK'
  BY <1>3 DEF PtsTypeOK, pdmVars
<1>5. FlatTypeOK' /\ SuperTypeOK' /\ DelTypeOK' /\ InsTypeOK' /\ RoundTypeOK'
  BY DEF flatVars, superVars, delVars, insVars, ctlVars, roundVars,
         FlatTypeOK, SuperTypeOK, DelTypeOK, InsTypeOK, RoundTypeOK
<1> QED BY <1>4, <1>5

LEMMA LostDerivationsType ==
  ASSUME FlatTypeOK, NEW C \in SUBSET Edge, NEW S \in SUBSET Obj
  PROVE  /\ LostDerivations(C, S) \in SUBSET (DirectEdge \X Edge)
         /\ \A x \in LostDerivations(C, S) : x[1] \in fEdges /\ x[2] \in C
BY DerivedCopyType DEF LostDerivations

LEMMA DelComplexType ==
  ASSUME TypeOK, DelComplex
  PROVE  TypeOK'
<1> USE DEF TypeOK, DelComplex
<1> DEFINE r == Head(stack).node
           d == Head(stack).d
           P == LostDerivations(ComplexAt(r), d)
<1>1. r \in Node /\ d \in SUBSET Obj
  BY HeadType DEF Frame
<1>2. ComplexAt(r) \in SUBSET Edge
  BY <1>1, ComplexAtType
<1>3. P \in SUBSET (DirectEdge \X Edge)
  BY <1>1, <1>2, LostDerivationsType
<1> HIDE DEF P
<1>4. FlatTypeOK'
  BY DEF FlatTypeOK, ComplexEdgesWithout, CompCacheWithout
<1>5. DelTypeOK'
  BY <1>3 DEF DelTypeOK, P
<1>6. PtsTypeOK'
  BY HeadType DEF PtsTypeOK, pdmVars
<1>7. SuperTypeOK' /\ InsTypeOK' /\ RoundTypeOK'
  BY DEF superVars, insVars, ctlVars, roundVars, SuperTypeOK, InsTypeOK, RoundTypeOK
<1> QED BY <1>4, <1>5, <1>6, <1>7

(* Dropping a flat edge from both graphs. *)
LEMMA DropType ==
  ASSUME TypeOK, NEW e \in DirectEdge, dropDirectEdge(e),
         UNCHANGED <<delDirectEdgeVec, SCCBreak>> \/
           (delDirectEdgeVec' = delDirectEdgeVec \ {e} /\ UNCHANGED SCCBreak)
  PROVE  fEdges' \subseteq Edge /\ SuperTypeOK' /\ DelTypeOK'
<1> USE DEF TypeOK
<1>1. e \in Edge /\ rep[e.src] \in Node
  BY DEF DirectEdge, SuperTypeOK, Edge
<1>2. fEdges' \subseteq Edge
  BY DEF dropDirectEdge, FlatTypeOK
<1>3. DelTypeOK'
  BY <1>1 DEF dropDirectEdge, DelTypeOK
<1>4. /\ rep' = rep /\ subs' = subs
      /\ sEdges' \subseteq sEdges /\ fEdgeSet' \subseteq fEdgeSet
      /\ DOMAIN rep2tempG' = DOMAIN rep2tempG
      /\ \A x \in DOMAIN rep2tempG : rep2tempG'[x] \subseteq rep2tempG[x]
  BY DEF dropDirectEdge, removeSCGFlat, removeTempGEdge
<1>5. SuperTypeOK'
  BY <1>4 DEF SuperTypeOK
<1> QED BY <1>2, <1>3, <1>5

LEMMA CopyEdgeRemovalType ==
  ASSUME TypeOK, NEW e \in delDirectEdgeVec, processCopyEdgeRemoval(e)
  PROVE  TypeOK'
<1> USE DEF TypeOK, processCopyEdgeRemoval
<1>1. e \in DirectEdge
  BY DEF DelTypeOK
<1>2. complexEdgeSet' \subseteq complexEdgeSet
  OBVIOUS
<1>3. fEdges' \subseteq Edge /\ SuperTypeOK' /\ DelTypeOK'
  <2>1. CASE dropDirectEdge(e)
    BY <1>1, <2>1, DropType
  <2>2. CASE KeepDirectEdge
    BY <2>2 DEF KeepDirectEdge, superVars, SuperTypeOK, DelTypeOK, FlatTypeOK
  <2> QED BY <2>1, <2>2
<1>4. FlatTypeOK'
  BY <1>2, <1>3 DEF FlatTypeOK
<1>5. InsTypeOK' /\ RoundTypeOK' /\ PtsTypeOK'
  BY DEF insVars, pdmVars, ctlVars, roundVars, InsTypeOK, RoundTypeOK, PtsTypeOK
<1> QED BY <1>3, <1>4, <1>5

LEMMA GepEdgeRemovalType ==
  ASSUME TypeOK, NEW e \in delDirectEdgeVec, processGepEdgeRemoval(e)
  PROVE  TypeOK'
<1> USE DEF TypeOK, processGepEdgeRemoval
<1>1. e \in DirectEdge
  BY DEF DelTypeOK
<1>2. fEdges' \subseteq Edge /\ SuperTypeOK' /\ DelTypeOK'
  BY <1>1, DropType
<1>3. FlatTypeOK'
  BY <1>2 DEF FlatTypeOK
<1>4. InsTypeOK' /\ RoundTypeOK' /\ PtsTypeOK'
  BY DEF insVars, pdmVars, ctlVars, roundVars, InsTypeOK, RoundTypeOK, PtsTypeOK
<1> QED BY <1>2, <1>3, <1>4

(* The member graph of a representative. *)
LEMMA TempGType ==
  ASSUME SuperTypeOK, NEW r \in Node
  PROVE  TempG(r) \subseteq Edge
BY DEF SuperTypeOK, TempG, buildTempG

LEMMA SCCKeepType ==
  ASSUME TypeOK, NEW r \in redetectReps, SCCKeep(r)
  PROVE  TypeOK'
<1> USE DEF TypeOK, SCCKeep
<1>1. rep[r] \in Node
  BY DEF DelTypeOK, SuperTypeOK
<1>2. SuperTypeOK'
  BY <1>1, TempGType DEF SuperTypeOK
<1>3. DelTypeOK'
  BY DEF DelTypeOK, Redetected
<1>4. FlatTypeOK' /\ InsTypeOK' /\ RoundTypeOK' /\ PtsTypeOK'
  BY DEF flatVars, insVars, pdmVars, ctlVars, roundVars,
         FlatTypeOK, InsTypeOK, RoundTypeOK, PtsTypeOK
<1> QED BY <1>2, <1>3, <1>4

(* Taking a cycle apart. *)
LEMMA RestoreType ==
  ASSUME SuperTypeOK, NEW r \in Node, NEW M \in SUBSET Node, NEW m \in [M -> M],
         sccRestore(r, m)
  PROVE  SuperTypeOK'
<1>1. NewRep(m) \in [Node -> Node]
  BY DEF NewRep, SuperTypeOK
<1>2. RestoredPairs(r, m) \subseteq fEdgeSet
  BY DEF RestoredPairs
<1>3. \A x \in RestoredPairs(r, m) : LiftBy(NewRep(m), x[2]) \in Edge /\ x[2] \in Edge
  BY <1>1, <1>2, LiftType DEF SuperTypeOK
<1>4. rep' \in [Node -> Node]
  BY <1>1 DEF sccRestore
<1>5. subs' \in [Node -> SUBSET Node]
  BY DEF sccRestore, SuperTypeOK
<1>6. fEdgeSet' \subseteq Edge \X Edge /\ sEdges' \subseteq Edge
  <2> DEFINE back == {<<LiftBy(NewRep(m), x[2]), x[2]>> : x \in RestoredPairs(r, m)}
  <2>1. back \subseteq Edge \X Edge
    BY <1>3
  <2>2. \A x \in back : x[1] \in Edge
    BY <2>1
  <2>3. fEdgeSet' = (fEdgeSet \ RestoredPairs(r, m)) \cup back
    BY DEF sccRestore
  <2>4. sEdges' \subseteq sEdges \cup {x[1] : x \in back}
    BY DEF sccRestore
  <2> HIDE DEF back
  <2> QED BY <2>1, <2>2, <2>3, <2>4 DEF SuperTypeOK
<1>7. /\ DOMAIN rep2tempG' \subseteq DOMAIN rep2tempG
      /\ \A x \in DOMAIN rep2tempG' : rep2tempG'[x] = rep2tempG[x]
  BY DEF sccRestore
<1> QED BY <1>4, <1>5, <1>6, <1>7 DEF SuperTypeOK

LEMMA SCCRestoreType ==
  ASSUME TypeOK, NEW r \in redetectReps, SCCRestore(r)
  PROVE  TypeOK'
<1> USE DEF TypeOK
<1> DEFINE M == sccSubNodes(rep[r])
<1>1. r \in Node /\ rep[r] \in Node /\ M \in SUBSET Node
  BY DEF DelTypeOK, SuperTypeOK, sccSubNodes
<1>2. PICK C \in {Parts(rep[r])} : \E m \in RepChoices(M, C) :
       /\ sccRestore(rep[r], m)
       /\ pts' = [n \in Node |-> IF n \in AllReps(m) THEN pts[n] \cup getPts(r) ELSE pts[n]]
       /\ delEdgeVec' = delEdgeVec \cup
            {e \in InnerRemoved(r) : NewRep(m)[e.src] # NewRep(m)[e.dst]}
  BY DEF SCCRestore
<1>3. PICK m \in [M -> M] :
       /\ sccRestore(rep[r], m)
       /\ pts' = [n \in Node |-> IF n \in AllReps(m) THEN pts[n] \cup getPts(r) ELSE pts[n]]
       /\ delEdgeVec' = delEdgeVec \cup
            {e \in InnerRemoved(r) : NewRep(m)[e.src] # NewRep(m)[e.dst]}
  BY <1>2 DEF RepChoices
<1>4. SuperTypeOK'
  BY <1>1, <1>3, RestoreType
<1>5. DelTypeOK'
  <2>1. InnerRemoved(r) \subseteq Edge
    BY DEF InnerRemoved, DelTypeOK
  <2> QED BY <1>3, <2>1 DEF SCCRestore, Redetected, DelTypeOK
<1>6. PtsTypeOK'
  <2>1. getPts(r) \in SUBSET Obj
    BY <1>1 DEF getPts, PtsTypeOK
  <2>2. pts' \in [Node -> SUBSET Obj]
    BY <1>3, <2>1 DEF PtsTypeOK
  <2> QED BY <2>2 DEF SCCRestore, PtsTypeOK, pdmVars
<1>7. FlatTypeOK' /\ InsTypeOK' /\ RoundTypeOK'
  BY DEF SCCRestore, flatVars, insVars, ctlVars, roundVars, FlatTypeOK, InsTypeOK, RoundTypeOK
<1> QED BY <1>4, <1>5, <1>6, <1>7

(* Removing a flat edge from its super edge. *)
LEMMA RemoveSuperType ==
  ASSUME SuperTypeOK, NEW e, NEW dropEmpty, removeSCGFlat(e, dropEmpty),
         UNCHANGED <<rep, subs, rep2tempG>>
  PROVE  SuperTypeOK'
BY DEF SuperTypeOK, removeSCGFlat

LEMMA AddrRemovalType ==
  ASSUME TypeOK, NEW e \in delEdgeVec, processAddrRemoval(e)
  PROVE  TypeOK'
<1> USE DEF TypeOK, processAddrRemoval, PopDelEdge
<1>1. e \in Edge /\ e.kind = "Addr"
  BY DEF DelTypeOK
<1>2. fEdges' \subseteq Edge /\ FlatTypeOK'
  BY DEF FlatTypeOK
<1>3. SuperTypeOK'
  BY RemoveSuperType
<1>4. {e.src} \cap Obj \in SUBSET Obj /\ e.dst \in Node
  BY <1>1 DEF Edge
<1>5. pts' \in [Node -> SUBSET Obj] /\ stack' \in Seq(Frame)
  <2> DEFINE r == rep[e.dst]
             dPts == ({e.src} \cap pts[r]) \ Supported(r)
  <2>1. r \in Node /\ pts[r] \in SUBSET Obj
    BY <1>4 DEF SuperTypeOK, PtsTypeOK
  <2>2. dPts = (({e.src} \cap Obj) \cap pts[r]) \ Supported(r)
    BY <2>1
  <2>3. propagateDelPts({e.src} \cap Obj, e.dst, <<>>)
    BY <2>2 DEF propagateDelPts
  <2>4. <<>> \in Seq(Frame)
    OBVIOUS
  <2> HIDE DEF dPts, r
  <2> QED BY <1>4, <2>3, <2>4, DelCallType
<1>6. PtsTypeOK'
  BY <1>5 DEF PtsTypeOK, pdmVars
<1>7. DelTypeOK' /\ InsTypeOK' /\ RoundTypeOK'
  BY DEF insVars, ctlVars, roundVars, DelTypeOK, InsTypeOK, RoundTypeOK
<1> QED BY <1>2, <1>3, <1>6, <1>7

LEMMA DirectConstraintRemovalType ==
  ASSUME TypeOK, NEW e \in delEdgeVec, processDirectConstraintRemoval(e)
  PROVE  TypeOK'
<1> USE DEF TypeOK, processDirectConstraintRemoval, PopDelEdge
<1>1. e \in Edge /\ e.src \in Node /\ e.dst \in Node /\ e.kind \in DirectKind
  BY DEF DelTypeOK, Edge, DirectKind
<1>2. getPts(e.src) \in SUBSET Obj
  BY <1>1 DEF getPts, SuperTypeOK, PtsTypeOK
<1>3. Transfer(e.kind, getPts(e.src)) \in SUBSET Obj
  BY <1>1, <1>2, TransferType
<1>4. <<>> \in Seq(Frame)
  OBVIOUS
<1>5. pts' \in [Node -> SUBSET Obj] /\ stack' \in Seq(Frame)
  BY <1>1, <1>3, <1>4, DelCallType
<1>6. PtsTypeOK'
  BY <1>5 DEF PtsTypeOK, pdmVars
<1>7. FlatTypeOK' /\ SuperTypeOK' /\ DelTypeOK' /\ InsTypeOK' /\ RoundTypeOK'
  BY DEF flatVars, superVars, insVars, ctlVars, roundVars,
         FlatTypeOK, SuperTypeOK, DelTypeOK, InsTypeOK, RoundTypeOK
<1> QED BY <1>6, <1>7

LEMMA NormalGepConstraintRemovalType ==
  ASSUME TypeOK, NEW e \in delEdgeVec, skipNormalGepConstraintRemoval(e)
  PROVE  TypeOK'
BY DEF TypeOK, skipNormalGepConstraintRemoval, PopDelEdge, flatVars, superVars, insVars,
       pdmVars, ctlVars, roundVars, FlatTypeOK, SuperTypeOK, DelTypeOK, InsTypeOK,
       RoundTypeOK, PtsTypeOK

LEMMA ComplexRemovalType ==
  ASSUME TypeOK, NEW e \in delEdgeVec, processComplexRemoval(e)
  PROVE  TypeOK'
<1> USE DEF TypeOK, processComplexRemoval, PopDelEdge
<1> DEFINE P == LostDerivations({e}, getPts(Pointer(e)))
<1>1. {e} \in SUBSET Edge /\ Pointer(e) \in Node
  BY DEF DelTypeOK, Edge, Pointer
<1>2. getPts(Pointer(e)) \in SUBSET Obj
  BY <1>1 DEF getPts, SuperTypeOK, PtsTypeOK
<1>3. P \in SUBSET (DirectEdge \X Edge)
  BY <1>1, <1>2, LostDerivationsType
<1> HIDE DEF P
<1>4. FlatTypeOK'
  BY DEF FlatTypeOK, ComplexEdgesWithout, CompCacheWithout
<1>5. SuperTypeOK'
  BY RemoveSuperType
<1>6. DelTypeOK'
  BY <1>3 DEF DelTypeOK, P
<1>7. InsTypeOK' /\ RoundTypeOK' /\ PtsTypeOK'
  BY DEF insVars, pdmVars, ctlVars, roundVars, InsTypeOK, RoundTypeOK, PtsTypeOK
<1> QED BY <1>4, <1>5, <1>6, <1>7

(* The steps that only move on to the next part of the deletion. *)
LEMMA DeletionMovesType ==
  ASSUME TypeOK, DelDirectDone \/ RedetectDone \/ DelIterationDone
  PROVE  TypeOK'
<1> USE DEF TypeOK, flatVars, superVars, delVars, insVars, pdmVars, roundVars
<1>1. rep2tempG' = rep2tempG \/ rep2tempG' = <<>>
  BY DEF DelDirectDone, RedetectDone, DelIterationDone, cleanRep2TempG
<1>2. SuperTypeOK'
  <2>1. CASE rep2tempG' = rep2tempG
    BY <2>1 DEF SuperTypeOK, DelDirectDone, RedetectDone, DelIterationDone
  <2>2. CASE rep2tempG' = <<>>
    BY <2>2 DEF SuperTypeOK, DelDirectDone, RedetectDone, DelIterationDone
  <2> QED BY <1>1, <2>1, <2>2
<1>3. RoundTypeOK'
  BY DEF DelDirectDone, RedetectDone, DelIterationDone, RoundTypeOK, Phase
<1>4. FlatTypeOK' /\ DelTypeOK' /\ InsTypeOK' /\ PtsTypeOK'
  BY DEF DelDirectDone, RedetectDone, DelIterationDone,
         FlatTypeOK, DelTypeOK, InsTypeOK, PtsTypeOK
<1> QED BY <1>2, <1>3, <1>4

LEMMA DeletionType == TypeOK /\ DeletionStep => TypeOK'
BY DelOutType, DelComplexType, CopyEdgeRemovalType, GepEdgeRemovalType, SCCKeepType,
   SCCRestoreType, AddrRemovalType, DirectConstraintRemovalType,
   NormalGepConstraintRemovalType, ComplexRemovalType, DeletionMovesType
   DEF DeletionStep

(* The copies that loads and stores want are requests. *)
LEMMA WantedCopiesType ==
  ASSUME NEW C \in SUBSET Edge, NEW S \in SUBSET Obj
  PROVE  WantedCopies(C, S) \subseteq Request
BY DerivedCopyType DEF WantedCopies, Request

LEMMA InsOutType ==
  ASSUME TypeOK, NEW s \in PendingOuts, InsOut(s)
  PROVE  TypeOK'
<1> USE DEF TypeOK, InsOut
<1>1. s \in DirectEdge /\ Head(stack).d \in SUBSET Obj
  BY HeadType DEF Frame
<1>2. Transfer(s.kind, Head(stack).d) \in SUBSET Obj /\ s.dst \in Node
  BY <1>1, TransferType DEF DirectEdge, IsDirect, Edge
<1>3. pts' \in [Node -> SUBSET Obj] /\ stack' \in Seq(Frame)
  BY <1>2, HeadType, InsCallType
<1>4. PtsTypeOK'
  BY <1>3 DEF PtsTypeOK, pdmVars
<1>5. FlatTypeOK' /\ SuperTypeOK' /\ DelTypeOK' /\ InsTypeOK' /\ RoundTypeOK'
  BY DEF flatVars, superVars, delVars, insVars, ctlVars, roundVars,
         FlatTypeOK, SuperTypeOK, DelTypeOK, InsTypeOK, RoundTypeOK
<1> QED BY <1>4, <1>5

LEMMA InsComplexType ==
  ASSUME TypeOK, InsComplex
  PROVE  TypeOK'
<1> USE DEF TypeOK, InsComplex
<1> DEFINE r == Head(stack).node
           d == Head(stack).d
<1>1. r \in Node /\ d \in SUBSET Obj
  BY HeadType DEF Frame
<1>2. WantedCopies(ComplexAt(r), d) \subseteq Request
  BY <1>1, ComplexAtType, WantedCopiesType
<1>3. InsTypeOK'
  BY <1>2 DEF InsTypeOK
<1>4. PtsTypeOK'
  BY HeadType DEF PtsTypeOK, pdmVars
<1>5. FlatTypeOK' /\ SuperTypeOK' /\ DelTypeOK' /\ RoundTypeOK'
  BY DEF flatVars, superVars, delVars, ctlVars, roundVars,
         FlatTypeOK, SuperTypeOK, DelTypeOK, RoundTypeOK
<1> QED BY <1>3, <1>4, <1>5

(* Adding a flat edge to its super edge. *)
LEMMA AddSuperType ==
  ASSUME SuperTypeOK, NEW e \in Edge,
         addSCGEdge(e) \/ UNCHANGED <<sEdges, fEdgeSet>>,
         UNCHANGED <<rep, subs, rep2tempG>>
  PROVE  SuperTypeOK'
<1>1. Lift(e) \in Edge
  BY LiftType DEF Lift, SuperTypeOK
<1> QED BY <1>1 DEF SuperTypeOK, addSCGEdge

LEMMA CopyAdditionType ==
  ASSUME TypeOK, NEW x \in insDirectEdgeVec, processCopyAddition(x[1], x[2])
  PROVE  TypeOK'
<1> DEFINE e == x[1]
           ce == x[2]
<1> USE DEF TypeOK, processCopyAddition
<1>1. /\ e \in DirectEdge /\ e \in Edge /\ ce \in Edge
      /\ IsComplex(ce) => CacheBit(e, ce) \in Obj
  BY DEF InsTypeOK, Request, DirectEdge
<1>2. FlatTypeOK'
  BY <1>1 DEF FlatTypeOK, addCopyFCGEdge
<1>3. SuperTypeOK'
  BY <1>1, AddSuperType DEF addDirectSCGEdge, KeepSCG
<1>4. InsTypeOK'
  BY <1>1 DEF InsTypeOK, addDirectSCGEdge, KeepSCG, NewSEdge
<1>5. DelTypeOK' /\ RoundTypeOK' /\ PtsTypeOK'
  BY DEF delVars, pdmVars, ctlVars, roundVars, DelTypeOK, RoundTypeOK, PtsTypeOK
<1> QED BY <1>2, <1>3, <1>4, <1>5

LEMMA GepAdditionType ==
  ASSUME TypeOK, NEW x \in insDirectEdgeVec, processGepAddition(x[1])
  PROVE  TypeOK'
<1> DEFINE e == x[1]
<1> USE DEF TypeOK, processGepAddition
<1>1. e \in DirectEdge /\ e \in Edge
  BY DEF InsTypeOK, Request, DirectEdge
<1>2. FlatTypeOK'
  BY <1>1 DEF FlatTypeOK
<1>3. SuperTypeOK'
  BY <1>1, AddSuperType DEF addDirectSCGEdge, KeepSCG
<1>4. InsTypeOK'
  BY <1>1 DEF InsTypeOK, addDirectSCGEdge, KeepSCG, NewSEdge
<1>5. DelTypeOK' /\ RoundTypeOK' /\ PtsTypeOK'
  BY DEF delVars, pdmVars, ctlVars, roundVars, DelTypeOK, RoundTypeOK, PtsTypeOK
<1> QED BY <1>2, <1>3, <1>4, <1>5

(* Merging cycles needs representatives that are their own representative
   and super edges that join them. *)
LEMMA MergeType ==
  ASSUME FlatTypeOK, SuperTypeOK, SubsMatchReps, SuperMirrorsFlat, SuperEdgesUsed,
         NEW m \in [Reps -> Reps], mergeSccCycle(m)
  PROVE  SuperTypeOK'
<1> USE DEF SuperTypeOK
<1>1. Reps \subseteq Node /\ \A n \in Node : rep[n] \in Reps
  BY DEF Reps, SubsMatchReps
<1>2. rep' \in [Node -> Node]
  BY <1>1 DEF mergeSccCycle, MergedRep
<1>3. subs' \in [Node -> SUBSET Node]
  <2>1. \A k \in Reps : sccSubNodes(k) \in SUBSET Node
    BY <1>1 DEF sccSubNodes
  <2> QED BY <1>1, <2>1 DEF mergeSccCycle
<1>4. \A s \in sEdges : LiftBy(m, s) \in Edge
  BY <1>1 DEF SuperEdgesUsed, Reps, LiftBy, Edge
<1>5. \A x \in fEdgeSet : LiftBy(m, x[1]) \in Edge /\ x[2] \in Edge
  <2> SUFFICES ASSUME NEW e \in fEdges, e \in Edge
               PROVE  LiftBy(m, Lift(e)) \in Edge
    BY DEF SuperMirrorsFlat, FlatTypeOK
  <2> QED BY <1>1 DEF Lift, LiftBy, Edge
<1>6. sEdges' \subseteq Edge /\ fEdgeSet' \subseteq Edge \X Edge
  BY <1>4, <1>5 DEF mergeSccCycle
<1>7. UNCHANGED rep2tempG
  BY DEF mergeSccCycle
<1> QED BY <1>2, <1>3, <1>6, <1>7

LEMMA SCCDetectType ==
  ASSUME TypeOK, SubsMatchReps, SuperMirrorsFlat, SuperEdgesUsed, SCCDetect
  PROVE  TypeOK'
<1> USE DEF TypeOK
<1>1. PICK m \in [Reps -> Reps] :
        /\ mergeSccCycle(m)
        /\ pts' = [n \in Node |-> IF n \in Reps /\ m[n] = n
                                  THEN UNION {pts[k] : k \in {x \in Reps : m[x] = n}}
                                  ELSE pts[n]]
  BY DEF SCCDetect, RepChoices
<1>2. SuperTypeOK'
  BY <1>1, MergeType
<1>3. PtsTypeOK'
  <2>1. pts' \in [Node -> SUBSET Obj]
    BY <1>1 DEF PtsTypeOK, Reps
  <2> QED BY <2>1 DEF SCCDetect, PtsTypeOK, pdmVars
<1>4. RoundTypeOK'
  BY DEF SCCDetect, RoundTypeOK, roundVars, Phase
<1>5. FlatTypeOK' /\ DelTypeOK' /\ InsTypeOK'
  BY DEF SCCDetect, flatVars, delVars, insVars, FlatTypeOK, DelTypeOK, InsTypeOK
<1> QED BY <1>2, <1>3, <1>4, <1>5

LEMMA DirectConstraintAdditionType ==
  ASSUME TypeOK, NEW e \in insDirectConsVec, processDirectConstraintAddition(e)
  PROVE  TypeOK'
<1> USE DEF TypeOK, processDirectConstraintAddition
<1>1. e.src \in Node /\ e.dst \in Node /\ e.kind \in DirectKind
  BY DEF InsTypeOK, DirectEdge, IsDirect, Edge
<1>2. getPts(e.src) \in SUBSET Obj
  BY <1>1 DEF getPts, SuperTypeOK, PtsTypeOK
<1>3. Transfer(e.kind, getPts(e.src)) \in SUBSET Obj /\ rep[e.dst] \in Node
  BY <1>1, <1>2, TransferType DEF SuperTypeOK
<1>4. InsTypeOK'
  BY <1>3 DEF InsTypeOK
<1>5. FlatTypeOK' /\ SuperTypeOK' /\ DelTypeOK' /\ RoundTypeOK' /\ PtsTypeOK'
  BY DEF flatVars, superVars, delVars, pdmVars, ctlVars, roundVars,
         FlatTypeOK, SuperTypeOK, DelTypeOK, RoundTypeOK, PtsTypeOK
<1> QED BY <1>4, <1>5

LEMMA PropMapType ==
  ASSUME TypeOK, NEW n \in Node, ProcessPropMap(n)
  PROVE  TypeOK'
<1> USE DEF TypeOK, ProcessPropMap
<1>1. {x[2] : x \in {y \in insPropMap : y[1] = n}} \in SUBSET Obj
  BY DEF InsTypeOK
<1>2. <<>> \in Seq(Frame) /\ (n \in unFilterSet) \in BOOLEAN
  OBVIOUS
<1>3. pts' \in [Node -> SUBSET Obj] /\ stack' \in Seq(Frame)
  BY <1>1, <1>2, InsCallType
<1>4. PtsTypeOK'
  BY <1>3 DEF PtsTypeOK, pdmVars
<1>5. InsTypeOK'
  BY DEF InsTypeOK
<1>6. FlatTypeOK' /\ SuperTypeOK' /\ DelTypeOK' /\ RoundTypeOK'
  BY DEF flatVars, superVars, delVars, ctlVars, roundVars,
         FlatTypeOK, SuperTypeOK, DelTypeOK, RoundTypeOK
<1> QED BY <1>4, <1>5, <1>6

(* Adding a program constraint to both graphs. *)
LEMMA PopInsEdgeType ==
  ASSUME TypeOK, NEW e \in insEdgeVec, PopInsEdge(e),
         UNCHANGED <<complexEdgeSet, compCache, rep, subs, rep2tempG>>
  PROVE  /\ e \in Edge /\ (e.kind = "Addr" => e.src \in Obj)
         /\ FlatTypeOK' /\ SuperTypeOK' /\ insEdgeVec' \subseteq ProgramEdge
<1> USE DEF TypeOK, PopInsEdge
<1>1. e \in Edge /\ (e.kind = "Addr" => e.src \in Obj)
  BY DEF InsTypeOK, ProgramEdge
<1>2. FlatTypeOK'
  BY <1>1 DEF FlatTypeOK
<1>3. SuperTypeOK'
  BY <1>1, AddSuperType
<1>4. insEdgeVec' \subseteq ProgramEdge
  BY DEF InsTypeOK
<1> QED BY <1>1, <1>2, <1>3, <1>4

LEMMA AddrAdditionType ==
  ASSUME TypeOK, NEW e \in insEdgeVec, processAddrAddition(e)
  PROVE  TypeOK'
<1> USE DEF TypeOK, processAddrAddition
<1>1. /\ e \in Edge /\ e.src \in Obj /\ FlatTypeOK' /\ SuperTypeOK'
      /\ insEdgeVec' \subseteq ProgramEdge
  BY PopInsEdgeType
<1>2. {e.src} \in SUBSET Obj /\ e.dst \in Node /\ <<>> \in Seq(Frame)
  BY <1>1 DEF Edge
<1>3. pts' \in [Node -> SUBSET Obj] /\ stack' \in Seq(Frame)
  BY <1>2, InsCallType
<1>4. PtsTypeOK'
  BY <1>3 DEF PtsTypeOK, pdmVars
<1>5. InsTypeOK'
  BY <1>1 DEF InsTypeOK
<1>6. DelTypeOK' /\ RoundTypeOK'
  BY DEF delVars, ctlVars, roundVars, DelTypeOK, RoundTypeOK
<1> QED BY <1>1, <1>4, <1>5, <1>6

LEMMA ComplexAdditionType ==
  ASSUME TypeOK, NEW e \in insEdgeVec, processComplexAddition(e)
  PROVE  TypeOK'
<1> USE DEF TypeOK, processComplexAddition
<1> DEFINE siblings == {x[2] : x \in {y \in fEdgeSet' : y[1] = Lift(e)}}
<1>1. /\ e \in Edge /\ FlatTypeOK' /\ SuperTypeOK'
      /\ insEdgeVec' \subseteq ProgramEdge
  BY PopInsEdgeType
<1>2. siblings \in SUBSET Edge
  BY <1>1 DEF SuperTypeOK
<1>3. Pointer(e) \in Node
  BY <1>1 DEF Edge, Pointer
<1>4. getPts(Pointer(e)) \in SUBSET Obj
  BY <1>3 DEF getPts, SuperTypeOK, PtsTypeOK
<1>5. WantedCopies(siblings, getPts(Pointer(e))) \subseteq Request
  BY <1>2, <1>4, WantedCopiesType
<1>6. InsTypeOK'
  BY <1>1, <1>5 DEF InsTypeOK
<1>7. DelTypeOK' /\ RoundTypeOK' /\ PtsTypeOK'
  BY DEF delVars, pdmVars, ctlVars, roundVars, DelTypeOK, RoundTypeOK, PtsTypeOK
<1> QED BY <1>1, <1>6, <1>7

(* The start of the insertion on the new version fills the vectors. *)
LEMMA StartDiffInsertionType ==
  ASSUME TypeOK, StartDiffInsertion
  PROVE  TypeOK'
<1> USE DEF TypeOK, StartDiffInsertion
<1>1. /\ DirectPart(diff) \subseteq DirectEdge /\ OtherPart(diff) \subseteq ProgramEdge
  BY DEF RoundTypeOK, DirectPart, OtherPart, DirectEdge, ProgramEdge
<1>2. {<<e, e>> : e \in DirectPart(diff)} \subseteq Request
  BY <1>1 DEF Request, DirectEdge, IsDirect, IsComplex, DirectKind, ComplexKind
<1>3. InsTypeOK'
  BY <1>1, <1>2 DEF InsTypeOK, Insertions
<1>4. PtsTypeOK'
  <2>1. \A n \in Node : getPts(n) \in SUBSET Obj
    BY DEF getPts, SuperTypeOK, PtsTypeOK
  <2> QED BY <2>1 DEF PtsTypeOK
<1>5. RoundTypeOK'
  BY DEF RoundTypeOK, roundVars, Phase
<1>6. FlatTypeOK' /\ SuperTypeOK' /\ DelTypeOK'
  BY DEF flatVars, superVars, delVars, FlatTypeOK, SuperTypeOK, DelTypeOK
<1> QED BY <1>3, <1>4, <1>5, <1>6

(* The steps that only move on to the next part of the insertion. *)
LEMMA InsertionMovesType ==
  ASSUME TypeOK,
         \/ FinishOld \/ StartInsertion \/ SkipSCCDetect
         \/ InsConsDone \/ InsPropDone \/ InsIterationDone
  PROVE  TypeOK'
<1> USE DEF TypeOK, FinishOld, StartInsertion, SkipSCCDetect, InsConsDone, InsPropDone,
            InsIterationDone, flatVars, superVars, delVars, insVars, pdmVars, roundVars
<1>1. FlatTypeOK' /\ SuperTypeOK' /\ DelTypeOK'
  BY DEF FlatTypeOK, SuperTypeOK, DelTypeOK
<1>2. InsTypeOK'
  BY DEF InsTypeOK
<1>3. RoundTypeOK'
  BY DEF RoundTypeOK, Phase
<1>4. PtsTypeOK'
  BY DEF PtsTypeOK, computeAllPDM
<1> QED BY <1>1, <1>2, <1>3, <1>4

LEMMA InsertionType ==
  ASSUME TypeOK, SubsMatchReps, SuperMirrorsFlat, SuperEdgesUsed, InsertionStep
  PROVE  TypeOK'
BY InsOutType, InsComplexType, CopyAdditionType, GepAdditionType, SCCDetectType,
   DirectConstraintAdditionType, PropMapType, AddrAdditionType, ComplexAdditionType,
   StartDiffInsertionType, InsertionMovesType
   DEF InsertionStep

LEMMA StutterType == TypeOK /\ UNCHANGED vars => TypeOK'
BY DEF TypeOK, vars, flatVars, superVars, delVars, insVars, pdmVars, ctlVars, roundVars,
       FlatTypeOK, SuperTypeOK, DelTypeOK, InsTypeOK, RoundTypeOK, PtsTypeOK

-----------------------------------------------------------------------------
(***************************************************************************)
(* The two graphs agree. Merging keeps the types only because super edges  *)
(* join representatives, and a cycle can be taken apart only because its   *)
(* members are exactly the nodes it represents and every flat edge is      *)
(* found at the super edge between its ends, so the three are proved       *)
(* together.                                                               *)
(***************************************************************************)
GraphsAgree == SubsMatchReps /\ SuperMirrorsFlat /\ SuperEdgesUsed

LEMMA InitGraphs == Init => GraphsAgree
<1> SUFFICES ASSUME Init PROVE GraphsAgree
  OBVIOUS
<1>1. FlatTypeOK /\ SuperTypeOK
  BY InitType DEF TypeOK
<1>2. PICK m \in [Node -> Node] : SolvedSuper(m) /\ \A n \in Node : m[m[n]] = m[n]
  BY DEF Init, RepChoices
<1>3. rep = m /\ \A n \in Node : rep[n] \in Node /\ rep[rep[n]] = rep[n]
  BY <1>2 DEF SolvedSuper
<1>4. SubsMatchReps
  BY <1>2, <1>3 DEF SolvedSuper, SubsMatchReps, sccSubNodes
<1>5. SuperMirrorsFlat
  BY <1>2, <1>3 DEF SolvedSuper, SuperMirrorsFlat, Lift
<1>6. SuperEdgesUsed
  <2> SUFFICES ASSUME NEW s \in sEdges
               PROVE  /\ rep[s.src] = s.src /\ rep[s.dst] = s.dst
                      /\ \E x \in fEdgeSet : x[1] = s
    BY DEF SuperEdgesUsed
  <2>1. PICK e \in fEdges : s = LiftBy(m, e)
    BY <1>2 DEF SolvedSuper
  <2>2. <<s, e>> \in fEdgeSet
    BY <1>2, <2>1 DEF SolvedSuper
  <2>3. e.src \in Node /\ e.dst \in Node
    BY <1>1 DEF FlatTypeOK, Edge
  <2>4. s.src = rep[e.src] /\ s.dst = rep[e.dst]
    BY <1>3, <2>1 DEF LiftBy
  <2> QED BY <1>3, <2>2, <2>3, <2>4
<1> QED BY <1>4, <1>5, <1>6 DEF GraphsAgree

LEMMA GraphsKept ==
  ASSUME GraphsAgree, UNCHANGED <<fEdges, rep, subs, sEdges, fEdgeSet>>
  PROVE  GraphsAgree'
BY DEF GraphsAgree, SubsMatchReps, SuperMirrorsFlat, SuperEdgesUsed, sccSubNodes, Lift, LiftBy

(* A flat edge is dropped from both graphs; its super edge may stay empty
   only as a self-loop. *)
LEMMA GraphsAfterRemoval ==
  ASSUME GraphsAgree, NEW e, NEW dropEmpty \in BOOLEAN,
         fEdges' = fEdges \ {e}, removeSCGFlat(e, dropEmpty),
         dropEmpty \/ rep[e.src] = rep[e.dst],
         UNCHANGED <<rep, subs>>
  PROVE  GraphsAgree'
<1> USE DEF GraphsAgree
<1>1. SubsMatchReps'
  BY DEF SubsMatchReps, sccSubNodes
<1>2. \A x : Lift(x)' = Lift(x)
  BY DEF Lift, LiftBy
<1>3. fEdgeSet' = fEdgeSet \ {<<Lift(e), e>>}
  BY DEF removeSCGFlat
<1>4. SuperMirrorsFlat'
  BY <1>2, <1>3 DEF SuperMirrorsFlat
<1>5. SuperEdgesUsed'
  <2> SUFFICES ASSUME NEW s \in sEdges', s.src # s.dst
               PROVE  \E x \in fEdgeSet' : x[1] = s
    BY DEF SuperEdgesUsed, removeSCGFlat
  <2>1. s \in sEdges
    BY DEF removeSCGFlat
  <2>2. CASE s = Lift(e)
    <3>1. dropEmpty
      BY <2>2 DEF Lift, LiftBy
    <3>2. ~EmptySEdge(s, fEdgeSet')
      BY <2>2, <3>1, <1>3 DEF removeSCGFlat
    <3> QED BY <3>2 DEF EmptySEdge
  <2>3. CASE s # Lift(e)
    BY <2>1, <2>3, <1>3 DEF SuperEdgesUsed
  <2> QED BY <2>2, <2>3
<1> QED BY <1>1, <1>4, <1>5

(* A flat edge is added to both graphs. *)
LEMMA GraphsAfterAddition ==
  ASSUME FlatTypeOK, SuperTypeOK, GraphsAgree, NEW e \in Edge,
         fEdges' = fEdges \cup {e}, addSCGEdge(e), UNCHANGED <<rep, subs>>
  PROVE  GraphsAgree'
<1> USE DEF GraphsAgree
<1>1. SubsMatchReps'
  BY DEF SubsMatchReps, sccSubNodes
<1>2. \A x : Lift(x)' = Lift(x)
  BY DEF Lift, LiftBy
<1>3. /\ fEdgeSet' = fEdgeSet \cup {<<Lift(e), e>>}
      /\ sEdges' = sEdges \cup {Lift(e)}
  BY DEF addSCGEdge
<1>4. SuperMirrorsFlat'
  BY <1>2, <1>3 DEF SuperMirrorsFlat
<1>5. rep[Lift(e).src] = Lift(e).src /\ rep[Lift(e).dst] = Lift(e).dst
  BY DEF Lift, LiftBy, Edge, SubsMatchReps
<1>6. SuperEdgesUsed'
  <2> SUFFICES ASSUME NEW s \in sEdges'
               PROVE  /\ rep[s.src] = s.src /\ rep[s.dst] = s.dst
                      /\ s.src = s.dst \/ \E x \in fEdgeSet' : x[1] = s
    BY DEF SuperEdgesUsed
  <2>1. CASE s \in sEdges
    BY <1>3, <2>1 DEF SuperEdgesUsed
  <2>2. CASE s = Lift(e)
    <3>1. <<s, e>> \in fEdgeSet'
      BY <1>3, <2>2
    <3> QED BY <1>5, <2>2, <3>1
  <2> QED BY <1>3, <2>1, <2>2
<1> QED BY <1>1, <1>4, <1>6

(* Taking a cycle apart. Only the pairs whose flat edge now belongs to a new
   representative are moved: every other pair at r is already at the super
   edge between the new representatives of its ends. *)
LEMMA RestoreGraphs ==
  ASSUME FlatTypeOK, SuperTypeOK, GraphsAgree, NEW r \in Node, rep[r] = r,
         NEW m \in [sccSubNodes(r) -> sccSubNodes(r)],
         \A n \in sccSubNodes(r) : m[m[n]] = m[n],
         sccRestore(r, m), UNCHANGED fEdges
  PROVE  GraphsAgree'
<1> DEFINE M == sccSubNodes(r)
           out == RestoredPairs(r, m)
<1>1. M = {k \in Node : rep[k] = r} /\ r \in M /\ DOMAIN m = M
  BY DEF GraphsAgree, SubsMatchReps, sccSubNodes
<1>2. /\ \A n \in M : rep'[n] = m[n] /\ m[n] \in M
      /\ \A n \in Node \ M : rep'[n] = rep[n] /\ rep[n] \in Node \ M
  <2>1. \A n \in M : rep'[n] = m[n] /\ m[n] \in M
    BY <1>1 DEF sccRestore, NewRep
  <2>2. ASSUME NEW n \in Node \ M PROVE rep'[n] = rep[n] /\ rep[n] \in Node \ M
    <3>1. rep'[n] = rep[n]
      BY <1>1 DEF sccRestore, NewRep
    <3>2. rep[n] \in Node /\ rep[rep[n]] = rep[n]
      BY DEF SuperTypeOK, GraphsAgree, SubsMatchReps
    <3> QED BY <1>1, <3>1, <3>2
  <2> QED BY <2>1, <2>2
<1>3. \A n \in Node : rep'[n] \in Node /\ rep'[rep'[n]] = rep'[n]
  <2> SUFFICES ASSUME NEW n \in Node PROVE rep'[n] \in Node /\ rep'[rep'[n]] = rep'[n]
    OBVIOUS
  <2>1. CASE n \in M
    BY <1>1, <1>2, <2>1
  <2>2. CASE n \notin M
    BY <1>2, <2>2 DEF GraphsAgree, SubsMatchReps
  <2> QED BY <2>1, <2>2
<1>4. AllReps(m) = {m[n] : n \in M} /\ AllReps(m) \subseteq M
  BY <1>1, <1>2 DEF AllReps
<1>5. SubsMatchReps'
  <2>1. \A n \in Node : subs'[n] = (IF n = r THEN {} ELSE subs[n])
                                     \cup {k \in M : n \in AllReps(m) /\ m[k] = n}
    BY <1>1 DEF sccRestore
  <2>2. \A n \in Node \ M : subs'[n] = subs[n]
    <3> SUFFICES ASSUME NEW n \in Node \ M PROVE subs'[n] = subs[n]
      OBVIOUS
    <3>1. n # r /\ {k \in M : n \in AllReps(m) /\ m[k] = n} = {}
      BY <1>1, <1>4
    <3> HIDE DEF M
    <3> QED BY <2>1, <3>1
  <2>3. \A n \in M : subs'[n] = {k \in M : m[k] = n}
    <3> SUFFICES ASSUME NEW n \in M PROVE subs'[n] = {k \in M : m[k] = n}
      OBVIOUS
    <3>1. n # r => subs[n] = {}
      <4>1. subs[n] \subseteq {k \in Node : rep[k] = n}
        BY <1>1 DEF GraphsAgree, SubsMatchReps
      <4>2. \A k \in Node : rep[k] = n => rep[n] = n
        BY DEF GraphsAgree, SubsMatchReps
      <4> QED BY <1>1, <4>1, <4>2
    <3>2. {k \in M : n \in AllReps(m) /\ m[k] = n} = {k \in M : m[k] = n}
      BY <1>4
    <3> QED BY <1>1, <2>1, <3>1, <3>2
  <2>4. ASSUME NEW n \in Node
        PROVE  /\ subs'[n] \subseteq {k \in Node : rep'[k] = n}
               /\ rep'[n] = n => subs'[n] \cup {n} = {k \in Node : rep'[k] = n}
    <3>1. CASE n \in M
      <4>1. {k \in Node : rep'[k] = n} = {k \in M : m[k] = n}
        BY <1>1, <1>2, <3>1
      <4>2. rep'[n] = n => n \in {k \in M : m[k] = n}
        BY <1>2, <3>1
      <4> QED BY <2>3, <3>1, <4>1, <4>2
    <3>2. CASE n \notin M
      <4>1. {k \in Node : rep'[k] = n} = {k \in Node : rep[k] = n}
        BY <1>1, <1>2, <3>2
      <4>2. rep'[n] = rep[n]
        BY <1>2, <3>2
      <4>3. rep[n] = n => subs[n] \cup {n} = {k \in Node : rep[k] = n}
        BY DEF GraphsAgree, SubsMatchReps, sccSubNodes
      <4>4. subs[n] \subseteq {k \in Node : rep[k] = n}
        BY DEF GraphsAgree, SubsMatchReps
      <4> QED BY <2>2, <3>2, <4>1, <4>2, <4>3, <4>4
    <3> QED BY <3>1, <3>2
  <2> QED BY <1>3, <2>4 DEF SubsMatchReps, sccSubNodes
<1>6. \A e : Lift(e)' = LiftBy(rep', e)
  BY DEF Lift, LiftBy
<1>7. fEdgeSet' = (fEdgeSet \ out) \cup {<<LiftBy(rep', x[2]), x[2]>> : x \in out}
  BY DEF sccRestore
<1>8. \A x \in fEdgeSet : x[2] \in fEdges /\ x = <<Lift(x[2]), x[2]>>
  BY DEF GraphsAgree, SuperMirrorsFlat
<1>9. \A x \in fEdgeSet \ out : x = <<LiftBy(rep', x[2]), x[2]>>
  <2> SUFFICES ASSUME NEW x \in fEdgeSet \ out PROVE x = <<LiftBy(rep', x[2]), x[2]>>
    OBVIOUS
  <2> DEFINE e == x[2]
  <2>1. e \in fEdges /\ x = <<Lift(e), e>> /\ e.src \in Node /\ e.dst \in Node
    BY <1>8 DEF FlatTypeOK, Edge
  <2>2. x[1].src = rep[e.src] /\ x[1].dst = rep[e.dst]
    BY <2>1 DEF Lift, LiftBy
  <2>3. /\ ~(rep[e.dst] = r /\ rep'[e.dst] \in AllReps(m) \ {r})
        /\ ~(rep[e.src] = r /\ rep'[e.src] \in AllReps(m) \ {r})
    BY <2>1, <2>2 DEF RestoredPairs, sccRestore
  <2>4. \A n \in Node : rep[n] = r => rep'[n] \in AllReps(m)
    BY <1>1, <1>2, <1>4
  <2>5. rep'[e.src] = rep[e.src] /\ rep'[e.dst] = rep[e.dst]
    BY <1>1, <1>2, <2>1, <2>3, <2>4
  <2> QED BY <2>1, <2>5 DEF Lift, LiftBy
<1>10. SuperMirrorsFlat'
  <2> HIDE DEF out
  <2>1. out \subseteq fEdgeSet
    BY DEF out, RestoredPairs
  <2>2. ASSUME NEW y \in fEdgeSet' PROVE \E e \in fEdges : y = <<LiftBy(rep', e), e>>
    BY <1>7, <1>8, <1>9, <2>1
  <2>3. ASSUME NEW e \in fEdges PROVE <<LiftBy(rep', e), e>> \in fEdgeSet'
    <3>1. <<Lift(e), e>> \in fEdgeSet
      BY DEF GraphsAgree, SuperMirrorsFlat
    <3>2. CASE <<Lift(e), e>> \in out
      BY <1>7, <3>2
    <3>3. CASE <<Lift(e), e>> \notin out
      BY <1>7, <1>9, <3>1, <3>3
    <3> QED BY <3>2, <3>3
  <2> QED BY <1>6, <2>2, <2>3 DEF SuperMirrorsFlat
<1>11. SuperEdgesUsed'
  <2> SUFFICES ASSUME NEW s \in sEdges'
               PROVE  /\ rep'[s.src] = s.src /\ rep'[s.dst] = s.dst
                      /\ s.src = s.dst \/ \E x \in fEdgeSet' : x[1] = s
    BY DEF SuperEdgesUsed
  <2>1. ASSUME NEW x \in fEdgeSet', x[1] = s
        PROVE  rep'[s.src] = s.src /\ rep'[s.dst] = s.dst
    <3>1. PICK e \in fEdges : x = <<LiftBy(rep', e), e>>
      BY <1>6, <1>10 DEF SuperMirrorsFlat
    <3>2. e.src \in Node /\ e.dst \in Node /\ s.src = rep'[e.src] /\ s.dst = rep'[e.dst]
      BY <2>1, <3>1 DEF LiftBy, FlatTypeOK, Edge
    <3> QED BY <1>3, <3>2
  <2>2. CASE s \in {<<LiftBy(rep', x[2]), x[2]>>[1] : x \in out}
    BY <1>7, <2>1, <2>2
  <2>3. CASE s \in sEdges /\ (s.src = r \/ s.dst = r) /\ ~EmptySEdge(s, fEdgeSet \ out)
    BY <1>7, <2>1, <2>3 DEF EmptySEdge
  <2>4. CASE s \in sEdges /\ ~(s.src = r \/ s.dst = r)
    <3>1. s.src \in Node /\ s.dst \in Node /\ rep[s.src] = s.src /\ rep[s.dst] = s.dst
      BY <2>4 DEF GraphsAgree, SuperEdgesUsed, SuperTypeOK, Edge
    <3>2. rep'[s.src] = s.src /\ rep'[s.dst] = s.dst
      BY <1>1, <1>2, <2>4, <3>1
    <3>3. s.src = s.dst \/ \E x \in fEdgeSet : x[1] = s
      BY <2>4 DEF GraphsAgree, SuperEdgesUsed
    <3>4. \A x \in fEdgeSet : x[1] = s => x \notin out
      BY <2>4 DEF RestoredPairs
    <3> QED BY <1>7, <3>2, <3>3, <3>4
  <2>5. \/ s \in sEdges /\ ((s.src = r \/ s.dst = r) => ~EmptySEdge(s, fEdgeSet \ out))
        \/ s \in {<<LiftBy(rep', x[2]), x[2]>>[1] : x \in out}
    BY DEF sccRestore
  <2> QED BY <2>2, <2>3, <2>4, <2>5
<1> QED BY <1>5, <1>10, <1>11 DEF GraphsAgree

(* Merging components. A node follows its old representative to the new one,
   and so does every super edge, with the flat edges it stands for. *)
LEMMA MergeGraphs ==
  ASSUME FlatTypeOK, SuperTypeOK, GraphsAgree,
         NEW m \in [Reps -> Reps], \A n \in Reps : m[m[n]] = m[n],
         mergeSccCycle(m), UNCHANGED fEdges
  PROVE  GraphsAgree'
<1>1. \A n \in Node : rep[n] \in Reps /\ (n \in Reps <=> rep[n] = n)
  BY DEF Reps, SuperTypeOK, GraphsAgree, SubsMatchReps
<1>2. Reps \subseteq Node /\ \A n \in Reps : m[n] \in Reps
  BY DEF Reps
<1>3. \A n \in Node : rep'[n] = m[rep[n]]
  BY DEF mergeSccCycle, MergedRep
<1>4. \A n \in Reps : rep'[n] = m[n] /\ rep'[m[n]] = m[n]
  BY <1>1, <1>2, <1>3
<1>5. \A n \in Node : rep'[n] \in Reps /\ rep'[rep'[n]] = rep'[n]
  BY <1>1, <1>2, <1>3, <1>4
<1>6. ASSUME NEW n \in Node
      PROVE  /\ subs'[n] \subseteq {k \in Node : rep'[k] = n}
             /\ rep'[n] = n => subs'[n] \cup {n} = {k \in Node : rep'[k] = n}
  <2> DEFINE joined == {x \in Reps \ {n} : m[x] = n}
             new == UNION {sccSubNodes(k) : k \in joined}
  <2>1. subs'[n] = IF n \in Reps /\ m[n] # n THEN {} ELSE subs[n] \cup new
    BY DEF mergeSccCycle
  <2>2. subs[n] \subseteq {k \in Node : rep[k] = n}
    BY DEF GraphsAgree, SubsMatchReps
  <2>3. \A k \in Reps : sccSubNodes(k) = {j \in Node : rep[j] = k}
    BY <1>1, <1>2 DEF GraphsAgree, SubsMatchReps
  <2>4. new = {j \in Node : rep[j] \in joined}
    <3>1. ASSUME NEW j \in new PROVE j \in Node /\ rep[j] \in joined
      BY <2>3
    <3>2. ASSUME NEW j \in Node, rep[j] \in joined PROVE j \in new
      <4>1. j \in sccSubNodes(rep[j])
        BY <2>3, <3>2
      <4> QED BY <3>2, <4>1
    <3> QED BY <3>1, <3>2
  <2> HIDE DEF new
  <2>5. CASE n \in Reps /\ m[n] # n
    BY <1>4, <2>1, <2>5
  <2>6. CASE n \notin Reps
    <3>1. subs[n] = {}
      BY <1>1, <1>2, <2>2, <2>6
    <3>2. new = {}
      BY <1>2, <2>4, <2>6
    <3>3. rep'[n] # n
      BY <1>5, <2>6
    <3> QED BY <2>1, <2>6, <3>1, <3>2, <3>3
  <2>7. CASE n \in Reps /\ m[n] = n
    <3>1. subs[n] \cup {n} = {k \in Node : rep[k] = n}
      BY <2>3, <2>7 DEF sccSubNodes
    <3>2. \A k \in Node : rep'[k] = n <=> rep[k] = n \/ rep[k] \in joined
      BY <1>1, <1>3, <2>7
    <3>3. {k \in Node : rep'[k] = n} = {k \in Node : rep[k] = n} \cup new
      BY <2>4, <3>2
    <3>4. subs'[n] = subs[n] \cup new
      BY <2>1, <2>7
    <3> QED BY <2>2, <3>1, <3>3, <3>4
  <2> QED BY <2>5, <2>6, <2>7
<1>7. SubsMatchReps'
  BY <1>2, <1>5, <1>6 DEF SubsMatchReps, sccSubNodes
<1>8. \A e \in fEdges : LiftBy(m, Lift(e)) = LiftBy(rep', e)
  BY <1>3 DEF Lift, LiftBy, FlatTypeOK, Edge
<1>9. /\ sEdges' = {LiftBy(m, s) : s \in sEdges}
      /\ fEdgeSet' = {<<LiftBy(m, x[1]), x[2]>> : x \in fEdgeSet}
  BY DEF mergeSccCycle
<1>10. SuperMirrorsFlat'
  <2>1. \A e : Lift(e)' = LiftBy(rep', e)
    BY DEF Lift, LiftBy
  <2>2. ASSUME NEW y \in fEdgeSet' PROVE \E e \in fEdges : y = <<LiftBy(rep', e), e>>
    <3>1. PICK x \in fEdgeSet : y = <<LiftBy(m, x[1]), x[2]>>
      BY <1>9
    <3>2. PICK e \in fEdges : x = <<Lift(e), e>>
      BY DEF GraphsAgree, SuperMirrorsFlat
    <3> QED BY <1>8, <3>1, <3>2
  <2>3. ASSUME NEW e \in fEdges PROVE <<LiftBy(rep', e), e>> \in fEdgeSet'
    <3>1. <<Lift(e), e>> \in fEdgeSet
      BY DEF GraphsAgree, SuperMirrorsFlat
    <3>2. <<LiftBy(m, Lift(e)), e>> \in fEdgeSet'
      BY <1>9, <3>1
    <3> QED BY <1>8, <3>2
  <2> QED BY <2>1, <2>2, <2>3 DEF SuperMirrorsFlat
<1>11. SuperEdgesUsed'
  <2> SUFFICES ASSUME NEW s \in sEdges
               PROVE  LET t == LiftBy(m, s)
                      IN  /\ rep'[t.src] = t.src /\ rep'[t.dst] = t.dst
                          /\ t.src = t.dst \/ \E x \in fEdgeSet' : x[1] = t
    BY <1>9 DEF SuperEdgesUsed
  <2> DEFINE t == LiftBy(m, s)
  <2>1. s.src \in Reps /\ s.dst \in Reps
    BY DEF Reps, GraphsAgree, SuperEdgesUsed, SuperTypeOK, Edge
  <2>2. t.src = m[s.src] /\ t.dst = m[s.dst]
    BY DEF LiftBy
  <2>3. CASE s.src = s.dst
    BY <1>4, <2>1, <2>2, <2>3
  <2>4. CASE s.src # s.dst
    <3>1. PICK x \in fEdgeSet : x[1] = s
      BY <2>4 DEF GraphsAgree, SuperEdgesUsed
    <3>2. <<t, x[2]>> \in fEdgeSet'
      BY <1>9, <3>1
    <3> QED BY <1>4, <2>1, <2>2, <3>2
  <2> QED BY <2>3, <2>4
<1> QED BY <1>7, <1>10, <1>11 DEF GraphsAgree

LEMMA DropGraphs ==
  ASSUME GraphsAgree, NEW e, dropDirectEdge(e)
  PROVE  GraphsAgree'
<1>1. removeSCGFlat(e, rep[e.src] # rep[e.dst]) /\ fEdges' = fEdges \ {e}
  BY DEF dropDirectEdge
<1>2. UNCHANGED <<rep, subs>>
  BY DEF dropDirectEdge
<1> QED BY <1>1, <1>2, GraphsAfterRemoval

LEMMA DeletionGraphs ==
  ASSUME TypeOK, GraphsAgree, DeletionStep
  PROVE  GraphsAgree'
<1>1. ASSUME NEW s \in PendingOuts, DelOut(s) PROVE GraphsAgree'
  BY <1>1, GraphsKept DEF DelOut, flatVars, superVars
<1>2. ASSUME DelComplex PROVE GraphsAgree'
  BY <1>2, GraphsKept DEF DelComplex, superVars
<1>3. ASSUME NEW e \in delDirectEdgeVec, processCopyEdgeRemoval(e) PROVE GraphsAgree'
  <2>1. dropDirectEdge(e) \/ KeepDirectEdge
    BY <1>3 DEF processCopyEdgeRemoval
  <2> QED BY <2>1, DropGraphs, GraphsKept DEF KeepDirectEdge, superVars
<1>4. ASSUME NEW e \in delDirectEdgeVec, processGepEdgeRemoval(e) PROVE GraphsAgree'
  BY <1>4, DropGraphs DEF processGepEdgeRemoval
<1>5. ASSUME NEW r \in redetectReps, SCCKeep(r) PROVE GraphsAgree'
  BY <1>5, GraphsKept DEF SCCKeep, flatVars
<1>6. ASSUME NEW r \in redetectReps, SCCRestore(r) PROVE GraphsAgree'
  <2>1. r \in Node
    BY DEF TypeOK, DelTypeOK
  <2>2. rep[r] \in Node /\ rep[rep[r]] = rep[r]
    BY <2>1 DEF TypeOK, SuperTypeOK, GraphsAgree, SubsMatchReps
  <2>3. PICK m \in [sccSubNodes(rep[r]) -> sccSubNodes(rep[r])] :
          sccRestore(rep[r], m) /\ \A n \in sccSubNodes(rep[r]) : m[m[n]] = m[n]
    BY <1>6 DEF SCCRestore, RepChoices
  <2>4. UNCHANGED fEdges
    BY <1>6 DEF SCCRestore, flatVars
  <2> QED BY <2>2, <2>3, <2>4, RestoreGraphs DEF TypeOK
<1>7. ASSUME NEW e \in delEdgeVec, processAddrRemoval(e) PROVE GraphsAgree'
  <2>1. fEdges' = fEdges \ {e} /\ removeSCGFlat(e, TRUE) /\ UNCHANGED <<rep, subs>>
    BY <1>7 DEF processAddrRemoval
  <2> QED BY <2>1, GraphsAfterRemoval
<1>8. ASSUME NEW e \in delEdgeVec,
             processDirectConstraintRemoval(e) \/ skipNormalGepConstraintRemoval(e)
      PROVE  GraphsAgree'
  BY <1>8, GraphsKept DEF processDirectConstraintRemoval, skipNormalGepConstraintRemoval,
     flatVars, superVars
<1>9. ASSUME NEW e \in delEdgeVec, processComplexRemoval(e) PROVE GraphsAgree'
  <2>1. fEdges' = fEdges \ {e} /\ removeSCGFlat(e, TRUE) /\ UNCHANGED <<rep, subs>>
    BY <1>9 DEF processComplexRemoval
  <2> QED BY <2>1, GraphsAfterRemoval
<1>10. ASSUME DelDirectDone \/ RedetectDone \/ DelIterationDone PROVE GraphsAgree'
  BY <1>10, GraphsKept DEF DelDirectDone, RedetectDone, DelIterationDone, flatVars, superVars
<1> QED BY <1>1, <1>2, <1>3, <1>4, <1>5, <1>6, <1>7, <1>8, <1>9, <1>10 DEF DeletionStep

LEMMA AddDirectGraphs ==
  ASSUME TypeOK, GraphsAgree, NEW e \in Edge, fEdges' = fEdges \cup {e},
         IF NewFEdge(e) THEN addDirectSCGEdge(e) ELSE KeepSCG,
         e.kind = "Copy" => e.src # e.dst,
         UNCHANGED <<rep, subs>>
  PROVE  GraphsAgree'
<1>1. CASE e \in fEdges
  BY <1>1, GraphsKept DEF NewFEdge, KeepSCG
<1>2. CASE e \notin fEdges
  BY <1>2, GraphsAfterAddition DEF NewFEdge, addDirectSCGEdge, TypeOK
<1> QED BY <1>1, <1>2

LEMMA InsertionGraphs ==
  ASSUME TypeOK, GraphsAgree, InsertionStep
  PROVE  GraphsAgree'
<1>1. ASSUME FinishOld \/ StartInsertion \/ StartDiffInsertion PROVE GraphsAgree'
  BY <1>1, GraphsKept DEF FinishOld, StartInsertion, StartDiffInsertion, flatVars, superVars
<1>2. ASSUME NEW s \in PendingOuts, InsOut(s) PROVE GraphsAgree'
  BY <1>2, GraphsKept DEF InsOut, flatVars, superVars
<1>3. ASSUME InsComplex PROVE GraphsAgree'
  BY <1>3, GraphsKept DEF InsComplex, flatVars, superVars
<1>4. ASSUME NEW x \in insDirectEdgeVec, processCopyAddition(x[1], x[2]) PROVE GraphsAgree'
  <2>1. x[1] \in Edge
    BY DEF TypeOK, InsTypeOK, Request, DirectEdge
  <2>2. /\ addCopyFCGEdge(x[1], x[2]) /\ UNCHANGED <<rep, subs>>
        /\ IF NewFEdge(x[1]) THEN addDirectSCGEdge(x[1]) ELSE KeepSCG
    BY <1>4 DEF processCopyAddition
  <2>3. CASE x[1].src = x[1].dst /\ x[1].kind = "Copy"
    BY <2>2, <2>3, GraphsKept DEF addCopyFCGEdge, NewFEdge, KeepSCG
  <2>4. CASE ~(x[1].src = x[1].dst /\ x[1].kind = "Copy")
    <3>1. fEdges' = fEdges \cup {x[1]}
      BY <1>4, <2>2, <2>4 DEF addCopyFCGEdge, processCopyAddition
    <3> QED BY <2>1, <2>2, <2>4, <3>1, AddDirectGraphs
  <2> QED BY <2>3, <2>4
<1>5. ASSUME NEW x \in insDirectEdgeVec, processGepAddition(x[1]) PROVE GraphsAgree'
  <2>1. x[1] \in Edge
    BY DEF TypeOK, InsTypeOK, Request, DirectEdge
  <2>2. /\ fEdges' = fEdges \cup {x[1]} /\ UNCHANGED <<rep, subs>> /\ x[1].kind # "Copy"
        /\ IF NewFEdge(x[1]) THEN addDirectSCGEdge(x[1]) ELSE KeepSCG
    BY <1>5 DEF processGepAddition
  <2> QED BY <2>1, <2>2, AddDirectGraphs
<1>6. ASSUME SkipSCCDetect PROVE GraphsAgree'
  BY <1>6, GraphsKept DEF SkipSCCDetect, flatVars, superVars
<1>7. ASSUME SCCDetect PROVE GraphsAgree'
  <2>1. PICK m \in [Reps -> Reps] : mergeSccCycle(m) /\ \A n \in Reps : m[m[n]] = m[n]
    BY <1>7 DEF SCCDetect, RepChoices
  <2>2. UNCHANGED fEdges
    BY <1>7 DEF SCCDetect, flatVars
  <2> QED BY <2>1, <2>2, MergeGraphs DEF TypeOK
<1>8. ASSUME NEW e \in insDirectConsVec, processDirectConstraintAddition(e)
      PROVE  GraphsAgree'
  BY <1>8, GraphsKept DEF processDirectConstraintAddition, flatVars, superVars
<1>9. ASSUME NEW n \in Node, ProcessPropMap(n) PROVE GraphsAgree'
  BY <1>9, GraphsKept DEF ProcessPropMap, flatVars, superVars
<1>10. ASSUME NEW e \in insEdgeVec, processAddrAddition(e) \/ processComplexAddition(e)
       PROVE  GraphsAgree'
  <2>1. e \in Edge
    BY DEF TypeOK, InsTypeOK, ProgramEdge
  <2>2. fEdges' = fEdges \cup {e} /\ addSCGEdge(e) /\ UNCHANGED <<rep, subs>>
    BY <1>10 DEF processAddrAddition, processComplexAddition, PopInsEdge
  <2> QED BY <2>1, <2>2, GraphsAfterAddition DEF TypeOK
<1>11. ASSUME InsConsDone \/ InsPropDone \/ InsIterationDone PROVE GraphsAgree'
  BY <1>11, GraphsKept DEF InsConsDone, InsPropDone, InsIterationDone, flatVars, superVars
<1> QED BY <1>1, <1>2, <1>3, <1>4, <1>5, <1>6, <1>7, <1>8, <1>9, <1>10, <1>11
        DEF InsertionStep

-----------------------------------------------------------------------------
(* Types and the agreement of the graphs are inductive together. *)
LEMMA GraphsInductive ==
  ASSUME TypeOK, GraphsAgree, [Next]_vars
  PROVE  TypeOK' /\ GraphsAgree'
<1>1. ASSUME NEW D \in SUBSET base, StartRound(D) PROVE TypeOK' /\ GraphsAgree'
  BY <1>1, StartType, GraphsKept DEF StartRound, flatVars, superVars
<1>2. CASE DeletionStep
  BY <1>2, DeletionType, DeletionGraphs
<1>3. CASE InsertionStep
  BY <1>3, InsertionType, InsertionGraphs DEF GraphsAgree
<1>4. CASE UNCHANGED vars
  BY <1>4, StutterType, GraphsKept DEF vars, flatVars, superVars
<1> QED BY <1>1, <1>2, <1>3, <1>4 DEF Next

LEMMA GraphsInvariant == Spec => [](TypeOK /\ GraphsAgree)
<1>1. Init => TypeOK /\ GraphsAgree
  BY InitType, InitGraphs
<1>2. TypeOK /\ GraphsAgree /\ [Next]_vars => (TypeOK /\ GraphsAgree)'
  BY GraphsInductive
<1> QED BY <1>1, <1>2, PTL DEF Spec

(* Every variable keeps its type in every behaviour: caches, propagation map
   and points-to sets hold objects only, and the vectors of direct edges
   direct edges only, whatever is merged, taken apart or inserted again. *)
THEOREM TypeCorrect == Spec => []TypeOK
BY GraphsInvariant, PTL

(* Each flat edge is always in the fEdgeSet of exactly the super edge between
   the current representatives of its ends: addSCGEdge, removeSCGFlat, the
   restoring of a broken cycle, which moves only some edges, and the merging
   of a new one lose none and leave none behind. *)
THEOREM MirrorCorrect == Spec => []SuperMirrorsFlat
<1>1. TypeOK /\ GraphsAgree => SuperMirrorsFlat
  BY DEF GraphsAgree
<1> QED BY <1>1, GraphsInvariant, PTL

(* Super edges always join representatives, and only a self-loop of a cycle
   may be left without a flat edge. *)
THEOREM SuperEdgesCorrect == Spec => []SuperEdgesUsed
<1>1. TypeOK /\ GraphsAgree => SuperEdgesUsed
  BY DEF GraphsAgree
<1> QED BY <1>1, GraphsInvariant, PTL

(* nodeToRepMap and nodeToSubsMap always describe the same partition of the
   nodes, although each phase updates them member by member. *)
THEOREM SubsCorrect == Spec => []SubsMatchReps
<1>1. TypeOK /\ GraphsAgree => SubsMatchReps
  BY DEF GraphsAgree
<1> QED BY <1>1, GraphsInvariant, PTL
-----------------------------------------------------------------------------
(* What is kept about merged cycles while they wait to be taken apart: the
   representatives queued for redetection, the inner edges removed from them,
   and the cached graphs of their members. *)

(* The inductive invariant: also, nothing is queued outside the loops over
   direct edges and over queued cycles, and nothing cached outside deletion. *)
CyclesReady ==
  /\ RedetectReady /\ TempGSync
  /\ pc \notin {"delDirect", "redetect"} => redetectReps = {}
  /\ pc \notin {"delDirect", "redetect", "delEdge"} => DOMAIN rep2tempG = {}

(* The direct edges of F that m maps to self-loops of r. *)
InnerEdges(F, m, r) == {e \in F : IsDirect(e) /\ m[e.src] = r /\ m[e.dst] = r}

LEMMA SelfLoops ==
  ASSUME NEW F, NEW m, NEW r, NEW fes, fes = {<<LiftBy(m, e), e>> : e \in F}
  PROVE  {x[2] : x \in {y \in fes : IsDirect(y[1]) /\ y[1].src = r /\ y[1].dst = r}}
           = InnerEdges(F, m, r)
<1> DEFINE G == {x[2] : x \in {y \in fes : IsDirect(y[1]) /\ y[1].src = r /\ y[1].dst = r}}
<1>1. \A e : /\ IsDirect(LiftBy(m, e)) <=> IsDirect(e)
             /\ LiftBy(m, e).src = m[e.src] /\ LiftBy(m, e).dst = m[e.dst]
  BY DEF LiftBy, IsDirect
<1>2. ASSUME NEW e \in G PROVE e \in InnerEdges(F, m, r)
  <2>1. PICK f \in F : /\ e = f /\ IsDirect(LiftBy(m, f))
                       /\ LiftBy(m, f).src = r /\ LiftBy(m, f).dst = r
    OBVIOUS
  <2> QED BY <1>1, <2>1 DEF InnerEdges
<1>3. ASSUME NEW e \in InnerEdges(F, m, r) PROVE e \in G
  <2>1. <<LiftBy(m, e), e>> \in fes
    BY DEF InnerEdges
  <2>2. IsDirect(LiftBy(m, e)) /\ LiftBy(m, e).src = r /\ LiftBy(m, e).dst = r
    BY <1>1 DEF InnerEdges
  <2> DEFINE y == <<LiftBy(m, e), e>>
             loops == {z \in fes : IsDirect(z[1]) /\ z[1].src = r /\ z[1].dst = r}
  <2>3. y[1] = LiftBy(m, e) /\ y[2] = e
    OBVIOUS
  <2>4. y \in loops
    BY <2>1, <2>2, <2>3
  <2> HIDE DEF y, loops
  <2>5. e \in {x[2] : x \in loops}
    BY <2>3, <2>4
  <2> QED BY <2>5 DEF loops
<1> QED BY <1>2, <1>3

(* The graph of a representative's members, now and after a step. *)
LEMMA BuildTempGNow ==
  ASSUME SuperMirrorsFlat, NEW r
  PROVE  buildTempG(r) = InnerEdges(fEdges, rep, r)
BY SelfLoops DEF SuperMirrorsFlat, buildTempG, Lift

LEMMA BuildTempGNext ==
  ASSUME SuperMirrorsFlat', NEW r
  PROVE  buildTempG(r)' = InnerEdges(fEdges', rep', r)
<1>1. fEdgeSet' = {<<LiftBy(rep', e), e>> : e \in fEdges'}
  BY DEF SuperMirrorsFlat, Lift, LiftBy
<1> QED BY <1>1, SelfLoops DEF buildTempG

(* Away from the graphs and the queues. *)
LEMMA CyclesKept ==
  ASSUME CyclesReady, UNCHANGED <<fEdges, rep, fEdgeSet, rep2tempG, redetectReps, rep2EdgeSet>>,
         \/ pc' = pc
         \/ pc' \in {"delDirect", "redetect"}
         \/ redetectReps = {} /\ (pc' = "delEdge" \/ DOMAIN rep2tempG = {})
  PROVE  CyclesReady'
<1>1. RedetectReady' /\ TempGSync'
  BY DEF CyclesReady, RedetectReady, TempGSync, buildTempG
<1> QED BY <1>1 DEF CyclesReady

(* An edge that is no direct edge goes. *)
LEMMA CyclesAfterOtherRemoval ==
  ASSUME GraphsAgree, GraphsAgree', CyclesReady, pc' = pc,
         NEW e, ~IsDirect(e), fEdges' = fEdges \ {e},
         UNCHANGED <<rep, rep2tempG, redetectReps, rep2EdgeSet>>
  PROVE  CyclesReady'
<1>1. ASSUME NEW r PROVE buildTempG(r)' = buildTempG(r)
  <2>1. InnerEdges(fEdges', rep', r) = InnerEdges(fEdges, rep, r)
    BY DEF InnerEdges
  <2> QED BY <2>1, BuildTempGNow, BuildTempGNext DEF GraphsAgree
<1> QED BY <1>1 DEF CyclesReady, RedetectReady, TempGSync

(* A direct edge goes, and with it its place in the cached graph. *)
LEMMA CyclesAfterDrop ==
  ASSUME TypeOK, GraphsAgree, GraphsAgree', CyclesReady, pc = "delDirect", pc' = pc,
         NEW e \in DirectEdge, dropDirectEdge(e)
  PROVE  CyclesReady'
<1>1. rep' = rep /\ fEdges' = fEdges \ {e}
  BY DEF dropDirectEdge
<1>2. rep[rep[e.src]] = rep[e.src]
  BY DEF DirectEdge, Edge, GraphsAgree, SubsMatchReps
<1>3. RedetectReady'
  <2>1. CASE rep[e.src] = rep[e.dst]
    BY <1>1, <1>2, <2>1 DEF dropDirectEdge, CyclesReady, RedetectReady
  <2>2. CASE rep[e.src] # rep[e.dst]
    BY <1>1, <2>2 DEF dropDirectEdge, CyclesReady, RedetectReady
  <2> QED BY <2>1, <2>2
<1>4. DOMAIN rep2tempG' = DOMAIN rep2tempG
  BY DEF dropDirectEdge, removeTempGEdge
<1>5. ASSUME NEW r \in DOMAIN rep2tempG PROVE rep[r] = r /\ rep2tempG'[r] = buildTempG(r)'
  <2>1. rep[r] = r /\ rep2tempG[r] = InnerEdges(fEdges, rep, r)
    BY BuildTempGNow DEF CyclesReady, TempGSync, GraphsAgree
  <2>2. buildTempG(r)' = InnerEdges(fEdges \ {e}, rep, r)
    BY <1>1, BuildTempGNext DEF GraphsAgree
  <2>3. CASE rep[e.src] = rep[e.dst] /\ r = rep[e.src]
    <3>1. rep2tempG'[r] = rep2tempG[r] \ {e}
      BY <2>3 DEF dropDirectEdge, removeTempGEdge
    <3> QED BY <2>1, <2>2, <3>1 DEF InnerEdges
  <2>4. CASE ~(rep[e.src] = rep[e.dst] /\ r = rep[e.src])
    <3>1. rep2tempG'[r] = rep2tempG[r]
      BY <2>4 DEF dropDirectEdge, removeTempGEdge
    <3>2. InnerEdges(fEdges \ {e}, rep, r) = InnerEdges(fEdges, rep, r)
      BY <2>4 DEF InnerEdges
    <3> QED BY <2>1, <2>2, <3>1, <3>2
  <2> QED BY <2>1, <2>3, <2>4
<1>6. TempGSync'
  BY <1>1, <1>4, <1>5 DEF TempGSync
<1> QED BY <1>3, <1>6 DEF CyclesReady

(* A cycle still holds: its member graph is cached. *)
LEMMA CyclesAfterKeep ==
  ASSUME TypeOK, GraphsAgree, CyclesReady, NEW r \in redetectReps, SCCKeep(r)
  PROVE  CyclesReady'
<1>1. /\ pc = "redetect" /\ pc' = pc /\ UNCHANGED <<fEdges, rep, fEdgeSet>> /\ rep[r] = r
      /\ redetectReps' = redetectReps \ {r}
      /\ rep2EdgeSet' = {x \in rep2EdgeSet : x[1] # r}
      /\ rep2tempG' = [x \in DOMAIN rep2tempG \cup {r} |->
                         IF x = r THEN TempG(x) ELSE rep2tempG[x]]
  BY DEF SCCKeep, Redetected, flatVars, ctlVars, CyclesReady, RedetectReady
<1>2. RedetectReady'
  BY <1>1 DEF CyclesReady, RedetectReady
<1>3. \A x : buildTempG(x)' = buildTempG(x)
  BY <1>1 DEF buildTempG
<1>4. TempG(r) = buildTempG(r)
  BY DEF TempG, CyclesReady, TempGSync
<1>5. TempGSync'
  BY <1>1, <1>3, <1>4 DEF CyclesReady, TempGSync
<1> QED BY <1>1, <1>2, <1>5 DEF CyclesReady

(* A cycle is taken apart: no other cycle is touched. *)
LEMMA CyclesAfterRestore ==
  ASSUME TypeOK, GraphsAgree, GraphsAgree', CyclesReady, NEW r \in redetectReps, SCCRestore(r)
  PROVE  CyclesReady'
<1>1. rep[r] = r /\ r \in Node
  BY DEF CyclesReady, RedetectReady, TypeOK, DelTypeOK
<1> DEFINE M == sccSubNodes(r)
<1>2. PICK m \in [M -> M] : sccRestore(r, m)
  BY <1>1 DEF SCCRestore, RepChoices
<1>3. M = {k \in Node : rep[k] = r}
  BY <1>1 DEF GraphsAgree, SubsMatchReps
<1>4. /\ pc = "redetect" /\ pc' = pc /\ fEdges' = fEdges
      /\ redetectReps' = redetectReps \ {r}
      /\ rep2EdgeSet' = {x \in rep2EdgeSet : x[1] # r}
      /\ rep' = NewRep(m)
      /\ rep2tempG' = [x \in DOMAIN rep2tempG \ {r} |-> rep2tempG[x]]
  BY <1>2 DEF SCCRestore, Redetected, flatVars, ctlVars, sccRestore
<1>5. /\ \A n \in Node : rep[n] # r => rep'[n] = rep[n]
      /\ \A n \in Node : rep[n] = r => rep'[n] \in M
  BY <1>3, <1>4 DEF NewRep
<1>6. \A q \in Node, n \in Node : rep[q] = q /\ q # r => (rep'[n] = q <=> rep[n] = q)
  BY <1>3, <1>5
<1>7. RedetectReady'
  <2>1. \A x \in rep2EdgeSet : /\ x[1] \in Node /\ rep[x[1]] = x[1]
                               /\ x[2].src \in Node /\ x[2].dst \in Node
    BY DEF CyclesReady, RedetectReady, TypeOK, DelTypeOK, Edge
  <2>2. \A q \in redetectReps : q \in Node /\ rep[q] = q
    BY DEF CyclesReady, RedetectReady, TypeOK, DelTypeOK
  <2> QED BY <1>4, <1>6, <2>1, <2>2 DEF CyclesReady, RedetectReady
<1>8. TempGSync'
  <2> SUFFICES ASSUME NEW q \in DOMAIN rep2tempG, q # r
               PROVE  rep'[q] = q /\ rep2tempG[q] = buildTempG(q)'
    BY <1>4 DEF TempGSync
  <2>1. q \in Node /\ rep[q] = q /\ rep2tempG[q] = InnerEdges(fEdges, rep, q)
    BY BuildTempGNow DEF TypeOK, SuperTypeOK, CyclesReady, TempGSync, GraphsAgree
  <2>2. InnerEdges(fEdges', rep', q) = InnerEdges(fEdges, rep, q)
    BY <1>4, <1>6, <2>1 DEF InnerEdges, TypeOK, FlatTypeOK, Edge
  <2> QED BY <1>6, <2>1, <2>2, BuildTempGNext DEF GraphsAgree
<1> QED BY <1>4, <1>7, <1>8 DEF CyclesReady
-----------------------------------------------------------------------------
LEMMA InitCycles == Init => CyclesReady
<1> SUFFICES ASSUME Init PROVE CyclesReady
  OBVIOUS
<1>1. redetectReps = {} /\ rep2EdgeSet = {} /\ pc = "idle" /\ DOMAIN rep2tempG = {}
  BY DEF Init, SolvedSuper
<1> QED BY <1>1 DEF CyclesReady, RedetectReady, TempGSync

(* Outside deletion nothing is queued and nothing is cached. *)
LEMMA NothingCached ==
  ASSUME CyclesReady, pc \notin {"delDirect", "redetect", "delEdge"},
         UNCHANGED <<redetectReps, rep2EdgeSet, rep2tempG>>
  PROVE  CyclesReady'
<1>1. redetectReps = {} /\ rep2EdgeSet = {} /\ DOMAIN rep2tempG = {}
  BY DEF CyclesReady, RedetectReady
<1> QED BY <1>1 DEF CyclesReady, RedetectReady, TempGSync

LEMMA DeletionCycles ==
  ASSUME TypeOK, GraphsAgree, GraphsAgree', CyclesReady, DeletionStep
  PROVE  CyclesReady'
<1>1. ASSUME NEW s \in PendingOuts, DelOut(s) PROVE CyclesReady'
  BY <1>1, CyclesKept DEF DelOut, flatVars, superVars, delVars, ctlVars
<1>2. ASSUME DelComplex PROVE CyclesReady'
  BY <1>2, CyclesKept DEF DelComplex, superVars, ctlVars
<1>3. ASSUME NEW e \in delDirectEdgeVec, processCopyEdgeRemoval(e) PROVE CyclesReady'
  <2>1. e \in DirectEdge
    BY DEF TypeOK, DelTypeOK
  <2>2. pc = "delDirect" /\ pc' = pc /\ (dropDirectEdge(e) \/ KeepDirectEdge)
    BY <1>3 DEF processCopyEdgeRemoval, ctlVars
  <2> QED BY <2>1, <2>2, CyclesAfterDrop, CyclesKept DEF KeepDirectEdge, superVars
<1>4. ASSUME NEW e \in delDirectEdgeVec, processGepEdgeRemoval(e) PROVE CyclesReady'
  <2>1. e \in DirectEdge
    BY DEF TypeOK, DelTypeOK
  <2>2. pc = "delDirect" /\ pc' = pc /\ dropDirectEdge(e)
    BY <1>4 DEF processGepEdgeRemoval, ctlVars
  <2> QED BY <2>1, <2>2, CyclesAfterDrop
<1>5. ASSUME NEW r \in redetectReps, SCCKeep(r) PROVE CyclesReady'
  BY <1>5, CyclesAfterKeep
<1>6. ASSUME NEW r \in redetectReps, SCCRestore(r) PROVE CyclesReady'
  BY <1>6, CyclesAfterRestore
<1>7. ASSUME NEW e \in delEdgeVec, processAddrRemoval(e) \/ processComplexRemoval(e)
      PROVE  CyclesReady'
  <2>1. ~IsDirect(e)
    BY <1>7 DEF processAddrRemoval, processComplexRemoval, IsDirect, IsComplex,
       DirectKind, ComplexKind
  <2>2. /\ pc' = pc /\ fEdges' = fEdges \ {e}
        /\ UNCHANGED <<rep, rep2tempG, redetectReps, rep2EdgeSet>>
    BY <1>7 DEF processAddrRemoval, processComplexRemoval, ctlVars
  <2> QED BY <2>1, <2>2, CyclesAfterOtherRemoval
<1>8. ASSUME NEW e \in delEdgeVec,
             processDirectConstraintRemoval(e) \/ skipNormalGepConstraintRemoval(e)
      PROVE  CyclesReady'
  BY <1>8, CyclesKept DEF processDirectConstraintRemoval, skipNormalGepConstraintRemoval,
     flatVars, superVars, ctlVars
<1>9. ASSUME DelDirectDone \/ RedetectDone PROVE CyclesReady'
  BY <1>9, CyclesKept DEF DelDirectDone, RedetectDone, flatVars, superVars, delVars
<1>10. ASSUME DelIterationDone PROVE CyclesReady'
  <2>1. redetectReps = {} /\ rep2EdgeSet = {}
    BY <1>10 DEF DelIterationDone, CyclesReady, RedetectReady
  <2>2. redetectReps' = redetectReps /\ rep2EdgeSet' = rep2EdgeSet
    BY <1>10 DEF DelIterationDone, delVars
  <2>3. RedetectReady' /\ (pc' \notin {"delDirect", "redetect"} => redetectReps' = {})
    BY <2>1, <2>2 DEF RedetectReady
  <2>4. CASE pc' = "delDirect" /\ UNCHANGED rep2tempG
    <3>1. UNCHANGED <<rep, fEdgeSet>>
      BY <1>10 DEF DelIterationDone
    <3>2. TempGSync'
      BY <2>4, <3>1 DEF CyclesReady, TempGSync, buildTempG
    <3> QED BY <2>3, <2>4, <3>2 DEF CyclesReady
  <2>5. CASE cleanRep2TempG
    <3>1. DOMAIN rep2tempG' = {}
      BY <2>5 DEF cleanRep2TempG
    <3> QED BY <2>3, <3>1 DEF CyclesReady, TempGSync
  <2> QED BY <1>10, <2>4, <2>5 DEF DelIterationDone
<1> QED BY <1>1, <1>2, <1>3, <1>4, <1>5, <1>6, <1>7, <1>8, <1>9, <1>10 DEF DeletionStep

LEMMA InsertionCycles ==
  ASSUME CyclesReady, InsertionStep
  PROVE  CyclesReady'
<1>1. ASSUME FinishOld \/ StartInsertion \/ StartDiffInsertion PROVE CyclesReady'
  BY <1>1, NothingCached DEF FinishOld, StartInsertion, StartDiffInsertion, delVars, superVars
<1>2. ASSUME NEW s \in PendingOuts, InsOut(s) PROVE CyclesReady'
  BY <1>2, NothingCached DEF InsOut, InInsertion, delVars, superVars
<1>3. ASSUME InsComplex PROVE CyclesReady'
  BY <1>3, NothingCached DEF InsComplex, InInsertion, delVars, superVars
<1>4. ASSUME NEW x \in insDirectEdgeVec,
             processCopyAddition(x[1], x[2]) \/ processGepAddition(x[1])
      PROVE  CyclesReady'
  BY <1>4, NothingCached DEF processCopyAddition, processGepAddition, delVars, superVars
<1>5. ASSUME SkipSCCDetect PROVE CyclesReady'
  BY <1>5, NothingCached DEF SkipSCCDetect, delVars, superVars
<1>6. ASSUME SCCDetect PROVE CyclesReady'
  BY <1>6, NothingCached DEF SCCDetect, mergeSccCycle, delVars, superVars
<1>7. ASSUME NEW e \in insDirectConsVec, processDirectConstraintAddition(e) PROVE CyclesReady'
  BY <1>7, NothingCached DEF processDirectConstraintAddition, delVars, superVars
<1>8. ASSUME NEW n \in Node, ProcessPropMap(n) PROVE CyclesReady'
  BY <1>8, NothingCached DEF ProcessPropMap, delVars, superVars
<1>9. ASSUME NEW e \in insEdgeVec, processAddrAddition(e) \/ processComplexAddition(e)
      PROVE  CyclesReady'
  BY <1>9, NothingCached DEF processAddrAddition, processComplexAddition, PopInsEdge, delVars, superVars
<1>10. ASSUME InsConsDone \/ InsPropDone \/ InsIterationDone PROVE CyclesReady'
  BY <1>10, NothingCached DEF InsConsDone, InsPropDone, InsIterationDone, delVars, superVars
<1> QED BY <1>1, <1>2, <1>3, <1>4, <1>5, <1>6, <1>7, <1>8, <1>9, <1>10 DEF InsertionStep

(* Types, graphs and queued cycles are inductive together. *)
LEMMA CyclesInductive ==
  ASSUME TypeOK, GraphsAgree, CyclesReady, [Next]_vars
  PROVE  TypeOK' /\ GraphsAgree' /\ CyclesReady'
<1>1. TypeOK' /\ GraphsAgree'
  BY GraphsInductive
<1>2. ASSUME NEW D \in SUBSET base, StartRound(D) PROVE CyclesReady'
  BY <1>2, CyclesKept DEF StartRound, flatVars, superVars
<1>3. CASE DeletionStep
  BY <1>1, <1>3, DeletionCycles
<1>4. CASE InsertionStep
  BY <1>1, <1>4, InsertionCycles
<1>5. CASE UNCHANGED vars
  <2>1. UNCHANGED <<fEdges, rep, fEdgeSet, rep2tempG, redetectReps, rep2EdgeSet, pc>>
    BY <1>5 DEF vars, flatVars, superVars, delVars, ctlVars
  <2> QED BY <1>1, <2>1, CyclesKept
<1> QED BY <1>1, <1>2, <1>3, <1>4, <1>5 DEF Next

LEMMA CyclesInvariant == Spec => [](TypeOK /\ GraphsAgree /\ CyclesReady)
<1>1. Init => TypeOK /\ GraphsAgree /\ CyclesReady
  BY InitType, InitGraphs, InitCycles
<1>2. TypeOK /\ GraphsAgree /\ CyclesReady /\ [Next]_vars
        => (TypeOK /\ GraphsAgree /\ CyclesReady)'
  BY CyclesInductive
<1> QED BY <1>1, <1>2, PTL DEF Spec

(* A cycle queued for redetection is still merged when its turn comes, and
   the inner edges remembered for it are edges of it that are really gone:
   taking another cycle apart first, which changes representatives and the
   super graph, invalidates neither. *)
THEOREM RedetectCorrect == Spec => []RedetectReady
<1>1. TypeOK /\ GraphsAgree /\ CyclesReady => RedetectReady
  BY DEF CyclesReady
<1> QED BY <1>1, CyclesInvariant, PTL

(* The member graph cached when a cycle survived a redetection is, until
   deletion ends, the one buildTempG would build from the super graph now:
   later removals are made in both, and what a broken cycle gives back to the
   super graph never falls inside another cycle. *)
THEOREM TempGCorrect == Spec => []TempGSync
<1>1. TypeOK /\ GraphsAgree /\ CyclesReady => TempGSync
  BY DEF CyclesReady
<1> QED BY <1>1, CyclesInvariant, PTL
-----------------------------------------------------------------------------
(***************************************************************************)
(* The ledger of derived copy edges: which loads and stores a copy edge is *)
(* derived from (complexEdgeSet), which objects a load or store has a copy *)
(* for (compCache), and the copies that wait to be inserted or deleted.    *)
(***************************************************************************)

(***************************************************************************)
(* The inductive invariant. Beyond the five properties it says what each   *)
(* phase leaves behind, that frames of an insertion carry objects their    *)
(* node points to, and that objects without pointers derive nothing.       *)
(***************************************************************************)
Deleting == pc \in {"delDirect", "redetect", "delEdge"}
Inserting == pc \in {"insDirect", "insCons", "insProp", "insEdge"}

PhaseClean ==
  /\ pc \notin {"delEdge", "insProp", "insEdge"} => stack = <<>>
  /\ ~Deleting => delDirectEdgeVec = {}
  /\ ~Inserting => \A x \in insDirectEdgeVec : x[1] = x[2] /\ x[1] \in base
  /\ ~Inserting /\ (mode # "step" \/ pc = "idle") => insDirectEdgeVec = {}

FramesBacked ==
  Inserting => \A i \in DOMAIN stack : stack[i].d \subseteq getPts(stack[i].node)

NonPtrSkipped ==
  /\ \A x \in compCache : x[2] \notin NonPtrObj
  /\ \A x \in insDirectEdgeVec : x[1] # x[2] => CacheBit(x[1], x[2]) \notin NonPtrObj

Ledger ==
  /\ OwnersLive /\ CacheExact /\ CacheBacked /\ NoOrphanCopy /\ PendingOwnerLive
  /\ PhaseClean /\ FramesBacked /\ NonPtrSkipped

Inv == TypeOK /\ GraphsAgree /\ Ledger
-----------------------------------------------------------------------------
(* The active calls, as a set. *)
Calls(s) == {s[i] : i \in DOMAIN s}

LEMMA EmptyCalls == Calls(<<>>) = {}
BY DEF Calls

LEMMA PushCalls ==
  ASSUME NEW c \in Seq(Frame), NEW f \in Frame
  PROVE  Calls(<<f>> \o c) = {f} \cup Calls(c)
<1> DEFINE s == <<f>> \o c
<1>1. /\ DOMAIN s = 1 .. Len(c) + 1 /\ DOMAIN c = 1 .. Len(c) /\ Len(c) \in Nat
      /\ s[1] = f /\ \A i \in 1 .. Len(c) : s[i + 1] = c[i]
  OBVIOUS
<1> HIDE DEF s
<1>2. ASSUME NEW i \in DOMAIN s PROVE s[i] \in {f} \cup Calls(c)
  <2>1. CASE i = 1
    BY <1>1, <2>1
  <2>2. CASE i # 1
    <3>1. i - 1 \in 1 .. Len(c) /\ (i - 1) + 1 = i
      BY <1>1, <2>2
    <3> QED BY <1>1, <3>1 DEF Calls
  <2> QED BY <2>1, <2>2
<1>3. f \in Calls(s)
  <2>1. 1 \in DOMAIN s
    BY <1>1
  <2> QED BY <1>1, <2>1 DEF Calls
<1>4. ASSUME NEW i \in DOMAIN c PROVE c[i] \in Calls(s)
  <2>1. i + 1 \in DOMAIN s /\ s[i + 1] = c[i]
    BY <1>1
  <2> QED BY <2>1 DEF Calls
<1>5. Calls(s) = {f} \cup Calls(c)
  BY <1>2, <1>3, <1>4 DEF Calls
<1> QED BY <1>5 DEF s

LEMMA HeadCalls ==
  ASSUME NEW s \in Seq(Frame), s # <<>>
  PROVE  Calls(s) = {Head(s)} \cup Calls(Tail(s)) /\ Head(s) \in Frame /\ Tail(s) \in Seq(Frame)
<1>1. Head(s) \in Frame /\ Tail(s) \in Seq(Frame) /\ s = <<Head(s)>> \o Tail(s)
  OBVIOUS
<1> QED BY <1>1, PushCalls

(* The node and the objects of every call stay when the innermost call has
   followed one more edge. *)
LEMMA ResumedCalls ==
  ASSUME NEW s, stack \in Seq(Frame), stack # <<>>
  PROVE  /\ Resumed(s) \in Seq(Frame)
         /\ \A f \in Calls(stack) : \E g \in Calls(Resumed(s)) : g.node = f.node /\ g.d = f.d
         /\ \A g \in Calls(Resumed(s)) : \E f \in Calls(stack) : g.node = f.node /\ g.d = f.d
<1> DEFINE h == Head(stack)
           g == [h EXCEPT !.outs = @ \ {s}]
<1>1. Calls(stack) = {h} \cup Calls(Tail(stack)) /\ h \in Frame /\ Tail(stack) \in Seq(Frame)
  BY HeadCalls
<1>2. g \in Frame /\ g.node = h.node /\ g.d = h.d
  BY <1>1 DEF Frame
<1>3. Resumed(s) = <<g>> \o Tail(stack)
  BY DEF Resumed
<1> HIDE DEF h, g
<1>4. Calls(Resumed(s)) = {g} \cup Calls(Tail(stack))
  BY <1>1, <1>2, <1>3, PushCalls
<1>5. Resumed(s) \in Seq(Frame)
  BY <1>1, <1>2, <1>3
<1> QED BY <1>1, <1>2, <1>4, <1>5

LEMMA BeingRemovedCalls ==
  /\ pc = "delEdge" => \A n : BeingRemoved(n) = UNION {f.d : f \in {g \in Calls(stack) : g.node = n}}
  /\ pc # "delEdge" \/ stack = <<>> => \A n : BeingRemoved(n) = {}
BY DEF BeingRemoved, Calls, InDeletion

-----------------------------------------------------------------------------
(* Retraction of derived copies *)

LEMMA PairsOfLedger ==
  ASSUME TypeOK, OwnersLive, CacheExact
  PROVE  /\ \A x \in complexEdgeSet : x = <<x[1], x[2]>> /\ x[1] \in Edge /\ x[2] \in Edge
         /\ \A x \in compCache : /\ x = <<x[1], x[2]>> /\ x[1] \in fEdges /\ x[1] \in Edge
                                 /\ IsComplex(x[1]) /\ x[2] \in Obj
                                 /\ DerivedCopy(x[1], x[2]) \in fEdges
                                 /\ CacheBit(DerivedCopy(x[1], x[2]), x[1]) = x[2]
                                 /\ DerivedCopy(x[1], x[2]) # x[1]
<1>1. \A x \in complexEdgeSet : x = <<x[1], x[2]>> /\ x[1] \in Edge /\ x[2] \in Edge
  BY DEF TypeOK, FlatTypeOK
<1>2. ASSUME NEW x \in compCache
      PROVE  /\ x = <<x[1], x[2]>> /\ x[1] \in fEdges /\ x[1] \in Edge
             /\ IsComplex(x[1]) /\ x[2] \in Obj
             /\ DerivedCopy(x[1], x[2]) \in fEdges
             /\ CacheBit(DerivedCopy(x[1], x[2]), x[1]) = x[2]
             /\ DerivedCopy(x[1], x[2]) # x[1]
  <2>1. x = <<x[1], x[2]>> /\ x[1] \in Edge /\ x[2] \in Obj
    BY DEF TypeOK, FlatTypeOK
  <2>2. IsComplex(x[1]) /\ <<DerivedCopy(x[1], x[2]), x[1]>> \in complexEdgeSet
    BY DEF CacheExact
  <2>3. x[1] \in fEdges /\ DerivedCopy(x[1], x[2]) \in fEdges
    BY <2>2 DEF OwnersLive
  <2>4. DerivedCopy(x[1], x[2]).kind = "Copy" /\ CacheBit(DerivedCopy(x[1], x[2]), x[1]) = x[2]
    BY <2>1, DerivedCopyType
  <2>5. x[1].kind # "Copy"
    BY <2>2 DEF IsComplex, ComplexKind
  <2> QED BY <2>1, <2>2, <2>3, <2>4, <2>5
<1> QED BY <1>1, <1>2

(* The pairs visited are those of the loads and stores and objects given, and
   a bit is cleared exactly when its pair is. *)
LEMMA RetractedPairs ==
  ASSUME TypeOK, OwnersLive, CacheExact,
         NEW C \in SUBSET Edge, \A e \in C : IsComplex(e), NEW S \in SUBSET Obj
  PROVE  LET P == LostDerivations(C, S) IN
         /\ \A x \in P : x = <<x[1], x[2]>> /\ x[2] \in C /\ x[1] # x[2]
                         /\ x[1] = DerivedCopy(x[2], CacheBit(x[1], x[2]))
         /\ \A ce \in C, o \in S \ NonPtrObj :
              DerivedCopy(ce, o) \in fEdges => <<DerivedCopy(ce, o), ce>> \in P
         /\ \A x \in compCache :
              x \in CompCacheWithout(P) <=> <<DerivedCopy(x[1], x[2]), x[1]>> \notin P
         /\ \A x \in complexEdgeSet \ P :
              x[1] # x[2] => <<x[2], CacheBit(x[1], x[2])>> \in CompCacheWithout(P)
<1> DEFINE P == LostDerivations(C, S)
<1>1. P = {x \in {<<DerivedCopy(y[1], y[2]), y[1]>> : y \in C \X (S \ NonPtrObj)} : x[1] \in fEdges}
  BY DEF LostDerivations
<1> HIDE DEF P
<1>2. ASSUME NEW x \in P
      PROVE  /\ x = <<x[1], x[2]>> /\ x[2] \in C /\ x[1] # x[2] /\ IsComplex(x[2])
             /\ x[1] = DerivedCopy(x[2], CacheBit(x[1], x[2]))
  <2>1. PICK ce \in C, o \in S : x = <<DerivedCopy(ce, o), ce>>
    BY <1>1
  <2>2. DerivedCopy(ce, o).kind = "Copy" /\ CacheBit(DerivedCopy(ce, o), ce) = o
    BY DerivedCopyType
  <2>3. IsComplex(ce) /\ ce.kind # "Copy"
    BY DEF IsComplex, ComplexKind
  <2> QED BY <2>1, <2>2, <2>3
<1>3. ASSUME NEW ce \in C, NEW o \in S \ NonPtrObj, DerivedCopy(ce, o) \in fEdges
      PROVE  <<DerivedCopy(ce, o), ce>> \in P
  <2>1. <<ce, o>> \in C \X (S \ NonPtrObj)
    OBVIOUS
  <2> QED BY <1>1, <1>3, <2>1
<1>4. \A b : b \in CompCacheWithout(P) <=>
               b \in compCache /\ \A y \in P : b # <<y[2], CacheBit(y[1], y[2])>>
  BY <1>2 DEF CompCacheWithout
<1>5. ASSUME NEW x \in compCache
      PROVE  x \in CompCacheWithout(P) <=> <<DerivedCopy(x[1], x[2]), x[1]>> \notin P
  <2>1. x = <<x[1], x[2]>> /\ CacheBit(DerivedCopy(x[1], x[2]), x[1]) = x[2]
    BY PairsOfLedger
  <2>2. CASE <<DerivedCopy(x[1], x[2]), x[1]>> \in P
    BY <1>4, <2>1, <2>2
  <2>3. ASSUME NEW y \in P, x = <<y[2], CacheBit(y[1], y[2])>>
        PROVE  <<DerivedCopy(x[1], x[2]), x[1]>> \in P
    <3>1. y = <<DerivedCopy(y[2], CacheBit(y[1], y[2])), y[2]>>
      BY <1>2
    <3> QED BY <2>3, <3>1
  <2> QED BY <1>4, <2>2, <2>3
<1>6. ASSUME NEW x \in complexEdgeSet \ P, x[1] # x[2]
      PROVE  <<x[2], CacheBit(x[1], x[2])>> \in CompCacheWithout(P)
  <2>1. <<x[2], CacheBit(x[1], x[2])>> \in compCache
    BY <1>6 DEF CacheExact
  <2>2. x = <<DerivedCopy(x[2], CacheBit(x[1], x[2])), x[2]>>
    BY <1>6, PairsOfLedger DEF OwnersLive
  <2> QED BY <1>5, <2>1, <2>2
<1> QED BY <1>2, <1>3, <1>5, <1>6 DEF P

(* Giving up the pairs P, and with them the loads and stores in G (one when a
   constraint is removed, none when its pointer loses objects). *)
LEMMA RetractionKeepsLedger ==
  ASSUME TypeOK, OwnersLive, CacheExact, NoOrphanCopy,
         NEW C \in SUBSET Edge, \A e \in C : IsComplex(e), NEW S \in SUBSET Obj,
         NEW G \in SUBSET C,
         \A x \in complexEdgeSet : x[2] \in G => x \in LostDerivations(C, S),
         fEdges' = fEdges \ G,
         complexEdgeSet' = ComplexEdgesWithout(LostDerivations(C, S)),
         compCache' = CompCacheWithout(LostDerivations(C, S)) \ (G \X Node),
         delDirectEdgeVec' = delDirectEdgeVec \cup
           {x[1] : x \in {y \in LostDerivations(C, S) :
                            Orphan(y[1], ComplexEdgesWithout(LostDerivations(C, S)))}}
  PROVE  OwnersLive' /\ CacheExact' /\ NoOrphanCopy'
<1> DEFINE P == LostDerivations(C, S)
<1>1. complexEdgeSet' = complexEdgeSet \ P
  BY DEF ComplexEdgesWithout
<1>2. /\ \A x \in compCache :
           x \in CompCacheWithout(P) <=> <<DerivedCopy(x[1], x[2]), x[1]>> \notin P
      /\ \A x \in complexEdgeSet \ P :
           x[1] # x[2] => <<x[2], CacheBit(x[1], x[2])>> \in CompCacheWithout(P)
  BY RetractedPairs
<1>3. OwnersLive'
  <2> SUFFICES ASSUME NEW x \in complexEdgeSet, x \notin P
               PROVE  /\ x[1] \in fEdges' /\ x[2] \in fEdges'
                      /\ x[1].kind = "Copy"
                      /\ x[1] # x[2] => /\ IsComplex(x[2])
                                        /\ x[1] = DerivedCopy(x[2], CacheBit(x[1], x[2]))
    BY <1>1 DEF OwnersLive
  <2>1. x[1] \notin G
    <3>1. x[1].kind = "Copy"
      BY DEF OwnersLive
    <3> QED BY <3>1 DEF IsComplex, ComplexKind
  <2> QED BY <2>1 DEF OwnersLive
<1>4. CacheExact'
  <2>1. ASSUME NEW x \in compCache'
        PROVE  IsComplex(x[1]) /\ <<DerivedCopy(x[1], x[2]), x[1]>> \in complexEdgeSet'
    <3>1. x \in CompCacheWithout(P) /\ x \in compCache
      BY DEF CompCacheWithout
    <3>2. <<DerivedCopy(x[1], x[2]), x[1]>> \notin P
      BY <1>2, <3>1
    <3> QED BY <1>1, <3>1, <3>2 DEF CacheExact
  <2>2. ASSUME NEW x \in complexEdgeSet', x[1] # x[2]
        PROVE  <<x[2], CacheBit(x[1], x[2])>> \in compCache'
    <3>1. <<x[2], CacheBit(x[1], x[2])>> \in CompCacheWithout(P)
      BY <1>1, <1>2, <2>2
    <3>2. x[2] \notin G
      BY <1>1
    <3> QED BY <3>1, <3>2
  <2> QED BY <2>1, <2>2 DEF CacheExact
<1>5. NoOrphanCopy'
  <2> SUFFICES ASSUME NEW e \in fEdges, e.kind = "Copy",
                      \A x \in complexEdgeSet \ P : x[1] # e
               PROVE  e \in delDirectEdgeVec'
    BY <1>1 DEF NoOrphanCopy
  <2>1. CASE e \in delDirectEdgeVec
    BY <2>1
  <2>2. CASE \E x \in complexEdgeSet : x[1] = e
    <3>1. PICK x \in P : x[1] = e
      BY <2>2
    <3>2. Orphan(x[1], ComplexEdgesWithout(P))
      BY <3>1 DEF Orphan, ComplexEdgesWithout
    <3> QED BY <3>1, <3>2
  <2> QED BY <2>1, <2>2 DEF NoOrphanCopy
<1> QED BY <1>3, <1>4, <1>5

(* The loads and stores whose pointer a representative stands for. *)
LEMMA ComplexAtMembers ==
  ASSUME FlatTypeOK, SuperTypeOK, SuperMirrorsFlat, NEW r
  PROVE  /\ ComplexAt(r) = {e \in fEdges : IsComplex(e) /\ rep[Pointer(e)] = r}
         /\ ComplexAt(r) \subseteq Edge
<1>1. \A e \in fEdges : /\ IsComplex(Lift(e)) <=> IsComplex(e)
                        /\ Pointer(Lift(e)) = rep[Pointer(e)]
  BY DEF Lift, LiftBy, IsComplex, Pointer
<1>2. ASSUME NEW e \in ComplexAt(r)
      PROVE  e \in fEdges /\ IsComplex(e) /\ rep[Pointer(e)] = r
  <2>1. PICK y \in fEdgeSet : e = y[2] /\ IsComplex(y[1]) /\ Pointer(y[1]) = r
    BY DEF ComplexAt
  <2>2. e \in fEdges /\ y = <<Lift(e), e>>
    BY <2>1 DEF SuperMirrorsFlat
  <2> QED BY <1>1, <2>1, <2>2
<1>3. ASSUME NEW e \in fEdges, IsComplex(e), rep[Pointer(e)] = r
      PROVE  e \in ComplexAt(r)
  <2>1. <<Lift(e), e>> \in fEdgeSet
    BY DEF SuperMirrorsFlat
  <2> QED BY <1>1, <1>3, <2>1 DEF ComplexAt
<1> QED BY <1>2, <1>3 DEF FlatTypeOK

LEMMA PointerType ==
  ASSUME NEW e \in Edge
  PROVE  Pointer(e) \in Node
BY DEF Pointer, Edge

-----------------------------------------------------------------------------
(* Every step keeps the ledger. First the steps between propagations that
   take no fact from any node and leave the flat graph alone. *)
LEMMA QuietLedger ==
  ASSUME TypeOK, Ledger, PhaseClean',
         UNCHANGED <<fEdges, complexEdgeSet, compCache>>,
         delDirectEdgeVec \subseteq delDirectEdgeVec',
         stack = <<>>, stack' = <<>>,
         \A n \in Node : getPts(n) \subseteq pts'[rep'[n]],
         \A x \in insDirectEdgeVec' : \/ x \in insDirectEdgeVec /\ base' = base
                                      \/ x[1] = x[2] /\ x[1] \in base'
  PROVE  Ledger'
<1>1. OwnersLive' /\ CacheExact' /\ NoOrphanCopy'
  BY DEF Ledger, OwnersLive, CacheExact, NoOrphanCopy
<1>2. CacheBacked'
  <2> SUFFICES ASSUME NEW x \in compCache
               PROVE  x[2] \in pts'[rep'[Pointer(x[1])]]
    BY DEF CacheBacked, getPts
  <2>1. x[2] \in getPts(Pointer(x[1]))
    BY BeingRemovedCalls DEF Ledger, CacheBacked
  <2>2. Pointer(x[1]) \in Node
    BY PointerType DEF TypeOK, FlatTypeOK
  <2> QED BY <2>1, <2>2
<1>3. PendingOwnerLive'
  <2> SUFFICES ASSUME NEW x \in insDirectEdgeVec'
               PROVE  \/ x[1] = x[2] /\ x[1] \in base'
                      \/ /\ IsComplex(x[2]) /\ x[2] \in fEdges
                         /\ x[1] = DerivedCopy(x[2], CacheBit(x[1], x[2]))
                         /\ CacheBit(x[1], x[2]) \in pts'[rep'[Pointer(x[2])]]
    BY DEF PendingOwnerLive, getPts
  <2>1. CASE x \in insDirectEdgeVec /\ base' = base
    <3>1. x[2] \in Edge /\ Pointer(x[2]) \in Node
      BY <2>1, PointerType DEF TypeOK, InsTypeOK, Request
    <3> QED BY <2>1, <3>1 DEF Ledger, PendingOwnerLive
  <2> QED BY <2>1
<1>4. FramesBacked'
  BY DEF FramesBacked
<1>5. NonPtrSkipped'
  BY DEF Ledger, NonPtrSkipped
<1> QED BY <1>1, <1>2, <1>3, <1>4, <1>5 DEF Ledger

LEMMA StartLedger ==
  ASSUME TypeOK, Ledger, NEW D \in SUBSET base, StartRound(D)
  PROVE  Ledger'
<1> USE DEF StartRound, flatVars, superVars
<1>1. insDirectEdgeVec = {} /\ delDirectEdgeVec = {} /\ stack = <<>> /\ stack' = <<>>
  BY DEF Ledger, PhaseClean, Inserting, Deleting
<1>2. \A x \in insDirectEdgeVec' : x[1] = x[2] /\ x[1] \in base'
  BY <1>1 DEF Insertions, DirectPart
<1>3. mode # "step" => insDirectEdgeVec' = {}
  BY <1>1
<1>4. PhaseClean'
  BY <1>1, <1>2, <1>3 DEF PhaseClean, Inserting, Deleting
<1>5. \A n \in Node : getPts(n) \subseteq pts'[rep'[n]]
  BY DEF getPts
<1> QED BY <1>1, <1>2, <1>4, <1>5, QuietLedger

(* The steps that only move on, and those of the redetection. *)
LEMMA QuietDeletionLedger ==
  ASSUME TypeOK, Ledger,
         \/ DelDirectDone \/ RedetectDone \/ DelIterationDone
         \/ \E r \in redetectReps : SCCKeep(r)
         \/ \E e \in delEdgeVec : skipNormalGepConstraintRemoval(e)
  PROVE  Ledger'
<1> USE DEF DelDirectDone, RedetectDone, DelIterationDone, SCCKeep,
            skipNormalGepConstraintRemoval, PopDelEdge, flatVars, superVars, delVars,
            insVars, ctlVars, roundVars
<1>1. stack = <<>> /\ stack' = <<>>
  BY DEF Ledger, PhaseClean
<1>2. UNCHANGED <<fEdges, complexEdgeSet, compCache, delDirectEdgeVec, insDirectEdgeVec, base,
                  mode, pts, rep>>
  OBVIOUS
<1>3. pc \in {"delDirect", "redetect", "delEdge"}
  OBVIOUS
<1>4. \/ pc' \in {"delDirect", "redetect", "delEdge"}
      \/ pc' = "deleted" /\ delDirectEdgeVec = {}
  <2>1. CASE DelIterationDone
    BY <2>1
  <2>2. CASE ~DelIterationDone
    BY <2>2
  <2> QED BY <2>1, <2>2
<1>5. PhaseClean'
  BY <1>1, <1>2, <1>3, <1>4 DEF Ledger, PhaseClean, Inserting, Deleting
<1> QED BY <1>1, <1>2, <1>5, QuietLedger DEF Ledger, PhaseClean, getPts

LEMMA QuietInsertionLedger ==
  ASSUME TypeOK, Ledger,
         \/ FinishOld \/ StartInsertion \/ StartDiffInsertion \/ SkipSCCDetect
         \/ \E e \in insDirectConsVec : processDirectConstraintAddition(e)
         \/ InsConsDone \/ InsPropDone \/ InsIterationDone
  PROVE  Ledger'
<1> USE DEF FinishOld, StartInsertion, StartDiffInsertion, SkipSCCDetect,
            processDirectConstraintAddition, InsConsDone, InsPropDone, InsIterationDone,
            flatVars, superVars, delVars, insVars, ctlVars, roundVars
<1>1. stack = <<>> /\ stack' = <<>> /\ delDirectEdgeVec = {} /\ delDirectEdgeVec' = {}
  BY DEF Ledger, PhaseClean, Deleting
<1>2. UNCHANGED <<fEdges, complexEdgeSet, compCache, mode, pts, rep>>
  OBVIOUS
<1>3. \A x \in insDirectEdgeVec' : \/ x \in insDirectEdgeVec /\ base' = base
                                   \/ x[1] = x[2] /\ x[1] \in base'
  BY DEF Ledger, PhaseClean, Inserting, Insertions, DirectPart, TypeOK, RoundTypeOK
<1>4. PhaseClean'
  <2>1. \/ pc' \in {"insDirect", "insCons", "insProp", "insEdge"}
        \/ pc' = "idle" /\ insDirectEdgeVec' = {}
    <3>1. CASE FinishOld
      BY <3>1 DEF Ledger, PhaseClean, Inserting
    <3>2. CASE InsIterationDone
      BY <3>2
    <3>3. CASE ~FinishOld /\ ~InsIterationDone
      BY <3>3
    <3> QED BY <3>1, <3>2, <3>3
  <2> QED BY <1>1, <2>1 DEF PhaseClean, Inserting, Deleting
<1> QED BY <1>1, <1>2, <1>3, <1>4, QuietLedger DEF getPts

(* A cycle is taken apart: every member keeps at least the objects it had. *)
LEMMA RestoreLedger ==
  ASSUME TypeOK, GraphsAgree, Ledger, NEW r \in redetectReps, SCCRestore(r)
  PROVE  Ledger'
<1>1. r \in Node /\ rep[r] \in Node /\ rep[rep[r]] = rep[r]
  BY DEF TypeOK, DelTypeOK, SuperTypeOK, GraphsAgree, SubsMatchReps
<1> DEFINE M == sccSubNodes(rep[r])
<1>2. PICK m \in [M -> M] :
        /\ rep' = NewRep(m)
        /\ pts' = [n \in Node |-> IF n \in AllReps(m) THEN pts[n] \cup getPts(r) ELSE pts[n]]
  BY DEF SCCRestore, RepChoices, sccRestore
<1>3. M = {k \in Node : rep[k] = rep[r]}
  BY <1>1 DEF GraphsAgree, SubsMatchReps
<1>4. stack = <<>> /\ stack' = <<>>
  BY DEF SCCRestore, Ledger, PhaseClean
<1>5. PhaseClean'
  BY <1>4 DEF SCCRestore, Ledger, PhaseClean, Deleting, Inserting, insVars, ctlVars, roundVars
<1>6. ASSUME NEW n \in Node PROVE getPts(n) \subseteq pts'[rep'[n]]
  <2>1. CASE n \in M
    <3>1. rep'[n] = m[n] /\ m[n] \in AllReps(m) /\ m[n] \in Node
      BY <1>2, <1>3, <2>1 DEF NewRep, AllReps
    <3>2. getPts(n) = getPts(r)
      BY <1>3, <2>1 DEF getPts
    <3> QED BY <1>2, <3>1, <3>2
  <2>2. CASE n \notin M
    <3>1. rep'[n] = rep[n] /\ rep[n] \in Node
      BY <1>2, <2>2 DEF NewRep, TypeOK, SuperTypeOK
    <3>2. pts[rep[n]] \subseteq pts'[rep[n]]
      BY <1>2, <3>1
    <3> QED BY <3>1, <3>2 DEF getPts
  <2> QED BY <2>1, <2>2
<1>7. UNCHANGED <<fEdges, complexEdgeSet, compCache, delDirectEdgeVec, insDirectEdgeVec, base>>
  BY DEF SCCRestore, flatVars, insVars, ctlVars, roundVars
<1> QED BY <1>4, <1>5, <1>6, <1>7, QuietLedger

(* Cycles are merged: a representative has at least its members' objects. *)
LEMMA MergeLedger ==
  ASSUME TypeOK, GraphsAgree, Ledger, SCCDetect
  PROVE  Ledger'
<1>1. PICK m \in [Reps -> Reps] :
        /\ rep' = MergedRep(m)
        /\ \A n \in Reps : m[m[n]] = m[n]
        /\ pts' = [n \in Node |-> IF n \in Reps /\ m[n] = n
                                  THEN UNION {pts[k] : k \in {x \in Reps : m[x] = n}}
                                  ELSE pts[n]]
  BY DEF SCCDetect, RepChoices, mergeSccCycle
<1>2. stack = <<>> /\ stack' = <<>>
  BY DEF SCCDetect, Ledger, PhaseClean
<1>3. PhaseClean'
  BY <1>2 DEF SCCDetect, Ledger, PhaseClean, Deleting, Inserting, delVars, insVars, roundVars
<1>4. ASSUME NEW n \in Node PROVE getPts(n) \subseteq pts'[rep'[n]]
  <2>1. rep[n] \in Reps
    BY DEF Reps, TypeOK, SuperTypeOK, GraphsAgree, SubsMatchReps
  <2> DEFINE q == m[rep[n]]
  <2>2. q \in Reps /\ q \in Node /\ m[q] = q /\ rep'[n] = q
    BY <1>1, <2>1 DEF Reps, MergedRep
  <2>3. pts'[q] = UNION {pts[k] : k \in {x \in Reps : m[x] = q}}
    BY <1>1, <2>2
  <2> QED BY <2>1, <2>2, <2>3 DEF getPts
<1>5. UNCHANGED <<fEdges, complexEdgeSet, compCache, delDirectEdgeVec, insDirectEdgeVec, base>>
  BY DEF SCCDetect, flatVars, delVars, insVars, roundVars
<1> QED BY <1>2, <1>3, <1>4, <1>5, QuietLedger

(* Objects leave a set only together with a call that remembers them. *)
LEMMA DelPropLedger ==
  ASSUME TypeOK, GraphsAgree, CacheBacked, pc = "delEdge",
         NEW S \in SUBSET Obj, NEW n \in Node, NEW callers \in Seq(Frame),
         \A f \in Calls(stack) : \E g \in Calls(callers) : g.node = f.node /\ g.d = f.d,
         propagateDelPts(S, n, callers),
         UNCHANGED <<compCache, rep, pc>>
  PROVE  CacheBacked'
<1> DEFINE r == rep[n]
           dPts == (S \cap pts[r]) \ Supported(r)
           f == [node |-> r, d |-> dPts, outs |-> DirectOut(r)]
<1>1. r \in Node /\ rep[r] = r
  BY DEF TypeOK, SuperTypeOK, GraphsAgree, SubsMatchReps
<1>2. f \in Frame
  BY <1>1, DirectOutType DEF Frame, TypeOK
<1>3. \/ pts' = pts /\ Calls(stack') = Calls(callers)
      \/ /\ pts' = [pts EXCEPT ![r] = @ \ dPts]
         /\ Calls(stack') = {f} \cup Calls(callers)
  <2>1. Calls(<<f>> \o callers) = {f} \cup Calls(callers)
    BY <1>2, PushCalls
  <2> QED BY <2>1 DEF propagateDelPts
<1> SUFFICES ASSUME NEW x \in compCache
             PROVE  \/ x[2] \in pts'[rep[Pointer(x[1])]]
                    \/ \E g \in Calls(stack') : g.node = rep[Pointer(x[1])] /\ x[2] \in g.d
  <2>1. \A k : BeingRemoved(k)' = UNION {g.d : g \in {h \in Calls(stack') : h.node = k}}
    BY DEF BeingRemoved, Calls, InDeletion
  <2> QED BY <2>1 DEF CacheBacked, getPts
<1> DEFINE q == rep[Pointer(x[1])]
<1>4. q \in Node
  BY PointerType DEF TypeOK, FlatTypeOK, SuperTypeOK
<1>5. CASE x[2] \in BeingRemoved(q)
  <2>1. PICK g \in Calls(stack) : g.node = q /\ x[2] \in g.d
    BY <1>5, BeingRemovedCalls
  <2>2. \E h \in Calls(callers) : h.node = q /\ x[2] \in h.d
    BY <2>1
  <2> QED BY <1>3, <2>2
<1>6. CASE x[2] \in pts[q]
  <2>1. CASE q = r /\ x[2] \in dPts /\ pts' # pts
    <3>1. f.node = q /\ x[2] \in f.d /\ f \in Calls(stack')
      BY <1>3, <2>1
    <3> QED BY <3>1
  <2>2. CASE pts' = pts
    BY <1>6, <2>2
  <2>3. CASE ~(q = r /\ x[2] \in dPts) /\ pts' # pts
    <3>1. pts' = [pts EXCEPT ![r] = @ \ dPts]
      BY <1>3, <2>3
    <3> HIDE DEF dPts
    <3> QED BY <1>4, <1>6, <2>3, <3>1 DEF TypeOK, PtsTypeOK
  <2> QED BY <2>1, <2>2, <2>3
<1>7. x[2] \in pts[q] \cup BeingRemoved(q)
  BY DEF CacheBacked, getPts
<1> QED BY <1>5, <1>6, <1>7

(* During a deletion only program edges wait to be inserted, and no object is
   added to a cache. *)
LEMMA DeletingRest ==
  ASSUME Ledger, Deleting, Deleting', UNCHANGED <<insDirectEdgeVec, base, mode>>,
         stack' = <<>> \/ pc' = "delEdge", compCache' \subseteq compCache
  PROVE  PendingOwnerLive' /\ PhaseClean' /\ FramesBacked' /\ NonPtrSkipped'
<1>1. ~Inserting /\ ~Inserting' /\ pc # "idle" /\ pc' # "idle"
  BY DEF Deleting, Inserting
<1>2. PendingOwnerLive'
  BY <1>1 DEF Ledger, PhaseClean, PendingOwnerLive
<1>3. PhaseClean'
  BY <1>1 DEF Ledger, PhaseClean
<1>4. FramesBacked' /\ NonPtrSkipped'
  BY <1>1 DEF Ledger, FramesBacked, NonPtrSkipped
<1> QED BY <1>2, <1>3, <1>4

LEMMA DelOutLedger ==
  ASSUME TypeOK, GraphsAgree, Ledger, NEW s \in PendingOuts, DelOut(s)
  PROVE  Ledger'
<1> USE DEF flatVars, superVars, delVars, insVars, ctlVars, roundVars
<1>1. /\ pc = "delEdge" /\ stack # <<>> /\ stack \in Seq(Frame) /\ s \in Head(stack).outs
      /\ propagateDelPts(Transfer(s.kind, Head(stack).d), s.dst, Resumed(s))
      /\ UNCHANGED <<fEdges, complexEdgeSet, compCache, rep, delDirectEdgeVec,
                     insDirectEdgeVec, base, mode, pc>>
  BY DEF DelOut, InDeletion, TypeOK, PtsTypeOK
<1>2. Head(stack) \in Frame
  BY <1>1, HeadCalls
<1>3. s \in DirectEdge /\ s.dst \in Node /\ s.kind \in DirectKind /\ Head(stack).d \in SUBSET Obj
  BY <1>1, <1>2 DEF Frame, DirectEdge, IsDirect, Edge
<1>4. Transfer(s.kind, Head(stack).d) \in SUBSET Obj
  BY <1>3, TransferType
<1>5. CacheBacked'
  BY <1>1, <1>3, <1>4, ResumedCalls, DelPropLedger DEF Ledger
<1>6. OwnersLive' /\ CacheExact' /\ NoOrphanCopy'
  BY <1>1 DEF Ledger, OwnersLive, CacheExact, NoOrphanCopy
<1> QED BY <1>1, <1>5, <1>6, DeletingRest DEF Ledger, Deleting

LEMMA PropagatingRemovalLedger ==
  ASSUME TypeOK, GraphsAgree, Ledger, NEW e \in delEdgeVec,
         processAddrRemoval(e) \/ processDirectConstraintRemoval(e)
  PROVE  Ledger'
<1> USE DEF flatVars, superVars, insVars, ctlVars, roundVars, PopDelEdge
<1>1. /\ pc = "delEdge" /\ stack = <<>> /\ e \in Edge /\ e.src \in Node /\ e.dst \in Node
      /\ UNCHANGED <<complexEdgeSet, compCache, rep, delDirectEdgeVec,
                     insDirectEdgeVec, base, mode, pc>>
  BY DEF processAddrRemoval, processDirectConstraintRemoval, TypeOK, DelTypeOK, Edge
<1>2. <<>> \in Seq(Frame) /\ Calls(stack) = {}
  BY <1>1, EmptyCalls
<1>3. \E S \in SUBSET Obj : propagateDelPts(S, e.dst, <<>>)
  <2>1. CASE processAddrRemoval(e)
    <3> DEFINE dPts == ({e.src} \cap pts[rep[e.dst]]) \ Supported(rep[e.dst])
    <3>1. propagateDelPts({e.src} \cap Obj, e.dst, <<>>)
      <4>1. rep[e.dst] \in Node /\ pts[rep[e.dst]] \in SUBSET Obj
        BY <1>1 DEF TypeOK, SuperTypeOK, PtsTypeOK
      <4>2. {e.src} \cap pts[rep[e.dst]] = ({e.src} \cap Obj) \cap pts[rep[e.dst]]
        BY <4>1
      <4> QED BY <2>1, <4>2 DEF processAddrRemoval, propagateDelPts
    <3> QED BY <3>1
  <2>2. CASE processDirectConstraintRemoval(e)
    <3>1. getPts(e.src) \in SUBSET Obj /\ e.kind \in DirectKind
      BY <1>1, <2>2 DEF processDirectConstraintRemoval, DirectKind, getPts, TypeOK,
         SuperTypeOK, PtsTypeOK
    <3>2. Transfer(e.kind, getPts(e.src)) \in SUBSET Obj
      BY <3>1, TransferType
    <3> QED BY <2>2, <3>2 DEF processDirectConstraintRemoval
  <2> QED BY <2>1, <2>2
<1>4. CacheBacked'
  BY <1>1, <1>2, <1>3, DelPropLedger DEF Ledger
<1>5. \A f \in fEdges : f \notin fEdges' => f.kind = "Addr"
  BY DEF processAddrRemoval, processDirectConstraintRemoval
<1>6. fEdges' \subseteq fEdges
  BY DEF processAddrRemoval, processDirectConstraintRemoval
<1>7. OwnersLive'
  <2> SUFFICES ASSUME NEW x \in complexEdgeSet
               PROVE  x[1] \in fEdges' /\ x[2] \in fEdges'
    BY <1>1 DEF Ledger, OwnersLive
  <2>1. x[1].kind # "Addr" /\ x[2].kind # "Addr"
    BY DEF Ledger, OwnersLive, IsComplex, ComplexKind
  <2> QED BY <1>5, <2>1 DEF Ledger, OwnersLive
<1>8. CacheExact' /\ NoOrphanCopy'
  BY <1>1, <1>6 DEF Ledger, CacheExact, NoOrphanCopy
<1> QED BY <1>1, <1>4, <1>7, <1>8, DeletingRest DEF Ledger, Deleting

(* The loads and stores at the node of a call give up the copies of exactly
   the objects the call has removed. *)
LEMMA DelComplexLedger ==
  ASSUME TypeOK, GraphsAgree, Ledger, DelComplex
  PROVE  Ledger'
<1> DEFINE C == ComplexAt(Head(stack).node)
           S == Head(stack).d
           P == LostDerivations(C, S)
<1>1. /\ pc = "delEdge" /\ stack # <<>> /\ stack \in Seq(Frame) /\ stack' = Tail(stack)
      /\ complexEdgeSet' = ComplexEdgesWithout(P) /\ compCache' = CompCacheWithout(P)
      /\ delDirectEdgeVec' = delDirectEdgeVec \cup
           {x[1] : x \in {y \in P : Orphan(y[1], ComplexEdgesWithout(P))}}
      /\ UNCHANGED <<fEdges, rep, insDirectEdgeVec, base, mode, pc, pts>>
  BY DEF DelComplex, InDeletion, superVars, insVars, ctlVars, roundVars, TypeOK, PtsTypeOK
<1>2. Head(stack) \in Frame /\ Calls(stack) = {Head(stack)} \cup Calls(Tail(stack))
  BY <1>1, HeadCalls
<1>3. S \in SUBSET Obj
  BY <1>2 DEF Frame
<1>4. /\ C = {e \in fEdges : IsComplex(e) /\ rep[Pointer(e)] = Head(stack).node}
      /\ C \in SUBSET Edge
  BY ComplexAtMembers DEF TypeOK, GraphsAgree
<1>5. OwnersLive' /\ CacheExact' /\ NoOrphanCopy'
  <2>1. fEdges' = fEdges \ {} /\ compCache' = CompCacheWithout(P) \ ({} \X Node)
    BY <1>1
  <2>2. {} \in SUBSET C /\ \A x \in complexEdgeSet : x[2] \in {} => x \in P
    OBVIOUS
  <2>3. \A e \in C : IsComplex(e)
    BY <1>4
  <2> HIDE DEF S, C
  <2> QED BY <1>1, <1>3, <1>4, <2>1, <2>2, <2>3, RetractionKeepsLedger DEF Ledger
<1>6. CacheBacked'
  <2> SUFFICES ASSUME NEW x \in compCache, x \in CompCacheWithout(P)
               PROVE  \/ x[2] \in pts[rep[Pointer(x[1])]]
                      \/ \E g \in Calls(Tail(stack)) :
                           g.node = rep[Pointer(x[1])] /\ x[2] \in g.d
    <3>1. \A k : BeingRemoved(k)' = UNION {g.d : g \in {h \in Calls(stack') : h.node = k}}
      BY <1>1 DEF BeingRemoved, Calls, InDeletion
    <3> QED BY <1>1, <3>1 DEF CacheBacked, getPts, CompCacheWithout
  <2> DEFINE q == rep[Pointer(x[1])]
  <2>1. \/ x[2] \in pts[q] \/ \E g \in Calls(stack) : g.node = q /\ x[2] \in g.d
    BY <1>1, BeingRemovedCalls DEF Ledger, CacheBacked, getPts
  <2>2. CASE Head(stack).node = q /\ x[2] \in S
    <3>1. x[1] \in C /\ DerivedCopy(x[1], x[2]) \in fEdges /\ x[2] \notin NonPtrObj
      BY <1>4, <2>2, PairsOfLedger DEF Ledger, NonPtrSkipped
    <3>2. <<DerivedCopy(x[1], x[2]), x[1]>> \in P /\ \A e \in C : IsComplex(e)
      <4>1. \A e \in C : IsComplex(e)
        BY <1>4
      <4> HIDE DEF S, C
      <4> QED BY <1>3, <1>4, <2>2, <3>1, <4>1, RetractedPairs DEF Ledger
    <3>3. <<DerivedCopy(x[1], x[2]), x[1]>> \notin P
      <4> HIDE DEF S, C
      <4> QED BY <1>3, <1>4, <3>2, RetractedPairs DEF Ledger
    <3> QED BY <3>2, <3>3
  <2>3. CASE ~(Head(stack).node = q /\ x[2] \in S)
    BY <1>2, <2>1, <2>3
  <2> QED BY <2>2, <2>3
<1>7. compCache' \subseteq compCache
  BY <1>1 DEF CompCacheWithout
<1> QED BY <1>1, <1>5, <1>6, <1>7, DeletingRest DEF Ledger, Deleting

(* A load or store is removed: its cache shows only objects its pointer still
   points to, so every copy it derives is found. *)
LEMMA ComplexRemovalLedger ==
  ASSUME TypeOK, GraphsAgree, Ledger, NEW e \in delEdgeVec, processComplexRemoval(e)
  PROVE  Ledger'
<1> DEFINE S == getPts(Pointer(e))
           P == LostDerivations({e}, S)
<1>1. /\ pc = "delEdge" /\ stack = <<>> /\ IsComplex(e) /\ e \in Edge
      /\ fEdges' = fEdges \ {e}
      /\ complexEdgeSet' = ComplexEdgesWithout(P)
      /\ compCache' = CompCacheWithout(P) \ ({e} \X Node)
      /\ delDirectEdgeVec' = delDirectEdgeVec \cup
           {x[1] : x \in {y \in P : Orphan(y[1], ComplexEdgesWithout(P))}}
      /\ UNCHANGED <<rep, insDirectEdgeVec, base, mode, pc, pts, stack>>
  BY DEF processComplexRemoval, PopDelEdge, insVars, ctlVars, roundVars, TypeOK, DelTypeOK
<1>2. S \in SUBSET Obj
  BY <1>1, PointerType DEF getPts, TypeOK, SuperTypeOK, PtsTypeOK
<1> HIDE DEF S
<1>3. ASSUME NEW x \in complexEdgeSet, x[2] \in {e} PROVE x \in P
  <2>1. x = <<x[1], e>> /\ x[1] # e
    BY <1>1, <1>3, PairsOfLedger DEF Ledger, OwnersLive, IsComplex, ComplexKind
  <2> DEFINE o == CacheBit(x[1], e)
  <2>2. x[1] = DerivedCopy(e, o) /\ x[1] \in fEdges
    BY <2>1, <1>3 DEF Ledger, OwnersLive
  <2>3. <<e, o>> \in compCache
    BY <2>1, <1>3 DEF Ledger, CacheExact
  <2>4. o \in S
    BY <1>1, <2>3, BeingRemovedCalls DEF S, Ledger, CacheBacked
  <2>5. o \notin NonPtrObj
    BY <2>3 DEF Ledger, NonPtrSkipped
  <2> HIDE DEF o
  <2>6. {e} \in SUBSET Edge /\ \A f \in {e} : IsComplex(f)
    BY <1>1
  <2>7. <<DerivedCopy(e, o), e>> \in P
    <3>1. \A c \in {e}, q \in S \ NonPtrObj :
            DerivedCopy(c, q) \in fEdges => <<DerivedCopy(c, q), c>> \in LostDerivations({e}, S)
      BY <1>2, <2>6, RetractedPairs DEF Ledger
    <3> QED BY <2>2, <2>4, <2>5, <3>1
  <2> QED BY <2>1, <2>2, <2>7
<1>4. OwnersLive' /\ CacheExact' /\ NoOrphanCopy'
  <2>1. {e} \in SUBSET Edge /\ \A f \in {e} : IsComplex(f)
    BY <1>1
  <2>2. {e} \in SUBSET {e} /\ \A x \in complexEdgeSet : x[2] \in {e} => x \in P
    BY <1>3
  <2> QED BY <1>1, <1>2, <2>1, <2>2, RetractionKeepsLedger DEF Ledger
<1>5. compCache' \subseteq compCache
  BY <1>1 DEF CompCacheWithout
<1>6. CacheBacked'
  BY <1>1, <1>5, BeingRemovedCalls DEF Ledger, CacheBacked, getPts
<1> QED BY <1>1, <1>4, <1>5, <1>6, DeletingRest DEF Ledger, Deleting

(* A direct edge is taken from the vector: it stays when another constraint
   still derives it. *)
LEMMA DirectEdgeRemovalLedger ==
  ASSUME TypeOK, GraphsAgree, Ledger, NEW e \in delDirectEdgeVec,
         processCopyEdgeRemoval(e) \/ processGepEdgeRemoval(e)
  PROVE  Ledger'
<1>1. /\ pc = "delDirect" /\ stack = <<>> /\ stack' = <<>>
      /\ delDirectEdgeVec' = delDirectEdgeVec \ {e} /\ e \in DirectEdge
      /\ UNCHANGED <<compCache, insDirectEdgeVec, base, mode, pc, pts>>
  BY DEF processCopyEdgeRemoval, processGepEdgeRemoval, Ledger, PhaseClean, insVars, ctlVars,
     roundVars, TypeOK, DelTypeOK
<1>2. rep' = rep
  BY DEF processCopyEdgeRemoval, processGepEdgeRemoval, dropDirectEdge, KeepDirectEdge, superVars
<1>3. \/ /\ fEdges' = fEdges \ {e} /\ \A x \in complexEdgeSet' : x[1] # e
      \/ /\ fEdges' = fEdges
         /\ e \in fEdges /\ e.kind = "Copy" => \E x \in complexEdgeSet' : x[1] = e
  <2>1. CASE processGepEdgeRemoval(e)
    BY <2>1 DEF processGepEdgeRemoval, dropDirectEdge, Ledger, OwnersLive
  <2>2. CASE processCopyEdgeRemoval(e)
    BY <2>2 DEF processCopyEdgeRemoval, dropDirectEdge, KeepDirectEdge, Orphan
  <2> QED BY <2>1, <2>2
<1>4. complexEdgeSet' \subseteq complexEdgeSet
       /\ \A x \in complexEdgeSet : x # <<e, e>> => x \in complexEdgeSet'
  BY DEF processCopyEdgeRemoval, processGepEdgeRemoval
<1>5. ~IsComplex(e)
  BY <1>1 DEF DirectEdge, IsDirect, IsComplex, DirectKind, ComplexKind
<1>6. OwnersLive'
  <2> SUFFICES ASSUME NEW x \in complexEdgeSet'
               PROVE  x[1] \in fEdges' /\ x[2] \in fEdges'
    BY <1>4 DEF Ledger, OwnersLive
  <2>1. /\ x[1] \in fEdges /\ x[2] \in fEdges
        /\ x[1] # x[2] => IsComplex(x[2])
    BY <1>4 DEF Ledger, OwnersLive
  <2>2. x[1] # e => x[2] # e
    BY <1>5, <2>1
  <2> QED BY <1>3, <2>1, <2>2
<1>7. CacheExact'
  <2>1. \A x \in compCache : <<DerivedCopy(x[1], x[2]), x[1]>> # <<e, e>>
    BY PairsOfLedger DEF Ledger
  <2> QED BY <1>1, <1>4, <2>1 DEF Ledger, CacheExact
<1>8. NoOrphanCopy'
  <2> SUFFICES ASSUME NEW f \in fEdges', f.kind = "Copy"
               PROVE  f \in delDirectEdgeVec' \/ \E x \in complexEdgeSet' : x[1] = f
    BY DEF NoOrphanCopy
  <2>1. CASE f = e
    BY <1>3, <2>1
  <2>2. CASE f # e
    <3>1. f \in fEdges
      BY <1>3
    <3>2. \A x \in complexEdgeSet : x[1] = f => x # <<e, e>>
      BY <2>2
    <3> QED BY <1>1, <1>4, <2>2, <3>1, <3>2 DEF Ledger, NoOrphanCopy
  <2> QED BY <2>1, <2>2
<1>9. CacheBacked'
  BY <1>1, <1>2, BeingRemovedCalls DEF Ledger, CacheBacked, getPts
<1> QED BY <1>1, <1>6, <1>7, <1>8, <1>9, DeletingRest DEF Ledger, Deleting

LEMMA DeletionLedger ==
  ASSUME TypeOK, GraphsAgree, Ledger, DeletionStep
  PROVE  Ledger'
BY DelOutLedger, DelComplexLedger, DirectEdgeRemovalLedger, QuietDeletionLedger,
   RestoreLedger, PropagatingRemovalLedger, ComplexRemovalLedger DEF DeletionStep

-----------------------------------------------------------------------------
(* Insertion. Points-to sets grow, so what waits for an object goes on
   waiting rightly. *)
LEMMA InsertingGrowth ==
  ASSUME TypeOK, Ledger, Inserting, pc' = pc,
         UNCHANGED <<rep, compCache, base, delDirectEdgeVec>>, fEdges \subseteq fEdges',
         \A n \in Node : getPts(n) \subseteq pts'[rep'[n]],
         insDirectEdgeVec' \subseteq insDirectEdgeVec
  PROVE  CacheBacked' /\ PendingOwnerLive' /\ NonPtrSkipped'
<1>1. CacheBacked'
  <2> SUFFICES ASSUME NEW x \in compCache
               PROVE  x[2] \in pts'[rep'[Pointer(x[1])]]
    BY DEF CacheBacked, getPts
  <2>1. pc # "delEdge"
    BY DEF Inserting
  <2>2. x[2] \in getPts(Pointer(x[1]))
    BY <2>1, BeingRemovedCalls DEF Ledger, CacheBacked
  <2>3. Pointer(x[1]) \in Node
    BY PointerType DEF TypeOK, FlatTypeOK
  <2> QED BY <2>2, <2>3
<1>2. PendingOwnerLive'
  <2> SUFFICES ASSUME NEW x \in insDirectEdgeVec
               PROVE  \/ x[1] = x[2] /\ x[1] \in base
                      \/ /\ IsComplex(x[2]) /\ x[2] \in fEdges'
                         /\ x[1] = DerivedCopy(x[2], CacheBit(x[1], x[2]))
                         /\ CacheBit(x[1], x[2]) \in pts'[rep'[Pointer(x[2])]]
    BY DEF PendingOwnerLive, getPts
  <2>1. Pointer(x[2]) \in Node
    BY PointerType DEF TypeOK, InsTypeOK, Request
  <2> QED BY <2>1 DEF Ledger, PendingOwnerLive
<1>3. NonPtrSkipped'
  BY DEF Ledger, NonPtrSkipped
<1> QED BY <1>1, <1>2, <1>3

LEMMA FramesBackedCalls ==
  FramesBacked <=> (Inserting => \A f \in Calls(stack) : f.d \subseteq getPts(f.node))
BY DEF FramesBacked, Calls

(* A call of propagateInsPts carries what it has just added, or, after a
   merge, what the set has held all along. *)
LEMMA InsPropLedger ==
  ASSUME TypeOK, GraphsAgree,
         NEW S \in SUBSET Obj, NEW n \in Node, NEW flag, NEW callers \in Seq(Frame),
         \A f \in Calls(callers) : f \in Frame /\ f.d \subseteq getPts(f.node),
         propagateInsPts(S, n, flag, callers),
         UNCHANGED rep
  PROVE  /\ FramesBacked'
         /\ \A k \in Node : getPts(k) \subseteq pts'[rep'[k]]
<1> DEFINE r == rep[n]
           dPts == IF flag THEN S ELSE S \ pts[r]
           f == [node |-> r, d |-> dPts, outs |-> DirectOut(r)]
<1>1. r \in Node /\ rep[r] = r /\ \A k \in Node : rep[k] \in Node
  BY DEF TypeOK, SuperTypeOK, GraphsAgree, SubsMatchReps
<1>2. f \in Frame
  BY <1>1, DirectOutType DEF Frame, TypeOK
<1>3. \/ pts' = pts /\ Calls(stack') = Calls(callers)
      \/ /\ pts' = [pts EXCEPT ![r] = @ \cup dPts]
         /\ Calls(stack') = {f} \cup Calls(callers)
  <2>1. Calls(<<f>> \o callers) = {f} \cup Calls(callers)
    BY <1>2, PushCalls
  <2> QED BY <2>1 DEF propagateInsPts
<1> HIDE DEF dPts
<1>4. \A k \in Node : pts[k] \subseteq pts'[k]
  BY <1>3 DEF TypeOK, PtsTypeOK
<1>5. \A k \in Node : getPts(k) \subseteq pts'[rep'[k]]
  BY <1>1, <1>4 DEF getPts
<1>6. \A g \in Calls(stack') : g.d \subseteq pts'[rep[g.node]]
  <2>1. \A g \in Calls(callers) : g.d \subseteq pts'[rep[g.node]]
    BY <1>5 DEF Frame
  <2>2. CASE pts' = pts /\ Calls(stack') = Calls(callers)
    BY <2>1, <2>2
  <2>3. CASE /\ pts' = [pts EXCEPT ![r] = @ \cup dPts]
             /\ Calls(stack') = {f} \cup Calls(callers)
    <3>1. f.node = r /\ f.d = dPts /\ dPts \subseteq pts'[r]
      BY <1>1, <2>3 DEF TypeOK, PtsTypeOK
    <3> QED BY <1>1, <2>1, <2>3, <3>1
  <2> QED BY <1>3, <2>2, <2>3
<1> QED BY <1>5, <1>6 DEF FramesBacked, Calls, getPts

LEMMA InsOutLedger ==
  ASSUME TypeOK, GraphsAgree, Ledger, NEW s \in PendingOuts, InsOut(s)
  PROVE  Ledger'
<1>1. /\ pc \in {"insProp", "insEdge"} /\ stack # <<>> /\ stack \in Seq(Frame)
      /\ s \in Head(stack).outs
      /\ propagateInsPts(Transfer(s.kind, Head(stack).d), s.dst, FALSE, Resumed(s))
      /\ UNCHANGED <<fEdges, complexEdgeSet, compCache, rep, delDirectEdgeVec,
                     insDirectEdgeVec, base, mode, pc>>
  BY DEF InsOut, InInsertion, TypeOK, PtsTypeOK, flatVars, superVars, delVars, insVars,
     ctlVars, roundVars
<1>2. Inserting /\ Inserting' /\ ~Deleting /\ ~Deleting' /\ pc # "idle"
  BY <1>1 DEF Inserting, Deleting
<1>3. Head(stack) \in Frame
  BY <1>1, HeadCalls
<1>4. s \in DirectEdge /\ s.dst \in Node /\ s.kind \in DirectKind /\ Head(stack).d \in SUBSET Obj
  BY <1>1, <1>3 DEF Frame, DirectEdge, IsDirect, Edge
<1>5. Transfer(s.kind, Head(stack).d) \in SUBSET Obj
  BY <1>4, TransferType
<1>6. /\ Resumed(s) \in Seq(Frame)
      /\ \A f \in Calls(Resumed(s)) : f \in Frame /\ f.d \subseteq getPts(f.node)
  <2>1. Resumed(s) \in Seq(Frame)
    BY <1>1, ResumedCalls
  <2>2. \A f \in Calls(Resumed(s)) : f \in Frame
    BY <2>1 DEF Calls
  <2>3. \A f \in Calls(Resumed(s)) : f.d \subseteq getPts(f.node)
    BY <1>1, <1>2, ResumedCalls, FramesBackedCalls DEF Ledger
  <2> QED BY <2>1, <2>2, <2>3
<1>7. FramesBacked' /\ \A k \in Node : getPts(k) \subseteq pts'[rep'[k]]
  BY <1>1, <1>4, <1>5, <1>6, InsPropLedger
<1>8. OwnersLive' /\ CacheExact' /\ NoOrphanCopy'
  BY <1>1 DEF Ledger, OwnersLive, CacheExact, NoOrphanCopy
<1>9. PhaseClean'
  BY <1>1, <1>2 DEF Ledger, PhaseClean
<1> QED BY <1>1, <1>2, <1>7, <1>8, <1>9, InsertingGrowth DEF Ledger

LEMMA PropMapLedger ==
  ASSUME TypeOK, GraphsAgree, Ledger, NEW n \in Node, ProcessPropMap(n)
  PROVE  Ledger'
<1> DEFINE S == {x[2] : x \in {y \in insPropMap : y[1] = n}}
<1>1. /\ pc = "insProp" /\ stack = <<>>
      /\ propagateInsPts(S, n, n \in unFilterSet, <<>>)
      /\ UNCHANGED <<fEdges, complexEdgeSet, compCache, rep, delDirectEdgeVec,
                     insDirectEdgeVec, base, mode, pc>>
  BY DEF ProcessPropMap, flatVars, superVars, delVars, ctlVars, roundVars
<1>2. Inserting /\ Inserting' /\ ~Deleting /\ ~Deleting' /\ pc # "idle"
  BY <1>1 DEF Inserting, Deleting
<1>3. S \in SUBSET Obj
  BY DEF TypeOK, InsTypeOK
<1>4. <<>> \in Seq(Frame) /\ Calls(<<>>) = {}
  BY EmptyCalls
<1> HIDE DEF S
<1>5. FramesBacked' /\ \A k \in Node : getPts(k) \subseteq pts'[rep'[k]]
  BY <1>1, <1>3, <1>4, InsPropLedger
<1>6. OwnersLive' /\ CacheExact' /\ NoOrphanCopy'
  BY <1>1 DEF Ledger, OwnersLive, CacheExact, NoOrphanCopy
<1>7. PhaseClean'
  BY <1>1, <1>2 DEF Ledger, PhaseClean
<1> QED BY <1>1, <1>2, <1>5, <1>6, <1>7, InsertingGrowth DEF Ledger

LEMMA AddrAdditionLedger ==
  ASSUME TypeOK, GraphsAgree, Ledger, NEW e \in insEdgeVec, processAddrAddition(e)
  PROVE  Ledger'
<1>1. /\ pc = "insEdge" /\ stack = <<>> /\ e.kind = "Addr" /\ fEdges' = fEdges \cup {e}
      /\ propagateInsPts({e.src}, e.dst, FALSE, <<>>)
      /\ UNCHANGED <<complexEdgeSet, compCache, rep, delDirectEdgeVec,
                     insDirectEdgeVec, base, mode, pc>>
  BY DEF processAddrAddition, PopInsEdge, delVars, ctlVars, roundVars
<1>2. Inserting /\ Inserting' /\ ~Deleting /\ ~Deleting' /\ pc # "idle"
  BY <1>1 DEF Inserting, Deleting
<1>3. {e.src} \in SUBSET Obj /\ e.dst \in Node
  BY <1>1 DEF TypeOK, InsTypeOK, ProgramEdge, Edge
<1>4. <<>> \in Seq(Frame) /\ Calls(<<>>) = {}
  BY EmptyCalls
<1>5. FramesBacked' /\ \A k \in Node : getPts(k) \subseteq pts'[rep'[k]]
  BY <1>1, <1>3, <1>4, InsPropLedger
<1>6. OwnersLive' /\ CacheExact' /\ NoOrphanCopy'
  BY <1>1 DEF Ledger, OwnersLive, CacheExact, NoOrphanCopy
<1>7. PhaseClean'
  BY <1>1, <1>2 DEF Ledger, PhaseClean
<1> QED BY <1>1, <1>2, <1>5, <1>6, <1>7, InsertingGrowth DEF Ledger

LEMMA WantedPairs ==
  ASSUME NEW C \in SUBSET Edge, \A e \in C : IsComplex(e), NEW S \in SUBSET Obj,
         NEW x \in WantedCopies(C, S)
  PROVE  /\ x[2] \in C /\ IsComplex(x[2])
         /\ x[1] = DerivedCopy(x[2], CacheBit(x[1], x[2]))
         /\ CacheBit(x[1], x[2]) \in S \ NonPtrObj
<1>1. PICK ce \in C, o \in S \ NonPtrObj : x = <<DerivedCopy(ce, o), ce>>
  BY DEF WantedCopies
<1>2. CacheBit(DerivedCopy(ce, o), ce) = o
  BY DerivedCopyType
<1> QED BY <1>1, <1>2

(* The vector grows by copies that loads and stores of the graph want for
   objects their pointer points to. *)
LEMMA WantingLedger ==
  ASSUME TypeOK, Ledger, Inserting, UNCHANGED <<pc, pts, rep, base, mode, compCache,
           complexEdgeSet, delDirectEdgeVec>>,
         fEdges \subseteq fEdges', \A e \in fEdges' \ fEdges : e.kind # "Copy",
         NEW C \in SUBSET Edge, NEW S \in SUBSET Obj,
         \A e \in C : IsComplex(e) /\ e \in fEdges' /\ S \subseteq getPts(Pointer(e)),
         insDirectEdgeVec' = insDirectEdgeVec \cup WantedCopies(C, S),
         FramesBacked', PhaseClean'
  PROVE  Ledger'
<1>1. pc # "delEdge"
  BY DEF Inserting
<1>2. OwnersLive' /\ CacheExact' /\ NoOrphanCopy'
  BY DEF Ledger, OwnersLive, CacheExact, NoOrphanCopy
<1>3. CacheBacked'
  BY <1>1, BeingRemovedCalls DEF Ledger, CacheBacked, getPts
<1>4. \A e \in C : IsComplex(e)
  OBVIOUS
<1>5. \A x \in WantedCopies(C, S) :
        /\ IsComplex(x[2]) /\ x[2] \in fEdges'
        /\ x[1] = DerivedCopy(x[2], CacheBit(x[1], x[2]))
        /\ CacheBit(x[1], x[2]) \in getPts(Pointer(x[2])) \ NonPtrObj
  BY <1>4, WantedPairs
<1>6. PendingOwnerLive'
  BY <1>5 DEF Ledger, PendingOwnerLive, getPts
<1>7. NonPtrSkipped'
  BY <1>5 DEF Ledger, NonPtrSkipped
<1> QED BY <1>2, <1>3, <1>6, <1>7 DEF Ledger

LEMMA InsComplexLedger ==
  ASSUME TypeOK, GraphsAgree, Ledger, InsComplex
  PROVE  Ledger'
<1> DEFINE C == ComplexAt(Head(stack).node)
           S == Head(stack).d
<1>1. /\ pc \in {"insProp", "insEdge"} /\ stack # <<>> /\ stack \in Seq(Frame)
      /\ stack' = Tail(stack)
      /\ insDirectEdgeVec' = insDirectEdgeVec \cup WantedCopies(C, S)
      /\ UNCHANGED <<fEdges, complexEdgeSet, compCache, rep, delDirectEdgeVec, base, mode,
                     pc, pts>>
  BY DEF InsComplex, InInsertion, TypeOK, PtsTypeOK, flatVars, superVars, delVars, ctlVars,
     roundVars
<1>2. Inserting /\ Inserting' /\ ~Deleting /\ ~Deleting' /\ pc # "idle"
  BY <1>1 DEF Inserting, Deleting
<1>3. /\ Head(stack) \in Frame /\ Calls(stack) = {Head(stack)} \cup Calls(Tail(stack))
  BY <1>1, HeadCalls
<1>4. S \in SUBSET Obj /\ S \subseteq pts[rep[Head(stack).node]]
  BY <1>2, <1>3, FramesBackedCalls DEF Ledger, Frame, getPts
<1>5. C \in SUBSET Edge /\ C = {e \in fEdges : IsComplex(e) /\ rep[Pointer(e)] = Head(stack).node}
  BY ComplexAtMembers DEF TypeOK, GraphsAgree
<1>6. \A e \in C : IsComplex(e) /\ e \in fEdges' /\ S \subseteq getPts(Pointer(e))
  <2> HIDE DEF S
  <2>1. \A e \in C : Pointer(e) \in Node
    BY <1>5, PointerType
  <2> QED BY <1>1, <1>4, <1>5, <2>1 DEF getPts, GraphsAgree, SubsMatchReps
<1>7. FramesBacked'
  BY <1>1, <1>2, <1>3, FramesBackedCalls DEF Ledger, FramesBacked, Calls, getPts
<1>8. PhaseClean'
  BY <1>1, <1>2 DEF Ledger, PhaseClean
<1> HIDE DEF C, S
<1> QED BY <1>1, <1>2, <1>4, <1>5, <1>6, <1>7, <1>8, WantingLedger

LEMMA ComplexAdditionLedger ==
  ASSUME TypeOK, GraphsAgree, Ledger, NEW e \in insEdgeVec, processComplexAddition(e)
  PROVE  Ledger'
<1> DEFINE C == {x[2] : x \in {y \in fEdgeSet' : y[1] = Lift(e)}}
           S == getPts(Pointer(e))
<1>1. /\ pc = "insEdge" /\ stack = <<>> /\ stack' = <<>> /\ IsComplex(e) /\ e \in Edge
      /\ fEdges' = fEdges \cup {e} /\ fEdgeSet' = fEdgeSet \cup {<<Lift(e), e>>}
      /\ insDirectEdgeVec' = insDirectEdgeVec \cup WantedCopies(C, S)
      /\ UNCHANGED <<complexEdgeSet, compCache, rep, delDirectEdgeVec, base, mode, pc, pts>>
  BY DEF processComplexAddition, PopInsEdge, addSCGEdge, delVars, ctlVars, roundVars, TypeOK,
     InsTypeOK, ProgramEdge
<1>2. Inserting /\ Inserting' /\ ~Deleting /\ ~Deleting' /\ pc # "idle"
  BY <1>1 DEF Inserting, Deleting
<1>3. S \in SUBSET Obj
  BY <1>1, PointerType DEF getPts, TypeOK, SuperTypeOK, PtsTypeOK
<1>4. \A f \in C : f \in fEdges' /\ Lift(f) = Lift(e)
  <2> SUFFICES ASSUME NEW x \in fEdgeSet', x[1] = Lift(e)
               PROVE  x[2] \in fEdges' /\ Lift(x[2]) = Lift(e)
    OBVIOUS
  <2>1. CASE x \in fEdgeSet
    BY <1>1, <2>1 DEF GraphsAgree, SuperMirrorsFlat
  <2>2. CASE x = <<Lift(e), e>>
    BY <1>1, <2>2
  <2> QED BY <1>1, <2>1, <2>2
<1> HIDE DEF C
<1>5. C \in SUBSET Edge
  BY <1>1, <1>4 DEF TypeOK, FlatTypeOK
<1>6. \A f \in C : IsComplex(f) /\ getPts(Pointer(f)) = S
  BY <1>1, <1>4 DEF Lift, LiftBy, IsComplex, Pointer, getPts
<1>7. FramesBacked'
  BY <1>1 DEF FramesBacked
<1>8. PhaseClean'
  BY <1>1, <1>2 DEF Ledger, PhaseClean
<1>9. \A f \in fEdges' \ fEdges : f.kind # "Copy"
  BY <1>1 DEF IsComplex, ComplexKind
<1>10. \A f \in C : IsComplex(f) /\ f \in fEdges' /\ S \subseteq getPts(Pointer(f))
  BY <1>4, <1>6
<1> HIDE DEF S
<1> QED BY <1>1, <1>2, <1>3, <1>5, <1>7, <1>8, <1>9, <1>10, WantingLedger

(* A copy edge is added on behalf of the constraint that wants it. *)
LEMMA DirectAdditionLedger ==
  ASSUME TypeOK, GraphsAgree, Ledger, NEW x \in insDirectEdgeVec,
         processCopyAddition(x[1], x[2]) \/ processGepAddition(x[1])
  PROVE  Ledger'
<1> DEFINE e == x[1]
           ce == x[2]
<1>1. /\ pc = "insDirect" /\ stack = <<>> /\ stack' = <<>>
      /\ insDirectEdgeVec' \subseteq insDirectEdgeVec /\ fEdges \subseteq fEdges'
      /\ UNCHANGED <<rep, delDirectEdgeVec, base, mode, pc, pts>>
  BY DEF processCopyAddition, processGepAddition, addCopyFCGEdge, Ledger, PhaseClean, delVars,
     ctlVars, roundVars
<1>2. Inserting /\ Inserting' /\ ~Deleting /\ ~Deleting' /\ pc # "idle"
  BY <1>1 DEF Inserting, Deleting
<1>3. FramesBacked' /\ PhaseClean'
  BY <1>1, <1>2 DEF Ledger, PhaseClean, FramesBacked
<1>4. CASE UNCHANGED <<complexEdgeSet, compCache>> /\ \A f \in fEdges' \ fEdges : f.kind # "Copy"
  <2>1. OwnersLive' /\ CacheExact' /\ NoOrphanCopy'
    BY <1>1, <1>4 DEF Ledger, OwnersLive, CacheExact, NoOrphanCopy
  <2>2. \A n \in Node : getPts(n) \subseteq pts'[rep'[n]]
    BY <1>1 DEF getPts
  <2> QED BY <1>1, <1>2, <1>3, <1>4, <2>1, <2>2, InsertingGrowth DEF Ledger
<1>5. CASE /\ processCopyAddition(e, ce) /\ fEdges' = fEdges \cup {e}
           /\ complexEdgeSet' = complexEdgeSet \cup {<<e, ce>>}
           /\ compCache' = IF ~IsComplex(ce) \/ <<e, ce>> \in complexEdgeSet THEN compCache
                           ELSE compCache \cup {<<ce, CacheBit(e, ce)>>}
  <2>1. e.kind = "Copy" /\ ce \in Edge /\ Pointer(ce) \in Node
    BY <1>5, PointerType DEF processCopyAddition, TypeOK, InsTypeOK, Request
  <2>2. \/ e = ce
        \/ /\ e # ce /\ IsComplex(ce) /\ ce \in fEdges
           /\ e = DerivedCopy(ce, CacheBit(e, ce))
           /\ CacheBit(e, ce) \in getPts(Pointer(ce)) \ NonPtrObj
    BY DEF Ledger, PendingOwnerLive, NonPtrSkipped
  <2>3. e = ce => ~IsComplex(ce)
    BY <2>1 DEF IsComplex, ComplexKind
  <2>4. OwnersLive'
    BY <1>5, <2>1, <2>2 DEF Ledger, OwnersLive
  <2>5. NoOrphanCopy'
    BY <1>1, <1>5 DEF Ledger, NoOrphanCopy
  <2>6. compCache' \subseteq compCache \cup {<<ce, CacheBit(e, ce)>>}
          /\ (compCache' # compCache => IsComplex(ce) /\ e # ce)
    BY <1>5, <2>3
  <2>7. CacheExact'
    <3>1. ASSUME NEW y \in compCache'
          PROVE  IsComplex(y[1]) /\ <<DerivedCopy(y[1], y[2]), y[1]>> \in complexEdgeSet'
      <4>1. CASE y \in compCache
        BY <1>5, <4>1 DEF Ledger, CacheExact
      <4>2. CASE y \notin compCache
        BY <1>5, <2>2, <2>6, <4>2
      <4> QED BY <4>1, <4>2
    <3>2. ASSUME NEW y \in complexEdgeSet', y[1] # y[2]
          PROVE  <<y[2], CacheBit(y[1], y[2])>> \in compCache'
      <4>1. CASE y \in complexEdgeSet
        BY <1>5, <3>2, <4>1 DEF Ledger, CacheExact
      <4>2. CASE y \notin complexEdgeSet
        <5>1. y = <<e, ce>> /\ <<e, ce>> \notin complexEdgeSet /\ e # ce
          BY <1>5, <3>2, <4>2
        <5> QED BY <1>5, <2>2, <5>1
      <4> QED BY <4>1, <4>2
    <3> QED BY <3>1, <3>2 DEF CacheExact
  <2>8. CacheBacked'
    <3> SUFFICES ASSUME NEW y \in compCache'
                 PROVE  y[2] \in pts[rep[Pointer(y[1])]]
      BY <1>1 DEF CacheBacked, getPts
    <3>1. CASE y \in compCache
      BY <1>1, <3>1, BeingRemovedCalls DEF Ledger, CacheBacked, getPts
    <3>2. CASE y \notin compCache
      BY <2>2, <2>6, <3>2 DEF getPts
    <3> QED BY <3>1, <3>2
  <2>9. PendingOwnerLive'
    BY <1>1 DEF Ledger, PendingOwnerLive, getPts
  <2>10. NonPtrSkipped'
    BY <1>1, <2>2, <2>6 DEF Ledger, NonPtrSkipped
  <2> QED BY <1>3, <2>4, <2>5, <2>7, <2>8, <2>9, <2>10 DEF Ledger
<1>6. CASE processGepAddition(e)
  BY <1>4, <1>6 DEF processGepAddition
<1>7. CASE processCopyAddition(e, ce)
  <2>1. addCopyFCGEdge(e, ce)
    BY <1>7 DEF processCopyAddition
  <2>2. CASE e.src = e.dst \/ (ce = e /\ e \in fEdges)
    BY <1>4, <2>1, <2>2 DEF addCopyFCGEdge
  <2>3. CASE ~(e.src = e.dst \/ (ce = e /\ e \in fEdges))
    BY <1>5, <1>7, <2>1, <2>3 DEF addCopyFCGEdge
  <2> QED BY <2>2, <2>3
<1> QED BY <1>6, <1>7

LEMMA InsertionLedger ==
  ASSUME TypeOK, GraphsAgree, Ledger, InsertionStep
  PROVE  Ledger'
BY QuietInsertionLedger, InsOutLedger, InsComplexLedger, DirectAdditionLedger, MergeLedger,
   PropMapLedger, AddrAdditionLedger, ComplexAdditionLedger DEF InsertionStep

-----------------------------------------------------------------------------
LEMMA InitLedger == Init => Ledger
<1> SUFFICES ASSUME Init PROVE Ledger
  OBVIOUS
<1> USE AndersenIncAssumption, ConstraintsAssumption DEF AndersenIncAssumption, ConstraintsAssumption
<1>1. base \subseteq Edge
  BY DEF Init, WellFormed
<1>2. /\ pc = "idle" /\ stack = <<>> /\ delDirectEdgeVec = {} /\ insDirectEdgeVec = {}
  BY DEF Init
<1>3. PICK p \in [Node -> SUBSET Obj] :
        /\ SolvedFlat(base, p)
        /\ \E m \in RepChoices(Node, Components(Node, {e \in fEdges : IsDirect(e)})) :
             /\ SolvedSuper(m)
             /\ \E stale \in BOOLEAN : pts = SolvedPts(p, m, stale)
  BY DEF Init
<1>4. PICK m \in [Node -> Node] :
        /\ SolvedSuper(m) /\ \A n \in Node : m[m[n]] = m[n]
        /\ \E stale \in BOOLEAN : pts = SolvedPts(p, m, stale)
  BY <1>3 DEF RepChoices
<1>5. \A n \in Node : p[n] \subseteq getPts(n)
  BY <1>4 DEF SolvedSuper, SolvedPts, getPts
<1> DEFINE own == {e \in base : e.kind = "Copy"}
           cx == {x \in {e \in base : IsComplex(e)} \X (Obj \ NonPtrObj) : x[2] \in p[Pointer(x[1])]}
<1>6. /\ fEdges = base \cup {DerivedCopy(x[1], x[2]) : x \in cx}
      /\ complexEdgeSet = {<<e, e>> : e \in own}
                            \cup {<<DerivedCopy(x[1], x[2]), x[1]>> : x \in cx}
      /\ compCache = cx
  BY <1>3 DEF SolvedFlat
<1>7. \A x \in cx : /\ x = <<x[1], x[2]>> /\ x[1] \in base /\ x[1] \in Edge /\ IsComplex(x[1])
                    /\ x[2] \in Obj \ NonPtrObj /\ x[2] \in p[Pointer(x[1])]
  BY <1>1
<1>8. \A x \in cx : /\ DerivedCopy(x[1], x[2]).kind = "Copy"
                    /\ CacheBit(DerivedCopy(x[1], x[2]), x[1]) = x[2]
  BY <1>7, DerivedCopyType
<1> HIDE DEF cx
<1>9. OwnersLive
  BY <1>6, <1>7, <1>8 DEF OwnersLive
<1>10. CacheExact
  <2>1. \A x \in compCache :
          IsComplex(x[1]) /\ <<DerivedCopy(x[1], x[2]), x[1]>> \in complexEdgeSet
    BY <1>6, <1>7
  <2>2. ASSUME NEW y \in complexEdgeSet, y[1] # y[2]
        PROVE  <<y[2], CacheBit(y[1], y[2])>> \in compCache
    <3>1. PICK x \in cx : y = <<DerivedCopy(x[1], x[2]), x[1]>>
      BY <1>6, <2>2
    <3> QED BY <1>6, <1>7, <1>8, <3>1
  <2> QED BY <2>1, <2>2 DEF CacheExact
<1>11. CacheBacked
  <2>1. \A x \in cx : Pointer(x[1]) \in Node
    BY <1>7, PointerType
  <2> QED BY <1>5, <1>6, <1>7, <2>1 DEF CacheBacked
<1>12. NoOrphanCopy
  <2> SUFFICES ASSUME NEW e \in fEdges, e.kind = "Copy"
               PROVE  \E x \in complexEdgeSet : x[1] = e
    BY DEF NoOrphanCopy
  <2>1. CASE e \in base
    <3>1. <<e, e>> \in complexEdgeSet
      BY <1>6, <2>1
    <3> QED BY <3>1
  <2>2. CASE e \notin base
    <3>1. PICK x \in cx : e = DerivedCopy(x[1], x[2])
      BY <1>6, <2>2
    <3>2. <<e, x[1]>> \in complexEdgeSet
      BY <1>6, <3>1
    <3> QED BY <3>2
  <2> QED BY <2>1, <2>2
<1>13. PendingOwnerLive /\ PhaseClean /\ FramesBacked
  BY <1>2 DEF PendingOwnerLive, PhaseClean, FramesBacked, Inserting
<1>14. NonPtrSkipped
  BY <1>2, <1>6, <1>7 DEF NonPtrSkipped
<1> QED BY <1>9, <1>10, <1>11, <1>12, <1>13, <1>14 DEF Ledger

LEMMA LedgerInductive ==
  ASSUME Inv, [Next]_vars
  PROVE  Inv'
<1>1. TypeOK' /\ GraphsAgree'
  BY GraphsInductive DEF Inv
<1>2. Ledger'
  <2>1. CASE UNCHANGED vars
    BY <2>1 DEF Inv, Ledger, OwnersLive, CacheExact, CacheBacked, NoOrphanCopy,
       PendingOwnerLive, PhaseClean, FramesBacked, NonPtrSkipped, BeingRemoved, InDeletion,
       getPts, Deleting, Inserting, vars, flatVars, superVars, delVars, insVars, ctlVars,
       roundVars
  <2>2. ASSUME NEW D \in SUBSET base, StartRound(D) PROVE Ledger'
    BY <2>2, StartLedger DEF Inv
  <2> QED BY <2>1, <2>2, DeletionLedger, InsertionLedger DEF Inv, Next
<1> QED BY <1>1, <1>2 DEF Inv

LEMMA LedgerInvariant == Spec => []Inv
<1>1. Init => Inv
  BY InitType, InitGraphs, InitLedger DEF Inv
<1>2. Inv /\ [Next]_vars => Inv'
  BY LedgerInductive
<1> QED BY <1>1, <1>2, PTL DEF Spec

(* A copy edge never records a constraint that has been removed: the raw
   pointers in complexEdgeSet never dangle, in whatever order loads, stores
   and copies are deleted and inserted again. *)
THEOREM OwnersCorrect == Spec => []OwnersLive
<1>1. Inv => OwnersLive
  BY DEF Inv, Ledger
<1> QED BY <1>1, LedgerInvariant, PTL

(* The bit vector of a load or store always agrees with the complexEdgeSets
   of the copies derived from it. *)
THEOREM CacheCorrect == Spec => []CacheExact
<1>1. Inv => CacheExact
  BY DEF Inv, Ledger
<1> QED BY <1>1, LedgerInvariant, PTL

(* A load or store has a derived copy only for an object its pointer points
   to or an active call of propagateDelPts has just taken from it, so that
   removing the constraint finds all its copies by the points-to set. *)
THEOREM BackingCorrect == Spec => []CacheBacked
<1>1. Inv => CacheBacked
  BY DEF Inv, Ledger
<1> QED BY <1>1, LedgerInvariant, PTL

(* A copy edge that lost its last reason is always queued for deletion. *)
THEOREM OrphansQueued == Spec => []NoOrphanCopy
<1>1. Inv => NoOrphanCopy
  BY DEF Inv, Ledger
<1> QED BY <1>1, LedgerInvariant, PTL

(* A copy waiting in insDirectEdgeVec is wanted by a load or store that is in
   the graph, for an object its pointer points to. *)
THEOREM PendingCorrect == Spec => []PendingOwnerLive
<1>1. Inv => PendingOwnerLive
  BY DEF Inv, Ledger
<1> QED BY <1>1, LedgerInvariant, PTL

-----------------------------------------------------------------------------
(***************************************************************************)
(* The solution, and that nothing the analysis holds goes beyond it. The   *)
(* reference definitions of Constraints, for all programs and graphs: the  *)
(* least solution is closed under its constraints and contained in every   *)
(* other assignment that is; Reached is reachability; Components are the   *)
(* classes of mutual reachability. Both are iterations that have stopped   *)
(* changing after as many steps as there are facts. Then, in whatever      *)
(* order constraints are deleted and inserted: no points-to set and no set *)
(* on its way to one, no edge of either graph and no edge that waits goes  *)
(* beyond the solution, and only nodes on one of its cycles are merged.    *)
(***************************************************************************)

-----------------------------------------------------------------------------
(* The least solution *)

Assignment == [Node -> SUBSET Obj]

(* Nothing is left to apply: q has the objects whose addresses are taken,
   and what the edges and the copies derived under q itself carry. *)
Closes(B, q) ==
  /\ \A e \in B : e.kind = "Addr" => e.src \in q[e.dst]
  /\ \A e \in B : IsDirect(e) => Transfer(e.kind, q[e.src]) \subseteq q[e.dst]
  /\ \A c \in DerivedCopies(B, q) : q[c.src] \subseteq q[c.dst]

(* A direct edge carries more when its source points to more. *)
LEMMA TransferMonotone ==
  ASSUME NEW k \in DirectKind, NEW S \in SUBSET Obj, NEW T \in SUBSET Obj, S \subseteq T
  PROVE  /\ Transfer(k, S) \in SUBSET Obj
         /\ Transfer(k, S) \subseteq Transfer(k, T)
BY ConstraintsAssumption DEF DirectKind, Transfer, ConstraintsAssumption

(* A copy carries everything. *)
LEMMA CopyTransfers == \A S : Transfer("Copy", S) = S
BY DEF Transfer

(* Loads and stores derive copies between nodes. *)
LEMMA DerivedCopiesType ==
  ASSUME NEW B \in SUBSET ProgramEdge, NEW p
  PROVE  \A c \in DerivedCopies(B, p) : c \in DirectEdge /\ c.kind = "Copy"
BY ConstraintsAssumption
   DEF ConstraintsAssumption, DerivedCopies, DerivedCopy, CopyEdge, ProgramEdge, Edge, DirectEdge,
       IsDirect, IsComplex, Kind, DirectKind, ComplexKind

(* More facts derive more copies, and so do more loads and stores. *)
LEMMA DerivedCopiesMonotone ==
  ASSUME NEW B, NEW C, B \subseteq C, NEW p, NEW q, \A e \in B : p[Pointer(e)] \subseteq q[Pointer(e)]
  PROVE  DerivedCopies(B, p) \subseteq DerivedCopies(C, q)
BY DEF DerivedCopies

(* A step adds what the definition of Closes asks for. *)
LEMMA StepFacts ==
  ASSUME NEW B \in SUBSET ProgramEdge, NEW p \in Assignment, NEW n \in Node
  PROVE  \A o : o \in SolveStep(B, p)[n] <=>
           \/ o \in p[n]
           \/ \E e \in B : e.kind = "Addr" /\ e.dst = n /\ e.src = o
           \/ \E e \in B : IsDirect(e) /\ e.dst = n /\ o \in Transfer(e.kind, p[e.src])
           \/ \E c \in DerivedCopies(B, p) : c.dst = n /\ o \in p[c.src]
<1>1. \A c \in DerivedCopies(B, p) : Transfer(c.kind, p[c.src]) = p[c.src]
  BY DerivedCopiesType, CopyTransfers
<1> QED BY <1>1 DEF SolveStep

(* SolveStep maps assignments to assignments. *)
LEMMA StepType ==
  ASSUME NEW B \in SUBSET ProgramEdge, NEW p \in Assignment
  PROVE  SolveStep(B, p) \in Assignment
<1>1. ASSUME NEW n \in Node, NEW o, o \in SolveStep(B, p)[n] PROVE o \in Obj
  <2>1. CASE \E e \in B : e.kind = "Addr" /\ e.dst = n /\ e.src = o
    BY <2>1 DEF ProgramEdge
  <2>2. CASE \E e \in B : IsDirect(e) /\ e.dst = n /\ o \in Transfer(e.kind, p[e.src])
    <3>1. PICK e \in B : IsDirect(e) /\ o \in Transfer(e.kind, p[e.src])
      BY <2>2
    <3>2. e.kind \in DirectKind /\ p[e.src] \in SUBSET Obj
      BY <3>1 DEF ProgramEdge, Edge, IsDirect, Assignment
    <3> QED BY <3>1, <3>2, TransferMonotone
  <2>3. CASE \E c \in DerivedCopies(B, p) : c.dst = n /\ o \in p[c.src]
    <3>1. PICK c \in DerivedCopies(B, p) : o \in p[c.src]
      BY <2>3
    <3>2. c.src \in Node
      BY DerivedCopiesType DEF DirectEdge, Edge
    <3> QED BY <3>1, <3>2 DEF Assignment
  <2> QED BY <1>1, <2>1, <2>2, <2>3, StepFacts DEF Assignment
<1>2. SolveStep(B, p) = [n \in Node |-> SolveStep(B, p)[n]]
  BY DEF SolveStep
<1> QED BY <1>1, <1>2 DEF Assignment

(* Being closed under the constraints is not being changed by SolveStep. *)
LEMMA ClosesIsStable ==
  ASSUME NEW B \in SUBSET ProgramEdge, NEW q \in Assignment
  PROVE  Closes(B, q) <=> SolveStep(B, q) = q
<1>1. ASSUME Closes(B, q) PROVE SolveStep(B, q) = q
  <2>1. ASSUME NEW n \in Node, NEW o, o \in SolveStep(B, q)[n] PROVE o \in q[n]
    <3>1. CASE \E e \in B : e.kind = "Addr" /\ e.dst = n /\ e.src = o
      BY <1>1, <3>1 DEF Closes
    <3>2. CASE \E e \in B : IsDirect(e) /\ e.dst = n /\ o \in Transfer(e.kind, q[e.src])
      BY <1>1, <3>2 DEF Closes
    <3>3. CASE \E c \in DerivedCopies(B, q) : c.dst = n /\ o \in q[c.src]
      BY <1>1, <3>3 DEF Closes
    <3> QED BY <2>1, <3>1, <3>2, <3>3, StepFacts
  <2>2. ASSUME NEW n \in Node PROVE SolveStep(B, q)[n] = q[n]
    <3>1. q[n] \subseteq SolveStep(B, q)[n]
      BY StepFacts
    <3> QED BY <2>1, <3>1
  <2>3. SolveStep(B, q) \in Assignment
    BY StepType
  <2> QED BY <2>2, <2>3 DEF Assignment
<1>2. ASSUME SolveStep(B, q) = q PROVE Closes(B, q)
  <2>1. \A e \in B : e.dst \in Node
    BY DEF ProgramEdge, Edge
  <2>2. \A c \in DerivedCopies(B, q) : c.dst \in Node
    BY DerivedCopiesType DEF DirectEdge, Edge
  <2>3. ASSUME NEW e \in B, e.kind = "Addr" PROVE e.src \in q[e.dst]
    BY <1>2, <2>1, <2>3, StepFacts
  <2>4. ASSUME NEW e \in B, IsDirect(e) PROVE Transfer(e.kind, q[e.src]) \subseteq q[e.dst]
    BY <1>2, <2>1, <2>4, StepFacts
  <2>5. ASSUME NEW c \in DerivedCopies(B, q) PROVE q[c.src] \subseteq q[c.dst]
    BY <1>2, <2>2, <2>5, StepFacts
  <2> QED BY <2>3, <2>4, <2>5 DEF Closes
<1> QED BY <1>1, <1>2

(* A step from below an assignment that is closed stays below it. *)
LEMMA StepStaysBelow ==
  ASSUME NEW B \in SUBSET ProgramEdge, NEW q \in Assignment, Closes(B, q),
         NEW p \in Assignment, \A n \in Node : p[n] \subseteq q[n]
  PROVE  \A n \in Node : SolveStep(B, p)[n] \subseteq q[n]
<1>1. ASSUME NEW n \in Node, NEW o, o \in SolveStep(B, p)[n] PROVE o \in q[n]
  <2>1. CASE \E e \in B : e.kind = "Addr" /\ e.dst = n /\ e.src = o
    BY <2>1 DEF Closes
  <2>2. CASE \E e \in B : IsDirect(e) /\ e.dst = n /\ o \in Transfer(e.kind, p[e.src])
    <3>1. PICK e \in B : IsDirect(e) /\ e.dst = n /\ o \in Transfer(e.kind, p[e.src])
      BY <2>2
    <3>2. /\ e.kind \in DirectKind /\ e.src \in Node
          /\ p[e.src] \in SUBSET Obj /\ q[e.src] \in SUBSET Obj /\ p[e.src] \subseteq q[e.src]
      BY <3>1 DEF ProgramEdge, Edge, IsDirect, Assignment
    <3>3. o \in Transfer(e.kind, q[e.src])
      BY <3>1, <3>2, TransferMonotone
    <3> QED BY <3>1, <3>3 DEF Closes
  <2>3. CASE \E c \in DerivedCopies(B, p) : c.dst = n /\ o \in p[c.src]
    <3>1. PICK c \in DerivedCopies(B, p) : c.dst = n /\ o \in p[c.src]
      BY <2>3
    <3>2. \A e \in B : Pointer(e) \in Node
      BY DEF ProgramEdge, Edge, Pointer
    <3>3. c \in DerivedCopies(B, q)
      BY <3>2, DerivedCopiesMonotone
    <3>4. c.src \in Node
      BY DerivedCopiesType DEF DirectEdge, Edge
    <3> QED BY <3>1, <3>3, <3>4 DEF Closes
  <2>4. CASE o \in p[n]
    BY <2>4
  <2> QED BY <1>1, <2>1, <2>2, <2>3, <2>4, StepFacts
<1> QED BY <1>1

(* Where the iteration starts. *)
NoFacts == [n \in Node |-> {}]
(* SolveStep as a function on assignments. *)
Step(B) == [p \in Assignment |-> SolveStep(B, p)]

(* What the recursive function in LeastSolution is. *)
Solving(B) ==
  CHOOSE it : it = [i \in Nat |->
    IF i = 0 THEN [n \in Node |-> {}]
    ELSE LET q == it[i-1]
             r == SolveStep(B, q)
         IN  IF r = q THEN q ELSE r]

(* The least solution is an iterate of SolveStep from the empty assignment. *)
LEMMA SolvingIterates ==
  ASSUME NEW B \in SUBSET ProgramEdge
  PROVE  /\ Iterates(Solving(B), Step(B), NoFacts)
         /\ LeastSolution(B) = Solving(B)[Cardinality(Node) * Cardinality(Obj)]
<1> DEFINE Rec(it) == it = [i \in Nat |-> IF i = 0 THEN NoFacts ELSE SolveStep(B, it[i - 1])]
<1>1. Step(B) \in [Assignment -> Assignment] /\ NoFacts \in Assignment
  BY StepType DEF Step, NoFacts, Assignment
<1>2. PICK s : Iterates(s, Step(B), NoFacts)
  BY <1>1, IterationExists
<1>3. s[0] = NoFacts /\ \A i \in Nat : s[i] \in Assignment /\ s[i + 1] = SolveStep(B, s[i])
  BY <1>1, <1>2, IterationSteps DEF Step
<1>4. Rec(s)
  <2>1. \A i \in Nat : i # 0 => i - 1 \in Nat /\ Step(B)[s[i - 1]] = SolveStep(B, s[i - 1])
    BY <1>3 DEF Step
  <2> QED BY <1>2, <2>1 DEF Iterates
<1>5. Rec(Solving(B))
  <2>1. \E it : Rec(it)
    BY <1>4
  <2>2. Solving(B) = CHOOSE it : Rec(it)
    BY DEF Solving, NoFacts
  <2> HIDE DEF Rec
  <2> QED BY <2>1, <2>2
<1>6. \A i \in Nat : Solving(B)[i] = s[i]
  <2> DEFINE S == {i \in Nat : Solving(B)[i] = s[i]}
  <2>1. 0 \in S
    BY <1>3, <1>5
  <2>2. ASSUME NEW i \in Nat, i \in S PROVE i + 1 \in S
    <3>1. Solving(B)[i + 1] = SolveStep(B, Solving(B)[i])
      BY <1>5
    <3> QED BY <1>3, <2>2, <3>1
  <2>3. Nat \subseteq S
    <3> HIDE DEF S
    <3> QED BY <2>1, <2>2, NatWithSuccessors
  <2> QED BY <2>3
<1>7. Solving(B) = s
  <2>1. Solving(B) = [i \in Nat |-> Solving(B)[i]]
    BY <1>5
  <2>2. s = [i \in Nat |-> s[i]]
    BY <1>2 DEF Iterates
  <2> QED BY <1>6, <2>1, <2>2
<1>8. LeastSolution(B) = Solving(B)[Cardinality(Node) * Cardinality(Obj)]
  BY DEF LeastSolution, Solving
<1> QED BY <1>2, <1>7, <1>8

(* The least solution is an assignment, closed under its constraints, and
   below every assignment that is. *)
LEMMA SolutionType ==
  ASSUME NEW B \in SUBSET ProgramEdge
  PROVE  LeastSolution(B) \in Assignment
<1>1. Step(B) \in [Assignment -> Assignment] /\ NoFacts \in Assignment
  BY StepType DEF Step, NoFacts, Assignment
<1>2. IsFiniteSet(Obj)
  BY ConstraintsAssumption, NodesAssumption, FS_Subset DEF ConstraintsAssumption
<1>3. Cardinality(Node) * Cardinality(Obj) \in Nat
  BY <1>2, NodesAssumption, FS_CardinalityType
<1> QED BY <1>1, <1>3, SolvingIterates, IterationSteps

(* The least solution is contained in every assignment that is closed under
   the constraints. *)
THEOREM SolutionLeast ==
  ASSUME NEW B \in SUBSET ProgramEdge, NEW q \in Assignment, Closes(B, q)
  PROVE  \A n \in Node : LeastSolution(B)[n] \subseteq q[n]
<1> DEFINE T == {p \in Assignment : \A n \in Node : p[n] \subseteq q[n]}
<1>1. Step(B) \in [Assignment -> Assignment] /\ NoFacts \in Assignment
  BY StepType DEF Step, NoFacts, Assignment
<1>2. NoFacts \in T
  BY <1>1 DEF NoFacts
<1>3. \A p \in Assignment : p \in T => Step(B)[p] \in T
  BY StepStaysBelow, StepType DEF Step
<1>4. \A i \in Nat : Solving(B)[i] \in T
  <2> HIDE DEF T
  <2> QED BY <1>1, <1>2, <1>3, SolvingIterates, IterationKeeps
<1>5. IsFiniteSet(Obj)
  BY ConstraintsAssumption, NodesAssumption, FS_Subset DEF ConstraintsAssumption
<1>6. Cardinality(Node) * Cardinality(Obj) \in Nat
  BY <1>5, NodesAssumption, FS_CardinalityType
<1> QED BY <1>4, <1>6, SolvingIterates

(* The least solution is closed under its constraints, those derived under
   itself included. *)
THEOREM SolutionCloses ==
  ASSUME NEW B \in SUBSET ProgramEdge
  PROVE  Closes(B, LeastSolution(B))
<1> DEFINE Facts(p) == {x \in Node \X Obj : x[2] \in p[x[1]]}
           G == [p \in Assignment |-> Facts(p)]
           U == Node \X Obj
<1>1. Step(B) \in [Assignment -> Assignment] /\ NoFacts \in Assignment
  BY StepType DEF Step, NoFacts, Assignment
<1>2. IsFiniteSet(Obj)
  BY ConstraintsAssumption, NodesAssumption, FS_Subset DEF ConstraintsAssumption
<1>3. IsFiniteSet(U) /\ Cardinality(U) = Cardinality(Node) * Cardinality(Obj)
  BY <1>2, NodesAssumption, FS_Product
<1>4. G \in [Assignment -> SUBSET U]
  OBVIOUS
<1>5. ASSUME NEW p \in Assignment
      PROVE  G[p] \subseteq G[Step(B)[p]] /\ (G[p] = G[Step(B)[p]] => Step(B)[p] = p)
  <2>1. Step(B)[p] = SolveStep(B, p) /\ SolveStep(B, p) \in Assignment
    BY StepType DEF Step
  <2>2. \A n \in Node : p[n] \subseteq SolveStep(B, p)[n]
    BY StepFacts
  <2>3. ASSUME G[p] = G[SolveStep(B, p)] PROVE SolveStep(B, p) = p
    <3>1. ASSUME NEW n \in Node, NEW o \in SolveStep(B, p)[n] PROVE o \in p[n]
      <4>1. o \in Obj
        BY <2>1, <3>1 DEF Assignment
      <4>2. <<n, o>> \in Facts(SolveStep(B, p))
        BY <3>1, <4>1
      <4>3. <<n, o>> \in Facts(p)
        BY <2>1, <2>3, <4>2
      <4> QED BY <4>3
    <3>2. \A n \in Node : p[n] = SolveStep(B, p)[n]
      BY <2>2, <3>1
    <3> QED BY <2>1, <3>2 DEF Assignment
  <2> QED BY <2>1, <2>2, <2>3
<1> HIDE DEF G, U
<1>6. LET N == Cardinality(U) IN N \in Nat /\ Step(B)[Solving(B)[N]] = Solving(B)[N]
  BY <1>1, <1>3, <1>4, <1>5, SolvingIterates, IterationStops
<1>7. SolveStep(B, LeastSolution(B)) = LeastSolution(B)
  BY <1>3, <1>6, SolvingIterates, SolutionType DEF Step
<1> QED BY <1>7, ClosesIsStable, SolutionType

(* More constraints imply more facts. *)
LEMMA SolutionMonotone ==
  ASSUME NEW B \in SUBSET ProgramEdge, NEW C \in SUBSET B
  PROVE  \A n \in Node : LeastSolution(C)[n] \subseteq LeastSolution(B)[n]
<1>1. C \in SUBSET ProgramEdge
  OBVIOUS
<1>2. DerivedCopies(C, LeastSolution(B)) \subseteq DerivedCopies(B, LeastSolution(B))
  BY DerivedCopiesMonotone
<1>3. Closes(C, LeastSolution(B))
  BY <1>2, SolutionCloses DEF Closes
<1> QED BY <1>1, <1>3, SolutionType, SolutionLeast
-----------------------------------------------------------------------------
(* Reachability *)

(* One more step along the edges of E inside V. *)
Onward(V, E, S) == S \cup {e.dst : e \in {x \in E : x.src \in S /\ x.dst \in V}}

(* One step of reachability as a function on vertex sets. *)
Onwards(V, E) == [S \in SUBSET V |-> Onward(V, E, S)]

(* What the recursive function in Reached is. *)
Reaching(V, E, v) ==
  CHOOSE it : it = [i \in Nat |->
    IF i = 0 THEN {v}
    ELSE LET S == it[i-1]
         IN  S \cup {e.dst : e \in {x \in E : x.src \in S /\ x.dst \in V}}]

(* Reached is an iterate of Onward from {v}. *)
LEMMA ReachingIterates ==
  ASSUME NEW V, NEW E, NEW v \in V
  PROVE  /\ Onwards(V, E) \in [SUBSET V -> SUBSET V]
         /\ Iterates(Reaching(V, E, v), Onwards(V, E), {v})
         /\ Reached(V, E, v) = Reaching(V, E, v)[Cardinality(V)]
<1> DEFINE F == Onwards(V, E)
           Rec(it) == it = [i \in Nat |-> IF i = 0 THEN {v} ELSE Onward(V, E, it[i - 1])]
<1>1. F \in [SUBSET V -> SUBSET V] /\ {v} \in SUBSET V
  BY DEF Onward, Onwards
<1>2. PICK s : Iterates(s, F, {v})
  <2> HIDE DEF F
  <2> QED BY <1>1, IterationExists
<1>3. s[0] = {v} /\ \A i \in Nat : s[i] \in SUBSET V /\ s[i + 1] = Onward(V, E, s[i])
  <2>1. s[0] = {v} /\ \A i \in Nat : s[i] \in SUBSET V /\ s[i + 1] = F[s[i]]
    <3> HIDE DEF F
    <3> QED BY <1>1, <1>2, IterationSteps
  <2> QED BY <2>1 DEF Onwards
<1>4. Rec(s)
  <2>1. \A i \in Nat : i # 0 => i - 1 \in Nat /\ F[s[i - 1]] = Onward(V, E, s[i - 1])
    BY <1>3 DEF Onwards
  <2> HIDE DEF F
  <2> QED BY <1>2, <2>1 DEF Iterates
<1>5. Rec(Reaching(V, E, v))
  <2>1. \E it : Rec(it)
    BY <1>4
  <2>2. Reaching(V, E, v) = CHOOSE it : Rec(it)
    BY DEF Reaching, Onward
  <2> HIDE DEF Rec
  <2> QED BY <2>1, <2>2
<1>6. \A i \in Nat : Reaching(V, E, v)[i] = s[i]
  <2> DEFINE S == {i \in Nat : Reaching(V, E, v)[i] = s[i]}
  <2>1. 0 \in S
    BY <1>3, <1>5
  <2>2. ASSUME NEW i \in Nat, i \in S PROVE i + 1 \in S
    <3>1. Reaching(V, E, v)[i + 1] = Onward(V, E, Reaching(V, E, v)[i])
      BY <1>5
    <3> QED BY <1>3, <2>2, <3>1
  <2>3. Nat \subseteq S
    <3> HIDE DEF S
    <3> QED BY <2>1, <2>2, NatWithSuccessors
  <2> QED BY <2>3
<1>7. Reaching(V, E, v) = s
  <2>1. Reaching(V, E, v) = [i \in Nat |-> Reaching(V, E, v)[i]]
    BY <1>5
  <2>2. s = [i \in Nat |-> s[i]]
    BY <1>2 DEF Iterates
  <2> QED BY <1>6, <2>1, <2>2
<1>8. Reached(V, E, v) = Reaching(V, E, v)[Cardinality(V)]
  BY DEF Reached, Reaching
<1> QED BY <1>1, <1>2, <1>7, <1>8

(* What is reached stays inside V, has the start, and every edge inside V
   that leaves it ends in it. *)
LEMMA ReachedCloses ==
  ASSUME NEW V \in SUBSET Node, NEW E, NEW v \in V
  PROVE  /\ v \in Reached(V, E, v) /\ Reached(V, E, v) \subseteq V
         /\ \A e \in E : e.src \in Reached(V, E, v) /\ e.dst \in V => e.dst \in Reached(V, E, v)
<1> DEFINE F == Onwards(V, E)
           it == Reaching(V, E, v)
           A == SUBSET V
           G == [S \in A |-> S]
<1>1. /\ F \in [A -> A] /\ {v} \in A
      /\ Iterates(it, F, {v}) /\ Reached(V, E, v) = it[Cardinality(V)]
  BY ReachingIterates
<1>2. IsFiniteSet(V) /\ Cardinality(V) \in Nat
  BY NodesAssumption, FS_Subset, FS_CardinalityType
<1>3. G \in [A -> SUBSET V]
  OBVIOUS
<1>4. \A S \in A : S \subseteq F[S] /\ F[S] = Onward(V, E, S) /\ F[S] \in SUBSET V
  BY DEF Onward, Onwards
<1>5. \A S \in A : G[S] \subseteq G[F[S]] /\ (G[S] = G[F[S]] => F[S] = S)
  BY <1>4
<1>6. LET N == Cardinality(V) IN N \in Nat /\ F[it[N]] = it[N]
  <2> HIDE DEF A, G, F, it
  <2> QED BY <1>1, <1>2, <1>3, <1>5, IterationStops
<1> DEFINE T == {S \in SUBSET V : v \in S}
<1>7. it[Cardinality(V)] \in T
  <2>1. {v} \in T /\ \A S \in SUBSET V : S \in T => F[S] \in T
    BY <1>4
  <2> HIDE DEF T
  <2> QED BY <1>1, <1>2, <2>1, IterationKeeps
<1>8. Onward(V, E, Reached(V, E, v)) = Reached(V, E, v)
  BY <1>1, <1>4, <1>6, <1>7
<1> QED BY <1>1, <1>7, <1>8 DEF Onward

(* It is in every set that has the start and is closed that way. *)
LEMMA ReachedLeast ==
  ASSUME NEW V \in SUBSET Node, NEW E, NEW v \in V,
         NEW T, v \in T, \A e \in E : e.src \in T /\ e.src \in V /\ e.dst \in V => e.dst \in T
  PROVE  Reached(V, E, v) \subseteq T
<1> DEFINE F == Onwards(V, E)
           it == Reaching(V, E, v)
           U == SUBSET T
<1>1. /\ F \in [SUBSET V -> SUBSET V] /\ {v} \in SUBSET V
      /\ Iterates(it, F, {v}) /\ Reached(V, E, v) = it[Cardinality(V)]
  BY ReachingIterates
<1>2. IsFiniteSet(V) /\ Cardinality(V) \in Nat
  BY NodesAssumption, FS_Subset, FS_CardinalityType
<1>3. {v} \in U /\ \A S \in SUBSET V : S \in U => F[S] \in U
  BY DEF Onward, Onwards
<1>4. it[Cardinality(V)] \in U
  <2> HIDE DEF F, it, U
  <2> QED BY <1>1, <1>2, <1>3, IterationKeeps
<1> QED BY <1>1, <1>4

(* Reachability is transitive. *)
LEMMA ReachedTransitive ==
  ASSUME NEW V \in SUBSET Node, NEW E, NEW n \in V, NEW k \in Reached(V, E, n)
  PROVE  k \in V /\ Reached(V, E, k) \subseteq Reached(V, E, n)
<1>1. k \in V
  BY ReachedCloses
<1> QED BY <1>1, ReachedCloses, ReachedLeast

(***************************************************************************)
(* A map f of the nodes of V into W under which what an edge of E joins is *)
(* joined by edges of D carries reachability over.                         *)
(***************************************************************************)
LEMMA ReachedMapped ==
  ASSUME NEW V \in SUBSET Node, NEW W \in SUBSET Node, NEW E, NEW D, NEW f,
         \A x \in V : f[x] \in W,
         \A e \in E : e.src \in V /\ e.dst \in V => f[e.dst] \in Reached(W, D, f[e.src]),
         NEW n \in V
  PROVE  \A k \in Reached(V, E, n) : f[k] \in Reached(W, D, f[n])
<1> DEFINE T == {x \in V : f[x] \in Reached(W, D, f[n])}
<1>1. n \in T
  BY ReachedCloses
<1>2. ASSUME NEW e \in E, e.src \in T, e.dst \in V PROVE e.dst \in T
  <2>1. f[e.src] \in W /\ f[e.dst] \in Reached(W, D, f[e.src])
    BY <1>2
  <2>2. Reached(W, D, f[e.src]) \subseteq Reached(W, D, f[n])
    BY <1>2, ReachedTransitive
  <2> QED BY <1>2, <2>1, <2>2
<1>3. Reached(V, E, n) \subseteq T
  BY <1>1, <1>2, ReachedLeast
<1> QED BY <1>3

(* More vertices and more edges reach more. *)
LEMMA ReachedMonotone ==
  ASSUME NEW W \in SUBSET Node, NEW V \in SUBSET W, NEW E, NEW D,
         \A e \in E : e.src \in V /\ e.dst \in V => e \in D,
         NEW n \in V
  PROVE  Reached(V, E, n) \subseteq Reached(W, D, n)
<1> DEFINE T == Reached(W, D, n)
<1>1. n \in T /\ \A e \in E : e.src \in T /\ e.src \in V /\ e.dst \in V => e.dst \in T
  BY ReachedCloses
<1> QED BY <1>1, ReachedLeast

-----------------------------------------------------------------------------
(* Cycles *)

(* n and k reach each other along edges of E inside V. *)
SameCycle(V, E, n, k) == k \in Reached(V, E, n) /\ n \in Reached(V, E, k)

(* The vertices that share a cycle with n. *)
CycleOf(V, E, n) == {w \in V : SameCycle(V, E, n, w)}

(* Being on a common cycle is an equivalence. *)
LEMMA SameCycleEquivalence ==
  ASSUME NEW V \in SUBSET Node, NEW E
  PROVE  /\ \A n \in V : SameCycle(V, E, n, n)
         /\ \A n, k \in V : SameCycle(V, E, n, k) => SameCycle(V, E, k, n)
         /\ \A n, k, l \in V : SameCycle(V, E, n, k) /\ SameCycle(V, E, k, l) => SameCycle(V, E, n, l)
<1>1. \A n \in V : SameCycle(V, E, n, n)
  BY ReachedCloses DEF SameCycle
<1>2. ASSUME NEW n \in V, NEW k \in V, NEW l \in V, SameCycle(V, E, n, k), SameCycle(V, E, k, l)
      PROVE  SameCycle(V, E, n, l)
  BY <1>2, ReachedTransitive DEF SameCycle
<1> QED BY <1>1, <1>2 DEF SameCycle

(* Components are the classes of being on a common cycle. *)
THEOREM ComponentsAreCycles ==
  ASSUME NEW V \in SUBSET Node, NEW E
  PROVE  /\ Components(V, E) = {CycleOf(V, E, v) : v \in V}
         /\ \A n, k \in V : SameCycle(V, E, n, k) <=> CycleOf(V, E, n) = CycleOf(V, E, k)
         /\ \A C \in Components(V, E), n \in V : n \in C => C = CycleOf(V, E, n)
<1>1. Components(V, E) = {CycleOf(V, E, v) : v \in V}
  BY DEF Components, CycleOf, SameCycle
<1>2. ASSUME NEW n \in V, NEW k \in V, SameCycle(V, E, n, k)
      PROVE  CycleOf(V, E, n) = CycleOf(V, E, k)
  BY <1>2, SameCycleEquivalence DEF CycleOf
<1>3. ASSUME NEW n \in V, NEW k \in V, CycleOf(V, E, n) = CycleOf(V, E, k)
      PROVE  SameCycle(V, E, n, k)
  <2>1. n \in CycleOf(V, E, n)
    BY SameCycleEquivalence DEF CycleOf
  <2> QED BY <1>3, <2>1, SameCycleEquivalence DEF CycleOf
<1>4. ASSUME NEW v \in V, NEW n \in V, n \in CycleOf(V, E, v)
      PROVE  CycleOf(V, E, v) = CycleOf(V, E, n)
  BY <1>2, <1>4 DEF CycleOf
<1> QED BY <1>1, <1>2, <1>3, <1>4

(* The members of a cycle reach each other inside it. *)
LEMMA CycleReachedInside ==
  ASSUME NEW V \in SUBSET Node, NEW E, NEW n \in V, NEW k \in CycleOf(V, E, n)
  PROVE  k \in Reached(CycleOf(V, E, n), E, n)
<1> DEFINE C == CycleOf(V, E, n)
           T == {x \in V : x \in Reached(C, E, n) \/ n \notin Reached(V, E, x)}
<1>1. C \in SUBSET Node /\ n \in C
  BY SameCycleEquivalence DEF CycleOf
<1>2. n \in T
  BY <1>1, ReachedCloses
<1>3. ASSUME NEW e \in E, e.src \in T, e.dst \in V PROVE e.dst \in T
  <2>1. SUFFICES ASSUME n \in Reached(V, E, e.dst) PROVE e.dst \in Reached(C, E, n)
    BY <1>3
  <2>2. e.dst \in Reached(V, E, e.src)
    BY <1>3, ReachedCloses
  <2>3. n \in Reached(V, E, e.src)
    BY <1>3, <2>1, <2>2, ReachedTransitive
  <2>4. e.src \in Reached(C, E, n)
    BY <1>3, <2>3
  <2>5. e.src \in C
    BY <1>1, <2>4, ReachedCloses
  <2>6. e.dst \in Reached(V, E, n)
    BY <2>2, <2>5, ReachedTransitive DEF CycleOf, SameCycle
  <2>7. e.dst \in C
    BY <1>3, <2>1, <2>6 DEF CycleOf, SameCycle
  <2> QED BY <1>1, <2>4, <2>7, ReachedCloses
<1>4. Reached(V, E, n) \subseteq T
  BY <1>2, <1>3, ReachedLeast
<1> QED BY <1>4 DEF CycleOf, SameCycle

(***************************************************************************)
(* Where the fields are settled, the nodes of a cycle of solved direct     *)
(* edges point to the same objects: no gep is inside.                      *)
(***************************************************************************)
LEMMA CyclesShareFacts ==
  ASSUME NEW B \in SUBSET ProgramEdge, FieldsSettled(B), NEW n \in Node, NEW k \in Node,
         SameCycle(Node, SolvedDirect(B), n, k)
  PROVE  LeastSolution(B)[n] = LeastSolution(B)[k]
<1> DEFINE L == LeastSolution(B)
           SD == SolvedDirect(B)
<1>1. ASSUME NEW x \in Node, NEW y \in Node, SameCycle(Node, SD, x, y) PROVE L[x] \subseteq L[y]
  <2> DEFINE C == CycleOf(Node, SD, x)
             T == {z \in Node : L[x] \subseteq L[z]}
  <2>1. C \in SUBSET Node /\ x \in C /\ y \in C
    BY <1>1, SameCycleEquivalence DEF CycleOf
  <2>2. C \in Components(Node, SD)
    BY ComponentsAreCycles
  <2>3. ASSUME NEW e \in SD, e.src \in T, e.src \in C, e.dst \in C PROVE e.dst \in T
    <3>1. L[e.src] \subseteq L[e.dst]
      <4>1. CASE e \in B /\ IsDirect(e)
        <5>1. e.kind = "Copy"
          BY <2>2, <2>3, <4>1 DEF FieldsSettled, IsDirect, DirectKind
        <5> QED BY <4>1, <5>1, SolutionCloses, CopyTransfers DEF Closes
      <4>2. CASE e \in DerivedCopies(B, L)
        BY <4>2, SolutionCloses DEF Closes
      <4> QED BY <4>1, <4>2 DEF SolvedDirect
    <3> QED BY <2>1, <2>3, <3>1
  <2>4. y \in Reached(C, SD, x)
    BY <2>1, CycleReachedInside
  <2>5. Reached(C, SD, x) \subseteq T
    <3> HIDE DEF C
    <3> QED BY <2>1, <2>3, ReachedLeast
  <2> QED BY <2>4, <2>5
<1>2. SameCycle(Node, SD, k, n)
  BY SameCycleEquivalence
<1> QED BY <1>1, <1>2

-----------------------------------------------------------------------------
(* Nothing beyond it *)

(* The difference has been deleted from the old version: what base holds now
   is another program, and the analysis is over. *)
Over == mode = "old" /\ pc = "idle" /\ round > 0

(* The program at hand is one the analysis may start from, a round under way
   has been counted, and the old version has one round and no insertion. *)
RoundsCount ==
  /\ Over \/ base \in Programs
  /\ pc # "idle" => round > 0
  /\ mode = "old" => round <= 1 /\ ~Inserting

(* What each phase leaves behind. *)
VectorsClean ==
  /\ pc \notin {"insDirect", "insCons"} => insDirectConsVec = {}
  /\ pc \notin {"insCons", "insProp"} => insPropMap = {} /\ unFilterSet = {}
  /\ ~Deleting => delEdgeVec = {}
  /\ pc \notin {"delDirect", "redetect"} => redetectReps = {}

(* What the program implies, with the constraints and copies that yield it. *)
Solved == LeastSolution(base)
SolvedEdges == base \cup DerivedCopies(base, Solved)
OnCycle(n, k) == SameCycle(Node, SolvedDirect(base), n, k)

(* No node points to more than the program implies. *)
PtsBounded == \A n \in Node : pts[n] \subseteq Solved[n]

(* Only nodes of a common cycle of the solved graph are merged. *)
RepsOnCycles == \A n \in Node : OnCycle(n, rep[n])

(* Every flat edge, and every edge waiting to be deleted or retracted, is
   one of the solved graph. *)
EdgesBounded ==
  /\ fEdges \subseteq SolvedEdges /\ delDirectEdgeVec \subseteq SolvedEdges
  /\ delEdgeVec \subseteq SolvedEdges
  /\ \A x \in rep2EdgeSet : x[2] \in SolvedEdges

(* What waits for insertion is of the program and carries facts it implies. *)
WorkBounded ==
  /\ insEdgeVec \subseteq OtherPart(base)
  /\ insDirectConsVec \subseteq fEdges
  /\ \A x \in insPropMap : rep[x[1]] = x[1] /\ x[2] \in Solved[x[1]]

(* A frame is at a representative, carries facts of the solution and follows
   edges of the super graph. *)
FrameBounded(f) ==
  rep[f.node] = f.node /\ f.d \subseteq Solved[f.node] /\ f.outs \subseteq DirectOut(f.node)

(* Every active call propagates facts of its node along its node's edges. *)
FramesBounded == \A f \in Calls(stack) : FrameBounded(f)

(* What is bounded, together; it is inductive with the invariants of the
   graphs and of the ledger. *)
Bounded == PtsBounded /\ RepsOnCycles /\ EdgesBounded /\ WorkBounded /\ FramesBounded

(* The inductive invariant of this module. *)
BoundInv == Inv /\ RoundsCount /\ VectorsClean /\ (~Over => Bounded)
-----------------------------------------------------------------------------
(* The program *)

LEMMA ProgramFacts ==
  ASSUME RoundsCount, ~Over
  PROVE  /\ base \in SUBSET ProgramEdge /\ base \in SUBSET Edge
         /\ WellFormed(base) /\ FieldsSettled(base)
         /\ Solved \in Assignment /\ Closes(base, Solved)
         /\ SolvedDirect(base) = {e \in SolvedEdges : IsDirect(e)}
<1>1. base \in Programs /\ WellFormed(base) /\ FieldsSettled(base)
  BY AndersenIncAssumption DEF RoundsCount, AndersenIncAssumption
<1>2. base \in SUBSET ProgramEdge
  BY <1>1 DEF WellFormed, ProgramEdge
<1>3. Solved \in Assignment /\ Closes(base, Solved)
  BY <1>2, SolutionType, SolutionCloses DEF Solved
<1>4. SolvedDirect(base) = {e \in SolvedEdges : IsDirect(e)}
  BY <1>2, DerivedCopiesType DEF SolvedDirect, SolvedEdges, Solved, DirectEdge
<1> QED BY <1>1, <1>2, <1>3, <1>4 DEF ProgramEdge

(* Nodes that are merged point to the same objects in the solution. *)
LEMMA CycleFacts ==
  ASSUME TypeOK, RoundsCount, ~Over
  PROVE  /\ \A n \in Node : OnCycle(n, n)
         /\ \A n, k \in Node : OnCycle(n, k) => OnCycle(k, n) /\ Solved[n] = Solved[k]
         /\ \A n, k, j \in Node : OnCycle(n, k) /\ OnCycle(k, j) => OnCycle(n, j)
<1>1. Node \in SUBSET Node
  OBVIOUS
<1>2. \A n, k \in Node : OnCycle(n, k) => Solved[n] = Solved[k]
  BY ProgramFacts, CyclesShareFacts DEF OnCycle, Solved
<1> QED BY <1>1, <1>2, SameCycleEquivalence DEF OnCycle

(* Representatives are their own representatives and solve to the same set. *)
LEMMA RepFacts ==
  ASSUME TypeOK, RoundsCount, ~Over, GraphsAgree, RepsOnCycles
  PROVE  \A n \in Node : rep[n] \in Node /\ rep[rep[n]] = rep[n] /\ Solved[rep[n]] = Solved[n]
BY CycleFacts DEF TypeOK, SuperTypeOK, GraphsAgree, SubsMatchReps, RepsOnCycles

(* A direct edge of the solved graph carries facts of the solution. *)
LEMMA SolvedEdgeCarries ==
  ASSUME RoundsCount, ~Over, NEW e \in SolvedEdges, IsDirect(e)
  PROVE  /\ e \in SolvedDirect(base) /\ e.kind \in DirectKind /\ e.src \in Node /\ e.dst \in Node
         /\ Solved[e.src] \in SUBSET Obj /\ Solved[e.dst] \in SUBSET Obj
         /\ \A S \in SUBSET Solved[e.src] :
              Transfer(e.kind, S) \in SUBSET Obj /\ Transfer(e.kind, S) \subseteq Solved[e.dst]
<1>1. e \in SolvedDirect(base) /\ e.kind \in DirectKind
  BY ProgramFacts DEF IsDirect
<1>2. e \in Edge
  BY ProgramFacts, DerivedCopiesType DEF SolvedEdges, DirectEdge
<1>3. e.src \in Node /\ e.dst \in Node /\ Solved[e.src] \in SUBSET Obj /\ Solved[e.dst] \in SUBSET Obj
  BY <1>2, ProgramFacts DEF Edge, Assignment
<1>4. Transfer(e.kind, Solved[e.src]) \subseteq Solved[e.dst]
  <2>1. CASE e \in base
    BY <2>1, ProgramFacts DEF Closes
  <2>2. CASE e \in DerivedCopies(base, Solved)
    BY <2>2, ProgramFacts, DerivedCopiesType, CopyTransfers DEF Closes
  <2> QED BY <2>1, <2>2 DEF SolvedEdges
<1>5. ASSUME NEW S \in SUBSET Solved[e.src]
      PROVE  Transfer(e.kind, S) \in SUBSET Obj /\ Transfer(e.kind, S) \subseteq Solved[e.dst]
  <2>1. S \in SUBSET Obj
    BY <1>3
  <2>2. Transfer(e.kind, S) \in SUBSET Obj /\ Transfer(e.kind, S) \subseteq Transfer(e.kind, Solved[e.src])
    BY <1>1, <1>3, <2>1, TransferMonotone
  <2> QED BY <1>4, <2>2
<1> QED BY <1>1, <1>3, <1>5

(* And so does a super edge between two representatives: it stands for a
   flat edge. *)
LEMMA SuperEdgeCarries ==
  ASSUME TypeOK, GraphsAgree, RoundsCount, ~Over, RepsOnCycles, EdgesBounded,
         NEW s \in sEdges, IsDirect(s), s.src # s.dst
  PROVE  /\ s.kind \in DirectKind /\ s.src \in Node /\ s.dst \in Node
         /\ rep[s.src] = s.src /\ rep[s.dst] = s.dst
         /\ \E e \in fEdges : IsDirect(e) /\ e.kind = s.kind /\ Lift(e) = s
                              /\ rep[e.src] = s.src /\ rep[e.dst] = s.dst
                              /\ e.src \in Node /\ e.dst \in Node
         /\ \A S \in SUBSET Solved[s.src] :
              Transfer(s.kind, S) \in SUBSET Obj /\ Transfer(s.kind, S) \subseteq Solved[s.dst]
<1>1. /\ s.kind \in DirectKind /\ s.src \in Node /\ s.dst \in Node
      /\ rep[s.src] = s.src /\ rep[s.dst] = s.dst
  BY DEF IsDirect, TypeOK, SuperTypeOK, Edge, GraphsAgree, SuperEdgesUsed
<1>2. PICK x \in fEdgeSet : x[1] = s
  BY DEF GraphsAgree, SuperEdgesUsed
<1>3. PICK e \in fEdges : Lift(e) = s
  BY <1>2 DEF GraphsAgree, SuperMirrorsFlat
<1>4. e.kind = s.kind /\ rep[e.src] = s.src /\ rep[e.dst] = s.dst /\ IsDirect(e)
  BY <1>3 DEF Lift, LiftBy, IsDirect
<1>5. /\ e \in SolvedEdges /\ e.src \in Node /\ e.dst \in Node
  BY <1>3 DEF EdgesBounded, TypeOK, FlatTypeOK, Edge
<1>6. Solved[s.src] = Solved[e.src] /\ Solved[s.dst] = Solved[e.dst]
  BY <1>4, <1>5, RepFacts
<1> QED BY <1>1, <1>3, <1>4, <1>5, <1>6, SolvedEdgeCarries

(* The points-to set of a node, too, is within the solution. *)
LEMMA GetPtsBounded ==
  ASSUME TypeOK, GraphsAgree, RoundsCount, ~Over, PtsBounded, RepsOnCycles
  PROVE  \A n \in Node : getPts(n) \subseteq Solved[n]
BY RepFacts DEF PtsBounded, getPts

-----------------------------------------------------------------------------
(* Calls *)

(* A call of either propagation opens at most one frame, at the
   representative of the node, for the edges that leave it. *)
LEMMA DelCallBounded ==
  ASSUME TypeOK, GraphsAgree, RoundsCount, ~Over, PtsBounded, RepsOnCycles,
         NEW S, NEW n \in Node, NEW callers \in Seq(Frame),
         propagateDelPts(S, n, callers),
         UNCHANGED <<base, rep>>, \A r \in Node : DirectOut(r) \subseteq DirectOut(r)',
         \A f \in Calls(callers) : FrameBounded(f)
  PROVE  /\ \A k \in Node : pts'[k] \subseteq pts[k]
         /\ PtsBounded' /\ FramesBounded'
<1> DEFINE r == rep[n]
           dPts == (S \cap pts[r]) \ Supported(r)
<1>1. r \in Node /\ rep[r] = r /\ pts[r] \subseteq Solved[r] /\ pts[r] \in SUBSET Obj
  BY RepFacts DEF PtsBounded, TypeOK, PtsTypeOK
<1>2. PICK f \in Frame :
        /\ f.node = r /\ f.d = dPts /\ f.outs = DirectOut(r)
        /\ \/ pts' = pts /\ Calls(stack') = Calls(callers)
           \/ /\ pts' = [pts EXCEPT ![r] = @ \ dPts]
              /\ Calls(stack') = {f} \cup Calls(callers)
  <2> DEFINE f == [node |-> r, d |-> dPts, outs |-> DirectOut(r)]
  <2>1. f \in Frame
    BY <1>1, DirectOutType DEF Frame, TypeOK
  <2>2. Calls(<<f>> \o callers) = {f} \cup Calls(callers)
    BY <2>1, PushCalls
  <2>3. \/ pts' = pts /\ Calls(stack') = Calls(callers)
        \/ /\ pts' = [pts EXCEPT ![r] = @ \ dPts]
           /\ Calls(stack') = {f} \cup Calls(callers)
    BY <2>2 DEF propagateDelPts
  <2>4. f.node = r /\ f.d = dPts /\ f.outs = DirectOut(r)
    OBVIOUS
  <2> HIDE DEF f
  <2> QED BY <2>1, <2>3, <2>4
<1>3. \A k \in Node : pts'[k] \subseteq pts[k]
  BY <1>1, <1>2 DEF TypeOK, PtsTypeOK
<1>4. Solved' = Solved
  BY DEF Solved
<1>5. \A g \in Calls(callers) : g \in Frame
  BY DEF Calls
<1>6. \A g \in Frame : FrameBounded(g) => FrameBounded(g)'
  BY <1>4 DEF FrameBounded, Frame
<1>7. FrameBounded(f)'
  BY <1>1, <1>2, <1>4 DEF FrameBounded
<1>8. FramesBounded'
  BY <1>2, <1>5, <1>6, <1>7 DEF FramesBounded
<1> QED BY <1>3, <1>4, <1>8 DEF PtsBounded

(* A call of propagateInsPts with facts of its node keeps the sets and the
   active calls bounded. *)
LEMMA InsCallBounded ==
  ASSUME TypeOK, GraphsAgree, RoundsCount, ~Over, PtsBounded, RepsOnCycles,
         NEW n \in Node, NEW S, S \subseteq Solved[n], NEW flag, NEW callers \in Seq(Frame),
         propagateInsPts(S, n, flag, callers),
         UNCHANGED <<base, rep>>, \A r \in Node : DirectOut(r) \subseteq DirectOut(r)',
         \A f \in Calls(callers) : FrameBounded(f)
  PROVE  /\ \A k \in Node : pts[k] \subseteq pts'[k]
         /\ PtsBounded' /\ FramesBounded'
<1> DEFINE r == rep[n]
           dPts == IF flag THEN S ELSE S \ pts[r]
<1>1. /\ r \in Node /\ rep[r] = r /\ pts[r] \subseteq Solved[r] /\ Solved[r] = Solved[n]
      /\ Solved[r] \in SUBSET Obj
  BY RepFacts, ProgramFacts DEF PtsBounded, Assignment
<1>2. PICK f \in Frame :
        /\ f.node = r /\ f.d = dPts /\ f.outs = DirectOut(r)
        /\ \/ pts' = pts /\ Calls(stack') = Calls(callers)
           \/ /\ pts' = [pts EXCEPT ![r] = @ \cup dPts]
              /\ Calls(stack') = {f} \cup Calls(callers)
  <2> DEFINE f == [node |-> r, d |-> dPts, outs |-> DirectOut(r)]
  <2>1. f \in Frame
    BY <1>1, DirectOutType DEF Frame, TypeOK
  <2>2. Calls(<<f>> \o callers) = {f} \cup Calls(callers)
    BY <2>1, PushCalls
  <2>3. \/ pts' = pts /\ Calls(stack') = Calls(callers)
        \/ /\ pts' = [pts EXCEPT ![r] = @ \cup dPts]
           /\ Calls(stack') = {f} \cup Calls(callers)
    BY <2>2 DEF propagateInsPts
  <2>4. f.node = r /\ f.d = dPts /\ f.outs = DirectOut(r)
    OBVIOUS
  <2> HIDE DEF f
  <2> QED BY <2>1, <2>3, <2>4
<1>3. \A k \in Node : pts[k] \subseteq pts'[k]
  BY <1>1, <1>2 DEF TypeOK, PtsTypeOK
<1>4. Solved' = Solved
  BY DEF Solved
<1>5. \A g \in Calls(callers) : g \in Frame
  BY DEF Calls
<1>6. \A g \in Frame : FrameBounded(g) => FrameBounded(g)'
  BY <1>4 DEF FrameBounded, Frame
<1>7. FrameBounded(f)'
  BY <1>1, <1>2, <1>4 DEF FrameBounded
<1>8. FramesBounded'
  BY <1>2, <1>5, <1>6, <1>7 DEF FramesBounded
<1>9. PtsBounded'
  BY <1>1, <1>2, <1>4 DEF PtsBounded, TypeOK, PtsTypeOK
<1> QED BY <1>3, <1>8, <1>9

(* The calls left when the innermost one follows one more edge, or ends. *)
LEMMA ResumedBounded ==
  ASSUME TypeOK, FramesBounded, stack # <<>>
  PROVE  /\ Head(stack) \in Frame /\ FrameBounded(Head(stack))
         /\ Tail(stack) \in Seq(Frame) /\ \A f \in Calls(Tail(stack)) : FrameBounded(f)
         /\ \A s : /\ Resumed(s) \in Seq(Frame)
                   /\ \A f \in Calls(Resumed(s)) : FrameBounded(f)
<1>1. stack \in Seq(Frame)
  BY DEF TypeOK, PtsTypeOK
<1>2. Calls(stack) = {Head(stack)} \cup Calls(Tail(stack)) /\ Head(stack) \in Frame /\ Tail(stack) \in Seq(Frame)
  BY <1>1, HeadCalls
<1>3. ASSUME NEW s
      PROVE  Resumed(s) \in Seq(Frame) /\ \A f \in Calls(Resumed(s)) : FrameBounded(f)
  <2> DEFINE g == [Head(stack) EXCEPT !.outs = @ \ {s}]
  <2>1. g \in Frame /\ g.node = Head(stack).node /\ g.d = Head(stack).d /\ g.outs \subseteq Head(stack).outs
    BY <1>2 DEF Frame
  <2>2. Resumed(s) = <<g>> \o Tail(stack)
    BY DEF Resumed
  <2> HIDE DEF g
  <2>3. Calls(Resumed(s)) = {g} \cup Calls(Tail(stack))
    BY <1>2, <2>1, <2>2, PushCalls
  <2>5. Resumed(s) \in Seq(Frame)
    BY <1>2, <2>1, <2>2
  <2>4. FrameBounded(g)
    BY <1>2, <2>1 DEF FramesBounded, FrameBounded
  <2> QED BY <1>2, <2>3, <2>4, <2>5 DEF FramesBounded
<1> QED BY <1>2, <1>3 DEF FramesBounded

-----------------------------------------------------------------------------
(* Steps of the deletion phase *)

(* What no step of the deletion touches, and where it may lead. *)
DeletionMoves ==
  /\ Deleting /\ (Deleting' \/ (pc' = "deleted" /\ delEdgeVec' = {}))
  /\ (pc' # pc => stack' = stack) /\ (pc # "delEdge" => stack' = stack)
  /\ pc' \in {"delDirect", "redetect"} \/ redetectReps' = {}
       \/ (redetectReps' = redetectReps /\ pc \notin {"delDirect", "redetect"})
  /\ UNCHANGED <<base, mode, round, diff, insDirectEdgeVec, insDirectConsVec, insPropMap,
                 unFilterSet, insEdgeVec, prePts, ptsChangeNodes>>

(* What no step of the deletion phase touches. *)
LEMMA DeletionFrame == DeletionStep => DeletionMoves
<1> USE DEF DeletionMoves, Deleting, flatVars, superVars, delVars, insVars, pdmVars, ctlVars, roundVars
<1>1. ASSUME NEW s \in PendingOuts, DelOut(s) PROVE DeletionMoves
  BY <1>1 DEF DelOut, InDeletion
<1>2. ASSUME DelComplex PROVE DeletionMoves
  BY <1>2 DEF DelComplex, InDeletion
<1>3. ASSUME NEW e \in delDirectEdgeVec, processCopyEdgeRemoval(e) PROVE DeletionMoves
  BY <1>3 DEF processCopyEdgeRemoval
<1>4. ASSUME NEW e \in delDirectEdgeVec, processGepEdgeRemoval(e) PROVE DeletionMoves
  BY <1>4 DEF processGepEdgeRemoval
<1>5. ASSUME DelDirectDone PROVE DeletionMoves
  BY <1>5 DEF DelDirectDone
<1>6. ASSUME NEW r \in redetectReps, SCCKeep(r) PROVE DeletionMoves
  BY <1>6 DEF SCCKeep
<1>7. ASSUME NEW r \in redetectReps, SCCRestore(r) PROVE DeletionMoves
  BY <1>7 DEF SCCRestore
<1>8. ASSUME RedetectDone PROVE DeletionMoves
  BY <1>8 DEF RedetectDone
<1>9. ASSUME NEW e \in delEdgeVec, processAddrRemoval(e) PROVE DeletionMoves
  BY <1>9 DEF processAddrRemoval, PopDelEdge
<1>10. ASSUME NEW e \in delEdgeVec, processDirectConstraintRemoval(e) PROVE DeletionMoves
  BY <1>10 DEF processDirectConstraintRemoval, PopDelEdge
<1>11. ASSUME NEW e \in delEdgeVec, skipNormalGepConstraintRemoval(e) PROVE DeletionMoves
  BY <1>11 DEF skipNormalGepConstraintRemoval, PopDelEdge
<1>12. ASSUME NEW e \in delEdgeVec, processComplexRemoval(e) PROVE DeletionMoves
  BY <1>12 DEF processComplexRemoval, PopDelEdge
<1>13. ASSUME DelIterationDone PROVE DeletionMoves
  BY <1>13 DEF DelIterationDone
<1> QED BY <1>1, <1>2, <1>3, <1>4, <1>5, <1>6, <1>7, <1>8, <1>9, <1>10, <1>11, <1>12, <1>13 DEF DeletionStep

(* The steps taken when no propagation is under way and no cycle is taken
   apart: nothing is added but edges and facts of the solution. *)
LEMMA QuietBounded ==
  ASSUME TypeOK, GraphsAgree, RoundsCount, ~Over, Bounded, UNCHANGED <<base, rep>>,
         stack' = <<>>,
         \A n \in Node : pts'[n] \subseteq pts[n],
         fEdges' \subseteq SolvedEdges, delDirectEdgeVec' \subseteq SolvedEdges,
         delEdgeVec' \subseteq SolvedEdges, \A x \in rep2EdgeSet' : x[2] \in SolvedEdges,
         insEdgeVec' \subseteq OtherPart(base), insDirectConsVec' \subseteq fEdges',
         \A x \in insPropMap' : rep[x[1]] = x[1] /\ x[2] \in Solved[x[1]]
  PROVE  Bounded'
<1>1. Solved' = Solved /\ SolvedEdges' = SolvedEdges
  BY DEF Solved, SolvedEdges
<1>2. PtsBounded'
  BY <1>1 DEF Bounded, PtsBounded
<1>3. RepsOnCycles'
  BY DEF Bounded, RepsOnCycles, OnCycle
<1>4. EdgesBounded' /\ WorkBounded'
  BY <1>1 DEF EdgesBounded, WorkBounded
<1>5. FramesBounded'
  BY EmptyCalls DEF FramesBounded
<1> QED BY <1>2, <1>3, <1>4, <1>5 DEF Bounded

(* What the loads and stores give up was in the graph. *)
LEMMA LostDerivationsBounded ==
  ASSUME EdgesBounded, NEW C, NEW S
  PROVE  \A x \in LostDerivations(C, S) : x[1] \in SolvedEdges
BY DEF EdgesBounded, LostDerivations

(* Removal of a direct edge queues that edge and no other. *)
LEMMA EdgeRemovalBounded ==
  ASSUME BoundInv, NEW e \in delDirectEdgeVec, processCopyEdgeRemoval(e) \/ processGepEdgeRemoval(e)
  PROVE  Bounded'
<1> USE DEF flatVars, superVars, insVars, pdmVars, ctlVars, roundVars
<1>1. /\ pc = "delDirect" /\ stack = <<>> /\ stack' = <<>> /\ ~Over /\ Bounded
      /\ TypeOK /\ GraphsAgree /\ RoundsCount
  BY DEF processCopyEdgeRemoval, processGepEdgeRemoval, BoundInv, Inv, Ledger, PhaseClean, Over
<1>2. /\ UNCHANGED <<base, pts, insEdgeVec, insDirectConsVec, insPropMap>>
      /\ delDirectEdgeVec' = delDirectEdgeVec \ {e}
      /\ dropDirectEdge(e) \/ KeepDirectEdge
  BY DEF processCopyEdgeRemoval, processGepEdgeRemoval
<1>3. /\ UNCHANGED rep /\ fEdges' \subseteq fEdges
      /\ delEdgeVec' \subseteq delEdgeVec \cup {e}
      /\ \A x \in rep2EdgeSet' : x \in rep2EdgeSet \/ x[2] = e
  BY <1>2 DEF dropDirectEdge, KeepDirectEdge
<1>4. insDirectConsVec = {} /\ insPropMap = {}
  BY <1>1 DEF BoundInv, VectorsClean
<1> QED BY <1>1, <1>2, <1>3, <1>4, QuietBounded DEF Bounded, EdgesBounded, WorkBounded

(* Removal of a load or store queues copies it had derived. *)
LEMMA ComplexRemovalBounded ==
  ASSUME BoundInv, NEW e \in delEdgeVec, processComplexRemoval(e)
  PROVE  Bounded'
<1> USE DEF flatVars, superVars, insVars, pdmVars, ctlVars, roundVars
<1>1. /\ pc = "delEdge" /\ stack = <<>> /\ stack' = <<>> /\ ~Over /\ Bounded
      /\ TypeOK /\ GraphsAgree /\ RoundsCount
  BY DEF processComplexRemoval, PopDelEdge, BoundInv, Inv, Over
<1>2. /\ UNCHANGED <<base, rep, pts, insEdgeVec, insDirectConsVec, insPropMap, rep2EdgeSet>>
      /\ fEdges' \subseteq fEdges /\ delEdgeVec' \subseteq delEdgeVec
      /\ \A c \in delDirectEdgeVec' :
           c \in delDirectEdgeVec \/ \E x \in LostDerivations({e}, getPts(Pointer(e))) : c = x[1]
  BY DEF processComplexRemoval, PopDelEdge
<1>3. delDirectEdgeVec' \subseteq SolvedEdges
  BY <1>1, <1>2, LostDerivationsBounded DEF Bounded, EdgesBounded
<1>4. insDirectConsVec = {} /\ insPropMap = {}
  BY <1>1 DEF BoundInv, VectorsClean
<1> QED BY <1>1, <1>2, <1>3, <1>4, QuietBounded DEF Bounded, EdgesBounded, WorkBounded

(* Steps of the deletion phase that touch no set and remove no edge. *)
LEMMA QuietDeletionBounded ==
  ASSUME BoundInv,
         \/ DelDirectDone \/ RedetectDone \/ DelIterationDone
         \/ \E r \in redetectReps : SCCKeep(r)
         \/ \E e \in delEdgeVec : skipNormalGepConstraintRemoval(e)
  PROVE  Bounded'
<1> USE DEF DelDirectDone, RedetectDone, DelIterationDone, SCCKeep,
            skipNormalGepConstraintRemoval, PopDelEdge, flatVars, superVars, delVars,
            insVars, ctlVars, roundVars
<1>1. /\ pc \in {"delDirect", "redetect", "delEdge"} /\ stack = <<>> /\ stack' = <<>>
  BY DEF BoundInv, Inv, Ledger, PhaseClean
<1>2. ~Over /\ Bounded /\ TypeOK /\ GraphsAgree /\ RoundsCount
  BY <1>1 DEF BoundInv, Inv, Over
<1>3. /\ UNCHANGED <<base, rep, pts, fEdges, insEdgeVec, insDirectConsVec, insPropMap, delDirectEdgeVec>>
      /\ delEdgeVec' \subseteq delEdgeVec /\ rep2EdgeSet' \subseteq rep2EdgeSet
  BY DEF Redetected
<1>4. insDirectConsVec = {} /\ insPropMap = {}
  BY <1>1 DEF BoundInv, VectorsClean
<1> QED BY <1>1, <1>2, <1>3, <1>4, QuietBounded DEF Bounded, EdgesBounded, WorkBounded

(* A cycle is taken apart: its members start from what it pointed to. *)
LEMMA RestoreBounded ==
  ASSUME BoundInv, NEW r \in redetectReps, SCCRestore(r)
  PROVE  Bounded'
<1> USE DEF flatVars, superVars, insVars, pdmVars, ctlVars, roundVars
<1>1. /\ pc = "redetect" /\ stack = <<>> /\ stack' = <<>> /\ ~Over /\ Bounded
      /\ TypeOK /\ GraphsAgree /\ RoundsCount /\ r \in Node
  BY DEF SCCRestore, BoundInv, Inv, Ledger, PhaseClean, Over, TypeOK, DelTypeOK
<1> DEFINE M == sccSubNodes(rep[r])
<1>2. PICK m \in [M -> M] :
        /\ rep' = NewRep(m)
        /\ pts' = [n \in Node |-> IF n \in AllReps(m) THEN pts[n] \cup getPts(r) ELSE pts[n]]
        /\ delEdgeVec' = delEdgeVec \cup
             {e \in InnerRemoved(r) : NewRep(m)[e.src] # NewRep(m)[e.dst]}
  BY DEF SCCRestore, RepChoices, sccRestore
<1>3. M = {k \in Node : rep[k] = rep[r]} /\ DOMAIN m = M
  BY <1>1 DEF GraphsAgree, SubsMatchReps
<1> HIDE DEF M
<1>4. \A n \in Node : rep'[n] \in Node /\ rep[rep'[n]] = rep[n]
  BY <1>1, <1>2, <1>3, RepFacts DEF NewRep, Bounded
<1>5. Solved' = Solved /\ SolvedEdges' = SolvedEdges /\ UNCHANGED base
  BY DEF SCCRestore, Solved, SolvedEdges
<1>6. PtsBounded'
  <2>1. ASSUME NEW n \in AllReps(m) PROVE n \in Node /\ getPts(r) \subseteq Solved[n]
    <3>1. n \in M
      BY <1>2, <1>3, <2>1 DEF AllReps
    <3>2. n \in Node /\ rep[n] = rep[r]
      BY <1>3, <3>1
    <3> QED BY <1>1, <3>2, RepFacts DEF Bounded, PtsBounded, getPts
  <2> QED BY <1>1, <1>2, <1>5, <2>1 DEF Bounded, PtsBounded
<1>7. RepsOnCycles'
  <2>1. \A n \in Node : OnCycle(n, rep'[n])
    BY <1>1, <1>4, CycleFacts, RepFacts DEF Bounded, RepsOnCycles
  <2> QED BY <1>5, <2>1 DEF RepsOnCycles, OnCycle
<1>8. EdgesBounded'
  <2>1. /\ UNCHANGED <<fEdges, delDirectEdgeVec>>
        /\ rep2EdgeSet' \subseteq rep2EdgeSet
    BY DEF SCCRestore, Redetected
  <2>2. \A e \in InnerRemoved(r) : e \in SolvedEdges
    BY <1>1 DEF InnerRemoved, Bounded, EdgesBounded
  <2> QED BY <1>1, <1>2, <1>5, <2>1, <2>2 DEF Bounded, EdgesBounded
<1>9. WorkBounded'
  <2>1. insDirectConsVec' = {} /\ insPropMap' = {} /\ UNCHANGED insEdgeVec
    BY <1>1 DEF SCCRestore, BoundInv, VectorsClean
  <2> QED BY <1>1, <1>5, <2>1 DEF Bounded, WorkBounded
<1>10. FramesBounded'
  BY <1>1, EmptyCalls DEF FramesBounded
<1> QED BY <1>6, <1>7, <1>8, <1>9, <1>10 DEF Bounded
(* What holds while constraints are retracted. *)
LEMMA RetractingFacts ==
  ASSUME BoundInv, pc = "delEdge"
  PROVE  /\ ~Over /\ Bounded /\ TypeOK /\ GraphsAgree /\ RoundsCount
         /\ insDirectConsVec = {} /\ insPropMap = {} /\ stack \in Seq(Frame)
BY DEF BoundInv, Inv, Over, VectorsClean, TypeOK, PtsTypeOK

(* The vectors and the cycles after a step that only propagates. *)
LEMMA PropagatingBounded ==
  ASSUME TypeOK, GraphsAgree, RoundsCount, ~Over, Bounded, UNCHANGED <<base, rep>>,
         PtsBounded', FramesBounded',
         fEdges' \subseteq SolvedEdges, delDirectEdgeVec' \subseteq SolvedEdges,
         delEdgeVec' \subseteq SolvedEdges, \A x \in rep2EdgeSet' : x[2] \in SolvedEdges,
         insEdgeVec' \subseteq OtherPart(base), insDirectConsVec' \subseteq fEdges',
         \A x \in insPropMap' : rep[x[1]] = x[1] /\ x[2] \in Solved[x[1]]
  PROVE  Bounded'
<1>1. Solved' = Solved /\ SolvedEdges' = SolvedEdges
  BY DEF Solved, SolvedEdges
<1>2. RepsOnCycles'
  BY DEF Bounded, RepsOnCycles, OnCycle
<1>3. EdgesBounded' /\ WorkBounded'
  BY <1>1 DEF EdgesBounded, WorkBounded
<1> QED BY <1>2, <1>3 DEF Bounded

(* A recursive deletion call. *)
LEMMA DelOutBounded ==
  ASSUME BoundInv, NEW s \in PendingOuts, DelOut(s)
  PROVE  Bounded'
<1> USE DEF flatVars, superVars, delVars, insVars, pdmVars, ctlVars, roundVars
<1>1. /\ pc = "delEdge" /\ stack # <<>> /\ s \in Head(stack).outs
      /\ propagateDelPts(Transfer(s.kind, Head(stack).d), s.dst, Resumed(s))
      /\ UNCHANGED <<base, rep, sEdges, fEdges, delDirectEdgeVec, delEdgeVec, rep2EdgeSet,
                     insEdgeVec, insDirectConsVec, insPropMap>>
  BY DEF DelOut, InDeletion
<1>2. /\ ~Over /\ Bounded /\ TypeOK /\ GraphsAgree /\ RoundsCount
      /\ insDirectConsVec = {} /\ insPropMap = {}
  BY <1>1, RetractingFacts
<1>3. /\ Resumed(s) \in Seq(Frame) /\ \A f \in Calls(Resumed(s)) : FrameBounded(f)
      /\ Head(stack) \in Frame
  BY <1>1, <1>2, ResumedBounded DEF Bounded
<1>4. s.dst \in Node
  BY <1>1, <1>3 DEF Frame, DirectEdge, Edge
<1>5. \A r \in Node : DirectOut(r)' = DirectOut(r)
  BY <1>1 DEF DirectOut
<1>6. PtsBounded' /\ FramesBounded'
  BY <1>1, <1>2, <1>3, <1>4, <1>5, DelCallBounded DEF Bounded
<1> QED BY <1>1, <1>2, <1>6, PropagatingBounded DEF Bounded, EdgesBounded, WorkBounded

(* The end of a deletion call. *)
LEMMA DelComplexBounded ==
  ASSUME BoundInv, DelComplex
  PROVE  Bounded'
<1> USE DEF flatVars, superVars, delVars, insVars, pdmVars, ctlVars, roundVars
<1>1. /\ pc = "delEdge" /\ stack # <<>> /\ stack' = Tail(stack)
      /\ UNCHANGED <<base, rep, sEdges, pts, fEdges, delEdgeVec, rep2EdgeSet,
                     insEdgeVec, insDirectConsVec, insPropMap>>
      /\ \A c \in delDirectEdgeVec' : c \in delDirectEdgeVec \/
           \E x \in LostDerivations(ComplexAt(Head(stack).node), Head(stack).d) : c = x[1]
  BY DEF DelComplex, InDeletion
<1>2. /\ ~Over /\ Bounded /\ TypeOK /\ GraphsAgree /\ RoundsCount
      /\ insDirectConsVec = {} /\ insPropMap = {}
  BY <1>1, RetractingFacts
<1>3. Tail(stack) \in Seq(Frame) /\ \A f \in Calls(Tail(stack)) : FrameBounded(f)
  BY <1>1, <1>2, ResumedBounded DEF Bounded
<1>4. Solved' = Solved
  BY <1>1 DEF Solved
<1>5. PtsBounded' /\ FramesBounded'
  BY <1>1, <1>2, <1>3, <1>4 DEF Bounded, PtsBounded, FramesBounded, FrameBounded, DirectOut
<1>6. delDirectEdgeVec' \subseteq SolvedEdges
  BY <1>1, <1>2, LostDerivationsBounded DEF Bounded, EdgesBounded
<1> QED BY <1>1, <1>2, <1>5, <1>6, PropagatingBounded DEF Bounded, EdgesBounded, WorkBounded

(* Retraction of an address or of a direct constraint. *)
LEMMA PropagatingRemovalBounded ==
  ASSUME BoundInv, NEW e \in delEdgeVec, processAddrRemoval(e) \/ processDirectConstraintRemoval(e)
  PROVE  Bounded'
<1> USE DEF flatVars, superVars, delVars, insVars, pdmVars, ctlVars, roundVars, PopDelEdge
<1>1. /\ pc = "delEdge" /\ delEdgeVec' \subseteq delEdgeVec
      /\ UNCHANGED <<base, rep, delDirectEdgeVec, rep2EdgeSet, insEdgeVec, insDirectConsVec, insPropMap>>
      /\ fEdges' \subseteq fEdges
      /\ \E S : propagateDelPts(S, e.dst, <<>>)
      /\ UNCHANGED sEdges \/ (e.kind = "Addr" /\ removeSCGFlat(e, TRUE))
  BY DEF processAddrRemoval, processDirectConstraintRemoval
<1>2. /\ ~Over /\ Bounded /\ TypeOK /\ GraphsAgree /\ RoundsCount
      /\ insDirectConsVec = {} /\ insPropMap = {}
  BY <1>1, RetractingFacts
<1>3. e.dst \in Node
  BY <1>2 DEF TypeOK, DelTypeOK, Edge
<1>4. \A r \in Node : DirectOut(r) \subseteq DirectOut(r)'
  <2>1. \A s \in sEdges : IsDirect(s) => s \in sEdges'
    BY <1>1 DEF removeSCGFlat, Lift, LiftBy, IsDirect, DirectKind
  <2> QED BY <2>1 DEF DirectOut
<1>5. <<>> \in Seq(Frame) /\ Calls(<<>>) = {}
  BY EmptyCalls
<1>6. PtsBounded' /\ FramesBounded'
  BY <1>1, <1>2, <1>3, <1>4, <1>5, DelCallBounded DEF Bounded
<1> QED BY <1>1, <1>2, <1>6, PropagatingBounded DEF Bounded, EdgesBounded, WorkBounded

(* Every step of the deletion phase keeps the bound. *)
LEMMA DeletionBound ==
  ASSUME BoundInv, DeletionStep
  PROVE  RoundsCount' /\ VectorsClean' /\ Bounded' /\ ~Over /\ ~Over'
<1>1. DeletionMoves
  BY DeletionFrame
<1>2. ~Over /\ ~Over'
  BY <1>1 DEF DeletionMoves, Deleting, Over
<1>3. RoundsCount'
  BY <1>1, <1>2 DEF BoundInv, DeletionMoves, RoundsCount, Deleting, Inserting, Over
<1>4. VectorsClean'
  BY <1>1 DEF BoundInv, DeletionMoves, VectorsClean, Deleting
<1>5. Bounded'
  BY DelOutBounded, DelComplexBounded, EdgeRemovalBounded, QuietDeletionBounded, RestoreBounded,
     PropagatingRemovalBounded, ComplexRemovalBounded DEF DeletionStep
<1> QED BY <1>2, <1>3, <1>4, <1>5
-----------------------------------------------------------------------------
(* The representatives an SCC detection picks: nodes have the same one
   exactly when they are on a cycle. *)
LEMMA ChoicesAreCycles ==
  ASSUME NEW V \in SUBSET Node, NEW E, NEW m \in RepChoices(V, Components(V, E))
  PROVE  /\ m \in [V -> V]
         /\ \A n \in V : m[n] \in V /\ m[m[n]] = m[n] /\ SameCycle(V, E, n, m[n])
         /\ \A n, k \in V : m[n] = m[k] <=> SameCycle(V, E, n, k)
<1> DEFINE C == Components(V, E)
<1>1. /\ m \in [V -> V] /\ \A n \in V : m[m[n]] = m[n]
      /\ \E R \in SUBSET V : (\A X \in C : Cardinality(R \cap X) = 1) /\ m = RepMap(V, C, R)
  BY DEF RepChoices
<1>2. PICK R \in SUBSET V : (\A X \in C : Cardinality(R \cap X) = 1) /\ m = RepMap(V, C, R)
  BY <1>1
<1>3. IsFiniteSet(V)
  BY NodesAssumption, FS_Subset
<1>4. \A X \in C : \E r : R \cap X = {r}
  <2> SUFFICES ASSUME NEW X \in C PROVE \E r : R \cap X = {r}
    OBVIOUS
  <2>1. IsFiniteSet(R \cap X)
    BY <1>3, FS_Subset
  <2>2. Cardinality(R \cap X) = 1
    BY <1>2
  <2> QED BY <2>1, <2>2, FS_Singleton
<1>5. \A n \in V : CycleOf(V, E, n) \in C /\ n \in CycleOf(V, E, n)
  BY ComponentsAreCycles, SameCycleEquivalence DEF CycleOf
<1>6. ASSUME NEW n \in V PROVE m[n] \in R /\ m[n] \in CycleOf(V, E, n)
  <2>1. m[n] = CHOOSE k \in R : \E X \in C : {n, k} \subseteq X
    BY <1>2 DEF RepMap
  <2>2. \E k \in R : \E X \in C : {n, k} \subseteq X
    <3>1. PICK r : R \cap CycleOf(V, E, n) = {r}
      BY <1>4, <1>5
    <3> QED BY <1>5, <3>1
  <2>3. m[n] \in R /\ \E X \in C : {n, m[n]} \subseteq X
    BY <2>1, <2>2
  <2> QED BY <2>3, ComponentsAreCycles
<1>7. \A n \in V : m[n] \in V /\ SameCycle(V, E, n, m[n])
  BY <1>6 DEF CycleOf
<1>8. ASSUME NEW n \in V, NEW k \in V, m[n] = m[k] PROVE SameCycle(V, E, n, k)
  BY <1>7, <1>8, SameCycleEquivalence
<1>9. ASSUME NEW n \in V, NEW k \in V, SameCycle(V, E, n, k) PROVE m[n] = m[k]
  <2>1. CycleOf(V, E, n) = CycleOf(V, E, k)
    BY <1>9, ComponentsAreCycles
  <2>2. PICK r : R \cap CycleOf(V, E, n) = {r}
    BY <1>4, <1>5
  <2> QED BY <1>6, <2>1, <2>2
<1> QED BY <1>1, <1>7, <1>8, <1>9

-----------------------------------------------------------------------------
(* Steps of the insertion phase *)

(* What no step of the insertion touches, and what each vector may become. *)
InsertionMoves ==
  /\ \/ Inserting
     \/ pc = "deleted" /\ pc' = "insDirect" /\ mode # "old"
  /\ Inserting' \/ pc' = "idle"
  /\ \/ pc' \in {"insDirect", "insCons"}
     \/ insDirectConsVec' = {}
     \/ insDirectConsVec' = insDirectConsVec /\ pc \notin {"insDirect", "insCons"}
  /\ \/ pc' \in {"insCons", "insProp"}
     \/ insPropMap' = {} /\ unFilterSet' = {}
     \/ UNCHANGED <<insPropMap, unFilterSet>> /\ pc \notin {"insCons", "insProp"}
  /\ UNCHANGED <<base, mode, round, diff, delDirectEdgeVec, delEdgeVec, redetectReps,
                 rep2EdgeSet, SCCBreak>>

(* What no step of the insertion phase touches. *)
LEMMA InsertionFrame == InsertionStep => InsertionMoves \/ FinishOld
<1> USE DEF InsertionMoves, Inserting, flatVars, superVars, delVars, insVars, pdmVars, ctlVars, roundVars
<1>1. ASSUME StartInsertion \/ StartDiffInsertion PROVE InsertionMoves
  BY <1>1 DEF StartInsertion, StartDiffInsertion
<1>2. ASSUME NEW s \in PendingOuts, InsOut(s) PROVE InsertionMoves
  BY <1>2 DEF InsOut, InInsertion
<1>3. ASSUME InsComplex PROVE InsertionMoves
  BY <1>3 DEF InsComplex, InInsertion
<1>4. ASSUME NEW x \in insDirectEdgeVec, processCopyAddition(x[1], x[2]) PROVE InsertionMoves
  BY <1>4 DEF processCopyAddition
<1>5. ASSUME NEW x \in insDirectEdgeVec, processGepAddition(x[1]) PROVE InsertionMoves
  BY <1>5 DEF processGepAddition
<1>6. ASSUME SkipSCCDetect PROVE InsertionMoves
  BY <1>6 DEF SkipSCCDetect
<1>7. ASSUME SCCDetect PROVE InsertionMoves
  BY <1>7 DEF SCCDetect
<1>8. ASSUME NEW e \in insDirectConsVec, processDirectConstraintAddition(e) PROVE InsertionMoves
  BY <1>8 DEF processDirectConstraintAddition
<1>9. ASSUME InsConsDone PROVE InsertionMoves
  BY <1>9 DEF InsConsDone
<1>10. ASSUME NEW n \in Node, ProcessPropMap(n) PROVE InsertionMoves
  BY <1>10 DEF ProcessPropMap
<1>11. ASSUME InsPropDone PROVE InsertionMoves
  BY <1>11 DEF InsPropDone
<1>12. ASSUME NEW e \in insEdgeVec, processAddrAddition(e) PROVE InsertionMoves
  BY <1>12 DEF processAddrAddition, PopInsEdge
<1>13. ASSUME NEW e \in insEdgeVec, processComplexAddition(e) PROVE InsertionMoves
  BY <1>13 DEF processComplexAddition, PopInsEdge
<1>14. ASSUME InsIterationDone PROVE InsertionMoves
  BY <1>14 DEF InsIterationDone
<1> QED BY <1>1, <1>2, <1>3, <1>4, <1>5, <1>6, <1>7, <1>8, <1>9, <1>10, <1>11, <1>12, <1>13, <1>14 DEF InsertionStep

(* What holds while constraints are inserted. *)
LEMMA InsertingFacts ==
  ASSUME BoundInv, Inserting \/ pc = "deleted"
  PROVE  /\ ~Over /\ Bounded /\ PtsBounded /\ RepsOnCycles /\ EdgesBounded /\ WorkBounded
         /\ FramesBounded /\ TypeOK /\ GraphsAgree /\ RoundsCount
         /\ stack \in Seq(Frame) /\ (pc \notin {"insProp", "insEdge"} => stack = <<>>)
BY DEF BoundInv, Bounded, Inv, Ledger, PhaseClean, Over, Inserting, TypeOK, PtsTypeOK

(* Steps of the insertion phase that touch no set and add no edge. *)
LEMMA QuietInsertionBounded ==
  ASSUME BoundInv,
         \/ StartInsertion \/ StartDiffInsertion \/ SkipSCCDetect \/ InsConsDone
         \/ InsPropDone \/ InsIterationDone
  PROVE  Bounded'
<1> USE DEF StartInsertion, StartDiffInsertion, SkipSCCDetect, InsConsDone, InsPropDone,
            InsIterationDone, flatVars, superVars, delVars, insVars, ctlVars, roundVars
<1>1. Inserting \/ pc = "deleted"
  BY DEF Inserting
<1>2. /\ ~Over /\ Bounded /\ EdgesBounded /\ WorkBounded /\ TypeOK /\ GraphsAgree /\ RoundsCount
  BY <1>1, InsertingFacts
<1>3. stack' = <<>>
  BY <1>1, InsertingFacts
<1>4. /\ UNCHANGED <<base, rep, pts, fEdges, delDirectEdgeVec, delEdgeVec, rep2EdgeSet,
                     insDirectConsVec, insPropMap>>
      /\ insEdgeVec' = insEdgeVec \/ insEdgeVec' = OtherPart(diff)
  BY DEF Insertions
<1>5. OtherPart(diff) \subseteq OtherPart(base)
  BY <1>2 DEF TypeOK, RoundTypeOK, OtherPart
<1> QED BY <1>2, <1>3, <1>4, <1>5, QuietBounded DEF EdgesBounded, WorkBounded

(* Addition of a load or store asks for copies the solved graph has. *)
LEMMA ComplexAdditionBounded ==
  ASSUME BoundInv, NEW e \in insEdgeVec, processComplexAddition(e)
  PROVE  Bounded'
<1> USE DEF flatVars, superVars, delVars, insVars, pdmVars, ctlVars, roundVars
<1>1. /\ pc = "insEdge" /\ stack = <<>> /\ stack' = <<>>
      /\ UNCHANGED <<base, rep, pts, delDirectEdgeVec, delEdgeVec, rep2EdgeSet,
                     insDirectConsVec, insPropMap>>
      /\ insEdgeVec' \subseteq insEdgeVec /\ fEdges' = fEdges \cup {e}
  BY DEF processComplexAddition, PopInsEdge
<1>2. /\ ~Over /\ Bounded /\ EdgesBounded /\ WorkBounded /\ TypeOK /\ GraphsAgree /\ RoundsCount
  BY <1>1, InsertingFacts DEF Inserting
<1>3. e \in SolvedEdges
  BY <1>2 DEF WorkBounded, OtherPart, SolvedEdges
<1> QED BY <1>1, <1>2, <1>3, QuietBounded DEF EdgesBounded, WorkBounded

(* What a new direct super edge puts into the propagation map is implied at
   its target. *)
LEMMA ConstraintAdditionBounded ==
  ASSUME BoundInv, NEW e \in insDirectConsVec, processDirectConstraintAddition(e)
  PROVE  Bounded'
<1> USE DEF flatVars, superVars, delVars, insVars, pdmVars, ctlVars, roundVars
<1>1. /\ pc = "insCons"
      /\ UNCHANGED <<base, rep, pts, fEdges, delDirectEdgeVec, delEdgeVec, rep2EdgeSet,
                     insEdgeVec, stack>>
      /\ insDirectConsVec' \subseteq insDirectConsVec
      /\ insPropMap' = insPropMap \cup ({rep[e.dst]} \X Transfer(e.kind, getPts(e.src)))
  BY DEF processDirectConstraintAddition
<1>2. /\ ~Over /\ Bounded /\ PtsBounded /\ RepsOnCycles /\ EdgesBounded /\ WorkBounded
      /\ TypeOK /\ GraphsAgree /\ RoundsCount /\ stack' = <<>>
  BY <1>1, InsertingFacts DEF Inserting
<1>3. e \in SolvedEdges /\ IsDirect(e)
  BY <1>2 DEF WorkBounded, EdgesBounded, TypeOK, InsTypeOK, DirectEdge
<1>4. /\ e.src \in Node /\ e.dst \in Node
      /\ \A S \in SUBSET Solved[e.src] : Transfer(e.kind, S) \subseteq Solved[e.dst]
  BY <1>2, <1>3, SolvedEdgeCarries
<1>5. Transfer(e.kind, getPts(e.src)) \subseteq Solved[rep[e.dst]] /\ rep[rep[e.dst]] = rep[e.dst]
  BY <1>2, <1>4, GetPtsBounded, RepFacts
<1>6. \A x \in insPropMap' : rep[x[1]] = x[1] /\ x[2] \in Solved[x[1]]
  BY <1>1, <1>2, <1>5 DEF WorkBounded
<1> QED BY <1>1, <1>2, <1>6, QuietBounded DEF EdgesBounded, WorkBounded

(* An edge that waits to be inserted belongs to the solved graph. *)
LEMMA RequestBounded ==
  ASSUME BoundInv, ~Over, NEW x \in insDirectEdgeVec
  PROVE  x[1] \in SolvedEdges
<1>1. /\ TypeOK /\ GraphsAgree /\ RoundsCount /\ PtsBounded /\ RepsOnCycles /\ EdgesBounded
      /\ PendingOwnerLive /\ NonPtrSkipped
  BY DEF BoundInv, Bounded, Inv, Ledger
<1>2. CASE x[1] = x[2] /\ x[1] \in base
  BY <1>2 DEF SolvedEdges
<1>3. CASE ~(x[1] = x[2] /\ x[1] \in base)
  <2> DEFINE ce == x[2]
             o == CacheBit(x[1], x[2])
  <2>1. /\ IsComplex(ce) /\ ce \in fEdges /\ x[1] = DerivedCopy(ce, o) /\ o \in getPts(Pointer(ce))
        /\ ce \in Edge
    BY <1>1, <1>3 DEF PendingOwnerLive, TypeOK, FlatTypeOK
  <2>8. x \in Request /\ o \in Obj
    BY <1>1, <2>1 DEF TypeOK, InsTypeOK, Request
  <2>2. x[1] # x[2]
    BY <2>1, <2>8 DEF Request, DirectEdge, IsDirect, DirectKind, IsComplex, ComplexKind
  <2>3. o \in Obj /\ o \notin NonPtrObj
    BY <1>1, <2>2, <2>8 DEF NonPtrSkipped
  <2>4. o \in Solved[Pointer(ce)]
    BY <1>1, <2>1, PointerType, GetPtsBounded
  <2>5. ce \in base
    <3>1. ce \in SolvedEdges /\ ce.kind # "Copy"
      BY <1>1, <2>1 DEF EdgesBounded, IsComplex, ComplexKind
    <3>2. DerivedCopies(base, Solved) \subseteq DirectEdge
      BY <1>1, ProgramFacts, DerivedCopiesType
    <3> QED BY <2>1, <3>1, <3>2 DEF SolvedEdges, DirectEdge, IsDirect, DirectKind, IsComplex, ComplexKind
  <2>6. <<ce, o>> \in {e \in base : IsComplex(e)} \X (Obj \ NonPtrObj)
    BY <2>1, <2>3, <2>5
  <2>7. x[1] \in DerivedCopies(base, Solved)
    BY <2>1, <2>4, <2>6 DEF DerivedCopies
  <2> QED BY <2>7 DEF SolvedEdges
<1> QED BY <1>2, <1>3

(* Addition of a direct edge adds an edge of the solved graph. *)
LEMMA DirectAdditionBounded ==
  ASSUME BoundInv, NEW x \in insDirectEdgeVec,
         processCopyAddition(x[1], x[2]) \/ processGepAddition(x[1])
  PROVE  Bounded'
<1> USE DEF flatVars, superVars, delVars, insVars, pdmVars, ctlVars, roundVars
<1>1. /\ pc = "insDirect"
      /\ UNCHANGED <<base, rep, pts, delDirectEdgeVec, delEdgeVec, rep2EdgeSet,
                     insEdgeVec, insPropMap, stack>>
      /\ fEdges \subseteq fEdges' /\ fEdges' \subseteq fEdges \cup {x[1]}
      /\ \/ insDirectConsVec' = insDirectConsVec
         \/ insDirectConsVec' = insDirectConsVec \cup {x[1]} /\ x[1] \in fEdges'
  BY DEF processCopyAddition, processGepAddition, addCopyFCGEdge, addDirectSCGEdge, KeepSCG, NewFEdge
<1>2. /\ ~Over /\ Bounded /\ EdgesBounded /\ WorkBounded
      /\ TypeOK /\ GraphsAgree /\ RoundsCount /\ stack' = <<>>
  BY <1>1, InsertingFacts DEF Inserting
<1>3. x[1] \in SolvedEdges
  BY <1>2, RequestBounded
<1> QED BY <1>1, <1>2, <1>3, QuietBounded DEF EdgesBounded, WorkBounded

(* The steps that propagate an insertion. *)
LEMMA InsOutBounded ==
  ASSUME BoundInv, NEW s \in PendingOuts, InsOut(s)
  PROVE  Bounded'
<1> USE DEF flatVars, superVars, delVars, insVars, pdmVars, ctlVars, roundVars
<1>1. /\ Inserting /\ stack # <<>> /\ s \in Head(stack).outs
      /\ propagateInsPts(Transfer(s.kind, Head(stack).d), s.dst, FALSE, Resumed(s))
      /\ UNCHANGED <<base, rep, sEdges, fEdges, delDirectEdgeVec, delEdgeVec, rep2EdgeSet,
                     insEdgeVec, insDirectConsVec, insPropMap>>
  BY DEF InsOut, InInsertion, Inserting
<1>2. /\ ~Over /\ Bounded /\ PtsBounded /\ RepsOnCycles /\ EdgesBounded /\ WorkBounded
      /\ FramesBounded /\ TypeOK /\ GraphsAgree /\ RoundsCount
  BY <1>1, InsertingFacts
<1>3. /\ Resumed(s) \in Seq(Frame) /\ \A f \in Calls(Resumed(s)) : FrameBounded(f)
      /\ FrameBounded(Head(stack))
  BY <1>1, <1>2, ResumedBounded
<1>4. /\ s \in sEdges /\ IsDirect(s) /\ s.src # s.dst
      /\ Head(stack).d \subseteq Solved[s.src]
  BY <1>1, <1>3 DEF FrameBounded, DirectOut
<1>5. s.dst \in Node /\ Transfer(s.kind, Head(stack).d) \subseteq Solved[s.dst]
  BY <1>2, <1>4, SuperEdgeCarries
<1>6. \A r \in Node : DirectOut(r)' = DirectOut(r)
  BY <1>1 DEF DirectOut
<1>7. PtsBounded' /\ FramesBounded'
  BY <1>1, <1>2, <1>3, <1>5, <1>6, InsCallBounded
<1> QED BY <1>1, <1>2, <1>7, PropagatingBounded DEF EdgesBounded, WorkBounded

(* The end of an insertion call asks for copies the solved graph has. *)
LEMMA InsComplexBounded ==
  ASSUME BoundInv, InsComplex
  PROVE  Bounded'
<1> USE DEF flatVars, superVars, delVars, insVars, pdmVars, ctlVars, roundVars
<1>1. /\ Inserting /\ stack # <<>> /\ stack' = Tail(stack)
      /\ UNCHANGED <<base, rep, sEdges, pts, fEdges, delDirectEdgeVec, delEdgeVec, rep2EdgeSet,
                     insEdgeVec, insDirectConsVec, insPropMap>>
  BY DEF InsComplex, InInsertion, Inserting
<1>2. /\ ~Over /\ Bounded /\ PtsBounded /\ EdgesBounded /\ WorkBounded
      /\ FramesBounded /\ TypeOK /\ GraphsAgree /\ RoundsCount
  BY <1>1, InsertingFacts
<1>3. \A f \in Calls(Tail(stack)) : FrameBounded(f)
  BY <1>1, <1>2, ResumedBounded
<1>4. Solved' = Solved
  BY <1>1 DEF Solved
<1>5. PtsBounded' /\ FramesBounded'
  BY <1>1, <1>2, <1>3, <1>4 DEF PtsBounded, FramesBounded, FrameBounded, DirectOut
<1> QED BY <1>1, <1>2, <1>5, PropagatingBounded DEF EdgesBounded, WorkBounded

(* Addition of an address adds a fact of the program. *)
LEMMA AddrAdditionBounded ==
  ASSUME BoundInv, NEW e \in insEdgeVec, processAddrAddition(e)
  PROVE  Bounded'
<1> USE DEF flatVars, superVars, delVars, insVars, pdmVars, ctlVars, roundVars
<1>1. /\ Inserting /\ e.kind = "Addr" /\ insEdgeVec' \subseteq insEdgeVec
      /\ UNCHANGED <<base, rep, delDirectEdgeVec, delEdgeVec, rep2EdgeSet,
                     insDirectConsVec, insPropMap>>
      /\ fEdges' = fEdges \cup {e} /\ sEdges \subseteq sEdges'
      /\ propagateInsPts({e.src}, e.dst, FALSE, <<>>)
  BY DEF processAddrAddition, PopInsEdge, addSCGEdge, Inserting
<1>2. /\ ~Over /\ Bounded /\ PtsBounded /\ RepsOnCycles /\ EdgesBounded /\ WorkBounded
      /\ TypeOK /\ GraphsAgree /\ RoundsCount
  BY <1>1, InsertingFacts
<1>3. e \in base /\ e \in SolvedEdges
  BY <1>2 DEF WorkBounded, OtherPart, SolvedEdges
<1>4. e.dst \in Node /\ {e.src} \subseteq Solved[e.dst]
  BY <1>1, <1>2, <1>3, ProgramFacts DEF Edge, Closes
<1>5. \A r \in Node : DirectOut(r) \subseteq DirectOut(r)'
  BY <1>1 DEF DirectOut
<1>6. <<>> \in Seq(Frame) /\ Calls(<<>>) = {}
  BY EmptyCalls
<1>7. PtsBounded' /\ FramesBounded'
  BY <1>1, <1>2, <1>4, <1>5, <1>6, InsCallBounded
<1> QED BY <1>1, <1>2, <1>3, <1>7, PropagatingBounded DEF EdgesBounded, WorkBounded

(* Draining the propagation map adds facts the program implies. *)
LEMMA PropMapBounded ==
  ASSUME BoundInv, NEW n \in Node, ProcessPropMap(n)
  PROVE  Bounded'
<1> USE DEF flatVars, superVars, delVars, insVars, pdmVars, ctlVars, roundVars
<1> DEFINE S == {x[2] : x \in {y \in insPropMap : y[1] = n}}
<1>1. /\ Inserting /\ insPropMap' \subseteq insPropMap
      /\ UNCHANGED <<base, rep, sEdges, fEdges, delDirectEdgeVec, delEdgeVec, rep2EdgeSet,
                     insEdgeVec, insDirectConsVec>>
      /\ propagateInsPts(S, n, n \in unFilterSet, <<>>)
  BY DEF ProcessPropMap, Inserting
<1>2. /\ ~Over /\ Bounded /\ PtsBounded /\ RepsOnCycles /\ EdgesBounded /\ WorkBounded
      /\ TypeOK /\ GraphsAgree /\ RoundsCount
  BY <1>1, InsertingFacts
<1>3. S \subseteq Solved[n]
  BY <1>2 DEF WorkBounded
<1>4. \A r \in Node : DirectOut(r) \subseteq DirectOut(r)'
  BY <1>1 DEF DirectOut
<1>5. <<>> \in Seq(Frame) /\ Calls(<<>>) = {}
  BY EmptyCalls
<1> HIDE DEF S
<1>6. PtsBounded' /\ FramesBounded'
  BY <1>1, <1>2, <1>3, <1>4, <1>5, InsCallBounded
<1> QED BY <1>1, <1>2, <1>6, PropagatingBounded DEF EdgesBounded, WorkBounded

-----------------------------------------------------------------------------
(* Cycle detection *)

SuperDirect == {s \in sEdges : IsDirect(s)}

(* Representatives on a cycle of super edges are on a cycle of the solved
   graph. *)
LEMMA SuperReachesSolved ==
  ASSUME TypeOK, GraphsAgree, RoundsCount, ~Over, RepsOnCycles, EdgesBounded,
         NEW r \in Reps, NEW E \in SUBSET SuperDirect
  PROVE  \A q \in Reached(Reps, E, r) : q \in Reached(Node, SolvedDirect(base), r)
<1> DEFINE f == [n \in Node |-> n]
           D == SolvedDirect(base)
<1>1. Reps \in SUBSET Node /\ Node \in SUBSET Node
  BY DEF Reps
<1>2. ASSUME NEW s \in E, s.src \in Reps, s.dst \in Reps
      PROVE  f[s.dst] \in Reached(Node, D, f[s.src])
  <2>1. s.src \in Node /\ s.dst \in Node /\ s \in sEdges /\ IsDirect(s)
    BY <1>1, <1>2 DEF SuperDirect
  <2>2. CASE s.src = s.dst
    BY <1>1, <2>1, <2>2, ReachedCloses
  <2>3. CASE s.src # s.dst
    <3>1. PICK e \in fEdges : /\ IsDirect(e) /\ rep[e.src] = s.src /\ rep[e.dst] = s.dst
                              /\ e.src \in Node /\ e.dst \in Node
      BY <2>1, <2>3, SuperEdgeCarries
    <3>2. e \in D
      BY <3>1, SolvedEdgeCarries DEF EdgesBounded
    <3>3. /\ e.src \in Reached(Node, D, s.src)
          /\ s.dst \in Reached(Node, D, e.dst)
      BY <3>1, CycleFacts DEF RepsOnCycles, OnCycle, SameCycle
    <3>4. e.dst \in Reached(Node, D, e.src)
      BY <1>1, <3>1, <3>2, ReachedCloses
    <3>5. s.dst \in Reached(Node, D, s.src)
      BY <1>1, <2>1, <3>1, <3>3, <3>4, ReachedTransitive
    <3> QED BY <2>1, <3>5
  <2> QED BY <2>2, <2>3
<1>3. \A x \in Reps : f[x] \in Node /\ f[x] = x
  BY <1>1
<1> HIDE DEF f, D
<1>4. \A q \in Reached(Reps, E, r) : f[q] \in Reached(Node, D, f[r])
  BY <1>1, <1>2, <1>3, ReachedMapped
<1>5. \A q \in Reached(Reps, E, r) : q \in Reps
  BY <1>1, ReachedCloses
<1> QED BY <1>3, <1>4, <1>5 DEF D

(* Merging a cycle of the super graph merges a cycle of the solved graph,
   whose nodes have equal solutions. *)
LEMMA DetectBounded ==
  ASSUME BoundInv, SCCDetect
  PROVE  Bounded'
<1> USE DEF flatVars, superVars, delVars, insVars, pdmVars, ctlVars, roundVars
<1>1. /\ pc = "insDirect"
      /\ UNCHANGED <<base, fEdges, delDirectEdgeVec, delEdgeVec, rep2EdgeSet,
                     insEdgeVec, insDirectConsVec, insPropMap, stack>>
  BY DEF SCCDetect
<1>2. /\ ~Over /\ Bounded /\ PtsBounded /\ RepsOnCycles /\ EdgesBounded /\ WorkBounded
      /\ TypeOK /\ GraphsAgree /\ RoundsCount /\ stack' = <<>>
  BY <1>1, InsertingFacts DEF Inserting
<1>3. PICK m \in RepChoices(Reps, Components(Reps, SuperDirect)) :
        /\ rep' = MergedRep(m)
        /\ pts' = [n \in Node |-> IF n \in Reps /\ m[n] = n
                                  THEN UNION {pts[k] : k \in {x \in Reps : m[x] = n}}
                                  ELSE pts[n]]
  BY DEF SCCDetect, mergeSccCycle, SuperDirect
<1>4. Reps \in SUBSET Node
  BY DEF Reps
<1>5. \A n \in Reps : m[n] \in Reps /\ OnCycle(n, m[n])
  <2>1. \A n \in Reps : m[n] \in Reps /\ SameCycle(Reps, SuperDirect, n, m[n])
    BY <1>4, ChoicesAreCycles
  <2> QED BY <1>2, <2>1, SuperReachesSolved DEF SameCycle, OnCycle
<1>6. Solved' = Solved /\ SolvedEdges' = SolvedEdges
  BY <1>1 DEF Solved, SolvedEdges
<1>7. PtsBounded'
  <2>1. \A n, k \in Reps : m[k] = n => pts[k] \subseteq Solved[n]
    BY <1>2, <1>4, <1>5, CycleFacts DEF PtsBounded
  <2> QED BY <1>2, <1>3, <1>4, <1>6, <2>1 DEF PtsBounded
<1>8. RepsOnCycles'
  <2>1. ASSUME NEW n \in Node PROVE OnCycle(n, rep'[n])
    <3>1. rep[n] \in Reps /\ OnCycle(n, rep[n]) /\ rep'[n] = m[rep[n]]
      BY <1>2, <1>3, RepFacts DEF Reps, RepsOnCycles, MergedRep
    <3>2. OnCycle(rep[n], rep'[n]) /\ rep'[n] \in Node /\ rep[n] \in Node
      BY <1>4, <1>5, <3>1
    <3> QED BY <1>2, <3>1, <3>2, CycleFacts
  <2> QED BY <1>1, <2>1 DEF RepsOnCycles, OnCycle
<1>9. EdgesBounded'
  BY <1>1, <1>2, <1>6 DEF EdgesBounded
<1>10. WorkBounded'
  <2>1. insPropMap' = {}
    BY <1>1 DEF BoundInv, VectorsClean
  <2> QED BY <1>1, <1>2, <2>1 DEF WorkBounded
<1>11. FramesBounded'
  BY <1>2, EmptyCalls DEF FramesBounded
<1> QED BY <1>7, <1>8, <1>9, <1>10, <1>11 DEF Bounded

(* Every step of the insertion phase keeps the bound. *)
LEMMA InsertionBound ==
  ASSUME BoundInv, InsertionStep
  PROVE  RoundsCount' /\ VectorsClean' /\ (~Over' => Bounded')
<1>1. CASE FinishOld
  <2>1. /\ pc = "deleted" /\ pc' = "idle" /\ Over' /\ UNCHANGED <<mode, round>>
        /\ UNCHANGED <<insDirectConsVec, insPropMap, unFilterSet, delEdgeVec, redetectReps>>
    BY <1>1 DEF FinishOld, Over, BoundInv, RoundsCount, insVars, delVars
  <2> QED BY <2>1 DEF BoundInv, RoundsCount, VectorsClean, Deleting, Inserting
<1>2. CASE InsertionMoves
  <2>1. ~Over /\ ~Over' /\ ~Deleting' /\ ~Deleting
    BY <1>2 DEF InsertionMoves, Inserting, Deleting, Over, BoundInv, RoundsCount
  <2>2. RoundsCount'
    BY <1>2, <2>1 DEF InsertionMoves, BoundInv, RoundsCount, Inserting, Over
  <2>3. VectorsClean'
    BY <1>2, <2>1 DEF InsertionMoves, BoundInv, VectorsClean, Deleting
  <2>4. ~FinishOld
    BY <1>2 DEF InsertionMoves, FinishOld, Inserting
  <2>5. Bounded'
    BY <2>4, QuietInsertionBounded, ComplexAdditionBounded, ConstraintAdditionBounded,
       DirectAdditionBounded, InsOutBounded, InsComplexBounded, AddrAdditionBounded,
       PropMapBounded, DetectBounded DEF InsertionStep
  <2> QED BY <2>2, <2>3, <2>5
<1> QED BY <1>1, <1>2, InsertionFrame

-----------------------------------------------------------------------------
(* Setting up a round queues statements of the program. *)
LEMMA StartBound ==
  ASSUME BoundInv, NEW D \in SUBSET base, StartRound(D)
  PROVE  RoundsCount' /\ VectorsClean' /\ Bounded' /\ ~Over
<1> USE DEF StartRound, flatVars, superVars, pdmVars
<1>1. ~Over /\ Bounded /\ TypeOK /\ GraphsAgree /\ RoundsCount /\ stack' = <<>>
  BY DEF BoundInv, Inv, Over, TypeOK, RoundTypeOK, Ledger, PhaseClean
<1>2. RoundsCount'
  BY <1>1 DEF RoundsCount, Over, Inserting, TypeOK, RoundTypeOK
<1>3. VectorsClean'
  BY DEF BoundInv, VectorsClean, Deleting
<1>4. /\ UNCHANGED <<base, rep, pts, fEdges, rep2EdgeSet, insDirectConsVec, insPropMap>>
      /\ delDirectEdgeVec' = DirectPart(D) /\ delEdgeVec' = OtherPart(D)
      /\ insEdgeVec' = insEdgeVec \/ insEdgeVec' = OtherPart(D)
  BY DEF Deletions, Insertions
<1>5. /\ DirectPart(D) \subseteq SolvedEdges /\ OtherPart(D) \subseteq SolvedEdges
      /\ OtherPart(D) \subseteq OtherPart(base)
  BY DEF DirectPart, OtherPart, SolvedEdges
<1>6. Bounded'
  BY <1>1, <1>4, <1>5, QuietBounded DEF Bounded, EdgesBounded, WorkBounded
<1> QED BY <1>1, <1>2, <1>3, <1>6

(* The state after the exhaustive analysis is within the bound. *)
LEMMA InitBound == Init => RoundsCount /\ VectorsClean /\ ~Over /\ Bounded
<1> SUFFICES ASSUME Init PROVE RoundsCount /\ VectorsClean /\ ~Over /\ Bounded
  OBVIOUS
<1>1. RoundsCount /\ VectorsClean /\ ~Over
  BY DEF Init, RoundsCount, VectorsClean, Over, Inserting, Deleting
<1>2. TypeOK
  BY InitType
<1>3. /\ SolvedFlat(base, Solved)
      /\ \E m \in RepChoices(Node, Components(Node, {e \in fEdges : IsDirect(e)})) :
           /\ SolvedSuper(m)
           /\ \E stale \in BOOLEAN : pts = SolvedPts(Solved, m, stale)
  BY DEF Init, Solved
<1>4. fEdges = SolvedEdges
  BY <1>3 DEF SolvedFlat, SolvedEdges, DerivedCopies
<1>5. {e \in fEdges : IsDirect(e)} = SolvedDirect(base)
  BY <1>1, <1>4, ProgramFacts
<1>6. PICK m \in RepChoices(Node, Components(Node, SolvedDirect(base))) :
        rep = m /\ \E stale \in BOOLEAN : pts = SolvedPts(Solved, m, stale)
  BY <1>3, <1>5 DEF SolvedSuper
<1>7. /\ \A n \in Node : m[n] \in Node /\ OnCycle(n, m[n])
  <2>1. Node \in SUBSET Node
    OBVIOUS
  <2> QED BY <2>1, ChoicesAreCycles DEF OnCycle
<1>8. RepsOnCycles
  BY <1>6, <1>7 DEF RepsOnCycles
<1>9. PtsBounded
  <2>1. \A n, k \in Node : m[k] = n => Solved[k] = Solved[n]
    BY <1>1, <1>2, <1>7, CycleFacts
  <2> QED BY <1>6, <2>1 DEF PtsBounded, SolvedPts
<1>10. EdgesBounded /\ WorkBounded
  BY <1>4 DEF Init, EdgesBounded, WorkBounded
<1>11. FramesBounded
  BY EmptyCalls DEF Init, FramesBounded
<1> QED BY <1>1, <1>8, <1>9, <1>10, <1>11 DEF Bounded

(* The bound is inductive. *)
LEMMA BoundInductive ==
  ASSUME BoundInv, [Next]_vars
  PROVE  BoundInv'
<1>1. Inv'
  BY LedgerInductive DEF BoundInv
<1>2. RoundsCount' /\ VectorsClean' /\ (~Over' => Bounded')
  <2>1. CASE UNCHANGED vars
    BY <2>1 DEF BoundInv, RoundsCount, VectorsClean, Over, Bounded, PtsBounded, RepsOnCycles,
       OnCycle, EdgesBounded, WorkBounded, FramesBounded, FrameBounded, Solved, SolvedEdges,
       DirectOut, Deleting, Inserting, Calls, vars, flatVars, superVars, delVars, insVars,
       ctlVars, roundVars
  <2>2. ASSUME NEW D \in SUBSET base, StartRound(D)
        PROVE  RoundsCount' /\ VectorsClean' /\ (~Over' => Bounded')
    BY <2>2, StartBound
  <2> QED BY <2>1, <2>2, DeletionBound, InsertionBound DEF Next
<1> QED BY <1>1, <1>2 DEF BoundInv

(* The bound holds in every reachable state. *)
LEMMA BoundInvariant == Spec => []BoundInv
<1>1. Init => BoundInv
  BY InitType, InitGraphs, InitLedger, InitBound DEF BoundInv, Inv
<1>2. BoundInv /\ [Next]_vars => BoundInv'
  BY BoundInductive
<1> QED BY <1>1, <1>2, PTL DEF Spec

(* No round, in whatever order it deletes and inserts, ever gives a node an
   object the exhaustive analysis of the program would not give it, and no
   cycle is merged that is not one of the solved graph: what deletion leaves
   behind is a subset, and insertion never overshoots. *)
WithinSolution ==
  mode # "old" => /\ \A n \in Node : getPts(n) \subseteq LeastSolution(base)[n]
                  /\ \A n \in Node : SameCycle(Node, SolvedDirect(base), n, rep[n])

THEOREM NothingBeyondSolution == Spec => []WithinSolution
<1>1. BoundInv => WithinSolution
  BY GetPtsBounded DEF BoundInv, Inv, Bounded, Over, WithinSolution, RepsOnCycles, OnCycle, Solved
<1> QED BY <1>1, BoundInvariant, PTL
=============================================================================
