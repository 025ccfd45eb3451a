---------------------------- MODULE AndersenInc ----------------------------
(***************************************************************************)
(* The incremental pointer analysis. Starting from a solved constraint     *)
(* system it runs rounds; a round deletes a set of program constraints     *)
(* (processDeletion_EdgeConstraint) and inserts them again                 *)
(* (processInsertion), or, for the old version of a program that changed,  *)
(* only deletes them. Both phases drain work vectors in a loop: direct     *)
(* edges first, then cycles are taken apart or merged, then the remaining  *)
(* constraints, whose effect on the points-to sets is propagated along the *)
(* super graph by a recursive function. The recursion is an explicit stack *)
(* here, one frame per active call.                                        *)
(*                                                                         *)
(* The vectors are drained completely before the next phase starts and     *)
(* their initial order is that of a hash set, so they are sets here: every *)
(* order of draining is explored.                                          *)
(***************************************************************************)
EXTENDS SuperConsG, Sequences

CONSTANTS
  Modes,      \* how the analysis is driven: a subset of Mode
  Programs,   \* the sets of program constraints an analysis may start from
  MaxStep,    \* most constraints changed in one round (Options::IncStep)
  MaxRounds   \* rounds explored (a bound of the model)

(* stepIncremental over the whole program (no -irdiff); analyze_inc on the
   old version; analyze_inc_reset and analyze_inc on the new version. *)
Mode == {"step", "old", "new"}

ASSUME AndersenIncAssumption ==
  /\ Modes \subseteq Mode
  /\ \A B \in Programs : WellFormed(B) /\ FieldsSettled(B)
  /\ MaxStep \in Nat \ {0}
  /\ MaxRounds \in Nat

VARIABLES
  base,             \* the constraints of the program
  diff,             \* the ones this round deletes and inserts again
  pts,              \* node -> points-to set, kept for representatives
  delDirectEdgeVec, \* copy and gep edges to delete
  delEdgeVec,       \* constraints whose effect is to be retracted
  redetectReps,     \* representatives that lost an inner edge
  rep2EdgeSet,      \* <<rep, e>>: inner edge e was removed from rep
  SCCBreak,         \* a cycle was taken apart in the last deletion phase
  insDirectEdgeVec, \* <<e, ce>>: direct edge e to add on behalf of ce
  insDirectConsVec, \* new direct super edges whose effect is to be applied
  insPropMap,       \* <<rep, o>>: o is to be added to pts(rep)
  unFilterSet,      \* reps whose whole set is propagated (merged cycles)
  insEdgeVec,       \* addr, load and store constraints to add
  needSCCDetect,    \* a new direct super edge was added in this iteration
  stack,            \* active calls of propagateDelPts or propagateInsPts
  prePts,           \* allPtsDiffMap: the points-to sets initAllPDM recorded
  ptsChangeNodes,   \* nodes whose set differs from prePts (computeAllPDM)
  mode, pc, round

delVars == <<delDirectEdgeVec, delEdgeVec, redetectReps, rep2EdgeSet, SCCBreak>>
insVars == <<insDirectEdgeVec, insDirectConsVec, insPropMap, unFilterSet,
             insEdgeVec, needSCCDetect>>
pdmVars == <<prePts, ptsChangeNodes>>
roundVars == <<base, diff, mode, round>>
ctlVars == <<roundVars, pc>>
vars == <<flatVars, superVars, delVars, insVars, pdmVars, ctlVars, pts, stack>>

Phase == {"idle", "delDirect", "redetect", "delEdge", "deleted",
          "insDirect", "insCons", "insProp", "insEdge"}

Frame == [node : Node, d : SUBSET Obj, outs : SUBSET DirectEdge]

(* What insDirectEdgeVec holds: a direct edge and the constraint that wants
   it, the edge itself or a load or store. *)
Request == {x \in DirectEdge \X Edge : IsComplex(x[2]) => CacheBit(x[1], x[2]) \in Obj}

getPts(n) == pts[rep[n]]

(* Does a constraint go to the vector of direct edges or the other one? *)
DirectPart(D) == {e \in D : IsDirect(e)}
OtherPart(D)  == {e \in D : ~IsDirect(e)}

(***************************************************************************)
(* Direct super edges of a representative                                  *)
(***************************************************************************)
DirectIn(r)  == {s \in sEdges : IsDirect(s) /\ s.dst = r}
DirectOut(r) == {s \in sEdges : IsDirect(s) /\ s.src = r /\ s.dst # r}

ComplexAt_Loads(r) ==
  {x[2] : x \in {y \in fEdgeSet : y[1].kind = "Load" /\ y[1].src = r}}

(* The flat loads out of and stores into a representative. *)
ComplexAt(r) ==
  {x[2] : x \in {y \in fEdgeSet : IsComplex(y[1]) /\ Pointer(y[1]) = r}}

-----------------------------------------------------------------------------
(***************************************************************************)
(* Initial states: the exhaustive analysis of some program has finished.   *)
(* A representative has the union of its members' sets; a merged node's    *)
(* own set is not cleared by the merge, so it is empty or still holds what *)
(* the node pointed to.                                                    *)
(***************************************************************************)
SolvedFlat(B, p) ==
  LET cx == {x \in {e \in B : IsComplex(e)} \X (Obj \ NonPtrObj) :
               x[2] \in p[Pointer(x[1])]}
      own == {e \in B : e.kind = "Copy"}
  IN  /\ fEdges = B \cup {DerivedCopy(x[1], x[2]) : x \in cx}
      /\ complexEdgeSet = {<<e, e>> : e \in own}
                            \cup {<<DerivedCopy(x[1], x[2]), x[1]>> : x \in cx}
      /\ compCache = cx

SolvedPts(p, m, stale) ==
  [n \in Node |-> IF m[n] = n THEN UNION {p[k] : k \in {x \in Node : m[x] = n}}
                 ELSE IF stale THEN p[n] ELSE {}]

SolvedSuper(m) ==
  /\ rep = m
  /\ subs = [n \in Node |-> IF m[n] = n THEN {k \in Node : m[k] = n} ELSE {}]
  /\ fEdgeSet = {<<LiftBy(m, e), e>> : e \in fEdges}
  /\ sEdges = {LiftBy(m, e) : e \in fEdges}
  /\ rep2tempG = <<>>

Init ==
  /\ base \in Programs
  /\ \E p \in {LeastSolution(base)} \cap [Node -> SUBSET Obj] :
       /\ SolvedFlat(base, p)
       /\ \E C \in {Components(Node, {e \in fEdges : IsDirect(e)})} :
          \E m \in RepChoices(Node, C) :
            /\ SolvedSuper(m)
            /\ \E stale \in BOOLEAN : pts = SolvedPts(p, m, stale)
       /\ prePts = p
  /\ mode \in Modes /\ diff = {} /\ pc = "idle" /\ round = 0
  /\ delDirectEdgeVec = {} /\ delEdgeVec = {} /\ redetectReps = {}
  /\ rep2EdgeSet = {} /\ SCCBreak = FALSE
  /\ insDirectEdgeVec = {} /\ insDirectConsVec = {} /\ insPropMap = {}
  /\ unFilterSet = {} /\ insEdgeVec = {} /\ needSCCDetect = FALSE
  /\ stack = <<>> /\ ptsChangeNodes = {}

(***************************************************************************)
(* A round is set up. Stepwise, the statements D of this step go to the    *)
(* deletion and to the insertion vectors; with a program difference        *)
(* (getDiffSDK) they go to the deletion vectors, once.                     *)
(***************************************************************************)
Deletions(D) ==
  /\ delDirectEdgeVec' = DirectPart(D)
  /\ delEdgeVec' = OtherPart(D)

Insertions(D) ==
  /\ insDirectEdgeVec' = {<<e, e>> : e \in DirectPart(D)}
  /\ insEdgeVec' = OtherPart(D)

StartRound(D) ==
  /\ pc = "idle"
  /\ round < (IF mode = "step" THEN MaxRounds ELSE 1)
  /\ diff' = D
  /\ Deletions(D)
  /\ IF mode = "step" THEN Insertions(D) ELSE UNCHANGED <<insDirectEdgeVec, insEdgeVec>>
  /\ SCCBreak' = FALSE
  /\ pc' = "delDirect"
  /\ round' = round + 1
  /\ UNCHANGED <<flatVars, superVars, redetectReps, rep2EdgeSet, insDirectConsVec,
                 insPropMap, unFilterSet, needSCCDetect, pdmVars, base, mode, pts, stack>>

-----------------------------------------------------------------------------
(***************************************************************************)
(* propagateDelPts(S, n): the objects of S that pts(n) holds and that no   *)
(* incoming direct edge still provides are removed, and a frame is opened  *)
(* for the outgoing edges.                                                 *)
(***************************************************************************)
Supported_None(r) == {}
Supported_Copies(r) == UNION {getPts(s.src) : s \in {x \in DirectIn(r) : x.kind = "Copy"}}
Supported_Outside(r) ==
  UNION {Transfer(s.kind, getPts(s.src)) : s \in {x \in DirectIn(r) : x.src # r}}

Supported(r) == UNION {Transfer(s.kind, getPts(s.src)) : s \in DirectIn(r)}

propagateDelPts(S, n, callers) ==
  LET r == rep[n]
      dPts == (S \cap pts[r]) \ Supported(r)
  IN  IF dPts = {}
      THEN stack' = callers /\ UNCHANGED pts
      ELSE /\ pts' = [pts EXCEPT ![r] = @ \ dPts]
           /\ stack' = <<[node |-> r, d |-> dPts, outs |-> DirectOut(r)]>> \o callers

(* The direct edges the innermost call has not followed yet. *)
PendingOuts == IF stack = <<>> THEN {} ELSE Head(stack).outs

Resumed_OneCall(s) == <<[Head(stack) EXCEPT !.outs = {}]>> \o Tail(stack)
Resumed_Again(s) == stack

(* The caller's frame once its call along s is made. *)
Resumed(s) == <<[Head(stack) EXCEPT !.outs = @ \ {s}]>> \o Tail(stack)

InDeletion == pc = "delEdge"

(* The recursive call along one outgoing direct edge. *)
DelOut(s) ==
  /\ InDeletion /\ stack # <<>> /\ s \in Head(stack).outs
  /\ propagateDelPts(Transfer(s.kind, Head(stack).d), s.dst, Resumed(s))
  /\ UNCHANGED <<flatVars, superVars, delVars, insVars, pdmVars, ctlVars>>

(* The end of a call: the loads and stores at the node give up the copies
   derived for the removed objects. *)
DelComplex ==
  /\ InDeletion /\ stack # <<>> /\ Head(stack).outs = {}
  /\ LET P == LostDerivations(ComplexAt(Head(stack).node), Head(stack).d)
     IN  /\ complexEdgeSet' = ComplexEdgesWithout(P)
         /\ compCache' = CompCacheWithout(P)
         /\ delDirectEdgeVec' = delDirectEdgeVec \cup
              {x[1] : x \in {y \in P : Orphan(y[1], ComplexEdgesWithout(P))}}
  /\ stack' = Tail(stack)
  /\ UNCHANGED <<fEdges, superVars, delEdgeVec, redetectReps, rep2EdgeSet,
                 SCCBreak, insVars, pdmVars, ctlVars, pts>>

(***************************************************************************)
(* Removal of a direct edge from both graphs. Inside a merged cycle the    *)
(* representative is queued for redetection; elsewhere, when the super     *)
(* edge is gone, its effect is to be retracted.                            *)
(***************************************************************************)
dropDirectEdge(e) ==
  LET inner == rep[e.src] = rep[e.dst]
      fes == fEdgeSet \ {<<Lift(e), e>>}
  IN  /\ fEdges' = fEdges \ {e}
      /\ removeSCGFlat(e, ~inner)
      /\ IF inner
         THEN /\ redetectReps' = redetectReps \cup {rep[e.src]}
              /\ rep2EdgeSet' = rep2EdgeSet \cup {<<rep[e.src], e>>}
              /\ removeTempGEdge(e)
              /\ UNCHANGED delEdgeVec
         ELSE /\ delEdgeVec' = IF EmptySEdge(Lift(e), fes)
                               THEN delEdgeVec \cup {e} ELSE delEdgeVec
              /\ UNCHANGED <<redetectReps, rep2EdgeSet, rep2tempG>>
      /\ UNCHANGED <<rep, subs>>

KeepDirectEdge == UNCHANGED <<fEdges, superVars, delEdgeVec, redetectReps, rep2EdgeSet>>

processCopyEdgeRemoval(e) ==
  /\ pc = "delDirect" /\ e \in delDirectEdgeVec /\ e.kind = "Copy"
  /\ delDirectEdgeVec' = delDirectEdgeVec \ {e}
  /\ LET ces == complexEdgeSet \ {<<e, e>>}
     IN  /\ complexEdgeSet' = IF e \in fEdges THEN ces ELSE complexEdgeSet
         /\ IF e \in fEdges /\ Orphan(e, ces) THEN dropDirectEdge(e) ELSE KeepDirectEdge
  /\ UNCHANGED <<compCache, SCCBreak, insVars, pdmVars, ctlVars, pts, stack>>

processGepEdgeRemoval(e) ==
  /\ pc = "delDirect" /\ e \in delDirectEdgeVec /\ e.kind # "Copy"
  /\ delDirectEdgeVec' = delDirectEdgeVec \ {e}
  /\ dropDirectEdge(e)
  /\ UNCHANGED <<complexEdgeSet, compCache, SCCBreak, insVars, pdmVars, ctlVars,
                 pts, stack>>

DelDirectDone ==
  /\ pc = "delDirect" /\ delDirectEdgeVec = {}
  /\ pc' = "redetect"
  /\ UNCHANGED <<flatVars, superVars, delVars, insVars, pdmVars, roundVars,
                 pts, stack>>

(***************************************************************************)
(* processSCCRedetection, for one representative: the members still form   *)
(* one component, or the cycle is taken apart, every new representative    *)
(* starts with the old points-to set, and the removed inner edges that now *)
(* join two representatives are retracted.                                 *)
(***************************************************************************)
InnerRemoved(r) == {x[2] : x \in {y \in rep2EdgeSet : y[1] = r}}
Parts_Whole(r) == {sccSubNodes(r)}
Parts(r) == Components(sccSubNodes(r), TempG(r))

Redetected_EdgesKept(r) == redetectReps' = redetectReps \ {r} /\ UNCHANGED rep2EdgeSet

Redetected(r) ==
  /\ redetectReps' = redetectReps \ {r}
  /\ rep2EdgeSet' = {x \in rep2EdgeSet : x[1] # r}

SCCKeep(r) ==
  /\ pc = "redetect" /\ r \in redetectReps
  /\ Cardinality(Parts(rep[r])) = 1
  /\ Redetected(r)
  /\ rep2tempG' = [x \in DOMAIN rep2tempG \cup {rep[r]} |->
                     IF x = rep[r] THEN TempG(x) ELSE rep2tempG[x]]
  /\ UNCHANGED <<flatVars, rep, subs, sEdges, fEdgeSet, delDirectEdgeVec, delEdgeVec,
                 SCCBreak, insVars, pdmVars, ctlVars, pts, stack>>

SCCRestore(r) ==
  /\ pc = "redetect" /\ r \in redetectReps
  /\ Cardinality(Parts(rep[r])) > 1
  /\ Redetected(r)
  /\ \E C \in {Parts(rep[r])} : \E m \in RepChoices(sccSubNodes(rep[r]), C) :
       /\ sccRestore(rep[r], m)
       /\ pts' = [n \in Node |-> IF n \in AllReps(m) THEN pts[n] \cup getPts(r) ELSE pts[n]]
       /\ delEdgeVec' = delEdgeVec \cup
            {e \in InnerRemoved(r) : NewRep(m)[e.src] # NewRep(m)[e.dst]}
  /\ SCCBreak' = TRUE
  /\ UNCHANGED <<flatVars, delDirectEdgeVec, insVars, pdmVars, ctlVars, stack>>

RedetectDone ==
  /\ pc = "redetect" /\ redetectReps = {}
  /\ pc' = "delEdge"
  /\ UNCHANGED <<flatVars, superVars, delVars, insVars, pdmVars, roundVars,
                 pts, stack>>

(***************************************************************************)
(* Retraction of one constraint: the vector is popped when no propagation  *)
(* is under way. It is a stack: the direct constraints, pushed while the   *)
(* direct edges were removed, come off before the others.                  *)
(***************************************************************************)
PopDelEdge(e) ==
  /\ pc = "delEdge" /\ stack = <<>> /\ e \in delEdgeVec
  /\ IsDirect(e) \/ DirectPart(delEdgeVec) = {}
  /\ delEdgeVec' = delEdgeVec \ {e}

processAddrRemoval(e) ==
  /\ PopDelEdge(e) /\ e.kind = "Addr"
  /\ fEdges' = fEdges \ {e}
  /\ removeSCGFlat(e, TRUE)
  /\ propagateDelPts({e.src}, e.dst, <<>>)
  /\ UNCHANGED <<complexEdgeSet, compCache, rep, subs, rep2tempG, delDirectEdgeVec,
                 redetectReps, rep2EdgeSet, SCCBreak, insVars, pdmVars, ctlVars>>

(* processCopyConstraintRemoval, processVariantGepConstraintRemoval *)
processDirectConstraintRemoval(e) ==
  /\ PopDelEdge(e) /\ e.kind \in {"Copy", "VariantGep"}
  /\ propagateDelPts(Transfer(e.kind, getPts(e.src)), e.dst, <<>>)
  /\ UNCHANGED <<flatVars, superVars, delDirectEdgeVec, redetectReps, rep2EdgeSet,
                 SCCBreak, insVars, pdmVars, ctlVars>>

(* The dispatch tests for VariantGep twice and never for NormalGep: the
   retraction of a normal gep is popped and nothing is propagated. *)
skipNormalGepConstraintRemoval(e) ==
  /\ PopDelEdge(e) /\ e.kind = "NormalGep"
  /\ UNCHANGED <<flatVars, superVars, delDirectEdgeVec, redetectReps, rep2EdgeSet,
                 SCCBreak, insVars, pdmVars, ctlVars, pts, stack>>

(* processLoadRemoval, processStoreRemoval; a store already gone is skipped. *)
processComplexRemoval(e) ==
  /\ PopDelEdge(e) /\ IsComplex(e)
  /\ LET P == LostDerivations({e}, getPts(Pointer(e)))
     IN  /\ complexEdgeSet' = ComplexEdgesWithout(P)
         /\ compCache' = CompCacheWithout(P) \ ({e} \X Node)
         /\ delDirectEdgeVec' = delDirectEdgeVec \cup
              {x[1] : x \in {y \in P : Orphan(y[1], ComplexEdgesWithout(P))}}
  /\ removeSCGFlat(e, TRUE)
  /\ fEdges' = fEdges \ {e}
  /\ UNCHANGED <<rep, subs, rep2tempG, redetectReps, rep2EdgeSet, SCCBreak, insVars,
                 pdmVars, ctlVars, pts, stack>>

(* The end of an iteration: go round again while retraction produced work. *)
DelIterationDone ==
  /\ pc = "delEdge" /\ stack = <<>> /\ delEdgeVec = {}
  /\ IF delDirectEdgeVec # {}
     THEN pc' = "delDirect" /\ UNCHANGED rep2tempG
     ELSE pc' = "deleted" /\ cleanRep2TempG
  /\ UNCHANGED <<flatVars, rep, subs, sEdges, fEdgeSet, delVars, insVars, pdmVars,
                 roundVars, pts, stack>>

DeletionStep ==
  \/ \E s \in PendingOuts : DelOut(s)
  \/ DelComplex
  \/ \E e \in delDirectEdgeVec : processCopyEdgeRemoval(e) \/ processGepEdgeRemoval(e)
  \/ DelDirectDone
  \/ \E r \in redetectReps : SCCKeep(r) \/ SCCRestore(r)
  \/ RedetectDone
  \/ \E e \in delEdgeVec : \/ processAddrRemoval(e)
                           \/ processDirectConstraintRemoval(e)
                           \/ skipNormalGepConstraintRemoval(e)
                           \/ processComplexRemoval(e)
  \/ DelIterationDone

-----------------------------------------------------------------------------
propagateInsPts_Filtered(S, n, sameSCC, callers) ==
  LET dPts == S \ pts[rep[n]]
  IN  IF dPts = {}
      THEN stack' = callers /\ UNCHANGED pts
      ELSE /\ pts' = [pts EXCEPT ![rep[n]] = @ \cup dPts]
           /\ stack' = <<[node |-> rep[n], d |-> dPts, outs |-> DirectOut(rep[n])]>> \o callers

(***************************************************************************)
(* propagateInsPts(S, n, sameSCC): the new objects (all of S when the call *)
(* follows a merge) are added to pts(n) and a frame is opened.             *)
(***************************************************************************)
propagateInsPts(S, n, sameSCC, callers) ==
  LET r == rep[n]
      dPts == IF sameSCC THEN S ELSE S \ pts[r]
  IN  IF dPts = {}
      THEN stack' = callers /\ UNCHANGED pts
      ELSE /\ pts' = [pts EXCEPT ![r] = @ \cup dPts]
           /\ stack' = <<[node |-> r, d |-> dPts, outs |-> DirectOut(r)]>> \o callers

InInsertion == pc \in {"insProp", "insEdge"}

InsOut(s) ==
  /\ InInsertion /\ stack # <<>> /\ s \in Head(stack).outs
  /\ propagateInsPts(Transfer(s.kind, Head(stack).d), s.dst, FALSE, Resumed(s))
  /\ UNCHANGED <<flatVars, superVars, delVars, insVars, pdmVars, ctlVars>>

WantedCopies_Loads(C, S) ==
  {<<DerivedCopy(x[1], x[2]), x[1]>> :
     x \in {y \in C \X (S \ NonPtrObj) : y[1].kind = "Load" /\ y \notin compCache}}

(* The derived copies that loads and stores C want for the objects S and
   that their compCache does not show yet. *)
WantedCopies(C, S) ==
  {<<DerivedCopy(x[1], x[2]), x[1]>> :
     x \in {y \in C \X (S \ NonPtrObj) : y \notin compCache}}

InsComplex ==
  /\ InInsertion /\ stack # <<>> /\ Head(stack).outs = {}
  /\ insDirectEdgeVec' = insDirectEdgeVec \cup
       WantedCopies(ComplexAt(Head(stack).node), Head(stack).d)
  /\ stack' = Tail(stack)
  /\ UNCHANGED <<flatVars, superVars, delVars, insDirectConsVec, insPropMap,
                 unFilterSet, insEdgeVec, needSCCDetect, pdmVars, ctlVars, pts>>

(* computeAllPDM: the nodes whose points-to set is no longer what initAllPDM
   recorded. *)
computeAllPDM == ptsChangeNodes' = {n \in Node : getPts(n) # prePts[n]}

(* The old version is done once the difference is deleted. *)
FinishOld ==
  /\ pc = "deleted" /\ mode = "old"
  /\ computeAllPDM
  /\ base' = base \ diff
  /\ diff' = {}
  /\ pc' = "idle"
  /\ UNCHANGED <<flatVars, superVars, delVars, insVars, prePts, mode, round, pts, stack>>

StartInsertion ==
  /\ pc = "deleted" /\ mode = "step"
  /\ pc' = "insDirect"
  /\ needSCCDetect' = FALSE
  /\ UNCHANGED <<flatVars, superVars, delVars, insDirectEdgeVec, insDirectConsVec,
                 insPropMap, unFilterSet, insEdgeVec, pdmVars, roundVars, pts, stack>>

(* On the new version the points-to sets left by the deletion are recorded
   (initAllPDM) before the difference is inserted. *)
StartDiffInsertion ==
  /\ pc = "deleted" /\ mode = "new"
  /\ Insertions(diff)
  /\ prePts' = [n \in Node |-> getPts(n)]
  /\ pc' = "insDirect"
  /\ needSCCDetect' = FALSE
  /\ UNCHANGED <<flatVars, superVars, delVars, insDirectConsVec, insPropMap, unFilterSet,
                 ptsChangeNodes, roundVars, pts, stack>>

(* The super edge of a direct flat edge that was new: its effect is queued
   only when the super edge is new as well. *)
addDirectSCGEdge(e) ==
  /\ addSCGEdge(e)
  /\ insDirectConsVec' = IF NewSEdge(e) THEN insDirectConsVec \cup {e}
                         ELSE insDirectConsVec
  /\ needSCCDetect' = (needSCCDetect \/ NewSEdge(e))

KeepSCG == UNCHANGED <<sEdges, fEdgeSet, insDirectConsVec, needSCCDetect>>

processCopyAddition(e, ce) ==
  /\ pc = "insDirect" /\ <<e, ce>> \in insDirectEdgeVec /\ e.kind = "Copy"
  /\ insDirectEdgeVec' = insDirectEdgeVec \ {<<e, ce>>}
  /\ addCopyFCGEdge(e, ce)
  /\ IF NewFEdge(e) THEN addDirectSCGEdge(e) ELSE KeepSCG
  /\ UNCHANGED <<rep, subs, rep2tempG, delVars, insPropMap, unFilterSet, insEdgeVec,
                 pdmVars, ctlVars, pts, stack>>

processGepAddition(e) ==
  /\ pc = "insDirect" /\ <<e, e>> \in insDirectEdgeVec /\ e.kind # "Copy"
  /\ insDirectEdgeVec' = insDirectEdgeVec \ {<<e, e>>}
  /\ fEdges' = fEdges \cup {e}
  /\ IF NewFEdge(e) THEN addDirectSCGEdge(e) ELSE KeepSCG
  /\ UNCHANGED <<complexEdgeSet, compCache, rep, subs, rep2tempG, delVars, insPropMap,
                 unFilterSet, insEdgeVec, pdmVars, ctlVars, pts, stack>>

(***************************************************************************)
(* After the direct edges: cycles are searched for only when a super edge  *)
(* is new and the deletion phase took a cycle apart.                       *)
(***************************************************************************)
SkipSCCDetect ==
  /\ pc = "insDirect" /\ insDirectEdgeVec = {}
  /\ ~(needSCCDetect /\ SCCBreak)
  /\ pc' = "insCons"
  /\ UNCHANGED <<flatVars, superVars, delVars, insVars, pdmVars, roundVars,
                 pts, stack>>

SCCDetect ==
  /\ pc = "insDirect" /\ insDirectEdgeVec = {}
  /\ needSCCDetect /\ SCCBreak
  /\ \E C \in {Components(Reps, {s \in sEdges : IsDirect(s)})} :
     \E m \in RepChoices(Reps, C) :
       /\ mergeSccCycle(m)
       /\ pts' = [n \in Node |-> IF n \in Reps /\ m[n] = n
                                 THEN UNION {pts[k] : k \in {x \in Reps : m[x] = n}}
                                 ELSE pts[n]]
  /\ pc' = "insCons"
  /\ UNCHANGED <<flatVars, delVars, insVars, pdmVars, roundVars, stack>>

(* processCopy-, processVariantGep- and processNormalGepConstraintAddition *)
processDirectConstraintAddition(e) ==
  /\ pc = "insCons" /\ e \in insDirectConsVec
  /\ insDirectConsVec' = insDirectConsVec \ {e}
  /\ insPropMap' = insPropMap \cup ({rep[e.dst]} \X Transfer(e.kind, getPts(e.src)))
  /\ unFilterSet' = IF rep[e.src] = rep[e.dst] THEN unFilterSet \cup {rep[e.dst]}
                    ELSE unFilterSet
  /\ UNCHANGED <<flatVars, superVars, delVars, insDirectEdgeVec, insEdgeVec,
                 needSCCDetect, pdmVars, ctlVars, pts, stack>>

InsConsDone ==
  /\ pc = "insCons" /\ insDirectConsVec = {}
  /\ pc' = "insProp"
  /\ UNCHANGED <<flatVars, superVars, delVars, insVars, pdmVars, roundVars,
                 pts, stack>>

ProcessPropMap(n) ==
  /\ pc = "insProp" /\ stack = <<>>
  /\ \E x \in insPropMap : x[1] = n
  /\ propagateInsPts({x[2] : x \in {y \in insPropMap : y[1] = n}}, n,
                     n \in unFilterSet, <<>>)
  /\ insPropMap' = {x \in insPropMap : x[1] # n}
  /\ unFilterSet' = unFilterSet \ {n}
  /\ UNCHANGED <<flatVars, superVars, delVars, insDirectEdgeVec, insDirectConsVec,
                 insEdgeVec, needSCCDetect, pdmVars, ctlVars>>

InsPropDone ==
  /\ pc = "insProp" /\ stack = <<>> /\ insPropMap = {}
  /\ pc' = "insEdge"
  /\ unFilterSet' = {}
  /\ UNCHANGED <<flatVars, superVars, delVars, insDirectEdgeVec, insDirectConsVec,
                 insPropMap, insEdgeVec, needSCCDetect, pdmVars, roundVars,
                 pts, stack>>

PopInsEdge_SuperOnly(e) ==
  /\ pc = "insEdge" /\ stack = <<>> /\ e \in insEdgeVec
  /\ insEdgeVec' = insEdgeVec \ {e}
  /\ addSCGEdge(e)
  /\ UNCHANGED fEdges

PopInsEdge(e) ==
  /\ pc = "insEdge" /\ stack = <<>> /\ e \in insEdgeVec
  /\ insEdgeVec' = insEdgeVec \ {e}
  /\ fEdges' = fEdges \cup {e}
  /\ addSCGEdge(e)

processAddrAddition(e) ==
  /\ PopInsEdge(e) /\ e.kind = "Addr"
  /\ propagateInsPts({e.src}, e.dst, FALSE, <<>>)
  /\ UNCHANGED <<complexEdgeSet, compCache, rep, subs, rep2tempG, delVars,
                 insDirectEdgeVec, insDirectConsVec, insPropMap, unFilterSet,
                 needSCCDetect, pdmVars, ctlVars>>

(* processLoadAddition, processStoreAddition: every flat edge of the super
   edge is visited again. *)
processComplexAddition(e) ==
  /\ PopInsEdge(e) /\ IsComplex(e)
  /\ LET siblings == {x[2] : x \in {y \in fEdgeSet' : y[1] = Lift(e)}}
     IN  insDirectEdgeVec' = insDirectEdgeVec \cup
           WantedCopies(siblings, getPts(Pointer(e)))
  /\ UNCHANGED <<complexEdgeSet, compCache, rep, subs, rep2tempG, delVars,
                 insDirectConsVec, insPropMap, unFilterSet, needSCCDetect, pdmVars,
                 ctlVars, pts, stack>>

(* The end of an iteration; after the last one the round is over. *)
InsIterationDone ==
  /\ pc = "insEdge" /\ stack = <<>> /\ insEdgeVec = {}
  /\ IF insDirectEdgeVec # {}
     THEN pc' = "insDirect" /\ UNCHANGED ptsChangeNodes
     ELSE pc' = "idle" /\ computeAllPDM
  /\ needSCCDetect' = FALSE
  /\ UNCHANGED <<flatVars, superVars, delVars, insDirectEdgeVec, insDirectConsVec,
                 insPropMap, unFilterSet, insEdgeVec, prePts, roundVars,
                 pts, stack>>

InsertionStep ==
  \/ FinishOld \/ StartInsertion \/ StartDiffInsertion
  \/ \E s \in PendingOuts : InsOut(s)
  \/ InsComplex
  \/ \E x \in insDirectEdgeVec : processCopyAddition(x[1], x[2]) \/ processGepAddition(x[1])
  \/ SkipSCCDetect \/ SCCDetect
  \/ \E e \in insDirectConsVec : processDirectConstraintAddition(e)
  \/ InsConsDone
  \/ \E n \in Node : ProcessPropMap(n)
  \/ InsPropDone
  \/ \E e \in insEdgeVec : processAddrAddition(e) \/ processComplexAddition(e)
  \/ InsIterationDone

Next ==
  \/ \E D \in SUBSET base : /\ D # {} /\ Cardinality(D) <= MaxStep
                            /\ StartRound(D)
  \/ DeletionStep
  \/ InsertionStep

Spec == Init /\ [][Next]_vars
-----------------------------------------------------------------------------
DelTypeOK ==
  /\ delDirectEdgeVec \subseteq DirectEdge /\ delEdgeVec \subseteq Edge
  /\ redetectReps \subseteq Node /\ rep2EdgeSet \subseteq Node \X Edge
  /\ SCCBreak \in BOOLEAN

InsTypeOK ==
  /\ insDirectEdgeVec \subseteq Request /\ insDirectConsVec \subseteq DirectEdge
  /\ insPropMap \subseteq Node \X Obj /\ unFilterSet \subseteq Node
  /\ insEdgeVec \subseteq ProgramEdge /\ needSCCDetect \in BOOLEAN

RoundTypeOK ==
  /\ base \subseteq ProgramEdge /\ diff \subseteq base /\ mode \in Mode
  /\ pc \in Phase /\ round \in Nat

PtsTypeOK ==
  /\ pts \in [Node -> SUBSET Obj] /\ stack \in Seq(Frame)
  /\ prePts \in [Node -> SUBSET Obj] /\ ptsChangeNodes \subseteq Node

(* Every variable has its type: in particular, what the caches of derived
   copies, the propagation map and the points-to sets hold are objects, and
   the vectors of direct edges hold no other edge. *)
TypeOK ==
  FlatTypeOK /\ SuperTypeOK /\ DelTypeOK /\ InsTypeOK /\ RoundTypeOK /\ PtsTypeOK

(***************************************************************************)
(* The ledger of derived copies                                            *)
(***************************************************************************)
(* complexEdgeSet holds raw edge pointers: no copy edge that is still in the
   graph may record a load, a store or itself after that edge was removed
   (and deleted), and it records only constraints it really derives from. *)
OwnersLive ==
  \A x \in complexEdgeSet :
    /\ x[1] \in fEdges /\ x[2] \in fEdges
    /\ x[1].kind = "Copy"
    /\ x[1] # x[2] => /\ IsComplex(x[2])
                      /\ x[1] = DerivedCopy(x[2], CacheBit(x[1], x[2]))

(* The bit vector of a load or store agrees with the copies that record it:
   a bit too many and insertion skips a copy it needs, a bit too few and it
   is added again and again. *)
CacheExact ==
  /\ \A x \in compCache :
       IsComplex(x[1]) /\ <<DerivedCopy(x[1], x[2]), x[1]>> \in complexEdgeSet
  /\ \A x \in complexEdgeSet :
       x[1] # x[2] => <<x[2], CacheBit(x[1], x[2])>> \in compCache

(* What active deletion calls have taken from the set of n and not yet from
   the loads and stores at n. *)
BeingRemoved(n) ==
  UNION {stack[i].d : i \in {j \in DOMAIN stack : InDeletion /\ stack[j].node = n}}

(* A load or store keeps a derived copy only for an object its pointer still
   points to, save while propagateDelPts is between the points-to set and
   the copies: removal of the constraint finds its copies by that set. *)
CacheBacked ==
  \A x \in compCache :
    x[2] \in getPts(Pointer(x[1])) \cup BeingRemoved(rep[Pointer(x[1])])

(* A copy edge nothing derives any more is on its way out. *)
NoOrphanCopy ==
  \A e \in fEdges :
    e.kind = "Copy" => e \in delDirectEdgeVec \/ \E x \in complexEdgeSet : x[1] = e

(* A derived copy waits to be inserted only for a load or store that is in
   the graph (its SDK holds a pointer to it) and for an object its pointer
   points to. *)
PendingOwnerLive ==
  \A x \in insDirectEdgeVec :
    \/ x[1] = x[2] /\ x[1] \in base
    \/ /\ IsComplex(x[2]) /\ x[2] \in fEdges
       /\ x[1] = DerivedCopy(x[2], CacheBit(x[1], x[2]))
       /\ CacheBit(x[1], x[2]) \in getPts(Pointer(x[2]))

(***************************************************************************)
(* The two graphs agree                                                    *)
(***************************************************************************)
(* Every flat edge is in the fEdgeSet of exactly the super edge between the
   current representatives of its ends, whatever was merged and taken apart
   since it was added. *)
SuperMirrorsFlat == fEdgeSet = {<<Lift(e), e>> : e \in fEdges}

(* Super edges join representatives, and one without a flat edge is only
   ever a self-loop (of a cycle that survived its deletion). *)
SuperEdgesUsed ==
  \A s \in sEdges :
    /\ rep[s.src] = s.src /\ rep[s.dst] = s.dst
    /\ s.src = s.dst \/ \E x \in fEdgeSet : x[1] = s

(* nodeToRepMap and nodeToSubsMap describe the same partition. *)
SubsMatchReps ==
  \A n \in Node :
    /\ rep[rep[n]] = rep[n]
    /\ subs[n] \subseteq {k \in Node : rep[k] = n}
    /\ sccSubNodes(rep[n]) = {k \in Node : rep[k] = rep[n]}

(* A cached member graph is the one buildTempG would build now. *)
TempGSync == \A r \in DOMAIN rep2tempG : rep[r] = r /\ rep2tempG[r] = buildTempG(r)

(* Cycles queued for redetection are still merged, and the removed inner
   edges kept for one are edges of it that are really gone. *)
RedetectReady ==
  /\ \A r \in redetectReps : rep[r] = r
  /\ \A x \in rep2EdgeSet :
       /\ x[1] \in redetectReps /\ x[2] \notin fEdges
       /\ rep[x[2].src] = x[1] /\ rep[x[2].dst] = x[1]

(***************************************************************************)
(* Results                                                                 *)
(***************************************************************************)
Sound(B) == \A n \in Node : LeastSolution(B)[n] \subseteq getPts(n)
Exact(B) == [n \in Node |-> getPts(n)] = LeastSolution(B)

(* Deletion never retracts a fact the remaining program still implies. *)
DeletionSound == pc = "deleted" => Sound(base \ diff)

(* Deleting one constraint from a program without loads, stores or cycles
   leaves exactly the facts of the remaining program, in whatever order the
   outgoing edges are followed (a normal gep aside, see
   NormalGepRetracted). *)
DeletionExactAcyclic ==
  pc = "deleted" /\ Cardinality(diff) = 1
    /\ (\A e \in base : ~IsComplex(e)) /\ (\A e \in diff : e.kind # "NormalGep")
    /\ (\A C \in Components(Node, SolvedDirect(base)) : Cardinality(C) = 1)
  => Exact(base \ diff)

(* Inserting what was deleted gives the solution of the program back: the
   points-to sets are those of the exhaustive analysis and, stepwise,
   computeAllPDM reports no changed node. *)
RoundExact ==
  pc = "idle" /\ mode # "old" =>
    Exact(base) /\ (mode = "step" => ptsChangeNodes = {})

(* When a phase ends no constraint is left to apply: every direct edge's
   target includes what the edge carries, and every load and store has its
   derived copies. *)
Closed ==
  pc \in {"deleted", "idle"} =>
    \A e \in fEdges :
      /\ IsDirect(e) => Transfer(e.kind, getPts(e.src)) \subseteq getPts(e.dst)
      /\ IsComplex(e) =>
           \A o \in getPts(Pointer(e)) \ NonPtrObj : DerivedCopy(e, o) \in fEdges

(* When a phase ends the merged nodes are the cycles of the flat graph, no
   more (they would share facts they should not) and no less. *)
MergedAreCycles ==
  pc \in {"deleted", "idle"} =>
    {sccSubNodes(r) : r \in Reps} = Components(Node, {e \in fEdges : IsDirect(e)})

(* No step of the deletion phase adds a fact to any node, also not when a
   cycle is taken apart and its members get their own sets back. *)
DeletionOnlyRemoves ==
  [][(pc \in {"delDirect", "redetect", "delEdge"}) =>
       \A n \in Node : pts'[rep'[n]] \subseteq getPts(n)]_vars

(***************************************************************************)
(* What comments in the code say and the code does not do                  *)
(***************************************************************************)
(* Removal of a normal gep undoes pts(d) = pts(d) \cup AP(pts(s)): a pointer
   that only that gep defined points to nothing afterwards. *)
NormalGepRetracted ==
  pc = "deleted" =>
    \A e \in diff : e.kind = "NormalGep" => getPts(e.dst) = {}
-----------------------------------------------------------------------------
(* The analysis as an implementation of IncRound: the assignment is what
   getPts answers. *)
AbstractPhase ==
  CASE pc \in {"delDirect", "redetect", "delEdge"} -> "out"
    [] pc = "idle" -> IF mode = "old" /\ round > 0 THEN "over" ELSE "idle"
    [] OTHER -> "in"

Promise == INSTANCE IncRound WITH sol <- [n \in Node |-> getPts(n)], phase <- AbstractPhase

(* Whatever the graphs, vectors and active calls are up to, what getPts
   answers goes through a round as IncRound says: it shrinks to no less than
   the other statements imply, then grows to the solution from scratch, and
   the two phases do not mix. *)
ImplementsPromise == Promise!Spec
=============================================================================
