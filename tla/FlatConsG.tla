----------------------------- MODULE FlatConsG -----------------------------
(***************************************************************************)
(* The flat constraint graph (FConstraintGraph, fCG): every constraint of  *)
(* the program, never merged, plus the copy edges derived from loads and   *)
(* stores. A copy edge may be wanted by several constraints at once, so it *)
(* records which ones: its complexEdgeSet holds the loads and stores it    *)
(* was derived from, and the edge itself when it is a copy of the program. *)
(* Each load and store in turn keeps a bit vector (compCache) of the       *)
(* objects whose derived copy it is already recorded in.                   *)
(***************************************************************************)
EXTENDS Constraints

VARIABLES
  fEdges,          \* AddrFCGEdgeSet, directFEdgeSet, Load-/StoreFCGEdgeSet
  complexEdgeSet,  \* <<copy, ce>>: ce is in the complexEdgeSet of copy
  compCache        \* <<ce, o>>: bit o of the compCache of load/store ce is set

flatVars == <<fEdges, complexEdgeSet, compCache>>

FlatTypeOK ==
  /\ fEdges \subseteq Edge
  /\ complexEdgeSet \subseteq Edge \X Edge
  /\ compCache \subseteq Edge \X Obj

(* Definitions whose name has an underscore are variants of the one that
   follows them with a fault planted in it, to see that the properties
   notice. *)
Orphan_Never(c, ces) == FALSE

(* getComplexEdgeSet().empty() *)
Orphan(c, ces) == \A x \in ces : x[1] # c

CacheBit_Swapped(c, ce) == IF ce.kind = "Load" THEN c.dst ELSE c.src

(* The bit of ce's compCache that stands for copy edge c. *)
CacheBit(c, ce) == IF ce.kind = "Load" THEN c.src ELSE c.dst

(***************************************************************************)
(* Add copy edge e on behalf of constraint ce, where ce = e stands for the *)
(* call without a complex edge (a copy of the program).                    *)
(***************************************************************************)
addCopyFCGEdge(e, ce) ==
  LET skip == e.src = e.dst \/ (ce = e /\ e \in fEdges)
  IN  /\ fEdges' = IF skip THEN fEdges ELSE fEdges \cup {e}
      /\ complexEdgeSet' = IF skip THEN complexEdgeSet
                           ELSE complexEdgeSet \cup {<<e, ce>>}
      /\ compCache' = IF skip \/ ~IsComplex(ce) \/ <<e, ce>> \in complexEdgeSet
                      THEN compCache
                      ELSE compCache \cup {<<ce, CacheBit(e, ce)>>}

(* The edge is new: addCopyFCGEdge and its siblings return it. *)
NewFEdge(e) == e \notin fEdges /\ (e.kind = "Copy" => e.src # e.dst)

ComplexEdgesWithout_Kept(P) == complexEdgeSet
CompCacheWithout_Kept(P) == compCache

(* The value of complexEdgeSet and compCache after removeComplexEdge(ce) on
   copy c, for every <<c, ce>> in P. *)
ComplexEdgesWithout(P) == complexEdgeSet \ P
CompCacheWithout(P) ==
  compCache \ {<<x[2], CacheBit(x[1], x[2])>> : x \in {y \in P : IsComplex(y[2])}}

(* The <<copy, ce>> pairs visited when the loads and stores in C lose the
   objects in S: constant and non-pointer objects and derived copies that do
   not exist are passed over. *)
LostDerivations(C, S) ==
  {x \in {<<DerivedCopy(y[1], y[2]), y[1]>> : y \in C \X (S \ NonPtrObj)} :
     x[1] \in fEdges}
=============================================================================
