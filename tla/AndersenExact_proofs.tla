------------------------ MODULE AndersenExact_proofs ------------------------
(***************************************************************************)
(* What a round computes. Deletion keeps every remaining constraint        *)
(* satisfied at every step; insertion accounts for each fact a constraint  *)
(* does not provide yet as work still to be done; so that no phase ends    *)
(* with a constraint unsatisfied, and, nothing going beyond the solution,  *)
(* an inserted program has exactly its solution again.                     *)
(***************************************************************************)
EXTENDS AndersenInc_proofs

(* The direct edges of the flat graph. *)
FlatDirect == {e \in fEdges : IsDirect(e)}

(***************************************************************************)
(* The merged cycles                                                       *)
(***************************************************************************)
(* Every flat edge has its super edge. *)
EdgesLifted == \A e \in fEdges : Lift(e) \in sEdges

(* A merged cycle has a self-loop, which keeps propagateDelPts from taking
   anything from it. *)
LoopsKept ==
  ~Over => \A n \in Node : rep[n] # n => CopyEdge(rep[n], rep[n]) \in sEdges

(* The nodes merged into r. *)
ClassOf(r) == {n \in Node : rep[n] = r}

(* Merged nodes reach each other along direct edges among them, unless an
   inner edge was removed and the cycle waits for redetection. *)
ClassesConnected ==
  \A n \in Node : rep[n] \notin redetectReps =>
    \A k \in ClassOf(rep[n]) : k \in Reached(ClassOf(rep[n]), FlatDirect, n)

(* Outside insertion every cycle of the flat graph is merged. *)
CyclesMerged ==
  ~Inserting => \A n, k \in Node : SameCycle(Node, FlatDirect, n, k) => rep[n] = rep[k]

(* The super edges that are new in this iteration. *)
NewLifts == IF pc = "insDirect" THEN {Lift(e) : e \in insDirectConsVec} ELSE {}

(* While constraints are inserted after a cycle was taken apart, every cycle
   of the super graph passes through a super edge added in this iteration;
   the next SCCDetect merges it. *)
SuperAcyclic ==
  Inserting /\ SCCBreak =>
    \A r, q \in Reps : SameCycle(Reps, SuperDirect \ NewLifts, r, q) => r = q

(* In a round that took no cycle apart all cycles of the solved graph are
   still merged. *)
SolvedMerged ==
  pc # "idle" /\ ~SCCBreak => \A n, k \in Node : OnCycle(n, k) => rep[n] = rep[k]

(* What is known of merged cycles at every step. *)
Merges ==
  /\ EdgesLifted /\ LoopsKept /\ ClassesConnected /\ CyclesMerged
  /\ SuperAcyclic /\ SolvedMerged

(***************************************************************************)
(* The constraints that hold                                               *)
(***************************************************************************)
(* Every address taken is in the set of the pointer that takes it. *)
AddrHeld == \A e \in fEdges : e.kind = "Addr" => e.src \in getPts(e.dst)

(* Every direct edge is satisfied. *)
DirectHeld == \A e \in FlatDirect : Transfer(e.kind, getPts(e.src)) \subseteq getPts(e.dst)

(* Every load and store has recorded its derived copies. *)
ComplexHeld ==
  \A e \in fEdges : IsComplex(e) =>
    \A o \in getPts(Pointer(e)) \ NonPtrObj : <<e, o>> \in compCache

(* Outside insertion every direct edge is satisfied. *)
DirectClosed  == ~Inserting => DirectHeld

(* Outside insertion every load and store has. *)
ComplexClosed == ~Inserting => ComplexHeld

(* No fact is taken from a merged cycle before it is taken apart. *)
CyclesSupported ==
  Deleting => \A n \in Node : rep[n] # n => pts[rep[n]] = Solved[rep[n]]

(* What a deletion call removes is gone from its node. *)
FramesApart == Deleting => \A f \in Calls(stack) : f.d \cap pts[f.node] = {}

(***************************************************************************)
(* The facts that are still owed while constraints are inserted            *)
(***************************************************************************)
(* The set of r, whose cycle was just merged, is to be propagated whole. *)
MergeDebt(r, x) ==
  \/ \E c \in insDirectConsVec : rep[c.src] = r /\ rep[c.dst] = r
  \/ r \in unFilterSet /\ <<r, x>> \in insPropMap

(* Object o, which super edge s makes of object x, is at its target or on
   its way there. *)
DirectSettled(s, x, o) ==
  \/ o \in pts[s.dst]
  \/ \E c \in insDirectConsVec : Lift(c) = s
  \/ <<s.dst, o>> \in insPropMap
  \/ \E f \in Calls(stack) : f.node = s.src /\ s \in f.outs /\ x \in f.d
  \/ MergeDebt(s.src, x)

(* The copy that load or store e derives for o exists or is on its way. *)
ComplexSettled(e, o) ==
  \/ <<e, o>> \in compCache
  \/ <<DerivedCopy(e, o), e>> \in insDirectEdgeVec
  \/ \E f \in Calls(stack) : f.node = rep[Pointer(e)] /\ o \in f.d
  \/ MergeDebt(rep[Pointer(e)], o)

(* Every fact a direct super edge does not provide yet is owed. *)
DirectOwed ==
  Inserting =>
    \A s \in SuperDirect : s.src # s.dst =>
      \A x \in pts[s.src] : \A o \in Transfer(s.kind, {x}) : DirectSettled(s, x, o)

(* Every copy a load or store does not have yet is owed. *)
ComplexOwed ==
  Inserting =>
    \A e \in fEdges : IsComplex(e) =>
      \A o \in getPts(Pointer(e)) \ NonPtrObj : ComplexSettled(e, o)

(***************************************************************************)
(* The constraints of the program                                          *)
(***************************************************************************)
(* The program without the difference. *)
Remaining == base \ diff

(* Deletion leaves the statements outside the difference in the graph and
   out of its vectors, and the insertion vectors of a stepwise round alone. *)
KeptInDeletion ==
  Deleting \/ pc = "deleted" =>
    /\ Remaining \subseteq fEdges /\ delDirectEdgeVec \cap Remaining = {}
    /\ \A e \in delEdgeVec : IsDirect(e) \/ e \in diff
    /\ \A x \in rep2EdgeSet : IsDirect(x[2])
    /\ mode = "step" => /\ insDirectEdgeVec = {<<e, e>> : e \in DirectPart(diff)}
                        /\ insEdgeVec = OtherPart(diff)

(* During insertion every statement is in the graph or waits to be. *)
KeptInInsertion ==
  Inserting => \A e \in base : e \in fEdges \/ e \in insEdgeVec \/ <<e, e>> \in insDirectEdgeVec

(* Where the statements of the program are; stepwise, what initAllPDM
   recorded is the solution. *)
Kept ==
  /\ KeptInDeletion /\ KeptInInsertion
  /\ pc = "idle" => base \subseteq fEdges
  /\ pc = "insDirect" /\ ~needSCCDetect => insDirectConsVec = {}
  /\ mode = "step" => prePts = Solved /\ ptsChangeNodes = {}

(* What is known of facts at every step. *)
Facts ==
  /\ AddrHeld /\ DirectClosed /\ ComplexClosed /\ CyclesSupported /\ FramesApart
  /\ DirectOwed /\ ComplexOwed

(* The inductive invariant of this module. *)
ExactInv == BoundInv /\ CyclesReady /\ Merges /\ Facts /\ Kept
-----------------------------------------------------------------------------
(* Edges and cycles *)

LEMMA LiftFacts ==
  ASSUME NEW m, NEW e
  PROVE  /\ LiftBy(m, e).kind = e.kind /\ LiftBy(m, e).src = m[e.src] /\ LiftBy(m, e).dst = m[e.dst]
         /\ IsDirect(LiftBy(m, e)) <=> IsDirect(e)
BY DEF LiftBy, IsDirect

(* A direct edge inside a cycle of the solved graph is a copy. *)
LEMMA InsideIsCopy ==
  ASSUME NEW B \in SUBSET ProgramEdge, FieldsSettled(B), NEW e \in SolvedDirect(B),
         e.src \in Node, e.dst \in Node, SameCycle(Node, SolvedDirect(B), e.src, e.dst)
  PROVE  e.kind = "Copy"
<1> DEFINE SD == SolvedDirect(B)
           C == CycleOf(Node, SD, e.src)
<1>1. C \in Components(Node, SD) /\ {e.src, e.dst} \subseteq C
  BY ComponentsAreCycles, SameCycleEquivalence DEF CycleOf
<1>2. CASE e \in B /\ IsDirect(e)
  BY <1>1, <1>2 DEF FieldsSettled, IsDirect, DirectKind
<1>3. CASE e \in DerivedCopies(B, LeastSolution(B))
  BY <1>3, DerivedCopiesType
<1> QED BY <1>2, <1>3 DEF SolvedDirect

(* Where two nodes of a cycle of the solved graph reach each other inside a
   part V of it, there is a copy in V. *)
LEMMA CopyInside ==
  ASSUME NEW B \in SUBSET ProgramEdge, FieldsSettled(B), NEW V \in SUBSET Node,
         \A x, y \in V : SameCycle(Node, SolvedDirect(B), x, y),
         NEW F \in SUBSET SolvedDirect(B),
         NEW n \in V, NEW k \in Reached(V, F, n), k # n
  PROVE  \E e \in F : e.kind = "Copy" /\ e.src \in V /\ e.dst \in V
<1>1. \E e \in F : e.src \in V /\ e.dst \in V
  <2> SUFFICES ASSUME \A e \in F : ~(e.src \in V /\ e.dst \in V) PROVE FALSE
    OBVIOUS
  <2>1. Reached(V, F, n) \subseteq {n}
    <3> DEFINE T == {n}
    <3>1. n \in T /\ \A e \in F : e.src \in T /\ e.src \in V /\ e.dst \in V => e.dst \in T
      OBVIOUS
    <3> HIDE DEF T
    <3>2. Reached(V, F, n) \subseteq T
      BY <3>1, ReachedLeast
    <3> QED BY <3>2 DEF T
  <2> QED BY <2>1
<1>2. PICK e \in F : e.src \in V /\ e.dst \in V
  BY <1>1
<1> QED BY <1>2, InsideIsCopy

(* A direct super edge between two representatives lifts a flat edge. *)
LEMMA SuperEdgeLifts ==
  ASSUME TypeOK, GraphsAgree, NEW s \in SuperDirect, s.src # s.dst
  PROVE  \E e \in FlatDirect : /\ Lift(e) = s /\ e.kind = s.kind
                               /\ rep[e.src] = s.src /\ rep[e.dst] = s.dst
                               /\ e.src \in Node /\ e.dst \in Node
<1>1. PICK x \in fEdgeSet : x[1] = s
  BY DEF GraphsAgree, SuperEdgesUsed, SuperDirect
<1>2. PICK e \in fEdges : Lift(e) = s
  BY <1>1 DEF GraphsAgree, SuperMirrorsFlat
<1>3. e.kind = s.kind /\ rep[e.src] = s.src /\ rep[e.dst] = s.dst /\ IsDirect(e)
  BY <1>2, LiftFacts DEF Lift, SuperDirect
<1> QED BY <1>2, <1>3 DEF FlatDirect, TypeOK, FlatTypeOK, Edge

(* Representatives and classes are nodes. *)
LEMMA RepTypes ==
  ASSUME TypeOK, GraphsAgree
  PROVE  /\ \A n \in Node : rep[n] \in Node /\ rep[rep[n]] = rep[n] /\ rep[n] \in Reps
         /\ Reps \in SUBSET Node /\ \A r \in Reps : rep[r] = r
         /\ \A r : ClassOf(r) \in SUBSET Node
         /\ \A e \in fEdges : e.src \in Node /\ e.dst \in Node
BY DEF TypeOK, FlatTypeOK, SuperTypeOK, GraphsAgree, SubsMatchReps, Reps, ClassOf, Edge

(* A path of flat edges is one of super edges. *)
LEMMA FlatPathLifts ==
  ASSUME TypeOK, GraphsAgree, EdgesLifted, NEW n \in Node
  PROVE  \A k \in Reached(Node, FlatDirect, n) : rep[k] \in Reached(Reps, SuperDirect, rep[n])
<1>1. \A x \in Node : rep[x] \in Reps
  BY RepTypes
<1>2. Reps \in SUBSET Node /\ Node \in SUBSET Node
  BY DEF Reps
<1>3. ASSUME NEW e \in FlatDirect, e.src \in Node, e.dst \in Node
      PROVE  rep[e.dst] \in Reached(Reps, SuperDirect, rep[e.src])
  <2>1. /\ Lift(e) \in SuperDirect /\ Lift(e).src = rep[e.src] /\ Lift(e).dst = rep[e.dst]
    BY LiftFacts DEF FlatDirect, EdgesLifted, SuperDirect, Lift
  <2> QED BY <1>1, <1>2, <1>3, <2>1, ReachedCloses
<1> QED BY <1>1, <1>2, <1>3, ReachedMapped

(* When no cycle waits for redetection, a path of super edges among some
   representatives is one of flat edges among the nodes they stand for. *)
LEMMA SuperPathInside ==
  ASSUME TypeOK, GraphsAgree, ClassesConnected, redetectReps = {},
         NEW E \in SUBSET SuperDirect, NEW R \in SUBSET Reps, NEW r \in R,
         NEW V, V = {x \in Node : rep[x] \in R}
  PROVE  /\ V \in SUBSET Node /\ R \subseteq V
         /\ \A x, y \in V : rep[x] = rep[y] => y \in Reached(V, FlatDirect, x)
         /\ \A q \in Reached(R, E, r) : q \in Reached(V, FlatDirect, r)
<1> DEFINE f == [n \in Node |-> n]
<1>1. Reps \in SUBSET Node /\ V \in SUBSET Node /\ R \subseteq V /\ R \in SUBSET Node
  BY DEF Reps
<1>2. ASSUME NEW x \in V, NEW y \in V, rep[x] = rep[y]
      PROVE  y \in Reached(V, FlatDirect, x)
  <2> DEFINE W == ClassOf(rep[x])
  <2>1. W \in SUBSET V /\ x \in W /\ y \in W
    BY <1>1, <1>2 DEF ClassOf
  <2>2. y \in Reached(W, FlatDirect, x)
    BY <1>1, <2>1 DEF ClassesConnected
  <2> HIDE DEF W
  <2>3. Reached(W, FlatDirect, x) \subseteq Reached(V, FlatDirect, x)
    BY <1>1, <2>1, ReachedMonotone
  <2> QED BY <2>2, <2>3
<1>3. ASSUME NEW s \in E, s.src \in R, s.dst \in R
      PROVE  f[s.dst] \in Reached(V, FlatDirect, f[s.src])
  <2>1. /\ s.src \in V /\ s.dst \in V /\ rep[s.src] = s.src /\ rep[s.dst] = s.dst
        /\ s.src \in Node /\ s.dst \in Node
    BY <1>1, <1>3 DEF Reps
  <2>2. CASE s.src = s.dst
    BY <1>1, <2>1, <2>2, ReachedCloses
  <2>3. CASE s.src # s.dst
    <3>1. PICK e \in FlatDirect : /\ rep[e.src] = s.src /\ rep[e.dst] = s.dst
                                  /\ e.src \in Node /\ e.dst \in Node
      BY <2>3, SuperEdgeLifts
    <3>2. e.src \in V /\ e.dst \in V
      BY <1>3, <3>1
    <3>3. /\ e.src \in Reached(V, FlatDirect, s.src)
          /\ s.dst \in Reached(V, FlatDirect, e.dst)
      BY <1>2, <2>1, <3>1, <3>2
    <3>4. e.dst \in Reached(V, FlatDirect, e.src)
      BY <1>1, <3>2, ReachedCloses
    <3>5. s.dst \in Reached(V, FlatDirect, s.src)
      BY <1>1, <2>1, <3>2, <3>3, <3>4, ReachedTransitive
    <3> QED BY <2>1, <3>5
  <2> QED BY <2>2, <2>3
<1>4. \A x \in R : f[x] \in V /\ f[x] = x
  BY <1>1
<1> HIDE DEF f
<1>5. \A q \in Reached(R, E, r) : f[q] \in Reached(V, FlatDirect, f[r])
  BY <1>1, <1>3, <1>4, ReachedMapped
<1>6. \A q \in Reached(R, E, r) : q \in R
  BY <1>1, ReachedCloses
<1> QED BY <1>1, <1>2, <1>4, <1>5, <1>6

(* What the super graph reaches the flat graph reaches. *)
LEMMA SuperPathFlat ==
  ASSUME TypeOK, GraphsAgree, ClassesConnected, redetectReps = {},
         NEW E \in SUBSET SuperDirect, NEW r \in Reps
  PROVE  \A q \in Reached(Reps, E, r) : q \in Reached(Node, FlatDirect, r)
<1> DEFINE R == Reps
           V == {x \in Node : rep[x] \in R}
<1>1. V = Node
  BY RepTypes
<1>2. R \in SUBSET Reps /\ r \in R
  OBVIOUS
<1> HIDE DEF R
<1>3. \A q \in Reached(R, E, r) : q \in Reached(V, FlatDirect, r)
  BY <1>2, SuperPathInside
<1> QED BY <1>1, <1>3 DEF R

(* A class of more than one node that is connected inside has a copy edge
   that becomes its self-loop. *)
LEMMA ClassLoop ==
  ASSUME NEW B \in SUBSET ProgramEdge, FieldsSettled(B), NEW F \in SUBSET SolvedDirect(B),
         NEW g, NEW n \in Node, g[n] # n, g[n] \in Node, g[g[n]] = g[n],
         NEW V, V = {x \in Node : g[x] = g[n]},
         \A x \in V : SameCycle(Node, SolvedDirect(B), x, g[n]),
         g[n] \in Reached(V, F, n)
  PROVE  \E e \in F : LiftBy(g, e) = CopyEdge(g[n], g[n])
<1>1. V \in SUBSET Node /\ n \in V /\ g[n] \in V /\ Node \in SUBSET Node
  OBVIOUS
<1>2. \A x, y \in V : SameCycle(Node, SolvedDirect(B), x, y)
  BY <1>1, SameCycleEquivalence
<1>3. PICK e \in F : e.kind = "Copy" /\ e.src \in V /\ e.dst \in V
  BY <1>1, <1>2, CopyInside
<1> QED BY <1>3 DEF LiftBy, CopyEdge

-----------------------------------------------------------------------------
(* The merged cycles through the deletion phase *)

LEMMA RemovalLinks ==
  ASSUME TypeOK, GraphsAgree, EdgesLifted, NEW e, NEW dropEmpty, removeSCGFlat(e, dropEmpty),
         fEdges' = fEdges \ {e}, UNCHANGED rep
  PROVE  /\ EdgesLifted'
         /\ \A s \in sEdges : s \in sEdges' \/ (dropEmpty /\ s = Lift(e))
<1>1. \A s \in sEdges : s \in sEdges' \/ (dropEmpty /\ s = Lift(e) /\ EmptySEdge(s, fEdgeSet \ {<<Lift(e), e>>}))
  BY DEF removeSCGFlat
<1>2. ASSUME NEW f \in fEdges, f # e PROVE Lift(f) \in sEdges'
  <2>1. <<Lift(f), f>> \in fEdgeSet \ {<<Lift(e), e>>}
    BY <1>2 DEF GraphsAgree, SuperMirrorsFlat
  <2>2. ~EmptySEdge(Lift(f), fEdgeSet \ {<<Lift(e), e>>})
    BY <2>1 DEF EmptySEdge
  <2> QED BY <1>1, <2>2 DEF EdgesLifted
<1> QED BY <1>1, <1>2 DEF EdgesLifted, Lift

(* The classes stay connected when no inner edge of one that is not queued
   goes. *)
LEMMA ConnectedKept ==
  ASSUME TypeOK, GraphsAgree, ClassesConnected, UNCHANGED rep,
         \A n \in Node : rep[n] \notin redetectReps' =>
           /\ rep[n] \notin redetectReps
           /\ \A e \in FlatDirect : rep[e.src] = rep[n] /\ rep[e.dst] = rep[n] => e \in FlatDirect'
  PROVE  ClassesConnected'
<1>1. \A r : ClassOf(r)' = ClassOf(r)
  BY DEF ClassOf
<1> SUFFICES ASSUME NEW n \in Node, rep[n] \notin redetectReps', NEW k \in ClassOf(rep[n])
             PROVE  k \in Reached(ClassOf(rep[n]), FlatDirect', n)
  BY <1>1 DEF ClassesConnected
<1> DEFINE V == ClassOf(rep[n])
<1>2. V \in SUBSET Node /\ n \in V
  BY DEF ClassOf
<1>3. k \in Reached(V, FlatDirect, n)
  BY DEF ClassesConnected
<1>4. \A e \in FlatDirect : e.src \in V /\ e.dst \in V => e \in FlatDirect'
  BY DEF ClassOf
<1> HIDE DEF V
<1>5. Reached(V, FlatDirect, n) \subseteq Reached(V, FlatDirect', n)
  BY <1>2, <1>4, ReachedMonotone
<1> QED BY <1>3, <1>5 DEF V

(* Steps of the deletion phase that merge and part nothing keep the cycles,
   edges only disappearing. *)
LEMMA MergesShrink ==
  ASSUME Merges, Deleting, Deleting' \/ pc' = "deleted",
         UNCHANGED <<rep, base, mode, round, SCCBreak>>,
         EdgesLifted', ClassesConnected', fEdges' \subseteq fEdges,
         \A n \in Node : CopyEdge(rep[n], rep[n]) \in sEdges => CopyEdge(rep[n], rep[n]) \in sEdges'
  PROVE  Merges'
<1>1. LoopsKept'
  BY DEF Merges, LoopsKept, Over, Deleting
<1>2. CyclesMerged'
  <2> SUFFICES ASSUME NEW n \in Node, NEW k \in Node, SameCycle(Node, FlatDirect', n, k)
               PROVE  rep[n] = rep[k]
    BY DEF CyclesMerged
  <2>1. Node \in SUBSET Node /\ FlatDirect' \subseteq FlatDirect
    BY DEF FlatDirect
  <2>2. \A x \in Node : Reached(Node, FlatDirect', x) \subseteq Reached(Node, FlatDirect, x)
    BY <2>1, ReachedMonotone
  <2>3. SameCycle(Node, FlatDirect, n, k)
    BY <2>2 DEF SameCycle
  <2> QED BY <2>3 DEF Merges, CyclesMerged, Deleting, Inserting
<1>3. SuperAcyclic'
  BY DEF SuperAcyclic, Inserting, Deleting
<1>4. SolvedMerged'
  BY DEF Merges, SolvedMerged, OnCycle, Deleting
<1> QED BY <1>1, <1>2, <1>3, <1>4 DEF Merges

(* Removal of a direct edge: inside a cycle its representative is queued for
   redetection. *)
LEMMA DirectRemovalMerges ==
  ASSUME TypeOK, GraphsAgree, Merges, NEW e \in delDirectEdgeVec,
         processCopyEdgeRemoval(e) \/ processGepEdgeRemoval(e)
  PROVE  Merges'
<1> USE DEF ctlVars, roundVars
<1>1. /\ Deleting /\ Deleting' /\ UNCHANGED <<base, mode, round, SCCBreak>>
      /\ dropDirectEdge(e) \/ KeepDirectEdge
  BY DEF processCopyEdgeRemoval, processGepEdgeRemoval, Deleting
<1>2. CASE KeepDirectEdge
  <2>1. UNCHANGED <<fEdges, rep, sEdges, redetectReps>>
    BY <1>2 DEF KeepDirectEdge, superVars
  <2>2. EdgesLifted' /\ ClassesConnected'
    BY <2>1 DEF Merges, EdgesLifted, ClassesConnected, Lift, ClassOf, FlatDirect
  <2> QED BY <1>1, <2>1, <2>2, MergesShrink
<1>3. CASE dropDirectEdge(e)
  <2>1. /\ fEdges' = fEdges \ {e} /\ removeSCGFlat(e, rep[e.src] # rep[e.dst]) /\ UNCHANGED rep
        /\ \/ redetectReps' = redetectReps \cup {rep[e.src]} /\ rep[e.src] = rep[e.dst]
           \/ redetectReps' = redetectReps /\ rep[e.src] # rep[e.dst]
    BY <1>3 DEF dropDirectEdge
  <2>2. /\ EdgesLifted'
        /\ \A s \in sEdges : s \in sEdges' \/ (rep[e.src] # rep[e.dst] /\ s = Lift(e))
    BY <2>1, RemovalLinks DEF Merges
  <2>3. ClassesConnected'
    <3>1. \A f \in FlatDirect : f # e => f \in FlatDirect'
      BY <2>1 DEF FlatDirect
    <3> QED BY <2>1, <3>1, ConnectedKept DEF Merges
  <2>4. \A n \in Node : CopyEdge(rep[n], rep[n]) # Lift(e) \/ rep[e.src] = rep[e.dst]
    BY DEF CopyEdge, Lift, LiftBy
  <2> QED BY <1>1, <2>1, <2>2, <2>3, <2>4, MergesShrink
<1> QED BY <1>1, <1>2, <1>3

(* Removal of an address, load or store takes no direct edge away. *)
LEMMA OtherRemovalMerges ==
  ASSUME TypeOK, GraphsAgree, Merges, NEW e \in delEdgeVec,
         processAddrRemoval(e) \/ processComplexRemoval(e)
  PROVE  Merges'
<1> USE DEF ctlVars, roundVars, PopDelEdge
<1>1. /\ Deleting /\ Deleting' /\ UNCHANGED <<base, mode, round, SCCBreak, rep, redetectReps>>
      /\ fEdges' = fEdges \ {e} /\ removeSCGFlat(e, TRUE) /\ e.kind \notin DirectKind
  BY DEF processAddrRemoval, processComplexRemoval, Deleting, IsComplex, ComplexKind, DirectKind
<1>2. EdgesLifted' /\ \A s \in sEdges : s \in sEdges' \/ s = Lift(e)
  BY <1>1, RemovalLinks DEF Merges
<1>3. ClassesConnected'
  <2>1. FlatDirect' = FlatDirect
    BY <1>1 DEF FlatDirect, IsDirect
  <2> QED BY <1>1, <2>1, ConnectedKept DEF Merges
<1>4. \A n \in Node : CopyEdge(rep[n], rep[n]) # Lift(e)
  BY <1>1 DEF CopyEdge, Lift, LiftBy, DirectKind
<1> QED BY <1>1, <1>2, <1>3, <1>4, MergesShrink

(* Steps of the deletion phase that touch no graph. *)
LEMMA QuietDeletionMerges ==
  ASSUME Merges,
         \/ \E s \in PendingOuts : DelOut(s)
         \/ DelComplex \/ DelDirectDone \/ RedetectDone \/ DelIterationDone
         \/ \E e \in delEdgeVec : \/ processDirectConstraintRemoval(e)
                                  \/ skipNormalGepConstraintRemoval(e)
  PROVE  Merges'
<1>1. /\ Deleting /\ (Deleting' \/ pc' = "deleted")
      /\ UNCHANGED <<base, mode, round, SCCBreak, rep, redetectReps, fEdges, sEdges>>
  BY DEF DelOut, DelComplex, DelDirectDone, RedetectDone, DelIterationDone,
     processDirectConstraintRemoval, skipNormalGepConstraintRemoval, PopDelEdge, Deleting,
     InDeletion, flatVars, superVars, delVars, ctlVars, roundVars
<1>2. EdgesLifted' /\ ClassesConnected'
  BY <1>1 DEF Merges, EdgesLifted, ClassesConnected, Lift, ClassOf, FlatDirect
<1> QED BY <1>1, <1>2, MergesShrink

(* The inner edges of a queued cycle, as the redetection sees them. *)
LEMMA TempGNow ==
  ASSUME GraphsAgree, CyclesReady, NEW r
  PROVE  TempG(r) = {e \in FlatDirect : rep[e.src] = r /\ rep[e.dst] = r}
<1>1. buildTempG(r) = InnerEdges(fEdges, rep, r)
  BY BuildTempGNow DEF GraphsAgree
<1>2. TempG(r) = buildTempG(r)
  BY DEF TempG, CyclesReady, TempGSync
<1> QED BY <1>1, <1>2 DEF InnerEdges, FlatDirect

(* A cycle that is still one component is whole. *)
LEMMA KeepMerges ==
  ASSUME TypeOK, GraphsAgree, CyclesReady, Merges, NEW r \in redetectReps, SCCKeep(r)
  PROVE  Merges'
<1> USE DEF flatVars, ctlVars, roundVars
<1>1. /\ r \in Node /\ rep[r] = r
      /\ Deleting /\ Deleting' /\ UNCHANGED <<base, mode, round, SCCBreak, rep, fEdges, sEdges>>
      /\ redetectReps' = redetectReps \ {r}
      /\ Cardinality(Parts(r)) = 1
  BY DEF SCCKeep, Redetected, Deleting, TypeOK, DelTypeOK, CyclesReady, RedetectReady
<1>2. sccSubNodes(r) = ClassOf(r)
  BY <1>1 DEF GraphsAgree, SubsMatchReps, ClassOf
<1>3. ClassOf(r) \in SUBSET Node
  BY DEF ClassOf
<1>4. ASSUME NEW n \in ClassOf(r), NEW k \in ClassOf(r)
      PROVE  k \in Reached(ClassOf(r), FlatDirect, n)
  <2> DEFINE V == ClassOf(r)
             C == Components(V, TempG(r))
  <2>1. C = Parts(r)
    BY <1>2 DEF Parts
  <2>2. CycleOf(V, TempG(r), n) \in C /\ CycleOf(V, TempG(r), k) \in C
    BY <1>3, ComponentsAreCycles
  <2>3. IsFiniteSet(C)
    <3>1. C \subseteq SUBSET Node
      BY <1>3 DEF Components
    <3> QED BY <3>1, NodesAssumption, FS_SUBSET, FS_Subset
  <2>4. PICK c : C = {c}
    BY <1>1, <2>1, <2>3, FS_Singleton
  <2>5. SameCycle(V, TempG(r), n, k)
    BY <1>3, <2>2, <2>4, ComponentsAreCycles
  <2>6. \A e \in TempG(r) : e \in FlatDirect
    BY TempGNow
  <2> HIDE DEF V, C
  <2>7. n \in V /\ V \in SUBSET Node
    BY <1>3 DEF V
  <2>8. Reached(V, TempG(r), n) \subseteq Reached(V, FlatDirect, n)
    BY <2>6, <2>7, ReachedMonotone
  <2> QED BY <2>5, <2>8 DEF V, SameCycle
<1>5. ClassesConnected'
  <2>1. FlatDirect' = FlatDirect /\ \A q : ClassOf(q)' = ClassOf(q)
    BY <1>1 DEF FlatDirect, ClassOf
  <2>2. ASSUME NEW n \in Node, rep[n] \notin redetectReps', NEW k \in ClassOf(rep[n])
        PROVE  k \in Reached(ClassOf(rep[n]), FlatDirect, n)
    <3>1. n \in ClassOf(rep[n])
      BY DEF ClassOf
    <3>2. CASE rep[n] = r
      BY <1>4, <2>2, <3>1, <3>2
    <3>3. CASE rep[n] # r
      BY <1>1, <2>2, <3>3 DEF Merges, ClassesConnected
    <3> QED BY <3>2, <3>3
  <2> QED BY <1>1, <2>1, <2>2 DEF ClassesConnected
<1>6. EdgesLifted'
  BY <1>1 DEF Merges, EdgesLifted, Lift
<1> QED BY <1>1, <1>5, <1>6, MergesShrink

(* What taking the cycle of r apart does to representatives: its members get
   those of the components of its remaining inner edges, all other nodes keep
   theirs. *)
RestoredReps(r, m) ==
  /\ m \in [ClassOf(r) -> ClassOf(r)] /\ rep' = NewRep(m)
  /\ \A n \in ClassOf(r) : rep'[n] \in ClassOf(r) /\ rep'[rep'[n]] = rep'[n]
  /\ \A n \in Node \ ClassOf(r) : rep'[n] = rep[n] /\ rep[n] \notin ClassOf(r)
  /\ \A n, k \in ClassOf(r) : rep'[n] = rep'[k] <=> SameCycle(ClassOf(r), TempG(r), n, k)

(* What processSCCRedetection does to the representatives when the cycle is
   no longer one. *)
LEMMA RestoreReps ==
  ASSUME TypeOK, GraphsAgree, CyclesReady, NEW r \in redetectReps, SCCRestore(r)
  PROVE  /\ r \in Node /\ rep[r] = r /\ ClassOf(r) \in SUBSET Node
         /\ Deleting /\ Deleting' /\ UNCHANGED <<base, mode, round, fEdges>> /\ SCCBreak'
         /\ redetectReps' = redetectReps \ {r}
         /\ \E m : /\ RestoredReps(r, m) /\ sccRestore(r, m)
                   /\ pts' = [n \in Node |-> IF n \in AllReps(m) THEN pts[n] \cup getPts(r) ELSE pts[n]]
<1> USE DEF flatVars, ctlVars, roundVars
<1>1. /\ r \in Node /\ rep[r] = r
  BY DEF TypeOK, DelTypeOK, CyclesReady, RedetectReady
<1>2. sccSubNodes(r) = ClassOf(r)
  BY <1>1 DEF GraphsAgree, SubsMatchReps, ClassOf
<1>3. /\ Deleting /\ Deleting' /\ UNCHANGED <<base, mode, round, fEdges>> /\ SCCBreak'
      /\ redetectReps' = redetectReps \ {r}
  BY DEF SCCRestore, Redetected, Deleting
<1>4. PICK m \in RepChoices(ClassOf(r), Components(ClassOf(r), TempG(r))) :
        /\ sccRestore(r, m)
        /\ pts' = [n \in Node |-> IF n \in AllReps(m) THEN pts[n] \cup getPts(r) ELSE pts[n]]
  BY <1>1, <1>2 DEF SCCRestore, Parts
<1>5. ClassOf(r) \in SUBSET Node
  BY DEF ClassOf
<1>6. /\ m \in [ClassOf(r) -> ClassOf(r)]
      /\ \A n \in ClassOf(r) : m[n] \in ClassOf(r) /\ m[m[n]] = m[n]
      /\ \A n, k \in ClassOf(r) : m[n] = m[k] <=> SameCycle(ClassOf(r), TempG(r), n, k)
  <2> DEFINE V == ClassOf(r)
             G == TempG(r)
  <2>1. V \in SUBSET Node /\ m \in RepChoices(V, Components(V, G))
    BY <1>5
  <2> HIDE DEF V, G
  <2>2. /\ m \in [V -> V]
        /\ \A n \in V : m[n] \in V /\ m[m[n]] = m[n] /\ SameCycle(V, G, n, m[n])
        /\ \A n, k \in V : m[n] = m[k] <=> SameCycle(V, G, n, k)
    BY <2>1, ChoicesAreCycles, Zenon
  <2> QED BY <2>2 DEF V, G
<1>7. rep' = NewRep(m)
  BY <1>4 DEF sccRestore
<1>8. /\ \A n \in ClassOf(r) : rep'[n] = m[n]
      /\ \A n \in Node \ ClassOf(r) : rep'[n] = rep[n]
  BY <1>5, <1>6, <1>7 DEF NewRep
<1>9. \A n \in Node \ ClassOf(r) : rep[n] \notin ClassOf(r)
  BY RepTypes DEF ClassOf
<1>10. RestoredReps(r, m)
  BY <1>6, <1>7, <1>8, <1>9 DEF RestoredReps
<1> QED BY <1>1, <1>3, <1>4, <1>5, <1>10

(* Restoring lifts every flat edge anew and touches no super edge elsewhere. *)
LEMMA RestoreLinks ==
  ASSUME TypeOK, GraphsAgree, GraphsAgree', EdgesLifted, NEW r, NEW m, sccRestore(r, m),
         UNCHANGED fEdges
  PROVE  EdgesLifted' /\ \A s \in sEdges : s.src # r /\ s.dst # r => s \in sEdges'
<1> DEFINE out == RestoredPairs(r, m)
           kept == fEdgeSet \ out
           back == {<<LiftBy(NewRep(m), x[2]), x[2]>> : x \in out}
<1>1. /\ fEdgeSet' = kept \cup back
      /\ sEdges' = {s \in sEdges : (s.src = r \/ s.dst = r) => ~EmptySEdge(s, kept)}
                     \cup {x[1] : x \in back}
  BY DEF sccRestore
<1> HIDE DEF back, kept
<1>2. ASSUME NEW e \in fEdges PROVE Lift(e)' \in sEdges'
  <2>1. <<Lift(e)', e>> \in fEdgeSet'
    BY DEF GraphsAgree, SuperMirrorsFlat
  <2>2. CASE <<Lift(e)', e>> \in back
    <3> DEFINE y == <<Lift(e)', e>>
    <3>1. y \in back /\ y[1] = Lift(e)'
      BY <2>2
    <3> QED BY <1>1, <3>1
  <2>3. CASE <<Lift(e)', e>> \in kept
    <3>1. <<Lift(e)', e>> \in fEdgeSet
      BY <2>3 DEF kept
    <3>2. Lift(e)' = Lift(e)
      BY <3>1 DEF GraphsAgree, SuperMirrorsFlat
    <3>3. ~EmptySEdge(Lift(e), kept)
      BY <2>3, <3>2 DEF EmptySEdge
    <3> QED BY <1>1, <3>2, <3>3 DEF EdgesLifted
  <2> QED BY <1>1, <2>1, <2>2, <2>3
<1> QED BY <1>1, <1>2 DEF EdgesLifted

(* The parts of a restored cycle are connected. *)
LEMMA RestoreConnects ==
  ASSUME TypeOK, GraphsAgree, CyclesReady, ClassesConnected, UNCHANGED fEdges,
         NEW r \in redetectReps, r \in Node, redetectReps' = redetectReps \ {r},
         NEW m, RestoredReps(r, m)
  PROVE  ClassesConnected'
<1> SUFFICES ASSUME NEW n \in Node, rep'[n] \notin redetectReps', NEW k \in Node, rep'[k] = rep'[n]
             PROVE  k \in Reached({x \in Node : rep'[x] = rep'[n]}, FlatDirect, n)
  BY DEF ClassesConnected, ClassOf, FlatDirect
<1> DEFINE V == {x \in Node : rep'[x] = rep'[n]}
           M == ClassOf(r)
<1>1. V \in SUBSET Node /\ n \in V /\ k \in V /\ M \in SUBSET Node
  BY DEF ClassOf
<1>2. CASE n \in M
  <2>1. V \subseteq M
    BY <1>2 DEF RestoredReps
  <2>2. V = CycleOf(M, TempG(r), n)
    <3>1. \A x \in M : rep'[n] = rep'[x] <=> SameCycle(M, TempG(r), n, x)
      BY <1>2 DEF RestoredReps
    <3> QED BY <1>1, <2>1, <3>1 DEF CycleOf
  <2>3. k \in Reached(V, TempG(r), n)
    BY <1>1, <1>2, <2>2, CycleReachedInside
  <2>4. \A e \in TempG(r) : e \in FlatDirect
    BY TempGNow
  <2> HIDE DEF V, M
  <2>5. Reached(V, TempG(r), n) \subseteq Reached(V, FlatDirect, n)
    BY <1>1, <2>4, ReachedMonotone
  <2> QED BY <2>3, <2>5 DEF V
<1>3. CASE n \notin M
  <2>1. rep'[n] = rep[n] /\ rep[n] # r
    BY <1>1, <1>3 DEF RestoredReps, ClassOf
  <2>2. V = ClassOf(rep[n])
    <3>1. \A x \in M : rep'[x] # rep'[n] /\ rep[x] # rep[n]
      BY <1>3, <2>1 DEF RestoredReps, ClassOf
    <3>2. \A x \in Node \ M : rep'[x] = rep[x]
      BY DEF RestoredReps
    <3> QED BY <2>1, <3>1, <3>2 DEF ClassOf
  <2>3. rep[n] \notin redetectReps
    BY <2>1
  <2> QED BY <1>1, <2>2, <2>3 DEF ClassesConnected
<1> QED BY <1>2, <1>3

(* Restoring a cycle leaves the cycles merged that still exist. *)
LEMMA RestoreMerges ==
  ASSUME BoundInv, GraphsAgree', CyclesReady, Merges, NEW r \in redetectReps, SCCRestore(r)
  PROVE  Merges'
<1>1. TypeOK /\ GraphsAgree
  BY DEF BoundInv, Inv
<1>2. /\ r \in Node /\ rep[r] = r /\ ClassOf(r) \in SUBSET Node
      /\ Deleting /\ Deleting' /\ UNCHANGED <<base, mode, round, fEdges>> /\ SCCBreak'
      /\ redetectReps' = redetectReps \ {r}
  BY <1>1, RestoreReps
<1>3. PICK m : RestoredReps(r, m) /\ sccRestore(r, m)
  BY <1>1, RestoreReps
<1>4. ~Over /\ RoundsCount /\ RepsOnCycles /\ EdgesBounded
  BY <1>2 DEF BoundInv, Bounded, Over, Deleting
<1>5. EdgesLifted' /\ \A s \in sEdges : s.src # r /\ s.dst # r => s \in sEdges'
  BY <1>1, <1>2, <1>3, RestoreLinks DEF Merges
<1>6. ClassesConnected'
  BY <1>1, <1>2, <1>3, RestoreConnects DEF Merges
<1>7. LoopsKept'
  <2> SUFFICES ASSUME NEW n \in Node, rep'[n] # n PROVE CopyEdge(rep'[n], rep'[n]) \in sEdges'
    BY DEF LoopsKept
  <2>1. CASE n \notin ClassOf(r)
    <3>1. rep'[n] = rep[n] /\ rep[n] # r
      BY <1>3, <2>1 DEF RestoredReps, ClassOf
    <3>2. CopyEdge(rep[n], rep[n]) \in sEdges
      BY <1>4, <3>1 DEF Merges, LoopsKept
    <3> QED BY <1>5, <3>1, <3>2 DEF CopyEdge
  <2>2. CASE n \in ClassOf(r)
    <3> DEFINE V == {x \in Node : rep'[x] = rep'[n]}
               SD == SolvedDirect(base)
    <3>1. rep'[n] \in ClassOf(r) /\ rep'[rep'[n]] = rep'[n] /\ rep'[n] \in Node
      BY <1>2, <1>3, <2>2 DEF RestoredReps
    <3>2. rep'[n] \notin redetectReps'
      <4>1. rep[rep'[n]] = r
        BY <3>1 DEF ClassOf
      <4> QED BY <1>2, <4>1 DEF CyclesReady, RedetectReady
    <3>3. V \in SUBSET Node /\ n \in V /\ rep'[n] \in V
      BY <3>1
    <3>4. rep'[n] \in Reached(V, FlatDirect, n)
      <4>1. FlatDirect' = FlatDirect
        BY <1>2 DEF FlatDirect
      <4> QED BY <1>6, <3>2, <3>3, <4>1 DEF ClassesConnected, ClassOf
    <3>5. \A x \in V : SameCycle(Node, SD, x, rep'[n])
      <4>1. \A x \in V : x \in ClassOf(r)
        BY <1>3, <3>1 DEF RestoredReps
      <4>2. \A x, y \in V : OnCycle(x, rep[x]) /\ OnCycle(y, rep[y]) /\ rep[x] = rep[y]
        BY <1>4, <4>1 DEF RepsOnCycles, ClassOf
      <4> HIDE DEF V
      <4> QED BY <1>1, <1>4, <3>3, <4>2, CycleFacts, RepTypes DEF OnCycle
    <3>6. base \in SUBSET ProgramEdge /\ FieldsSettled(base) /\ FlatDirect \in SUBSET SD
      BY <1>4, ProgramFacts DEF FlatDirect, EdgesBounded
    <3>7. PICK e \in FlatDirect : LiftBy(rep', e) = CopyEdge(rep'[n], rep'[n])
      BY <2>2, <3>1, <3>4, <3>5, <3>6, ClassLoop
    <3> QED BY <1>2, <1>5, <3>7 DEF EdgesLifted, Lift, FlatDirect
  <2> QED BY <2>1, <2>2
<1>8. CyclesMerged'
  <2> SUFFICES ASSUME NEW n \in Node, NEW k \in Node, SameCycle(Node, FlatDirect, n, k)
               PROVE  rep'[n] = rep'[k]
    BY <1>2 DEF CyclesMerged, FlatDirect
  <2> DEFINE M == ClassOf(r)
  <2>1. \A x, y \in Node : SameCycle(Node, FlatDirect, x, y) => rep[x] = rep[y]
    BY <1>2 DEF Merges, CyclesMerged, Deleting, Inserting
  <2>2. CASE n \notin M
    <3>1. k \notin M
      BY <2>1, <2>2 DEF ClassOf
    <3> QED BY <1>3, <2>1, <2>2, <3>1 DEF RestoredReps
  <2>3. ASSUME NEW x \in M, NEW y \in Node, SameCycle(Node, FlatDirect, x, y)
        PROVE  y \in M /\ y \in Reached(M, TempG(r), x)
    <3> DEFINE V == CycleOf(Node, FlatDirect, x)
    <3>1. Node \in SUBSET Node /\ x \in Node
      BY <1>2
    <3>2. V \in SUBSET M /\ x \in V /\ y \in V
      BY <2>1, <2>3, <3>1, SameCycleEquivalence DEF CycleOf, ClassOf
    <3>3. y \in Reached(V, FlatDirect, x)
      BY <3>1, <3>2, CycleReachedInside
    <3>4. \A e \in FlatDirect : e.src \in V /\ e.dst \in V => e \in TempG(r)
      BY <1>1, <3>2, TempGNow DEF ClassOf
    <3> HIDE DEF V, M
    <3>5. Reached(V, FlatDirect, x) \subseteq Reached(M, TempG(r), x)
      <4>1. M \in SUBSET Node
        BY <1>2 DEF M
      <4> QED BY <3>2, <3>4, <4>1, ReachedMonotone
    <3> QED BY <3>2, <3>3, <3>5
  <2>4. CASE n \in M
    <3>1. k \in M /\ k \in Reached(M, TempG(r), n)
      BY <2>3, <2>4
    <3>2. SameCycle(Node, FlatDirect, k, n)
      BY DEF SameCycle
    <3>3. n \in Reached(M, TempG(r), k)
      BY <2>3, <3>1, <3>2
    <3>4. SameCycle(M, TempG(r), n, k)
      BY <3>1, <3>3 DEF SameCycle
    <3> QED BY <1>3, <2>4, <3>1, <3>4 DEF RestoredReps
  <2> QED BY <2>2, <2>4
<1>9. SuperAcyclic' /\ SolvedMerged'
  BY <1>2 DEF SuperAcyclic, SolvedMerged, Inserting, Deleting
<1> QED BY <1>5, <1>6, <1>7, <1>8, <1>9 DEF Merges

(* Every step of the deletion phase keeps the cycles right. *)
LEMMA DeletionMerges ==
  ASSUME BoundInv, GraphsAgree', CyclesReady, Merges, DeletionStep
  PROVE  Merges'
<1>1. TypeOK /\ GraphsAgree
  BY DEF BoundInv, Inv
<1> QED BY <1>1, DirectRemovalMerges, OtherRemovalMerges, QuietDeletionMerges, KeepMerges,
        RestoreMerges DEF DeletionStep

-----------------------------------------------------------------------------
(* The merged cycles through the insertion phase *)

LEMMA AdditionLinks ==
  ASSUME EdgesLifted, NEW e, addSCGEdge(e), fEdges' \subseteq fEdges \cup {e}, UNCHANGED rep
  PROVE  EdgesLifted' /\ sEdges \subseteq sEdges'
BY DEF EdgesLifted, addSCGEdge, Lift

(* Steps of the insertion phase that merge nothing keep the cycles, edges
   only appearing. *)
LEMMA MergesGrow ==
  ASSUME TypeOK, GraphsAgree, Merges, ~Over, pc # "idle", Inserting',
         UNCHANGED <<rep, redetectReps, SCCBreak, base, mode, round>>,
         sEdges \subseteq sEdges', fEdges \subseteq fEdges', EdgesLifted', SuperAcyclic'
  PROVE  Merges'
<1>1. LoopsKept'
  BY DEF Merges, LoopsKept
<1>2. CyclesMerged'
  BY DEF CyclesMerged
<1>3. ClassesConnected'
  <2>1. \A e \in FlatDirect : e \in FlatDirect'
    BY DEF FlatDirect
  <2> QED BY <2>1, ConnectedKept DEF Merges
<1>4. SolvedMerged'
  BY DEF Merges, SolvedMerged, OnCycle
<1> QED BY <1>1, <1>2, <1>3, <1>4 DEF Merges

(* The super graph stays acyclic apart from the new edges. *)
LEMMA AcyclicKept ==
  ASSUME SuperAcyclic, Inserting, UNCHANGED <<rep, SCCBreak>>,
         \A s \in SuperDirect' : s \in NewLifts' \/ (s \in SuperDirect /\ s \notin NewLifts)
  PROVE  SuperAcyclic'
<1> DEFINE V == Reps
           E == SuperDirect \ NewLifts
           D == SuperDirect' \ NewLifts'
<1>1. V \in SUBSET Node /\ \A s \in D : s \in E
  BY DEF Reps
<1>2. Reps' = V
  BY DEF Reps
<1> HIDE DEF V, E, D
<1>3. \A r \in V : Reached(V, D, r) \subseteq Reached(V, E, r)
  BY <1>1, ReachedMonotone
<1>4. \A r, q \in V : SameCycle(V, D, r, q) => SameCycle(V, E, r, q)
  BY <1>3 DEF SameCycle
<1>5. SCCBreak => \A r, q \in V : SameCycle(V, E, r, q) => r = q
  BY DEF SuperAcyclic, V, E
<1>6. SCCBreak' => \A r, q \in Reps' : SameCycle(Reps', D, r, q) => r = q
  BY <1>2, <1>4, <1>5
<1> QED BY <1>6 DEF SuperAcyclic, D

(* Additions of constraints *)
LEMMA DirectAdditionMerges ==
  ASSUME TypeOK, GraphsAgree, Merges, NEW x \in insDirectEdgeVec,
         processCopyAddition(x[1], x[2]) \/ processGepAddition(x[1])
  PROVE  Merges'
<1> USE DEF ctlVars, roundVars, delVars
<1>1. /\ pc = "insDirect" /\ pc' = pc /\ ~Over /\ Inserting /\ Inserting'
      /\ UNCHANGED <<rep, redetectReps, SCCBreak, base, mode, round>>
      /\ fEdges \subseteq fEdges'
      /\ \/ addDirectSCGEdge(x[1]) /\ fEdges' = fEdges \cup {x[1]}
         \/ KeepSCG /\ fEdges' = fEdges
  <2>1. CASE processGepAddition(x[1])
    BY <2>1 DEF processGepAddition, NewFEdge, Over, Inserting
  <2>2. CASE processCopyAddition(x[1], x[2])
    BY <2>2 DEF processCopyAddition, addCopyFCGEdge, NewFEdge, Over, Inserting
  <2> QED BY <2>1, <2>2
<1>2. CASE KeepSCG /\ fEdges' = fEdges
  <2>1. UNCHANGED <<sEdges, insDirectConsVec>>
    BY <1>2 DEF KeepSCG
  <2>2. EdgesLifted'
    BY <1>1, <1>2, <2>1 DEF Merges, EdgesLifted, Lift
  <2>3. SuperAcyclic'
    <3>1. SuperDirect' = SuperDirect /\ NewLifts' = NewLifts
      BY <1>1, <2>1 DEF SuperDirect, NewLifts, Lift
    <3> QED BY <1>1, <3>1, AcyclicKept DEF Merges
  <2> QED BY <1>1, <2>1, <2>2, <2>3, MergesGrow
<1>3. CASE addDirectSCGEdge(x[1]) /\ fEdges' = fEdges \cup {x[1]}
  <2>1. /\ addSCGEdge(x[1]) /\ insDirectConsVec \subseteq insDirectConsVec'
        /\ Lift(x[1]) \notin sEdges => x[1] \in insDirectConsVec'
    BY <1>3 DEF addDirectSCGEdge, NewSEdge
  <2>2. EdgesLifted' /\ sEdges \subseteq sEdges' /\ sEdges' = sEdges \cup {Lift(x[1])}
    BY <1>1, <1>3, <2>1, AdditionLinks DEF Merges, addSCGEdge
  <2>3. SuperAcyclic'
    <3>1. NewLifts \subseteq NewLifts' /\ (Lift(x[1]) \notin sEdges => Lift(x[1]) \in NewLifts')
      BY <1>1, <2>1 DEF NewLifts, Lift
    <3>2. \A s \in SuperDirect' : s \in NewLifts' \/ (s \in SuperDirect /\ s \notin NewLifts)
      BY <2>2, <3>1 DEF SuperDirect
    <3> QED BY <1>1, <3>2, AcyclicKept DEF Merges
  <2> QED BY <1>1, <2>2, <2>3, MergesGrow
<1> QED BY <1>1, <1>2, <1>3

(* Addition of an address, load or store adds no direct edge. *)
LEMMA EdgeAdditionMerges ==
  ASSUME TypeOK, GraphsAgree, Merges, NEW e \in insEdgeVec,
         processAddrAddition(e) \/ processComplexAddition(e)
  PROVE  Merges'
<1> USE DEF ctlVars, roundVars, delVars, PopInsEdge
<1>1. /\ pc = "insEdge" /\ pc' = pc /\ ~Over /\ Inserting /\ Inserting'
      /\ UNCHANGED <<rep, redetectReps, SCCBreak, base, mode, round>>
      /\ fEdges' = fEdges \cup {e} /\ addSCGEdge(e) /\ ~IsDirect(e)
  BY DEF processAddrAddition, processComplexAddition, Over, Inserting, IsDirect, IsComplex,
     DirectKind, ComplexKind
<1>2. EdgesLifted' /\ sEdges \subseteq sEdges' /\ sEdges' = sEdges \cup {Lift(e)}
  BY <1>1, AdditionLinks DEF Merges, addSCGEdge
<1>3. SuperAcyclic'
  <2>1. NewLifts = {} /\ NewLifts' = {} /\ SuperDirect' = SuperDirect
    BY <1>1, <1>2, LiftFacts DEF NewLifts, SuperDirect, Lift
  <2> QED BY <1>1, <2>1, AcyclicKept DEF Merges
<1> QED BY <1>1, <1>2, <1>3, MergesGrow

(* Steps of the insertion phase that add no edge. *)
LEMMA QuietInsertionMerges ==
  ASSUME TypeOK, GraphsAgree, VectorsClean, Merges, Kept,
         \/ \E s \in PendingOuts : InsOut(s)
         \/ InsComplex \/ SkipSCCDetect \/ InsConsDone \/ InsPropDone
         \/ InsIterationDone /\ pc' # "idle"
         \/ \E e \in insDirectConsVec : processDirectConstraintAddition(e)
         \/ \E n \in Node : ProcessPropMap(n)
  PROVE  Merges'
<1>1. /\ ~Over /\ Inserting /\ Inserting' /\ pc # "idle"
      /\ UNCHANGED <<rep, redetectReps, SCCBreak, base, mode, round, sEdges, fEdges>>
      /\ pc = "insDirect" => SkipSCCDetect
      /\ pc' = "insDirect" => InsIterationDone
  BY DEF InsOut, InsComplex, SkipSCCDetect, InsConsDone, InsPropDone, InsIterationDone,
     processDirectConstraintAddition, ProcessPropMap, InInsertion, Over, Inserting,
     flatVars, superVars, delVars, ctlVars, roundVars
<1>2. EdgesLifted'
  BY <1>1 DEF Merges, EdgesLifted, Lift
<1>3. SuperAcyclic'
  <2>1. CASE SCCBreak
    <3>1. NewLifts = {}
      BY <1>1, <2>1 DEF NewLifts, SkipSCCDetect, Kept
    <3>2. NewLifts' = {}
      BY <1>1 DEF NewLifts, InsIterationDone, VectorsClean
    <3>3. SuperDirect' = SuperDirect
      BY <1>1 DEF SuperDirect
    <3> QED BY <1>1, <3>1, <3>2, <3>3, AcyclicKept DEF Merges
  <2>2. CASE ~SCCBreak
    BY <1>1, <2>2 DEF SuperAcyclic
  <2> QED BY <2>1, <2>2
<1> QED BY <1>1, <1>2, <1>3, MergesGrow

(* The insertion phase begins with the cycles merged that exist. *)
LEMMA StartInsertionMerges ==
  ASSUME TypeOK, GraphsAgree, VectorsClean, Merges, StartInsertion \/ StartDiffInsertion
  PROVE  Merges'
<1>1. /\ ~Over /\ pc = "deleted" /\ pc' = "insDirect" /\ ~Inserting /\ Inserting'
      /\ UNCHANGED <<rep, redetectReps, SCCBreak, base, mode, round, sEdges, fEdges, insDirectConsVec>>
  BY DEF StartInsertion, StartDiffInsertion, Over, Inserting, flatVars, superVars, delVars, roundVars
<1>2. EdgesLifted'
  BY <1>1 DEF Merges, EdgesLifted, Lift
<1>3. redetectReps = {} /\ insDirectConsVec = {}
  BY <1>1 DEF VectorsClean
<1>4. ASSUME NEW r \in Reps, NEW q \in Reps, SameCycle(Reps, SuperDirect, r, q)
      PROVE  r = q
  <2>1. \A x, y \in Reps : y \in Reached(Reps, SuperDirect, x) => y \in Reached(Node, FlatDirect, x)
    BY <1>3, SuperPathFlat DEF Merges
  <2>2. SameCycle(Node, FlatDirect, r, q)
    BY <1>4, <2>1 DEF SameCycle
  <2> QED BY <1>1, <2>2 DEF Merges, CyclesMerged, Reps
<1>5. SuperAcyclic'
  <2>1. Reps' = Reps /\ SuperDirect' = SuperDirect /\ NewLifts' = {}
    BY <1>1, <1>3 DEF Reps, SuperDirect, NewLifts
  <2>2. SuperDirect' \ NewLifts' = SuperDirect
    BY <2>1
  <2> QED BY <1>4, <2>1, <2>2 DEF SuperAcyclic
<1> QED BY <1>1, <1>2, <1>5, MergesGrow

(* When the last iteration ends the cycles that exist are merged: no edge
   was new, or detection has run since. *)
LEMMA EndMerges ==
  ASSUME BoundInv, Merges, InsIterationDone, pc' = "idle"
  PROVE  Merges'
<1>1. /\ pc = "insEdge" /\ Inserting /\ ~Inserting'
      /\ UNCHANGED <<rep, redetectReps, base, sEdges, fEdges>>
  BY DEF InsIterationDone, Inserting, flatVars, superVars, delVars, roundVars
<1>2. ~Over /\ TypeOK /\ GraphsAgree /\ EdgesBounded /\ RoundsCount
  BY <1>1, InsertingFacts
<1>3. EdgesLifted' /\ ClassesConnected' /\ LoopsKept'
  BY <1>1, <1>2 DEF Merges, EdgesLifted, ClassesConnected, LoopsKept, Lift, ClassOf, FlatDirect
<1>4. ASSUME NEW n \in Node, NEW k \in Node, SameCycle(Node, FlatDirect, n, k)
      PROVE  rep[n] = rep[k]
  <2>1. CASE SCCBreak
    <3>1. SameCycle(Reps, SuperDirect, rep[n], rep[k])
      BY <1>2, <1>4, FlatPathLifts DEF Merges, SameCycle
    <3>2. SuperDirect \ NewLifts = SuperDirect
      BY <1>1 DEF NewLifts
    <3> QED BY <1>1, <1>2, <2>1, <3>1, <3>2, RepTypes DEF Merges, SuperAcyclic
  <2>2. CASE ~SCCBreak
    <3>1. Node \in SUBSET Node /\ \A e \in FlatDirect : e \in SolvedDirect(base)
      BY <1>2, ProgramFacts DEF FlatDirect, EdgesBounded
    <3>2. \A x \in Node : Reached(Node, FlatDirect, x) \subseteq Reached(Node, SolvedDirect(base), x)
      BY <3>1, ReachedMonotone
    <3>3. OnCycle(n, k)
      BY <1>4, <3>2 DEF OnCycle, SameCycle
    <3> QED BY <1>1, <2>2, <3>3 DEF Merges, SolvedMerged
  <2> QED BY <2>1, <2>2
<1>5. CyclesMerged' /\ SuperAcyclic' /\ SolvedMerged'
  BY <1>1, <1>4 DEF CyclesMerged, SuperAcyclic, SolvedMerged, FlatDirect
<1> QED BY <1>3, <1>5 DEF Merges

(* The old version is done. *)
LEMMA FinishMerges ==
  ASSUME Merges, FinishOld, RoundsCount
  PROVE  Merges'
<1>1. /\ Over' /\ ~Inserting /\ ~Inserting' /\ pc' = "idle"
      /\ UNCHANGED <<rep, redetectReps, sEdges, fEdges>>
  BY DEF FinishOld, Inserting, Over, RoundsCount, flatVars, superVars, delVars
<1> QED BY <1>1 DEF Merges, EdgesLifted, ClassesConnected, LoopsKept, Lift, ClassOf, FlatDirect,
        CyclesMerged, SuperAcyclic, SolvedMerged

(* A round is set up. *)
LEMMA StartMerges ==
  ASSUME BoundInv, Merges, NEW D \in SUBSET base, StartRound(D),
         ~Over => \A e \in SolvedDirect(base) : e \in fEdges
  PROVE  Merges'
<1>1. /\ pc = "idle" /\ pc' = "delDirect" /\ ~Inserting /\ ~Inserting'
      /\ UNCHANGED <<rep, redetectReps, base, sEdges, fEdges>>
  BY DEF StartRound, Inserting, flatVars, superVars
<1>2. ~Over
  BY StartBound
<1>3. EdgesLifted' /\ ClassesConnected' /\ LoopsKept' /\ CyclesMerged' /\ SuperAcyclic'
  BY <1>1, <1>2 DEF Merges, EdgesLifted, ClassesConnected, LoopsKept, Lift, ClassOf, FlatDirect,
     CyclesMerged, SuperAcyclic
<1>4. SolvedMerged'
  <2> SUFFICES ASSUME NEW n \in Node, NEW k \in Node, OnCycle(n, k) PROVE rep[n] = rep[k]
    BY <1>1 DEF SolvedMerged, OnCycle
  <2>1. Node \in SUBSET Node /\ \A e \in SolvedDirect(base) : e \in FlatDirect
    BY <1>2, ProgramFacts DEF FlatDirect, BoundInv
  <2>2. \A x \in Node : Reached(Node, SolvedDirect(base), x) \subseteq Reached(Node, FlatDirect, x)
    BY <2>1, ReachedMonotone
  <2>3. SameCycle(Node, FlatDirect, n, k)
    BY <2>2 DEF OnCycle, SameCycle
  <2> QED BY <1>1, <2>3 DEF Merges, CyclesMerged
<1> QED BY <1>3, <1>4 DEF Merges

(* The cycles SCCDetect merges *)
LEMMA DetectedReps ==
  ASSUME TypeOK, GraphsAgree, SCCDetect
  PROVE  /\ pc = "insDirect" /\ pc' = "insCons" /\ SCCBreak /\ SCCBreak'
         /\ UNCHANGED <<flatVars, delVars, insVars, pdmVars, roundVars, stack>>
         /\ \E m : /\ \A r \in Reps : m[r] \in Reps /\ m[m[r]] = m[r]
                                      /\ SameCycle(Reps, SuperDirect, r, m[r])
                   /\ \A r, q \in Reps : m[r] = m[q] <=> SameCycle(Reps, SuperDirect, r, q)
                   /\ mergeSccCycle(m)
                   /\ \A n \in Node : rep'[n] = m[rep[n]]
                   /\ pts' = [n \in Node |-> IF n \in Reps /\ m[n] = n
                                             THEN UNION {pts[k] : k \in {x \in Reps : m[x] = n}}
                                             ELSE pts[n]]
<1>1. PICK m \in RepChoices(Reps, Components(Reps, SuperDirect)) :
        /\ mergeSccCycle(m)
        /\ pts' = [n \in Node |-> IF n \in Reps /\ m[n] = n
                                  THEN UNION {pts[k] : k \in {x \in Reps : m[x] = n}}
                                  ELSE pts[n]]
  BY DEF SCCDetect, SuperDirect
<1>2. /\ \A r \in Reps : m[r] \in Reps /\ m[m[r]] = m[r] /\ SameCycle(Reps, SuperDirect, r, m[r])
      /\ \A r, q \in Reps : m[r] = m[q] <=> SameCycle(Reps, SuperDirect, r, q)
  <2> DEFINE V == Reps
             G == SuperDirect
  <2>1. V \in SUBSET Node /\ m \in RepChoices(V, Components(V, G))
    BY DEF Reps
  <2> HIDE DEF V, G
  <2>2. /\ m \in [V -> V]
        /\ \A n \in V : m[n] \in V /\ m[m[n]] = m[n] /\ SameCycle(V, G, n, m[n])
        /\ \A n, k \in V : m[n] = m[k] <=> SameCycle(V, G, n, k)
    BY <2>1, ChoicesAreCycles, Zenon
  <2> QED BY <2>2 DEF V, G
<1>3. \A n \in Node : rep'[n] = m[rep[n]]
  BY <1>1 DEF mergeSccCycle, MergedRep
<1>4. /\ pc = "insDirect" /\ pc' = "insCons" /\ SCCBreak /\ SCCBreak'
      /\ UNCHANGED <<flatVars, delVars, insVars, pdmVars, roundVars, stack>>
  BY DEF SCCDetect, delVars
<1> QED BY <1>1, <1>2, <1>3, <1>4

(* Detection merges exactly the cycles that exist. *)
LEMMA DetectMerges ==
  ASSUME BoundInv, Merges, SCCDetect
  PROVE  Merges'
<1> USE DEF flatVars, delVars, roundVars
<1>1. /\ pc = "insDirect" /\ pc' = "insCons" /\ Inserting /\ Inserting' /\ SCCBreak /\ SCCBreak'
      /\ UNCHANGED <<fEdges, base, mode, round, redetectReps>>
  BY DetectedReps DEF BoundInv, Inv, Inserting
<1>2. ~Over /\ TypeOK /\ GraphsAgree /\ EdgesBounded /\ RoundsCount /\ RepsOnCycles
  BY <1>1, InsertingFacts
<1>3. PICK m : /\ \A r \in Reps : m[r] \in Reps /\ m[m[r]] = m[r]
                                  /\ SameCycle(Reps, SuperDirect, r, m[r])
               /\ \A r, q \in Reps : m[r] = m[q] <=> SameCycle(Reps, SuperDirect, r, q)
               /\ mergeSccCycle(m)
               /\ \A n \in Node : rep'[n] = m[rep[n]]
  BY <1>2, DetectedReps
<1>4. sEdges' = {LiftBy(m, s) : s \in sEdges}
  BY <1>3 DEF mergeSccCycle
<1>5. redetectReps = {}
  BY <1>1 DEF BoundInv, VectorsClean
<1>6. /\ Reps \in SUBSET Node /\ \A n \in Node : rep[n] \in Reps /\ rep[n] \in Node
      /\ \A r \in Reps : rep[r] = r
      /\ \A e \in fEdges : e.src \in Node /\ e.dst \in Node
  BY <1>2, RepTypes
<1>7. EdgesLifted'
  <2>1. \A e \in fEdges : LiftBy(rep', e) = LiftBy(m, Lift(e))
    BY <1>3, <1>6 DEF LiftBy, Lift
  <2> QED BY <1>1, <1>4, <2>1 DEF Merges, EdgesLifted, Lift
<1>8. ASSUME NEW n \in Node, NEW k \in Node, rep'[k] = rep'[n]
      PROVE  k \in Reached({x \in Node : rep'[x] = rep'[n]}, FlatDirect, n)
  <2> SUFFICES ASSUME NEW V, V = {x \in Node : rep'[x] = rep'[n]}
               PROVE  k \in Reached(V, FlatDirect, n)
    OBVIOUS
  <2>0. PICK R : R = CycleOf(Reps, SuperDirect, rep[n])
    OBVIOUS
  <2>1. V = {x \in Node : rep[x] \in R}
    BY <1>3, <1>6, <2>0 DEF CycleOf
  <2>2. /\ R \in SUBSET Reps /\ rep[n] \in R /\ rep[k] \in R /\ n \in V /\ k \in V
    BY <1>6, <1>8, <2>0, <2>1, SameCycleEquivalence DEF CycleOf
  <2>3. rep[k] \in Reached(R, SuperDirect, rep[n])
    BY <1>6, <2>0, <2>2, CycleReachedInside
  <2>4. /\ V \in SUBSET Node /\ R \subseteq V
        /\ \A x, y \in V : rep[x] = rep[y] => y \in Reached(V, FlatDirect, x)
        /\ \A q \in Reached(R, SuperDirect, rep[n]) : q \in Reached(V, FlatDirect, rep[n])
    <3>1. ClassesConnected /\ SuperDirect \in SUBSET SuperDirect
      BY DEF Merges
    <3>0. TypeOK /\ GraphsAgree /\ redetectReps = {}
      BY <1>2, <1>5
    <3>2. V \in SUBSET Node
      BY <3>0, <2>1, <2>2, <3>1, SuperPathInside
    <3>3. R \subseteq V
      BY <1>6, <2>1, <2>2
    <3>4. \A x, y \in V : rep[x] = rep[y] => y \in Reached(V, FlatDirect, x)
      BY <3>0, <2>1, <2>2, <3>1, SuperPathInside
    <3>5. \A q \in Reached(R, SuperDirect, rep[n]) : q \in Reached(V, FlatDirect, rep[n])
      BY <3>0, <2>1, <2>2, <3>1, SuperPathInside
    <3> QED BY <3>2, <3>3, <3>4, <3>5
  <2>5. rep[n] \in Reached(V, FlatDirect, n) /\ k \in Reached(V, FlatDirect, rep[k])
    BY <1>6, <2>2, <2>4
  <2>6. rep[k] \in Reached(V, FlatDirect, rep[n])
    BY <2>3, <2>4
  <2> QED BY <2>2, <2>4, <2>5, <2>6, ReachedTransitive
<1>9. ClassesConnected'
  BY <1>1, <1>8 DEF ClassesConnected, ClassOf, FlatDirect
<1>10. LoopsKept'
  <2> SUFFICES ASSUME NEW n \in Node, rep'[n] # n PROVE CopyEdge(rep'[n], rep'[n]) \in sEdges'
    BY DEF LoopsKept
  <2> DEFINE V == {x \in Node : rep'[x] = rep'[n]}
             SD == SolvedDirect(base)
  <2>1. rep'[n] \in Node /\ rep'[rep'[n]] = rep'[n]
    BY <1>3, <1>6
  <2>2. rep'[n] \in Reached(V, FlatDirect, n)
    BY <1>8, <2>1
  <2>3. \A x \in V : SameCycle(Node, SD, x, rep'[n])
    <3>1. RepsOnCycles'
      <4>1. Bounded'
        BY DetectBounded
      <4> QED BY <4>1 DEF Bounded
    <3> QED BY <1>1, <3>1 DEF RepsOnCycles, OnCycle
  <2>4. base \in SUBSET ProgramEdge /\ FieldsSettled(base) /\ FlatDirect \in SUBSET SD
    BY <1>2, ProgramFacts DEF FlatDirect, EdgesBounded
  <2>5. PICK e \in FlatDirect : LiftBy(rep', e) = CopyEdge(rep'[n], rep'[n])
    BY <2>1, <2>2, <2>3, <2>4, ClassLoop
  <2> QED BY <1>1, <1>7, <2>5 DEF EdgesLifted, Lift, FlatDirect
<1>11. SuperAcyclic'
  <2> DEFINE V == Reps
             W == Reps'
             E == SuperDirect
             D == SuperDirect'
             f == [n \in Node |-> n]
  <2>1. NewLifts' = {} /\ D \ NewLifts' = D
    BY <1>1 DEF NewLifts
  <2>2. V \in SUBSET Node /\ W \in SUBSET V /\ W \in SUBSET Node /\ \A r \in W : m[r] = r
    <3>1. \A r \in W : r \in Node /\ r = m[rep[r]] /\ rep[r] \in V
      BY <1>3, <1>6 DEF Reps
    <3>2. \A r \in W : r \in V /\ m[r] = r
      BY <1>3, <3>1
    <3> QED BY <1>6, <3>1, <3>2
  <2>3. ASSUME NEW s \in D, s.src \in W, s.dst \in W
        PROVE  s.dst \in Reached(V, E, s.src)
    <3>1. PICK t \in E : s = LiftBy(m, t) /\ t.src \in V /\ t.dst \in V
      BY <1>2, <1>4, LiftFacts DEF GraphsAgree, SuperEdgesUsed, SuperDirect, Reps, TypeOK, SuperTypeOK, Edge
    <3>2. s.src = m[t.src] /\ s.dst = m[t.dst]
      BY <3>1, LiftFacts
    <3>3. SameCycle(V, E, t.src, m[t.src]) /\ SameCycle(V, E, t.dst, m[t.dst])
      BY <1>3, <3>1
    <3>4. t.src \in Reached(V, E, s.src) /\ s.dst \in Reached(V, E, t.dst) /\ s.src \in V
      BY <2>2, <2>3, <3>2, <3>3 DEF SameCycle
    <3> HIDE DEF V, E, W, D
    <3>5. t.dst \in Reached(V, E, t.src)
      BY <2>2, <3>1, ReachedCloses
    <3> QED BY <2>2, <3>4, <3>5, ReachedTransitive
  <2>4. \A x \in W : f[x] \in V /\ f[x] = x
    BY <2>2
  <2>5. \A s \in D : s.src \in W /\ s.dst \in W => f[s.dst] \in Reached(V, E, f[s.src])
    BY <2>3, <2>4
  <2>6. ASSUME NEW r \in W, NEW q \in W, SameCycle(W, D, r, q)
        PROVE  r = q
    <3> HIDE DEF f, V, W, D, E
    <3>1. \A x \in W : \A y \in Reached(W, D, x) : f[y] \in Reached(V, E, f[x])
      BY <2>2, <2>4, <2>5, ReachedMapped
    <3>2. SameCycle(V, E, r, q)
      BY <2>4, <2>6, <3>1 DEF SameCycle
    <3>3. m[r] = m[q]
      BY <1>3, <2>2, <3>2 DEF V, E
    <3> QED BY <2>2, <3>3
  <2> QED BY <2>1, <2>6 DEF SuperAcyclic
<1>12. CyclesMerged' /\ SolvedMerged'
  BY <1>1 DEF CyclesMerged, SolvedMerged
<1> QED BY <1>7, <1>9, <1>10, <1>11, <1>12 DEF Merges

(* Every step of the insertion phase keeps the cycles right. *)
LEMMA InsertionMerges ==
  ASSUME BoundInv, Merges, Kept, InsertionStep
  PROVE  Merges'
<1>1. TypeOK /\ GraphsAgree /\ VectorsClean /\ RoundsCount
  BY DEF BoundInv, Inv
<1> QED BY <1>1, DirectAdditionMerges, EdgeAdditionMerges, QuietInsertionMerges,
        StartInsertionMerges, EndMerges, FinishMerges, DetectMerges DEF InsertionStep

(* The cycles of the exhaustive analysis *)
LEMMA InitMerges ==
  ASSUME Init, BoundInv
  PROVE  Merges
<1>1. /\ pc = "idle" /\ ~Inserting /\ redetectReps = {} /\ ~Over /\ TypeOK /\ GraphsAgree
      /\ RoundsCount /\ EdgesBounded /\ RepsOnCycles
  BY InitBound, InitType, InitGraphs DEF Init, Inserting, Bounded
<1>2. PICK m \in RepChoices(Node, Components(Node, FlatDirect)) : SolvedSuper(m)
  BY DEF Init, FlatDirect
<1>3. rep = m /\ sEdges = {LiftBy(m, e) : e \in fEdges}
  BY <1>2 DEF SolvedSuper
<1>4. EdgesLifted
  BY <1>3 DEF EdgesLifted, Lift
<1>5. \A n, k \in Node : rep[n] = rep[k] <=> SameCycle(Node, FlatDirect, n, k)
  <2> DEFINE V == Node
             G == FlatDirect
  <2>1. V \in SUBSET Node /\ m \in RepChoices(V, Components(V, G))
    OBVIOUS
  <2> HIDE DEF V, G
  <2>2. /\ m \in [V -> V]
        /\ \A n \in V : m[n] \in V /\ m[m[n]] = m[n] /\ SameCycle(V, G, n, m[n])
        /\ \A n, k \in V : m[n] = m[k] <=> SameCycle(V, G, n, k)
    BY <2>1, ChoicesAreCycles, Zenon
  <2> QED BY <1>3, <2>2 DEF V, G
<1>6. ClassesConnected
  <2> SUFFICES ASSUME NEW n \in Node, NEW k \in ClassOf(rep[n])
               PROVE  k \in Reached(ClassOf(rep[n]), FlatDirect, n)
    BY DEF ClassesConnected
  <2>1. ClassOf(rep[n]) = CycleOf(Node, FlatDirect, n)
    BY <1>1, <1>5, RepTypes DEF ClassOf, CycleOf
  <2>2. Node \in SUBSET Node /\ k \in CycleOf(Node, FlatDirect, n)
    BY <2>1
  <2>3. k \in Reached(CycleOf(Node, FlatDirect, n), FlatDirect, n)
    BY <2>2, CycleReachedInside
  <2> QED BY <2>1, <2>3
<1>7. LoopsKept
  <2> SUFFICES ASSUME NEW n \in Node, rep[n] # n PROVE CopyEdge(rep[n], rep[n]) \in sEdges
    BY DEF LoopsKept
  <2> DEFINE V == {x \in Node : rep[x] = rep[n]}
             SD == SolvedDirect(base)
  <2>1. rep[n] \in Node /\ rep[rep[n]] = rep[n]
    BY <1>1, RepTypes
  <2>2. rep[n] \in Reached(V, FlatDirect, n)
    BY <1>1, <1>6, <2>1 DEF ClassesConnected, ClassOf
  <2>3. \A x \in V : SameCycle(Node, SD, x, rep[n])
    BY <1>1 DEF RepsOnCycles, OnCycle
  <2>4. base \in SUBSET ProgramEdge /\ FieldsSettled(base) /\ FlatDirect \in SUBSET SD
    BY <1>1, ProgramFacts DEF FlatDirect, EdgesBounded
  <2>5. PICK e \in FlatDirect : LiftBy(rep, e) = CopyEdge(rep[n], rep[n])
    BY <2>1, <2>2, <2>3, <2>4, ClassLoop
  <2> QED BY <1>4, <2>5 DEF EdgesLifted, Lift, FlatDirect
<1>8. CyclesMerged /\ SuperAcyclic /\ SolvedMerged
  BY <1>1, <1>5 DEF CyclesMerged, SuperAcyclic, SolvedMerged
<1> QED BY <1>4, <1>6, <1>7, <1>8 DEF Merges

-----------------------------------------------------------------------------
(* What the facts rest on *)

(* An edge carries a set object by object. *)
LEMMA TransferPoints ==
  ASSUME NEW k \in DirectKind, NEW S
  PROVE  /\ \A o : o \in Transfer(k, S) <=> \E x \in S : o \in Transfer(k, {x})
         /\ k = "Copy" => \A x, o : o \in Transfer(k, {x}) <=> o = x
BY DEF Transfer, DirectKind

(* A derived copy has an object at one end, where the edges of a program
   join pointers. *)
LEMMA DerivedOutside ==
  ASSUME RoundsCount, ~Over
  PROVE  /\ \A ce \in Edge, o \in Obj : DerivedCopy(ce, o) \notin base
         /\ \A e \in base, o \in Obj : IsComplex(e) => DerivedCopy(e, o).src # DerivedCopy(e, o).dst
         /\ \A e \in base : IsDirect(e) => e.src # e.dst
         /\ \A e \in SolvedEdges : e.kind # "Copy" => e \in base
<1>1. WellFormed(base) /\ base \in SUBSET ProgramEdge
  BY ProgramFacts
<1>2. \A ce \in Edge, o \in Obj : DerivedCopy(ce, o) \notin base
  <2> SUFFICES ASSUME NEW ce \in Edge, NEW o \in Obj, DerivedCopy(ce, o) \in base PROVE FALSE
    OBVIOUS
  <2> DEFINE c == DerivedCopy(ce, o)
  <2>1. c.kind = "Copy" /\ (c.src = o \/ c.dst = o)
    BY DEF DerivedCopy, CopyEdge
  <2>2. c.dst \in Ptr /\ c.src \in Ptr
    BY <1>1, <2>1 DEF WellFormed
  <2> QED BY <2>1, <2>2 DEF Ptr
<1>3. ASSUME NEW e \in base, NEW o \in Obj, IsComplex(e)
      PROVE  DerivedCopy(e, o).src # DerivedCopy(e, o).dst
  BY <1>1, <1>3 DEF WellFormed, DerivedCopy, CopyEdge, Ptr, IsComplex, ComplexKind
<1>4. \A e \in base : IsDirect(e) => e.src # e.dst
  BY <1>1 DEF WellFormed, IsDirect, DirectKind
<1>5. \A e \in SolvedEdges : e.kind # "Copy" => e \in base
  BY <1>1, DerivedCopiesType DEF SolvedEdges
<1> QED BY <1>2, <1>3, <1>4, <1>5

(* A pointer that an address is assigned to is assigned nothing else and is
   on no cycle. *)
LEMMA AddrAlone ==
  ASSUME TypeOK, RoundsCount, ~Over, RepsOnCycles, NEW e \in base, e.kind = "Addr"
  PROVE  /\ e.dst \in Node
         /\ \A f \in SolvedEdges : IsDirect(f) => f.dst # e.dst
         /\ \A f \in base : f.kind = "Addr" /\ f.dst = e.dst => f = e
         /\ \A n \in Node : rep[n] = rep[e.dst] => n = e.dst
<1> DEFINE SD == SolvedDirect(base)
<1>1. WellFormed(base) /\ base \in SUBSET ProgramEdge /\ e.dst \in Node /\ e.dst \notin Obj
  BY ProgramFacts DEF WellFormed, Ptr, Edge, ProgramEdge
<1>2. \A f \in base : f.kind # "Store" /\ f.dst = e.dst => f = e
  BY <1>1 DEF WellFormed
<1>3. ASSUME NEW f \in SolvedEdges, IsDirect(f), f.dst = e.dst
      PROVE  FALSE
  <2>1. CASE f \in base
    BY <1>2, <1>3, <2>1 DEF IsDirect, DirectKind
  <2>2. CASE f \in DerivedCopies(base, Solved)
    <3>1. PICK x \in {y \in {g \in base : IsComplex(g)} \X (Obj \ NonPtrObj) :
                        y[2] \in Solved[Pointer(y[1])]} : f = DerivedCopy(x[1], x[2])
      BY <2>2 DEF DerivedCopies
    <3>2. x[1] \in base /\ IsComplex(x[1]) /\ x[2] \in Obj
      OBVIOUS
    <3>3. CASE x[1].kind = "Load"
      BY <1>2, <1>3, <3>1, <3>2, <3>3 DEF DerivedCopy, CopyEdge
    <3>4. CASE x[1].kind # "Load"
      BY <1>1, <1>3, <3>1, <3>2, <3>4 DEF DerivedCopy, CopyEdge
    <3> QED BY <3>3, <3>4
  <2> QED BY <1>3, <2>1, <2>2 DEF SolvedEdges
<1>4. ASSUME NEW n \in Node, n # e.dst PROVE e.dst \notin Reached(Node, SD, n)
  <2> DEFINE T == Node \ {e.dst}
  <2>1. n \in T /\ \A f \in SD : f.src \in T /\ f.src \in Node /\ f.dst \in Node => f.dst \in T
    BY <1>3, <1>4, ProgramFacts
  <2>2. e.dst \notin T /\ Node \in SUBSET Node
    OBVIOUS
  <2> HIDE DEF T
  <2>3. Reached(Node, SD, n) \subseteq T
    BY <2>1, <2>2, ReachedLeast
  <2> QED BY <2>2, <2>3
<1>5. \A n \in Node : OnCycle(n, e.dst) => n = e.dst
  BY <1>4 DEF OnCycle, SameCycle
<1>6. \A n \in Node : rep[n] = rep[e.dst] => n = e.dst
  <2> SUFFICES ASSUME NEW n \in Node, rep[n] = rep[e.dst] PROVE n = e.dst
    OBVIOUS
  <2>1. rep[n] \in Node /\ OnCycle(n, rep[n]) /\ OnCycle(e.dst, rep[e.dst])
    BY <1>1 DEF RepsOnCycles, TypeOK, SuperTypeOK
  <2>2. OnCycle(n, e.dst)
    BY <1>1, <2>1, CycleFacts
  <2> QED BY <1>5, <2>2
<1> QED BY <1>1, <1>2, <1>3, <1>6

(* Constraints that hold make up a closed assignment, which has the solution
   of those constraints. *)
LEMMA ClosedIsSound ==
  ASSUME TypeOK, GraphsAgree, OwnersLive, CacheExact, AddrHeld, DirectHeld, ComplexHeld,
         NEW B \in SUBSET ProgramEdge, B \subseteq fEdges
  PROVE  \A n \in Node : LeastSolution(B)[n] \subseteq getPts(n)
<1> DEFINE q == [n \in Node |-> getPts(n)]
<1>1. q \in Assignment
  BY RepTypes DEF Assignment, getPts, TypeOK, PtsTypeOK
<1>2. \A e \in B : e.src \in Node /\ e.dst \in Node /\ Pointer(e) \in Node
  BY PointerType DEF ProgramEdge, Edge
<1>3. \A e \in B : e.kind = "Addr" => e.src \in q[e.dst]
  BY <1>2 DEF AddrHeld
<1>4. \A e \in FlatDirect : /\ Transfer(e.kind, q[e.src]) \subseteq q[e.dst]
                            /\ e.src \in Node /\ e.dst \in Node
  BY RepTypes DEF DirectHeld, FlatDirect
<1>5. \A e \in B : IsDirect(e) => Transfer(e.kind, q[e.src]) \subseteq q[e.dst]
  BY <1>4 DEF FlatDirect
<1>6. ASSUME NEW c \in DerivedCopies(B, q)
      PROVE  q[c.src] \subseteq q[c.dst]
  <2>1. PICK x \in {y \in {e \in B : IsComplex(e)} \X (Obj \ NonPtrObj) : y[2] \in q[Pointer(y[1])]} :
          c = DerivedCopy(x[1], x[2])
    BY <1>6 DEF DerivedCopies
  <2>2. x[1] \in B /\ IsComplex(x[1]) /\ x[2] \in getPts(Pointer(x[1])) \ NonPtrObj
    BY <1>2
  <2>3. <<x[1], x[2]>> \in compCache
    BY <2>2 DEF ComplexClosed, ComplexHeld
  <2>4. c \in fEdges
    BY <2>1, <2>3, PairsOfLedger
  <2>5. c.kind = "Copy"
    BY <1>6, DerivedCopiesType
  <2>6. c \in FlatDirect
    BY <2>4, <2>5 DEF FlatDirect, IsDirect, DirectKind
  <2> QED BY <1>4, <2>5, <2>6, CopyTransfers
<1>7. Closes(B, q)
  BY <1>3, <1>5, <1>6 DEF Closes
<1> HIDE DEF q
<1>8. \A n \in Node : LeastSolution(B)[n] \subseteq q[n]
  BY <1>1, <1>7, SolutionLeast
<1> QED BY <1>8 DEF q

(* Between rounds the analysis has the solution of the program, and its graph
   the edges. *)
LEMMA ExactAtRest ==
  ASSUME BoundInv, Facts, Kept, pc = "idle", ~Over
  PROVE  /\ \A n \in Node : getPts(n) = Solved[n]
         /\ \A e \in SolvedEdges : e \in fEdges
<1>1. /\ TypeOK /\ GraphsAgree /\ OwnersLive /\ CacheExact /\ ~Inserting /\ RoundsCount
      /\ PtsBounded /\ RepsOnCycles /\ base \subseteq fEdges /\ base \in SUBSET ProgramEdge
  BY ProgramFacts DEF BoundInv, Inv, Ledger, Inserting, Bounded, Kept
<1>2. \A n \in Node : getPts(n) = Solved[n]
  BY <1>1, ClosedIsSound, GetPtsBounded DEF Facts, Solved, DirectClosed, ComplexClosed
<1>3. ASSUME NEW c \in DerivedCopies(base, Solved)
      PROVE  c \in fEdges
  <2>1. PICK x \in {y \in {e \in base : IsComplex(e)} \X (Obj \ NonPtrObj) :
                      y[2] \in Solved[Pointer(y[1])]} : c = DerivedCopy(x[1], x[2])
    BY <1>3 DEF DerivedCopies
  <2>2. x[1] \in base /\ IsComplex(x[1]) /\ x[2] \in getPts(Pointer(x[1])) \ NonPtrObj
    <3>1. x[1] \in base /\ Pointer(x[1]) \in Node
      BY <1>1, PointerType DEF ProgramEdge
    <3> QED BY <1>2, <3>1
  <2>3. <<x[1], x[2]>> \in compCache
    BY <1>1, <2>2 DEF Facts, ComplexClosed, ComplexHeld
  <2> QED BY <1>1, <2>1, <2>3, PairsOfLedger
<1> QED BY <1>1, <1>2, <1>3 DEF SolvedEdges

-----------------------------------------------------------------------------
(* The facts through the deletion phase *)

DeletionFacts == AddrHeld /\ DirectClosed /\ ComplexClosed /\ CyclesSupported /\ FramesApart

(* Steps that leave the points-to sets alone *)
LEMMA FactsShrink ==
  ASSUME DeletionFacts, Deleting, ~Inserting', UNCHANGED base,
         \A n \in Node : pts'[rep'[n]] = getPts(n), TypeOK, GraphsAgree,
         Deleting' => \A n \in Node : rep'[n] # n => pts'[rep'[n]] = Solved[rep'[n]],
         fEdges' \subseteq fEdges,
         \A x \in compCache : x \in compCache' \/ x[1] \notin fEdges' \/ x[2] \notin getPts(Pointer(x[1])),
         Deleting' => \A f \in Calls(stack') : f.d \cap pts'[f.node] = {}
  PROVE  DeletionFacts'
<1>1. ~Inserting
  BY DEF Inserting, Deleting
<1>2. \A e \in fEdges : e.src \in Node /\ e.dst \in Node /\ Pointer(e) \in Node
  BY RepTypes, PointerType DEF TypeOK, FlatTypeOK
<1>3. AddrHeld' /\ DirectClosed'
  BY <1>1, <1>2 DEF DeletionFacts, AddrHeld, DirectClosed, DirectHeld, FlatDirect, getPts
<1>4. ComplexClosed'
  <2> SUFFICES ASSUME NEW e \in fEdges', IsComplex(e), NEW o \in pts'[rep'[Pointer(e)]] \ NonPtrObj
               PROVE  <<e, o>> \in compCache'
    BY DEF ComplexClosed, ComplexHeld, getPts
  <2>1. o \in getPts(Pointer(e)) \ NonPtrObj /\ e \in fEdges
    BY <1>2
  <2>2. <<e, o>> \in compCache
    BY <1>1, <2>1 DEF DeletionFacts, ComplexClosed, ComplexHeld
  <2> QED BY <2>1, <2>2
<1>5. CyclesSupported' /\ FramesApart'
  BY DEF CyclesSupported, FramesApart, Solved
<1> QED BY <1>3, <1>4, <1>5 DEF DeletionFacts

(* Only the bits of the given loads and stores and objects are cleared. *)
LEMMA RetractedBits ==
  ASSUME TypeOK, NEW C, NEW S, \A e \in C : IsComplex(e),
         NEW x \in compCache, x \notin CompCacheWithout(LostDerivations(C, S))
  PROVE  x[1] \in C /\ x[2] \in S
<1>1. PICK y \in LostDerivations(C, S) : x = <<y[2], CacheBit(y[1], y[2])>>
  BY DEF CompCacheWithout
<1>2. PICK z \in C \X (S \ NonPtrObj) : y = <<DerivedCopy(z[1], z[2]), z[1]>>
  BY <1>1 DEF LostDerivations
<1>3. z[1] \in C /\ z[2] \in S /\ y[1] = DerivedCopy(z[1], z[2]) /\ y[2] = z[1]
  BY <1>2
<1>4. CacheBit(y[1], y[2]) = z[2]
  BY <1>3 DEF CacheBit, DerivedCopy, CopyEdge
<1> QED BY <1>1, <1>3, <1>4

(* The super edge of a direct flat edge. *)
LEMMA SuperEdgeOf ==
  ASSUME TypeOK, GraphsAgree, EdgesLifted, NEW e \in FlatDirect
  PROVE  /\ e \in fEdges /\ e.kind \in DirectKind /\ e.src \in Node /\ e.dst \in Node
         /\ Lift(e) \in DirectIn(rep[e.dst]) /\ Lift(e) \in SuperDirect
         /\ Lift(e).kind = e.kind /\ Lift(e).src = rep[e.src] /\ Lift(e).dst = rep[e.dst]
         /\ getPts(Lift(e).src) = getPts(e.src)
<1>1. e \in fEdges /\ IsDirect(e) /\ e.src \in Node /\ e.dst \in Node
  BY RepTypes DEF FlatDirect
<1>2. Lift(e).kind = e.kind /\ Lift(e).src = rep[e.src] /\ Lift(e).dst = rep[e.dst] /\ IsDirect(Lift(e))
  BY <1>1, LiftFacts DEF Lift
<1>3. getPts(Lift(e).src) = getPts(e.src)
  BY <1>1, <1>2, RepTypes DEF getPts
<1> QED BY <1>1, <1>2, <1>3 DEF DirectIn, SuperDirect, EdgesLifted, IsDirect

(* A call of propagateDelPts keeps what the remaining constraints need. *)
LEMMA DelCallFacts ==
  ASSUME TypeOK, GraphsAgree, Merges, DeletionFacts, Deleting, Deleting', ~Over,
         NEW S, NEW n \in Node, NEW callers \in Seq(Frame), propagateDelPts(S, n, callers),
         \A g \in Calls(callers) : \E f \in Calls(stack) : g.node = f.node /\ g.d = f.d,
         UNCHANGED <<rep, compCache, base>>, fEdges' \subseteq fEdges,
         \A e \in fEdges' : e.kind = "Addr" => rep[e.dst] # rep[n]
  PROVE  DeletionFacts'
<1> DEFINE r == rep[n]
           dPts == (S \cap pts[r]) \ Supported(r)
<1>1. r \in Node /\ rep[r] = r /\ ~Inserting /\ ~Inserting'
  BY RepTypes DEF Inserting, Deleting
<1>2. pts \in [Node -> SUBSET Obj] /\ stack \in Seq(Frame)
  BY DEF TypeOK, PtsTypeOK
<1>3. PICK f \in Frame :
        /\ f.node = r /\ f.d = dPts
        /\ \/ pts' = pts /\ Calls(stack') = Calls(callers) /\ dPts = {}
           \/ /\ pts' = [pts EXCEPT ![r] = @ \ dPts]
              /\ Calls(stack') = {f} \cup Calls(callers)
  <2> DEFINE f == [node |-> r, d |-> dPts, outs |-> DirectOut(r)]
  <2>1. f \in Frame
    BY <1>1, <1>2, DirectOutType DEF Frame, TypeOK
  <2>2. Calls(<<f>> \o callers) = {f} \cup Calls(callers)
    BY <2>1, PushCalls
  <2>3. \/ pts' = pts /\ Calls(stack') = Calls(callers) /\ dPts = {}
        \/ /\ pts' = [pts EXCEPT ![r] = @ \ dPts]
           /\ Calls(stack') = {f} \cup Calls(callers)
    BY <2>2 DEF propagateDelPts
  <2>4. f.node = r /\ f.d = dPts
    OBVIOUS
  <2> HIDE DEF f
  <2> QED BY <2>1, <2>3, <2>4
<1>4. /\ \A k \in Node : pts'[k] = IF k = r THEN pts[r] \ dPts ELSE pts[k]
      /\ \A k \in Node : pts'[k] \subseteq pts[k] /\ pts[k] \in SUBSET Obj
  BY <1>1, <1>2, <1>3
<1>5. \A s \in DirectIn(r) : Transfer(s.kind, getPts(s.src)) \cap dPts = {}
  BY DEF Supported
<1> HIDE DEF dPts
<1>6. AddrHeld'
  <2> SUFFICES ASSUME NEW e \in fEdges', e.kind = "Addr" PROVE e.src \in pts'[rep[e.dst]]
    BY DEF AddrHeld, getPts
  <2>1. e \in fEdges /\ e.src \in pts[rep[e.dst]] /\ rep[e.dst] \in Node
    BY RepTypes DEF DeletionFacts, AddrHeld, getPts
  <2> QED BY <1>4, <2>1
<1>7. DirectClosed'
  <2> SUFFICES ASSUME NEW e \in FlatDirect'
               PROVE  Transfer(e.kind, pts'[rep[e.src]]) \subseteq pts'[rep[e.dst]]
    BY DEF DirectClosed, DirectHeld, getPts
  <2>1. e \in FlatDirect
    BY DEF FlatDirect
  <2>2. /\ e.kind \in DirectKind /\ rep[e.src] \in Node /\ rep[e.dst] \in Node
        /\ Lift(e) \in DirectIn(rep[e.dst]) /\ Lift(e).kind = e.kind
        /\ getPts(Lift(e).src) = pts[rep[e.src]]
    BY <2>1, SuperEdgeOf, RepTypes DEF Merges, getPts
  <2>3. Transfer(e.kind, pts'[rep[e.src]]) \subseteq Transfer(e.kind, pts[rep[e.src]])
    BY <1>4, <2>2, TransferMonotone
  <2>4. Transfer(e.kind, pts[rep[e.src]]) \subseteq pts[rep[e.dst]]
    BY <1>1, <2>1 DEF DeletionFacts, DirectClosed, DirectHeld, getPts
  <2>5. rep[e.dst] = r => Transfer(e.kind, pts[rep[e.src]]) \cap dPts = {}
    BY <1>5, <2>2
  <2> QED BY <1>4, <2>2, <2>3, <2>4, <2>5
<1>8. ComplexClosed'
  <2>1. \A e \in fEdges : rep[Pointer(e)] \in Node
    BY PointerType, RepTypes DEF TypeOK, FlatTypeOK
  <2> QED BY <1>1, <1>4, <2>1 DEF DeletionFacts, ComplexClosed, ComplexHeld, getPts
<1>9. CyclesSupported'
  <2> SUFFICES ASSUME NEW k \in Node, rep[k] # k PROVE pts'[rep[k]] = Solved[rep[k]]
    BY DEF CyclesSupported, Solved
  <2>1. pts[rep[k]] = Solved[rep[k]] /\ rep[k] \in Node /\ rep[rep[k]] = rep[k]
    BY RepTypes DEF DeletionFacts, CyclesSupported
  <2>2. CASE rep[k] = r
    <3> DEFINE s == CopyEdge(r, r)
    <3>1. s \in DirectIn(r) /\ s.kind = "Copy" /\ s.src = r
      BY <2>2 DEF Merges, LoopsKept, DirectIn, IsDirect, DirectKind, CopyEdge
    <3>2. Transfer(s.kind, getPts(s.src)) = pts[r]
      BY <1>1, <3>1, CopyTransfers DEF getPts
    <3>3. pts[r] \cap dPts = {}
      BY <1>5, <3>1, <3>2
    <3> QED BY <1>1, <1>4, <2>1, <2>2, <3>3
  <2>3. CASE rep[k] # r
    BY <1>4, <2>1, <2>3
  <2> QED BY <2>2, <2>3
<1>10. FramesApart'
  <2> SUFFICES ASSUME NEW g \in Calls(stack') PROVE g.d \cap pts'[g.node] = {}
    BY DEF FramesApart
  <2>1. CASE g \in Calls(callers)
    <3>1. PICK h \in Calls(stack) : g.node = h.node /\ g.d = h.d
      BY <2>1
    <3>2. h \in Frame
      BY <1>2 DEF Calls
    <3>3. h.node \in Node /\ h.d \cap pts[h.node] = {}
      BY <3>2 DEF DeletionFacts, FramesApart, Frame
    <3> QED BY <1>4, <3>1, <3>3
  <2>2. CASE g = f
    BY <1>1, <1>3, <1>4, <2>2
  <2> QED BY <1>3, <2>1, <2>2
<1> QED BY <1>6, <1>7, <1>8, <1>9, <1>10 DEF DeletionFacts

(* A recursive deletion call keeps every remaining constraint satisfied. *)
LEMMA DelOutFacts ==
  ASSUME BoundInv, Merges, DeletionFacts, NEW s \in PendingOuts, DelOut(s)
  PROVE  DeletionFacts'
<1> USE DEF flatVars, superVars, delVars, insVars, pdmVars, ctlVars, roundVars
<1>1. /\ pc = "delEdge" /\ stack # <<>> /\ s \in Head(stack).outs
      /\ propagateDelPts(Transfer(s.kind, Head(stack).d), s.dst, Resumed(s))
      /\ UNCHANGED <<base, rep, fEdges, compCache, pc>>
  BY DEF DelOut, InDeletion
<1>2. /\ ~Over /\ Bounded /\ TypeOK /\ GraphsAgree /\ RoundsCount /\ stack \in Seq(Frame)
  BY <1>1, RetractingFacts
<1>3. Resumed(s) \in Seq(Frame) /\ FrameBounded(Head(stack))
  BY <1>1, <1>2, ResumedBounded DEF Bounded
<1>4. \A g \in Calls(Resumed(s)) : \E f \in Calls(stack) : g.node = f.node /\ g.d = f.d
  BY <1>1, <1>2, ResumedCalls
<1>5. s \in sEdges /\ IsDirect(s) /\ s.src # s.dst
  BY <1>1, <1>3 DEF FrameBounded, DirectOut
<1>6. s.dst \in Node /\ \A e \in fEdges : e.kind = "Addr" => rep[e.dst] # rep[s.dst]
  <2>1. PICK f \in FlatDirect : rep[f.dst] = s.dst /\ f.dst \in Node /\ s.dst \in Node /\ rep[s.dst] = s.dst
    BY <1>2, <1>5, SuperEdgeLifts, RepTypes DEF SuperDirect
  <2>2. f \in SolvedEdges /\ IsDirect(f)
    BY <1>2 DEF FlatDirect, Bounded, EdgesBounded
  <2>3. ASSUME NEW e \in fEdges, e.kind = "Addr", rep[e.dst] = rep[s.dst]
        PROVE  FALSE
    <3>1. e \in base
      BY <1>2, <2>3, DerivedOutside DEF Bounded, EdgesBounded
    <3> QED BY <1>2, <2>1, <2>2, <2>3, <3>1, AddrAlone DEF Bounded
  <2> QED BY <2>1, <2>3
<1>7. Deleting /\ Deleting'
  BY <1>1 DEF Deleting
<1> QED BY <1>1, <1>2, <1>3, <1>4, <1>6, <1>7, DelCallFacts

(* So does the retraction of an address or of a direct constraint. *)
LEMMA PropagatingRemovalFacts ==
  ASSUME BoundInv, Merges, DeletionFacts, NEW e \in delEdgeVec,
         processAddrRemoval(e) \/ processDirectConstraintRemoval(e)
  PROVE  DeletionFacts'
<1> USE DEF flatVars, superVars, delVars, insVars, pdmVars, ctlVars, roundVars, PopDelEdge
<1>1. /\ pc = "delEdge" /\ stack = <<>>
      /\ \E S : propagateDelPts(S, e.dst, <<>>)
      /\ UNCHANGED <<base, rep, compCache, pc>> /\ fEdges' \subseteq fEdges
      /\ IsDirect(e) \/ (e.kind = "Addr" /\ e \notin fEdges')
  BY DEF processAddrRemoval, processDirectConstraintRemoval, IsDirect, DirectKind
<1>2. /\ ~Over /\ Bounded /\ TypeOK /\ GraphsAgree /\ RoundsCount /\ stack \in Seq(Frame)
  BY <1>1, RetractingFacts
<1>3. e \in SolvedEdges /\ e.dst \in Node
  BY <1>2 DEF Bounded, EdgesBounded, TypeOK, DelTypeOK, Edge
<1>4. ASSUME NEW f \in fEdges', f.kind = "Addr", rep[f.dst] = rep[e.dst]
      PROVE  FALSE
  <2>1. f \in base
    BY <1>1, <1>2, <1>4, DerivedOutside DEF Bounded, EdgesBounded
  <2>2. f.dst = e.dst
    BY <1>2, <1>3, <1>4, <2>1, AddrAlone DEF Bounded
  <2>3. CASE IsDirect(e)
    BY <1>2, <1>3, <1>4, <2>1, <2>2, <2>3, AddrAlone DEF Bounded
  <2>4. CASE e.kind = "Addr" /\ e \notin fEdges'
    <3>1. e \in base
      BY <1>2, <1>3, <2>4, DerivedOutside
    <3> QED BY <1>2, <1>4, <2>1, <2>2, <2>4, <3>1, AddrAlone DEF Bounded
  <2> QED BY <1>1, <2>3, <2>4
<1>5. Deleting /\ Deleting' /\ <<>> \in Seq(Frame) /\ Calls(<<>>) = {}
  BY <1>1, EmptyCalls DEF Deleting
<1> QED BY <1>1, <1>2, <1>3, <1>4, <1>5, DelCallFacts

(* So does the end of a deletion call: the copies it gives up were derived
   for objects that are gone. *)
LEMMA DelComplexFacts ==
  ASSUME BoundInv, DeletionFacts, DelComplex
  PROVE  DeletionFacts'
<1> USE DEF flatVars, superVars, delVars, insVars, pdmVars, ctlVars, roundVars
<1>1. /\ pc = "delEdge" /\ stack # <<>> /\ stack' = Tail(stack)
      /\ UNCHANGED <<base, rep, pts, fEdges, pc>>
      /\ compCache' = CompCacheWithout(LostDerivations(ComplexAt(Head(stack).node), Head(stack).d))
  BY DEF DelComplex, InDeletion
<1>2. /\ ~Over /\ Bounded /\ TypeOK /\ GraphsAgree /\ RoundsCount /\ stack \in Seq(Frame)
  BY <1>1, RetractingFacts
<1>3. Deleting /\ Deleting' /\ ~Inserting'
  BY <1>1 DEF Deleting, Inserting
<1>4. Calls(stack) = {Head(stack)} \cup Calls(Tail(stack))
  BY <1>1, <1>2, HeadCalls
<1>5. \A f \in Calls(stack) : f.d \cap pts[f.node] = {}
  BY <1>3 DEF DeletionFacts, FramesApart
<1>6. \A n \in Node : rep[n] # n => pts[rep[n]] = Solved[rep[n]]
  BY <1>3 DEF DeletionFacts, CyclesSupported
<1>7. ASSUME NEW x \in compCache, x \notin compCache' PROVE x[2] \notin getPts(Pointer(x[1]))
  <2> DEFINE C == ComplexAt(Head(stack).node)
  <2>1. C = {e \in fEdges : IsComplex(e) /\ rep[Pointer(e)] = Head(stack).node}
    BY <1>2, ComplexAtMembers DEF GraphsAgree, TypeOK
  <2>2. x[1] \in C /\ x[2] \in Head(stack).d
    <3> HIDE DEF C
    <3>1. \A e \in C : IsComplex(e)
      BY <2>1
    <3>2. x \notin CompCacheWithout(LostDerivations(C, Head(stack).d))
      BY <1>1, <1>7 DEF C
    <3> QED BY <1>2, <3>1, <3>2, RetractedBits
  <2>3. rep[Pointer(x[1])] = Head(stack).node
    BY <2>1, <2>2
  <2> QED BY <1>4, <1>5, <2>2, <2>3 DEF getPts
<1> QED BY <1>1, <1>2, <1>3, <1>4, <1>5, <1>6, <1>7, FactsShrink DEF getPts

(* So does the removal of a load or store. *)
LEMMA ComplexRemovalFacts ==
  ASSUME BoundInv, DeletionFacts, NEW e \in delEdgeVec, processComplexRemoval(e)
  PROVE  DeletionFacts'
<1> USE DEF flatVars, superVars, delVars, insVars, pdmVars, ctlVars, roundVars, PopDelEdge
<1>1. /\ pc = "delEdge" /\ IsComplex(e) /\ fEdges' = fEdges \ {e}
      /\ UNCHANGED <<base, rep, pts, stack, pc>>
      /\ compCache' = CompCacheWithout(LostDerivations({e}, getPts(Pointer(e)))) \ ({e} \X Node)
  BY DEF processComplexRemoval
<1>2. TypeOK /\ GraphsAgree /\ OwnersLive /\ CacheExact
  BY DEF BoundInv, Inv, Ledger
<1>3. Deleting /\ Deleting' /\ ~Inserting'
  BY <1>1 DEF Deleting, Inserting
<1>4. \A n \in Node : rep[n] # n => pts[rep[n]] = Solved[rep[n]]
  BY <1>3 DEF DeletionFacts, CyclesSupported
<1>5. ASSUME NEW x \in compCache, x \notin compCache' PROVE x[1] \notin fEdges'
  <2>1. CASE x \in {e} \X Node
    BY <1>1, <2>1
  <2>2. CASE x \notin CompCacheWithout(LostDerivations({e}, getPts(Pointer(e))))
    <3> DEFINE C == {e}
    <3>1. \A f \in C : IsComplex(f)
      BY <1>1
    <3> HIDE DEF C
    <3>2. x[1] \in C
      BY <1>2, <2>2, <3>1, RetractedBits DEF C
    <3> QED BY <1>1, <3>2 DEF C
  <2> QED BY <1>1, <1>5, <2>1, <2>2
<1>6. \A f \in Calls(stack') : f.d \cap pts'[f.node] = {}
  BY <1>1, <1>3 DEF DeletionFacts, FramesApart
<1> QED BY <1>1, <1>2, <1>3, <1>4, <1>5, <1>6, FactsShrink DEF getPts

(* So do the steps that touch no set. *)
LEMMA QuietDeletionFacts ==
  ASSUME BoundInv, DeletionFacts,
         \/ DelDirectDone \/ RedetectDone \/ DelIterationDone
         \/ \E r \in redetectReps : SCCKeep(r)
         \/ \E e \in delEdgeVec : skipNormalGepConstraintRemoval(e)
         \/ \E e \in delDirectEdgeVec : processCopyEdgeRemoval(e) \/ processGepEdgeRemoval(e)
  PROVE  DeletionFacts'
<1> USE DEF flatVars, superVars, delVars, insVars, pdmVars, ctlVars, roundVars, PopDelEdge
<1>1. /\ Deleting /\ ~Inserting'
      /\ UNCHANGED <<base, rep, pts, stack, compCache>> /\ fEdges' \subseteq fEdges
  BY DEF DelDirectDone, RedetectDone, DelIterationDone, SCCKeep, skipNormalGepConstraintRemoval,
     processCopyEdgeRemoval, processGepEdgeRemoval, dropDirectEdge, KeepDirectEdge, Deleting, Inserting
<1>2. TypeOK /\ GraphsAgree
  BY DEF BoundInv, Inv
<1>3. \A n \in Node : rep[n] # n => pts[rep[n]] = Solved[rep[n]]
  BY <1>1 DEF DeletionFacts, CyclesSupported
<1>4. \A f \in Calls(stack') : f.d \cap pts'[f.node] = {}
  BY <1>1 DEF DeletionFacts, FramesApart
<1> QED BY <1>1, <1>2, <1>3, <1>4, FactsShrink DEF getPts

(* When a cycle is taken apart its members keep the facts they had: nothing
   was taken from it before. *)
LEMMA RestoreKeepsPts ==
  ASSUME BoundInv, CyclesReady, DeletionFacts, NEW r \in redetectReps, SCCRestore(r)
  PROVE  /\ \A n \in Node : pts'[rep'[n]] = getPts(n)
         /\ \A n \in Node : rep'[n] # n => pts'[rep'[n]] = Solved[rep'[n]]
<1>1. TypeOK /\ GraphsAgree
  BY DEF BoundInv, Inv
<1>2. /\ r \in Node /\ rep[r] = r /\ ClassOf(r) \in SUBSET Node /\ Deleting
  BY <1>1, RestoreReps
<1>3. PICK m : /\ RestoredReps(r, m)
               /\ pts' = [n \in Node |-> IF n \in AllReps(m) THEN pts[n] \cup getPts(r) ELSE pts[n]]
  BY <1>1, RestoreReps
<1>4. ~Over /\ RoundsCount /\ RepsOnCycles /\ PtsBounded
  BY <1>2 DEF BoundInv, Bounded, Over, Deleting
<1>5. \A n \in Node : rep[n] # n => pts[rep[n]] = Solved[rep[n]]
  BY <1>2 DEF DeletionFacts, CyclesSupported
<1>6. \A n \in ClassOf(r) : n \in Node /\ rep[n] = r /\ Solved[n] = Solved[r] /\ pts[n] \subseteq Solved[n]
                            /\ (n # r => pts[r] = Solved[r])
  BY <1>1, <1>2, <1>4, <1>5, RepFacts DEF ClassOf, PtsBounded
<1>7. AllReps(m) \subseteq ClassOf(r) /\ \A n \in ClassOf(r) : rep'[n] \in AllReps(m)
  BY <1>2, <1>3 DEF RestoredReps, AllReps, NewRep
<1>8. ASSUME NEW n \in ClassOf(r)
      PROVE  pts'[rep'[n]] = pts[r] /\ (rep'[n] # n => pts[r] = Solved[rep'[n]])
  <2>1. rep'[n] \in ClassOf(r) /\ rep'[n] \in AllReps(m) /\ rep'[n] \in Node
    BY <1>2, <1>3, <1>7 DEF RestoredReps
  <2>2. pts'[rep'[n]] = pts[rep'[n]] \cup pts[r]
    BY <1>2, <1>3, <2>1 DEF getPts
  <2>3. pts[rep'[n]] \subseteq pts[r]
    BY <1>6, <2>1
  <2>4. rep'[n] # n => pts[r] = Solved[r]
    BY <1>6, <2>1
  <2> QED BY <1>6, <2>1, <2>2, <2>3, <2>4
<1>9. ASSUME NEW n \in Node, n \notin ClassOf(r)
      PROVE  rep'[n] = rep[n] /\ pts'[rep'[n]] = pts[rep[n]]
  <2>1. rep'[n] = rep[n] /\ rep[n] \notin AllReps(m) /\ rep[n] \in Node
    BY <1>1, <1>3, <1>7, <1>9, RepTypes DEF RestoredReps
  <2> QED BY <1>3, <2>1
<1>10. \A n \in Node : pts'[rep'[n]] = getPts(n)
  BY <1>6, <1>8, <1>9 DEF getPts
<1>11. \A n \in Node : rep'[n] # n => pts'[rep'[n]] = Solved[rep'[n]]
  BY <1>5, <1>8, <1>9
<1> QED BY <1>10, <1>11

(* So does taking a cycle apart. *)
LEMMA RestoreFacts ==
  ASSUME BoundInv, CyclesReady, DeletionFacts, NEW r \in redetectReps, SCCRestore(r)
  PROVE  DeletionFacts'
<1> USE DEF flatVars, superVars, delVars, insVars, pdmVars, ctlVars, roundVars
<1>1. /\ pc = "redetect" /\ UNCHANGED <<base, fEdges, compCache, pc, stack>>
  BY DEF SCCRestore
<1>2. TypeOK /\ GraphsAgree /\ stack = <<>>
  BY <1>1 DEF BoundInv, Inv, Ledger, PhaseClean
<1>3. Deleting /\ ~Inserting' /\ \A f \in Calls(stack') : FALSE
  BY <1>1, <1>2, EmptyCalls DEF Deleting, Inserting
<1>4. /\ \A n \in Node : pts'[rep'[n]] = getPts(n)
      /\ \A n \in Node : rep'[n] # n => pts'[rep'[n]] = Solved[rep'[n]]
  BY RestoreKeepsPts
<1> QED BY <1>1, <1>2, <1>3, <1>4, FactsShrink

(* So does every step of the deletion phase. *)
LEMMA DeletionKeepsFacts ==
  ASSUME BoundInv, CyclesReady, Merges, Facts, DeletionStep
  PROVE  Facts'
<1>1. DeletionFacts
  BY DEF DeletionFacts, Facts
<1>2. ~Inserting'
  BY DeletionFrame DEF DeletionMoves, Deleting, Inserting
<1>3. DeletionFacts'
  BY <1>1, DelOutFacts, PropagatingRemovalFacts, DelComplexFacts, ComplexRemovalFacts,
     QuietDeletionFacts, RestoreFacts DEF DeletionStep
<1>4. Facts'
  BY <1>2, <1>3 DEF DeletionFacts, Facts, DirectOwed, ComplexOwed
<1> QED BY <1>4

-----------------------------------------------------------------------------
(* The constraints of the program through a round *)

LEMMA RetractedOutside ==
  ASSUME RoundsCount, ~Over, NEW C \in SUBSET Edge, NEW S \in SUBSET Obj
  PROVE  \A x \in LostDerivations(C, S) : x[1] \notin base
BY DerivedOutside DEF LostDerivations

(* Steps of the deletion phase that remove no statement outside the
   difference. *)
LEMMA KeptShrink ==
  ASSUME Kept, Deleting, Deleting' \/ pc' = "deleted",
         UNCHANGED <<base, diff, mode, insDirectEdgeVec, insEdgeVec, prePts, ptsChangeNodes>>,
         Remaining \subseteq fEdges', delDirectEdgeVec' \cap Remaining = {},
         \A e \in delEdgeVec' : e \in delEdgeVec \/ IsDirect(e),
         \A x \in rep2EdgeSet' : x \in rep2EdgeSet \/ IsDirect(x[2])
  PROVE  Kept'
<1>1. KeptInDeletion'
  BY DEF Kept, KeptInDeletion, Remaining
<1> QED BY <1>1 DEF Kept, KeptInInsertion, Deleting, Inserting, Solved

(* Retracted copies are no statements. *)
LEMMA RetractionKept ==
  ASSUME BoundInv, Kept, DelComplex \/ \E e \in delEdgeVec : processComplexRemoval(e)
  PROVE  Kept'
<1> USE DEF flatVars, superVars, delVars, insVars, pdmVars, ctlVars, roundVars, PopDelEdge
<1>1. /\ pc = "delEdge" /\ pc' = pc
      /\ UNCHANGED <<base, diff, mode, insDirectEdgeVec, insEdgeVec, prePts, ptsChangeNodes, rep2EdgeSet>>
      /\ delEdgeVec' \subseteq delEdgeVec
      /\ \E C, S : /\ \/ C = ComplexAt(Head(stack).node) /\ S = Head(stack).d /\ stack # <<>> /\ fEdges' = fEdges
                      \/ \E e \in delEdgeVec : /\ C = {e} /\ S = getPts(Pointer(e))
                                               /\ fEdges' = fEdges \ {e} /\ IsComplex(e)
                   /\ \A c \in delDirectEdgeVec' : c \in delDirectEdgeVec \/
                        \E x \in LostDerivations(C, S) : c = x[1]
  <2>1. CASE DelComplex
    BY <2>1 DEF DelComplex, InDeletion
  <2>2. CASE \E e \in delEdgeVec : processComplexRemoval(e)
    BY <2>2 DEF processComplexRemoval
  <2> QED BY <2>1, <2>2
<1>2. /\ ~Over /\ TypeOK /\ GraphsAgree /\ RoundsCount /\ stack \in Seq(Frame)
  BY <1>1, RetractingFacts
<1>3. Deleting /\ Deleting'
  BY <1>1 DEF Deleting
<1>4. PICK C, S : /\ \/ C = ComplexAt(Head(stack).node) /\ S = Head(stack).d /\ stack # <<>> /\ fEdges' = fEdges
                     \/ \E e \in delEdgeVec : /\ C = {e} /\ S = getPts(Pointer(e))
                                              /\ fEdges' = fEdges \ {e} /\ IsComplex(e)
                  /\ \A c \in delDirectEdgeVec' : c \in delDirectEdgeVec \/
                       \E x \in LostDerivations(C, S) : c = x[1]
  BY <1>1
<1>5. C \in SUBSET Edge /\ S \in SUBSET Obj
  <2>1. CASE C = ComplexAt(Head(stack).node) /\ S = Head(stack).d /\ stack # <<>>
    <3>1. Head(stack) \in Frame
      BY <1>2, <2>1
    <3>2. ComplexAt(Head(stack).node) \subseteq Edge
      BY <1>2, ComplexAtMembers DEF TypeOK, GraphsAgree
    <3> QED BY <2>1, <3>1, <3>2 DEF Frame
  <2>2. CASE \E e \in delEdgeVec : C = {e} /\ S = getPts(Pointer(e))
    BY <1>2, <2>2, PointerType, RepTypes DEF TypeOK, DelTypeOK, PtsTypeOK, getPts
  <2> QED BY <1>4, <2>1, <2>2
<1>6. /\ Remaining \subseteq fEdges /\ delDirectEdgeVec \cap Remaining = {}
      /\ \A e \in delEdgeVec : IsDirect(e) \/ e \in diff
  BY <1>3 DEF Kept, KeptInDeletion
<1>7. Remaining \subseteq fEdges'
  BY <1>4, <1>6 DEF Remaining, IsDirect, IsComplex, DirectKind, ComplexKind
<1>8. \A x \in LostDerivations(C, S) : x[1] \notin base
  BY <1>2, <1>5, RetractedOutside
<1>9. delDirectEdgeVec' \cap Remaining = {}
  BY <1>4, <1>6, <1>8 DEF Remaining
<1> QED BY <1>1, <1>3, <1>7, <1>9, KeptShrink

(* Removal of a direct edge takes no other edge. *)
LEMMA DirectRemovalKept ==
  ASSUME TypeOK, Kept, NEW e \in delDirectEdgeVec, processCopyEdgeRemoval(e) \/ processGepEdgeRemoval(e)
  PROVE  Kept'
<1> USE DEF flatVars, superVars, delVars, insVars, pdmVars, ctlVars, roundVars
<1>1. /\ Deleting /\ Deleting' /\ delDirectEdgeVec' \subseteq delDirectEdgeVec
      /\ UNCHANGED <<base, diff, mode, insDirectEdgeVec, insEdgeVec, prePts, ptsChangeNodes>>
      /\ fEdges' = fEdges \/ fEdges' = fEdges \ {e}
      /\ \A f \in delEdgeVec' : f \in delEdgeVec \/ f = e
      /\ \A x \in rep2EdgeSet' : x \in rep2EdgeSet \/ x[2] = e
  BY DEF processCopyEdgeRemoval, processGepEdgeRemoval, dropDirectEdge, KeepDirectEdge, Deleting
<1>2. IsDirect(e)
  BY DEF TypeOK, DelTypeOK, DirectEdge
<1>3. Remaining \subseteq fEdges /\ delDirectEdgeVec \cap Remaining = {}
  BY <1>1 DEF Kept, KeptInDeletion
<1> QED BY <1>1, <1>2, <1>3, KeptShrink

(* Steps of the deletion phase that take no edge but one of the difference. *)
LEMMA QuietDeletionKept ==
  ASSUME TypeOK, Kept,
         \/ DelDirectDone \/ RedetectDone \/ DelIterationDone
         \/ \E s \in PendingOuts : DelOut(s)
         \/ \E r \in redetectReps : SCCKeep(r) \/ SCCRestore(r)
         \/ \E e \in delEdgeVec : \/ skipNormalGepConstraintRemoval(e)
                                  \/ processDirectConstraintRemoval(e) \/ processAddrRemoval(e)
  PROVE  Kept'
<1> USE DEF flatVars, superVars, delVars, insVars, pdmVars, ctlVars, roundVars, PopDelEdge
<1>1. /\ Deleting /\ (Deleting' \/ pc' = "deleted") /\ delDirectEdgeVec' = delDirectEdgeVec
      /\ UNCHANGED <<base, diff, mode, insDirectEdgeVec, insEdgeVec, prePts, ptsChangeNodes>>
      /\ fEdges' = fEdges \/ \E e \in delEdgeVec : fEdges' = fEdges \ {e} /\ e.kind = "Addr"
      /\ \A f \in delEdgeVec' : f \in delEdgeVec \/ \E x \in rep2EdgeSet : f = x[2]
      /\ rep2EdgeSet' \subseteq rep2EdgeSet
  <2>1. CASE DelDirectDone
    BY <2>1 DEF DelDirectDone, Deleting
  <2>2. CASE RedetectDone
    BY <2>2 DEF RedetectDone, Deleting
  <2>3. CASE DelIterationDone
    BY <2>3 DEF DelIterationDone, Deleting
  <2>4. CASE \E s \in PendingOuts : DelOut(s)
    BY <2>4 DEF DelOut, InDeletion, Deleting
  <2>5. CASE \E r \in redetectReps : SCCKeep(r)
    BY <2>5 DEF SCCKeep, Redetected, Deleting
  <2>6. CASE \E r \in redetectReps : SCCRestore(r)
    BY <2>6 DEF SCCRestore, Redetected, InnerRemoved, Deleting
  <2>7. CASE \E e \in delEdgeVec : skipNormalGepConstraintRemoval(e) \/ processDirectConstraintRemoval(e)
    BY <2>7 DEF skipNormalGepConstraintRemoval, processDirectConstraintRemoval, Deleting
  <2>8. CASE \E e \in delEdgeVec : processAddrRemoval(e)
    BY <2>8 DEF processAddrRemoval, Deleting
  <2> QED BY <2>1, <2>2, <2>3, <2>4, <2>5, <2>6, <2>7, <2>8
<1>2. /\ Remaining \subseteq fEdges /\ delDirectEdgeVec \cap Remaining = {}
      /\ \A e \in delEdgeVec : IsDirect(e) \/ e \in diff
      /\ \A x \in rep2EdgeSet : IsDirect(x[2])
  BY <1>1 DEF Kept, KeptInDeletion
<1>3. Remaining \subseteq fEdges'
  BY <1>1, <1>2 DEF Remaining, IsDirect, DirectKind
<1> QED BY <1>1, <1>2, <1>3, KeptShrink

(* Every step of the deletion phase keeps the remaining statements. *)
LEMMA DeletionKept ==
  ASSUME BoundInv, Kept, DeletionStep
  PROVE  Kept'
<1>1. TypeOK
  BY DEF BoundInv, Inv
<1> QED BY <1>1, RetractionKept, DirectRemovalKept, QuietDeletionKept DEF DeletionStep

(* Setting up a round queues the difference and nothing else. *)
LEMMA StartKept ==
  ASSUME BoundInv, CyclesReady, Kept, NEW D \in SUBSET base, StartRound(D)
  PROVE  Kept'
<1> USE DEF pdmVars, flatVars
<1>1. /\ pc = "idle" /\ pc' = "delDirect" /\ diff' = D
      /\ delDirectEdgeVec' = DirectPart(D) /\ delEdgeVec' = OtherPart(D)
      /\ mode = "step" => insDirectEdgeVec' = {<<e, e>> : e \in DirectPart(D)} /\ insEdgeVec' = OtherPart(D)
      /\ UNCHANGED <<base, mode, fEdges, rep2EdgeSet, prePts, ptsChangeNodes>>
  BY DEF StartRound, Deletions, Insertions
<1>2. rep2EdgeSet = {}
  BY <1>1 DEF CyclesReady, RedetectReady
<1>3. base \subseteq fEdges
  BY <1>1 DEF Kept
<1>4. KeptInDeletion'
  BY <1>1, <1>2, <1>3 DEF KeptInDeletion, Remaining, DirectPart, OtherPart
<1> QED BY <1>1, <1>4 DEF Kept, KeptInInsertion, Inserting, Solved

(* What is left of the old version is in the graph. *)
LEMMA FinishKept ==
  ASSUME Kept, FinishOld
  PROVE  Kept'
<1>1. /\ pc = "deleted" /\ pc' = "idle" /\ mode = "old" /\ mode' = mode
      /\ base' = Remaining /\ UNCHANGED fEdges
  BY DEF FinishOld, Remaining, flatVars
<1>2. Remaining \subseteq fEdges
  BY <1>1 DEF Kept, KeptInDeletion
<1> QED BY <1>1, <1>2 DEF Kept, KeptInDeletion, KeptInInsertion, Deleting, Inserting

(* Insertion begins with the difference in its vectors. *)
LEMMA StartInsertionKept ==
  ASSUME TypeOK, VectorsClean, Kept, StartInsertion \/ StartDiffInsertion
  PROVE  Kept'
<1> USE DEF pdmVars, flatVars, roundVars
<1>1. /\ pc = "deleted" /\ pc' = "insDirect" /\ UNCHANGED <<base, diff, mode, fEdges, insDirectConsVec>>
      /\ mode = "step" => UNCHANGED <<prePts, ptsChangeNodes>>
      /\ insDirectConsVec = {}
  BY DEF StartInsertion, StartDiffInsertion, VectorsClean
<1>2. insDirectEdgeVec' = {<<e, e>> : e \in DirectPart(diff)} /\ insEdgeVec' = OtherPart(diff)
  BY <1>1 DEF StartInsertion, StartDiffInsertion, Insertions, Kept, KeptInDeletion
<1>3. Remaining \subseteq fEdges
  BY <1>1 DEF Kept, KeptInDeletion
<1>4. KeptInInsertion'
  BY <1>1, <1>2, <1>3 DEF KeptInInsertion, Remaining, DirectPart, OtherPart
<1> QED BY <1>1, <1>4 DEF Kept, KeptInDeletion, Deleting, Solved

(* Steps of the insertion phase that leave a statement in a vector or put it
   into the graph. *)
LEMMA KeptGrow ==
  ASSUME Kept, Inserting, Inserting', UNCHANGED <<base, mode, prePts, ptsChangeNodes>>,
         fEdges \subseteq fEdges',
         \A e \in insEdgeVec : e \in fEdges' \/ e \in insEdgeVec',
         \A e \in base : <<e, e>> \in insDirectEdgeVec => e \in fEdges' \/ <<e, e>> \in insDirectEdgeVec',
         pc' = "insDirect" /\ ~needSCCDetect' => insDirectConsVec' = {}
  PROVE  Kept'
<1>1. KeptInInsertion'
  BY DEF Kept, KeptInInsertion
<1> QED BY <1>1 DEF Kept, KeptInDeletion, Deleting, Inserting, Solved

(* So does every one but the last. *)
LEMMA InsertingKept ==
  ASSUME BoundInv, Kept,
         \/ \E s \in PendingOuts : InsOut(s)
         \/ InsComplex
         \/ \E x \in insDirectEdgeVec : processCopyAddition(x[1], x[2]) \/ processGepAddition(x[1])
         \/ SkipSCCDetect \/ SCCDetect
         \/ \E e \in insDirectConsVec : processDirectConstraintAddition(e)
         \/ InsConsDone
         \/ \E n \in Node : ProcessPropMap(n)
         \/ InsPropDone
         \/ \E e \in insEdgeVec : processAddrAddition(e) \/ processComplexAddition(e)
         \/ InsIterationDone /\ pc' # "idle"
  PROVE  Kept'
<1> USE DEF flatVars, superVars, delVars, insVars, pdmVars, ctlVars, roundVars
<1>1. CASE \E x \in insDirectEdgeVec : processCopyAddition(x[1], x[2]) \/ processGepAddition(x[1])
  <2>1. PICK x \in insDirectEdgeVec : processCopyAddition(x[1], x[2]) \/ processGepAddition(x[1])
    BY <1>1
  <2>2. /\ pc = "insDirect" /\ pc' = "insDirect" /\ Inserting /\ Inserting'
        /\ UNCHANGED <<base, mode, prePts, ptsChangeNodes, insEdgeVec>>
        /\ addDirectSCGEdge(x[1]) \/ KeepSCG
    BY <2>1 DEF processCopyAddition, processGepAddition, Inserting
  <2>3. ~needSCCDetect' => insDirectConsVec' = {}
    <3>1. ~needSCCDetect => insDirectConsVec = {}
      BY <2>2 DEF Kept
    <3>2. CASE KeepSCG
      BY <3>1, <3>2 DEF KeepSCG
    <3>3. CASE addDirectSCGEdge(x[1])
      <4>1. ~needSCCDetect' => ~needSCCDetect /\ ~NewSEdge(x[1])
        BY <3>3, Zenon DEF addDirectSCGEdge
      <4> QED BY <3>1, <3>3, <4>1 DEF addDirectSCGEdge
    <3> QED BY <2>2, <3>2, <3>3
  <2>4. ~Over /\ RoundsCount
    BY <2>2, InsertingFacts
  <2>5. fEdges \subseteq fEdges' /\ \A e \in base : <<e, e>> \in insDirectEdgeVec =>
                                      e \in fEdges' \/ <<e, e>> \in insDirectEdgeVec'
    <3>1. CASE processGepAddition(x[1])
      BY <3>1 DEF processGepAddition
    <3>2. CASE processCopyAddition(x[1], x[2])
      <4>1. /\ insDirectEdgeVec' = insDirectEdgeVec \ {<<x[1], x[2]>>} /\ x[1].kind = "Copy"
            /\ addCopyFCGEdge(x[1], x[2])
        BY <3>2 DEF processCopyAddition
      <4>2. fEdges \subseteq fEdges'
        BY <4>1 DEF addCopyFCGEdge
      <4>3. ASSUME NEW e \in base, <<e, e>> = <<x[1], x[2]>> PROVE e \in fEdges'
        <5>1. x[1] = e /\ x[2] = e
          BY <4>3
        <5>2. e.src # e.dst
          BY <2>4, <4>1, <5>1, DerivedOutside DEF IsDirect, DirectKind
        <5> QED BY <4>1, <5>1, <5>2 DEF addCopyFCGEdge
      <4> QED BY <4>1, <4>2, <4>3
    <3> QED BY <2>1, <3>1, <3>2
  <2> QED BY <2>2, <2>3, <2>5, KeptGrow
<1>2. CASE \E e \in insEdgeVec : processAddrAddition(e) \/ processComplexAddition(e)
  <2>1. /\ Inserting /\ Inserting' /\ pc' # "insDirect"
        /\ UNCHANGED <<base, mode, prePts, ptsChangeNodes>>
        /\ insDirectEdgeVec \subseteq insDirectEdgeVec' /\ fEdges \subseteq fEdges'
        /\ \A f \in insEdgeVec : f \in fEdges' \/ f \in insEdgeVec'
    BY <1>2 DEF processAddrAddition, processComplexAddition, PopInsEdge, Inserting
  <2> QED BY <2>1, KeptGrow
<1>3. CASE \/ \E s \in PendingOuts : InsOut(s)
           \/ InsComplex \/ SkipSCCDetect \/ SCCDetect
           \/ \E e \in insDirectConsVec : processDirectConstraintAddition(e)
           \/ InsConsDone
           \/ \E n \in Node : ProcessPropMap(n)
           \/ InsPropDone
           \/ InsIterationDone /\ pc' # "idle"
  <2>1. /\ Inserting /\ Inserting' /\ (pc' = "insDirect" => InsIterationDone)
        /\ UNCHANGED <<base, mode, prePts, ptsChangeNodes, fEdges, insEdgeVec>>
        /\ insDirectEdgeVec \subseteq insDirectEdgeVec'
    BY <1>3 DEF InsOut, InsComplex, SkipSCCDetect, SCCDetect, processDirectConstraintAddition,
       InsConsDone, ProcessPropMap, InsPropDone, InsIterationDone, InInsertion, Inserting
  <2>2. pc' = "insDirect" => insDirectConsVec' = {}
    BY <2>1 DEF BoundInv, VectorsClean, InsIterationDone
  <2> QED BY <2>1, <2>2, KeptGrow
<1> QED BY <1>1, <1>2, <1>3

(* When the last iteration ends every statement is in the graph and, the
   facts being exact, no node differs from what initAllPDM recorded. *)
LEMMA EndKept ==
  ASSUME BoundInv, AddrHeld, DirectHeld, ComplexHeld, Kept, InsIterationDone, pc' = "idle"
  PROVE  Kept'
<1> USE DEF flatVars, superVars, delVars, insVars, roundVars
<1>1. /\ pc = "insEdge" /\ insEdgeVec = {} /\ insDirectEdgeVec = {}
      /\ UNCHANGED <<base, mode, prePts, fEdges, rep, pts>>
      /\ ptsChangeNodes' = {n \in Node : getPts(n) # prePts[n]}
  BY DEF InsIterationDone, computeAllPDM
<1>2. base \subseteq fEdges
  BY <1>1 DEF Kept, KeptInInsertion, Inserting
<1>3. ~Over
  BY <1>1 DEF Over
<1>4. mode # "old"
  BY <1>1 DEF BoundInv, RoundsCount, Inserting
<1>5. /\ TypeOK /\ GraphsAgree /\ RoundsCount /\ PtsBounded /\ RepsOnCycles
  BY <1>3 DEF BoundInv, Inv, Bounded
<1>6. \A n \in Node : LeastSolution(base)[n] \subseteq getPts(n)
  <2>1. TypeOK /\ GraphsAgree /\ OwnersLive /\ CacheExact /\ base \in SUBSET ProgramEdge
    BY <1>3, ProgramFacts DEF BoundInv, Inv, Ledger
  <2> QED BY <1>2, <2>1, ClosedIsSound
<1>7. \A n \in Node : getPts(n) = Solved[n]
  BY <1>3, <1>5, <1>6, GetPtsBounded DEF Solved
<1>8. mode = "step" => ptsChangeNodes' = {} /\ prePts' = Solved'
  BY <1>1, <1>7 DEF Kept, Solved
<1> QED BY <1>1, <1>2, <1>8 DEF Kept, KeptInDeletion, KeptInInsertion, Deleting, Inserting, Solved

-----------------------------------------------------------------------------
(* The facts through the insertion phase *)

(* A call of propagateInsPts: what is new at a node is in a frame that has
   all its edges still to follow. *)
Announced(k, x) ==
  \E f \in Calls(stack) : f.node = k /\ x \in f.d /\ DirectOut(k) \subseteq f.outs

(* What a call of propagateInsPts adds it announces in a frame with all
   outgoing edges; after a merge it announces all it was called with. *)
LEMMA InsCall ==
  ASSUME TypeOK, GraphsAgree, NEW S \in SUBSET Obj, NEW n \in Node, NEW flag,
         NEW callers \in Seq(Frame), propagateInsPts(S, n, flag, callers)
  PROVE  /\ \A k \in Node : pts[k] \subseteq pts'[k]
         /\ Calls(callers) \subseteq Calls(stack')
         /\ S \subseteq pts'[rep[n]]
         /\ \A k \in Node : \A x : x \in pts'[k] \ pts[k] =>
              k = rep[n] /\ \E f \in Calls(stack') : f.node = k /\ x \in f.d /\ f.outs = DirectOut(rep[n])
         /\ flag = TRUE => \A x \in S : \E f \in Calls(stack') : f.node = rep[n] /\ x \in f.d /\ f.outs = DirectOut(rep[n])
<1>0. PICK D : D = DirectOut(rep[n])
  OBVIOUS
<1> DEFINE r == rep[n]
           dPts == IF flag THEN S ELSE S \ pts[r]
<1>1. r \in Node /\ pts \in [Node -> SUBSET Obj]
  BY RepTypes DEF TypeOK, PtsTypeOK
<1>2. PICK f \in Frame :
        /\ f.node = r /\ f.d = dPts /\ f.outs = D
        /\ \/ pts' = pts /\ Calls(stack') = Calls(callers) /\ dPts = {}
           \/ /\ pts' = [pts EXCEPT ![r] = @ \cup dPts]
              /\ Calls(stack') = {f} \cup Calls(callers)
  <2> DEFINE f == [node |-> r, d |-> dPts, outs |-> DirectOut(r)]
  <2>1. f \in Frame
    BY <1>1, DirectOutType DEF Frame, TypeOK
  <2>2. Calls(<<f>> \o callers) = {f} \cup Calls(callers)
    BY <2>1, PushCalls
  <2>3. \/ pts' = pts /\ Calls(stack') = Calls(callers) /\ dPts = {}
        \/ /\ pts' = [pts EXCEPT ![r] = @ \cup dPts]
           /\ Calls(stack') = {f} \cup Calls(callers)
    BY <2>2 DEF propagateInsPts
  <2>4. f.node = r /\ f.d = dPts /\ f.outs = D
    BY <1>0
  <2> HIDE DEF f
  <2> QED BY <2>1, <2>3, <2>4
<1>3. \A k \in Node : pts'[k] = IF k = r THEN pts[r] \cup dPts ELSE pts[k]
  BY <1>1, <1>2
<1>4. \A x \in dPts : f \in Calls(stack')
  BY <1>2
<1>5. S \subseteq pts'[r]
  BY <1>1, <1>3
<1>6. ASSUME NEW k \in Node, NEW x \in pts'[k] \ pts[k]
      PROVE  k = r /\ f \in Calls(stack') /\ x \in f.d
  BY <1>2, <1>3, <1>4, <1>6
<1>7. Calls(callers) \subseteq Calls(stack') /\ \A k \in Node : pts[k] \subseteq pts'[k]
  BY <1>2, <1>3
<1>8. flag = TRUE => \A x \in S : f \in Calls(stack') /\ x \in f.d
  BY <1>2, <1>4
<1> HIDE DEF dPts
<1> QED BY <1>0, <1>2, <1>5, <1>6, <1>7, <1>8

(* A step keeps the account when every debt of the state before is either
   settled by it or still on record, and what is new is on record. *)
LEMMA OwedKept ==
  ASSUME TypeOK, GraphsAgree, Inserting, Inserting', UNCHANGED rep, DirectOwed, ComplexOwed,
         \A s \in SuperDirect' : s \in SuperDirect \/ \E c \in insDirectConsVec' : Lift(c) = s,
         \A s \in SuperDirect : s.src # s.dst =>
           \A x \in pts[s.src] : \A o \in Transfer(s.kind, {x}) :
             DirectSettled(s, x, o) => DirectSettled(s, x, o)',
         \A e \in fEdges : IsComplex(e) =>
           \A o \in getPts(Pointer(e)) \ NonPtrObj : ComplexSettled(e, o) => ComplexSettled(e, o)',
         \A e \in fEdges' : e \notin fEdges /\ IsComplex(e) =>
           \A o \in pts'[rep[Pointer(e)]] \ NonPtrObj : ComplexSettled(e, o)',
         \A k \in Node : \A x \in pts'[k] : x \in pts[k] \/ Announced(k, x)'
  PROVE  DirectOwed' /\ ComplexOwed'
<1>1. DirectOwed'
  <2> SUFFICES ASSUME NEW s \in SuperDirect', s.src # s.dst, NEW x \in pts'[s.src],
                      NEW o \in Transfer(s.kind, {x})
               PROVE  DirectSettled(s, x, o)'
    BY DEF DirectOwed
  <2>1. CASE \E c \in insDirectConsVec' : Lift(c) = s
    BY <2>1 DEF DirectSettled, Lift
  <2>2. CASE s \in SuperDirect
    <3>1. s.src \in Node
      BY <2>2 DEF SuperDirect, TypeOK, SuperTypeOK, Edge
    <3>2. CASE x \in pts[s.src]
      BY <2>2, <3>2 DEF DirectOwed
    <3>3. CASE Announced(s.src, x)'
      <4>1. s \in DirectOut(s.src)'
        BY DEF DirectOut, SuperDirect
      <4> QED BY <3>3, <4>1 DEF Announced, DirectSettled
    <3> QED BY <3>1, <3>2, <3>3
  <2> QED BY <2>1, <2>2
<1>2. ComplexOwed'
  <2> SUFFICES ASSUME NEW e \in fEdges', IsComplex(e), NEW o \in pts'[rep[Pointer(e)]] \ NonPtrObj
               PROVE  ComplexSettled(e, o)'
    BY DEF ComplexOwed, getPts
  <2>1. CASE e \in fEdges
    <3>1. rep[Pointer(e)] \in Node
      BY <2>1, PointerType, RepTypes DEF TypeOK, FlatTypeOK
    <3>2. CASE o \in pts[rep[Pointer(e)]]
      BY <2>1, <3>2 DEF ComplexOwed, getPts
    <3>3. CASE Announced(rep[Pointer(e)], o)'
      BY <3>3 DEF Announced, ComplexSettled
    <3> QED BY <3>1, <3>2, <3>3
  <2> QED BY <2>1
<1> QED BY <1>1, <1>2

(* The account of merged cycles and of direct edges when nothing is taken off
   the lists. *)
LEMMA MergeDebtsKept ==
  ASSUME UNCHANGED rep, insDirectConsVec \subseteq insDirectConsVec',
         \A y \in insPropMap : y \in insPropMap' /\ (y[1] \in unFilterSet => y[1] \in unFilterSet')
  PROVE  \A r, x : MergeDebt(r, x) => MergeDebt(r, x)'
BY DEF MergeDebt

(* Steps that only add work and facts settle no debt of a direct edge
   falsely. *)
LEMMA DirectDebtsKept ==
  ASSUME TypeOK, UNCHANGED rep, insDirectConsVec \subseteq insDirectConsVec',
         \A y \in insPropMap : y \in insPropMap' /\ (y[1] \in unFilterSet => y[1] \in unFilterSet'),
         \A k \in Node : pts[k] \subseteq pts'[k],
         \A f \in Calls(stack) : f.outs = {} \/
           \E g \in Calls(stack') : g.node = f.node /\ g.d = f.d /\ g.outs = f.outs
  PROVE  \A s \in SuperDirect : \A x, o : DirectSettled(s, x, o) => DirectSettled(s, x, o)'
<1> SUFFICES ASSUME NEW s \in SuperDirect, NEW x, NEW o, DirectSettled(s, x, o)
             PROVE  DirectSettled(s, x, o)'
  OBVIOUS
<1>1. s.dst \in Node
  BY DEF SuperDirect, TypeOK, SuperTypeOK, Edge
<1>2. MergeDebt(s.src, x) => MergeDebt(s.src, x)'
  BY MergeDebtsKept
<1>3. CASE o \in pts[s.dst]
  BY <1>1, <1>3 DEF DirectSettled
<1>4. CASE \E c \in insDirectConsVec : Lift(c) = s
  BY <1>4 DEF DirectSettled, Lift
<1>5. CASE <<s.dst, o>> \in insPropMap
  BY <1>5 DEF DirectSettled
<1>6. CASE \E f \in Calls(stack) : f.node = s.src /\ s \in f.outs /\ x \in f.d
  BY <1>6 DEF DirectSettled
<1>7. CASE MergeDebt(s.src, x)
  BY <1>2, <1>7 DEF DirectSettled
<1> QED BY <1>3, <1>4, <1>5, <1>6, <1>7 DEF DirectSettled

(* Nor one of a load or store. *)
LEMMA ComplexDebtsKept ==
  ASSUME UNCHANGED rep, insDirectConsVec \subseteq insDirectConsVec',
         \A y \in insPropMap : y \in insPropMap' /\ (y[1] \in unFilterSet => y[1] \in unFilterSet'),
         compCache \subseteq compCache', insDirectEdgeVec \subseteq insDirectEdgeVec',
         \A f \in Calls(stack) : \E g \in Calls(stack') : g.node = f.node /\ g.d = f.d
  PROVE  \A e, o : ComplexSettled(e, o) => ComplexSettled(e, o)'
<1> SUFFICES ASSUME NEW e, NEW o, ComplexSettled(e, o)
             PROVE  ComplexSettled(e, o)'
  OBVIOUS
<1>1. MergeDebt(rep[Pointer(e)], o) => MergeDebt(rep[Pointer(e)], o)'
  <2>1. \A r, x : MergeDebt(r, x) => MergeDebt(r, x)'
    BY MergeDebtsKept
  <2>2. rep'[Pointer(e)] = rep[Pointer(e)]
    OBVIOUS
  <2> QED BY <2>1, <2>2 DEF MergeDebt
<1>2. CASE \E f \in Calls(stack) : f.node = rep[Pointer(e)] /\ o \in f.d
  BY <1>2 DEF ComplexSettled
<1>3. CASE MergeDebt(rep[Pointer(e)], o)
  BY <1>1, <1>3 DEF ComplexSettled
<1>4. CASE <<e, o>> \in compCache \/ <<DerivedCopy(e, o), e>> \in insDirectEdgeVec
  BY <1>4 DEF ComplexSettled
<1> QED BY <1>2, <1>3, <1>4 DEF ComplexSettled

(* Points-to sets that only grow keep the addresses they hold. *)
LEMMA AddrKept ==
  ASSUME TypeOK, GraphsAgree, AddrHeld, UNCHANGED rep, \A k \in Node : pts[k] \subseteq pts'[k],
         \A e \in fEdges' : e \notin fEdges /\ e.kind = "Addr" => e.src \in pts'[rep[e.dst]]
  PROVE  AddrHeld'
<1> SUFFICES ASSUME NEW e \in fEdges', e.kind = "Addr"
             PROVE  e.src \in pts'[rep[e.dst]]
  BY DEF AddrHeld, getPts
<1>1. CASE e \in fEdges
  BY <1>1, RepTypes DEF AddrHeld, getPts
<1> QED BY <1>1

(* The ends of the passes over the vectors change no fact and pay no debt. *)
LEMMA QuietInsertionOwed ==
  ASSUME BoundInv, Kept, AddrHeld, DirectOwed, ComplexOwed,
         \/ SkipSCCDetect \/ InsConsDone \/ InsPropDone
         \/ InsIterationDone /\ pc' # "idle"
  PROVE  AddrHeld' /\ DirectOwed' /\ ComplexOwed' /\ Inserting'
<1>1. /\ Inserting /\ Inserting' /\ TypeOK /\ GraphsAgree
      /\ UNCHANGED <<rep, pts, stack, fEdges, sEdges, compCache, insDirectConsVec, insPropMap,
                     insDirectEdgeVec>>
      /\ \A y \in insPropMap : y[1] \in unFilterSet => y[1] \in unFilterSet'
  BY DEF BoundInv, Inv, SkipSCCDetect, InsConsDone, InsPropDone, InsIterationDone, Inserting,
         flatVars, superVars, insVars
<1>2. AddrHeld'
  BY <1>1 DEF AddrHeld, getPts
<1>3. \A s \in SuperDirect : \A x, o : DirectSettled(s, x, o) => DirectSettled(s, x, o)'
  BY <1>1, DirectDebtsKept
<1>4. \A e, o : ComplexSettled(e, o) => ComplexSettled(e, o)'
  BY <1>1, ComplexDebtsKept
<1>5. DirectOwed'
  BY <1>1, <1>3 DEF DirectOwed, SuperDirect
<1>6. ComplexOwed'
  BY <1>1, <1>4 DEF ComplexOwed, getPts
<1> QED BY <1>1, <1>2, <1>5, <1>6

(* A direct edge is added: a new super edge is queued, and the load or store
   that asked for a copy has it. *)
LEMMA DirectAdditionOwed ==
  ASSUME BoundInv, AddrHeld, DirectOwed, ComplexOwed, NEW x \in insDirectEdgeVec,
         processCopyAddition(x[1], x[2]) \/ processGepAddition(x[1])
  PROVE  AddrHeld' /\ DirectOwed' /\ ComplexOwed' /\ Inserting'
<1>1. /\ pc = "insDirect" /\ Inserting /\ Inserting'
      /\ UNCHANGED <<rep, pts, stack, insPropMap, unFilterSet>>
      /\ \/ addDirectSCGEdge(x[1]) /\ fEdges' = fEdges \cup {x[1]}
         \/ KeepSCG /\ fEdges' = fEdges
      /\ compCache \subseteq compCache'
  <2>1. CASE processGepAddition(x[1])
    BY <2>1 DEF processGepAddition, NewFEdge, Inserting, ctlVars
  <2>2. CASE processCopyAddition(x[1], x[2])
    BY <2>2 DEF processCopyAddition, addCopyFCGEdge, NewFEdge, Inserting, ctlVars
  <2> QED BY <2>1, <2>2
<1>2. /\ TypeOK /\ GraphsAgree /\ Ledger /\ stack = <<>> /\ ~Over /\ Bounded /\ RoundsCount
      /\ insPropMap = {} /\ x[1] \in DirectEdge /\ IsDirect(x[1]) /\ fEdges \subseteq SolvedEdges
      /\ fEdges \subseteq Edge
  BY <1>1, InsertingFacts DEF BoundInv, Inv, VectorsClean, TypeOK, InsTypeOK, Request, DirectEdge,
     EdgesBounded, FlatTypeOK
<1>3. /\ insDirectConsVec \subseteq insDirectConsVec'
      /\ \A s \in SuperDirect' : s \in SuperDirect \/ \E c \in insDirectConsVec' : Lift(c) = s
  BY <1>1 DEF addDirectSCGEdge, addSCGEdge, KeepSCG, NewSEdge, SuperDirect
<1>4. AddrHeld'
  BY <1>1, <1>2, AddrKept DEF IsDirect, DirectKind
<1>5. \A s \in SuperDirect : \A y, o : DirectSettled(s, y, o) => DirectSettled(s, y, o)'
  BY <1>1, <1>2, <1>3, DirectDebtsKept
<1>6. ASSUME NEW e \in fEdges, IsComplex(e), NEW o \in getPts(Pointer(e)) \ NonPtrObj,
             ComplexSettled(e, o)
      PROVE  ComplexSettled(e, o)'
  <2>1. e \in base /\ e \in Edge /\ e.kind \notin DirectKind
    BY <1>2, <1>6, DerivedOutside DEF IsComplex, ComplexKind, DirectKind
  <2>2. o \in Obj
    BY <1>2, <2>1, PointerType, RepTypes DEF getPts, TypeOK, PtsTypeOK
  <2>3. CASE <<e, o>> \in compCache
    BY <1>1, <2>3 DEF ComplexSettled
  <2>4. CASE <<DerivedCopy(e, o), e>> \in insDirectEdgeVec /\ <<DerivedCopy(e, o), e>> # x
    <3>1. insDirectEdgeVec' = insDirectEdgeVec \ {x} \/ (x[1].kind # "Copy" /\ insDirectEdgeVec' = insDirectEdgeVec \ {<<x[1], x[1]>>})
      <4>1. x = <<x[1], x[2]>>
        BY <1>2 DEF TypeOK, InsTypeOK, Request
      <4> QED BY <4>1 DEF processCopyAddition, processGepAddition
    <3>2. DerivedCopy(e, o).kind = "Copy"
      BY <2>1, <2>2, DerivedCopyType
    <3>3. <<DerivedCopy(e, o), e>> \in insDirectEdgeVec'
      BY <2>4, <3>1, <3>2
    <3> QED BY <3>3 DEF ComplexSettled
  <2>5. CASE <<DerivedCopy(e, o), e>> = x
    <3>1. DerivedCopy(e, o).kind = "Copy" /\ CacheBit(DerivedCopy(e, o), e) = o
      BY <2>1, <2>2, DerivedCopyType
    <3>2. x[1] = DerivedCopy(e, o) /\ x[2] = e
      BY <2>5
    <3>3. addCopyFCGEdge(x[1], e)
      BY <3>1, <3>2 DEF processCopyAddition, processGepAddition
    <3>4. x[1].src # x[1].dst /\ e # x[1]
      BY <1>2, <1>6, <2>1, <2>2, <3>1, <3>2, DerivedOutside DEF DirectKind
    <3>5. <<x[1], e>> \in complexEdgeSet => <<e, o>> \in compCache
      BY <1>2, <3>1, <3>2, <3>4 DEF Ledger, CacheExact
    <3>6. <<e, o>> \in compCache'
      BY <1>1, <1>6, <3>1, <3>2, <3>3, <3>4, <3>5 DEF addCopyFCGEdge
    <3> QED BY <3>6 DEF ComplexSettled
  <2>6. CASE \E f \in Calls(stack) : f.node = rep[Pointer(e)] /\ o \in f.d
    BY <1>2, <2>6, EmptyCalls
  <2>7. CASE MergeDebt(rep[Pointer(e)], o)
    <3>1. \A r, y : MergeDebt(r, y) => MergeDebt(r, y)'
      BY <1>1, <1>3, MergeDebtsKept
    <3>2. rep'[Pointer(e)] = rep[Pointer(e)]
      BY <1>1
    <3>3. MergeDebt(rep[Pointer(e)], o)'
      BY <2>7, <3>1, <3>2 DEF MergeDebt
    <3> QED BY <3>3 DEF ComplexSettled
  <2> QED BY <1>6, <2>3, <2>4, <2>5, <2>6, <2>7 DEF ComplexSettled
<1>7. \A e \in fEdges' : e \notin fEdges => ~IsComplex(e)
  BY <1>1, <1>2 DEF IsDirect, IsComplex, DirectKind, ComplexKind
<1>8. DirectOwed' /\ ComplexOwed'
  BY <1>1, <1>2, <1>3, <1>5, <1>6, <1>7, OwedKept
<1> QED BY <1>1, <1>4, <1>8

(* A direct edge inside a merged cycle is a copy: the fields of objects are
   settled, so no gep lies on a cycle. *)
LEMMA InnerIsCopy ==
  ASSUME TypeOK, GraphsAgree, RoundsCount, ~Over, RepsOnCycles, NEW c \in SolvedEdges, IsDirect(c),
         rep[c.src] = rep[c.dst]
  PROVE  c.kind = "Copy"
<1>1. c \in SolvedDirect(base) /\ c.src \in Node /\ c.dst \in Node
  BY SolvedEdgeCarries
<1>2. OnCycle(c.src, rep[c.src]) /\ OnCycle(c.dst, rep[c.dst]) /\ rep[c.src] \in Node
  BY <1>1, RepTypes DEF RepsOnCycles
<1>3. OnCycle(c.src, c.dst)
  BY <1>1, <1>2, CycleFacts
<1> QED BY <1>1, <1>3, ProgramFacts, InsideIsCopy DEF OnCycle

(* The effect of a queued edge goes to the propagation map: what the edge
   carries, and for an edge inside a merged cycle the whole set of the cycle. *)
LEMMA ConstraintAdditionOwed ==
  ASSUME BoundInv, AddrHeld, DirectOwed, ComplexOwed, NEW c \in insDirectConsVec,
         processDirectConstraintAddition(c)
  PROVE  AddrHeld' /\ DirectOwed' /\ ComplexOwed' /\ Inserting'
<1>1. /\ pc = "insCons" /\ Inserting /\ Inserting'
      /\ UNCHANGED <<rep, pts, stack, fEdges, sEdges, compCache, insDirectEdgeVec>>
      /\ insDirectConsVec' = insDirectConsVec \ {c}
      /\ insPropMap' = insPropMap \cup ({rep[c.dst]} \X Transfer(c.kind, getPts(c.src)))
      /\ unFilterSet' = IF rep[c.src] = rep[c.dst] THEN unFilterSet \cup {rep[c.dst]}
                        ELSE unFilterSet
  BY DEF processDirectConstraintAddition, Inserting, flatVars, superVars, ctlVars
<1>2. /\ TypeOK /\ GraphsAgree /\ stack = <<>> /\ ~Over /\ RepsOnCycles /\ RoundsCount
      /\ c \in SolvedEdges /\ IsDirect(c)
  BY <1>1, InsertingFacts DEF BoundInv, Inv, TypeOK, InsTypeOK, DirectEdge, EdgesBounded, WorkBounded
<1>3. /\ c \in SolvedDirect(base) /\ c.kind \in DirectKind /\ c.src \in Node /\ c.dst \in Node
  BY <1>2, SolvedEdgeCarries
<1>4. rep[c.src] = rep[c.dst] => c.kind = "Copy"
  BY <1>2, InnerIsCopy
<1>5. AddrHeld'
  BY <1>1 DEF AddrHeld, getPts
<1>6. ASSUME NEW r, NEW x \in pts[r], MergeDebt(r, x)
      PROVE  MergeDebt(r, x)'
  <2>1. CASE rep[c.src] = r /\ rep[c.dst] = r
    <3>1. Transfer(c.kind, getPts(c.src)) = pts[r]
      BY <1>4, <2>1, CopyTransfers DEF getPts
    <3>2. r \in unFilterSet' /\ <<r, x>> \in insPropMap'
      BY <1>1, <2>1, <3>1
    <3> QED BY <3>2 DEF MergeDebt
  <2>2. CASE \E d \in insDirectConsVec \ {c} : rep[d.src] = r /\ rep[d.dst] = r
    BY <1>1, <2>2 DEF MergeDebt
  <2>3. CASE r \in unFilterSet /\ <<r, x>> \in insPropMap
    BY <1>1, <2>3 DEF MergeDebt
  <2> QED BY <1>6, <2>1, <2>2, <2>3 DEF MergeDebt
<1>7. ASSUME NEW s \in SuperDirect, NEW x \in pts[s.src], NEW o \in Transfer(s.kind, {x}),
             DirectSettled(s, x, o)
      PROVE  DirectSettled(s, x, o)'
  <2>1. CASE Lift(c) = s
    <3>1. s.kind = c.kind /\ s.src = rep[c.src] /\ s.dst = rep[c.dst]
      BY <2>1, LiftFacts DEF Lift
    <3>2. o \in Transfer(c.kind, pts[s.src])
      BY <1>3, <3>1, TransferPoints
    <3>3. <<s.dst, o>> \in insPropMap'
      BY <1>1, <3>1, <3>2 DEF getPts
    <3> QED BY <3>3 DEF DirectSettled
  <2>2. CASE \E d \in insDirectConsVec \ {c} : Lift(d) = s
    BY <1>1, <2>2 DEF DirectSettled, Lift
  <2>3. CASE o \in pts[s.dst]
    BY <1>1, <2>3 DEF DirectSettled
  <2>4. CASE <<s.dst, o>> \in insPropMap
    BY <1>1, <2>4 DEF DirectSettled
  <2>5. CASE \E f \in Calls(stack) : f.node = s.src /\ s \in f.outs /\ x \in f.d
    BY <1>2, <2>5, EmptyCalls
  <2>6. CASE MergeDebt(s.src, x)
    <3>1. MergeDebt(s.src, x)'
      BY <1>6, <2>6
    <3> QED BY <3>1 DEF DirectSettled
  <2> QED BY <1>7, <2>1, <2>2, <2>3, <2>4, <2>5, <2>6 DEF DirectSettled
<1>8. ASSUME NEW e \in fEdges, IsComplex(e), NEW o \in getPts(Pointer(e)) \ NonPtrObj,
             ComplexSettled(e, o)
      PROVE  ComplexSettled(e, o)'
  <2>1. CASE <<e, o>> \in compCache \/ <<DerivedCopy(e, o), e>> \in insDirectEdgeVec
    BY <1>1, <2>1 DEF ComplexSettled
  <2>2. CASE \E f \in Calls(stack) : f.node = rep[Pointer(e)] /\ o \in f.d
    BY <1>2, <2>2, EmptyCalls
  <2>3. CASE MergeDebt(rep[Pointer(e)], o)
    <3>1. PICK r : r = rep[Pointer(e)] /\ r = rep'[Pointer(e)]
      BY <1>1
    <3>2. o \in pts[r]
      BY <3>1 DEF getPts
    <3>3. MergeDebt(r, o)'
      BY <1>6, <2>3, <3>1, <3>2
    <3> QED BY <3>1, <3>3 DEF ComplexSettled
  <2> QED BY <1>8, <2>1, <2>2, <2>3 DEF ComplexSettled
<1>9. DirectOwed' /\ ComplexOwed'
  <2>1. \A s \in SuperDirect' : s \in SuperDirect
    BY <1>1 DEF SuperDirect
  <2> QED BY <1>1, <1>2, <1>7, <1>8, <2>1, OwedKept
<1> QED BY <1>1, <1>5, <1>9

(* A node of the propagation map is served: its objects are added, and after
   a merge the whole set is announced. *)
LEMMA PropMapOwed ==
  ASSUME BoundInv, AddrHeld, DirectOwed, ComplexOwed, NEW n \in Node, ProcessPropMap(n)
  PROVE  AddrHeld' /\ DirectOwed' /\ ComplexOwed' /\ Inserting'
<1>1. /\ pc = "insProp" /\ Inserting /\ Inserting' /\ stack = <<>>
      /\ UNCHANGED <<rep, fEdges, sEdges, compCache, insDirectEdgeVec, insDirectConsVec>>
      /\ \E x \in insPropMap : x[1] = n
      /\ insPropMap' = {x \in insPropMap : x[1] # n} /\ unFilterSet' = unFilterSet \ {n}
  BY DEF ProcessPropMap, Inserting, flatVars, superVars, ctlVars
<1>2. /\ TypeOK /\ GraphsAgree /\ ~Over /\ WorkBounded /\ insDirectConsVec = {}
      /\ insPropMap \subseteq Node \X Obj
  BY <1>1, InsertingFacts DEF BoundInv, Inv, VectorsClean, TypeOK, InsTypeOK
<1>3. rep[n] = n
  BY <1>1, <1>2 DEF WorkBounded
<1>4. PICK S : S = {x[2] : x \in {y \in insPropMap : y[1] = n}}
  OBVIOUS
<1>5. PICK D : D = DirectOut(n)
  OBVIOUS
<1>6. S \in SUBSET Obj /\ DirectOut(rep[n]) = D
  BY <1>2, <1>3, <1>4, <1>5
<1>7. <<>> \in Seq(Frame)
  OBVIOUS
<1>8. /\ \A k \in Node : pts[k] \subseteq pts'[k]
      /\ S \subseteq pts'[n]
      /\ \A k \in Node : \A x : x \in pts'[k] \ pts[k] =>
           k = n /\ \E f \in Calls(stack') : f.node = k /\ x \in f.d /\ f.outs = D
      /\ n \in unFilterSet => \A x \in S : \E f \in Calls(stack') : f.node = n /\ x \in f.d /\ f.outs = D
  <2>1. PICK flag, c : flag = (n \in unFilterSet) /\ c = <<>>
    OBVIOUS
  <2>2. propagateInsPts(S, n, flag, c)
    BY <1>4, <2>1 DEF ProcessPropMap, propagateInsPts
  <2>3. c \in Seq(Frame)
    BY <1>7, <2>1
  <2>4. TypeOK /\ GraphsAgree /\ S \in SUBSET Obj
    BY <1>2, <1>6
  <2>6. S \subseteq pts'[rep[n]]
    BY <2>2, <2>3, <2>4, InsCall
  <2>9. \A k \in Node : pts[k] \subseteq pts'[k]
    BY <2>2, <2>3, <2>4, InsCall
  <2>7. \A k \in Node : \A x : x \in pts'[k] \ pts[k] =>
          k = rep[n] /\ \E f \in Calls(stack') : f.node = k /\ x \in f.d /\ f.outs = DirectOut(rep[n])
    BY <2>2, <2>3, <2>4, InsCall
  <2>5. ASSUME n \in unFilterSet
        PROVE  \A x \in S : \E f \in Calls(stack') :
                 f.node = rep[n] /\ x \in f.d /\ f.outs = DirectOut(rep[n])
    <3>1. flag = TRUE
      BY <2>1, <2>5
    <3> HIDE <2>5
    <3> QED BY <2>2, <2>3, <2>4, <3>1, InsCall
  <2> QED BY <1>3, <1>5, <2>5, <2>6, <2>7, <2>9
<1>9. DirectOut(n)' = D
  BY <1>1, <1>5 DEF DirectOut
<1>10. \A k \in Node : \A x \in pts'[k] : x \in pts[k] \/ Announced(k, x)'
  BY <1>8, <1>9 DEF Announced
<1>11. AddrHeld'
  BY <1>1, <1>2, <1>8, AddrKept
<1>12. \A r, x : <<r, x>> \in insPropMap => x \in S \/ <<r, x>> \in insPropMap'
  BY <1>1, <1>4
<1>13. \A r, x : MergeDebt(r, x) /\ r # n => MergeDebt(r, x)'
  BY <1>1, <1>2 DEF MergeDebt
<1>14. \A x : MergeDebt(n, x) => \E f \in Calls(stack') : f.node = n /\ x \in f.d /\ f.outs = D
  <2>1. \A x : <<n, x>> \in insPropMap => x \in S
    BY <1>4
  <2> QED BY <1>2, <1>8, <2>1 DEF MergeDebt
<1>15. ASSUME NEW s \in SuperDirect, s.src # s.dst, NEW x \in pts[s.src], NEW o \in Transfer(s.kind, {x}),
              DirectSettled(s, x, o)
       PROVE  DirectSettled(s, x, o)'
  <2>1. s.dst \in Node /\ s \in sEdges /\ IsDirect(s)
    BY <1>2 DEF SuperDirect, TypeOK, SuperTypeOK, Edge
  <2>2. CASE o \in pts[s.dst]
    BY <1>8, <2>1, <2>2 DEF DirectSettled
  <2>3. CASE <<s.dst, o>> \in insPropMap
    <3>1. CASE s.dst = n
      <4>1. o \in pts'[s.dst]
        BY <1>1, <1>4, <1>8, <2>3, <3>1
      <4> QED BY <4>1 DEF DirectSettled
    <3>2. CASE s.dst # n
      BY <1>1, <2>3, <3>2 DEF DirectSettled
    <3> QED BY <3>1, <3>2
  <2>4. CASE MergeDebt(s.src, x)
    <3>1. CASE s.src = n
      <4>1. s \in D
        BY <1>5, <1>15, <2>1, <3>1 DEF DirectOut
      <4> QED BY <1>14, <2>4, <3>1, <4>1 DEF DirectSettled
    <3>2. CASE s.src # n
      BY <1>13, <2>4, <3>2 DEF DirectSettled
    <3> QED BY <3>1, <3>2
  <2>5. Calls(stack) = {}
    BY <1>1, EmptyCalls
  <2> QED BY <1>2, <1>15, <2>2, <2>3, <2>4, <2>5 DEF DirectSettled
<1>16. ASSUME NEW e \in fEdges, IsComplex(e), NEW o \in getPts(Pointer(e)) \ NonPtrObj,
              ComplexSettled(e, o)
       PROVE  ComplexSettled(e, o)'
  <2>1. CASE <<e, o>> \in compCache \/ <<DerivedCopy(e, o), e>> \in insDirectEdgeVec
    BY <1>1, <2>1 DEF ComplexSettled
  <2>2. Calls(stack) = {}
    BY <1>1, EmptyCalls
  <2>3. CASE MergeDebt(rep[Pointer(e)], o)
    <3>1. PICK r : r = rep[Pointer(e)] /\ r = rep'[Pointer(e)]
      BY <1>1
    <3>2. CASE r = n
      BY <1>14, <2>3, <3>1, <3>2 DEF ComplexSettled
    <3>3. CASE r # n
      <4>1. MergeDebt(r, o)'
        BY <1>13, <2>3, <3>1, <3>3
      <4> QED BY <3>1, <4>1 DEF ComplexSettled
    <3> QED BY <3>2, <3>3
  <2> QED BY <1>16, <2>1, <2>2, <2>3 DEF ComplexSettled
<1>17. DirectOwed' /\ ComplexOwed'
  <2>1. \A s \in SuperDirect' : s \in SuperDirect
    BY <1>1 DEF SuperDirect
  <2> QED BY <1>1, <1>2, <1>10, <1>15, <1>16, <2>1, OwedKept
<1> QED BY <1>1, <1>11, <1>17

(* The end of a call: the loads and stores at the node ask for the copies
   they have not got. *)
LEMMA InsComplexOwed ==
  ASSUME BoundInv, AddrHeld, DirectOwed, ComplexOwed, InsComplex
  PROVE  AddrHeld' /\ DirectOwed' /\ ComplexOwed' /\ Inserting'
<1>1. PICK h : h = Head(stack)
  OBVIOUS
<1>2. /\ Inserting /\ Inserting' /\ stack # <<>> /\ h.outs = {}
      /\ UNCHANGED <<rep, pts, fEdges, sEdges, compCache, insDirectConsVec, insPropMap, unFilterSet>>
      /\ insDirectEdgeVec' = insDirectEdgeVec \cup WantedCopies(ComplexAt(h.node), h.d)
      /\ stack' = Tail(stack)
  BY <1>1 DEF InsComplex, InInsertion, Inserting, flatVars, superVars, ctlVars
<1>3. TypeOK /\ GraphsAgree /\ stack \in Seq(Frame)
  BY <1>2, InsertingFacts
<1>4. Calls(stack) = {h} \cup Calls(stack')
  BY <1>1, <1>2, <1>3, HeadCalls
<1>5. AddrHeld'
  BY <1>2 DEF AddrHeld, getPts
<1>6. \A s \in SuperDirect : \A x, o : DirectSettled(s, x, o) => DirectSettled(s, x, o)'
  BY <1>2, <1>3, <1>4, DirectDebtsKept
<1>7. \A r, y : MergeDebt(r, y) => MergeDebt(r, y)'
  BY <1>2, MergeDebtsKept
<1>8. ASSUME NEW e \in fEdges, IsComplex(e), NEW o \in getPts(Pointer(e)) \ NonPtrObj,
             ComplexSettled(e, o)
      PROVE  ComplexSettled(e, o)'
  <2>1. CASE <<e, o>> \in compCache \/ <<DerivedCopy(e, o), e>> \in insDirectEdgeVec
    BY <1>2, <2>1 DEF ComplexSettled
  <2>2. CASE h.node = rep[Pointer(e)] /\ o \in h.d
    <3>1. e \in ComplexAt(h.node)
      BY <1>3, <1>8, <2>2, ComplexAtMembers DEF TypeOK, GraphsAgree
    <3>2. <<e, o>> \in compCache \/ <<DerivedCopy(e, o), e>> \in WantedCopies(ComplexAt(h.node), h.d)
      BY <1>8, <2>2, <3>1 DEF WantedCopies
    <3> QED BY <1>2, <3>2 DEF ComplexSettled
  <2>3. CASE \E f \in Calls(stack') : f.node = rep[Pointer(e)] /\ o \in f.d
    BY <1>2, <2>3 DEF ComplexSettled
  <2>4. CASE MergeDebt(rep[Pointer(e)], o)
    <3>1. PICK r : r = rep[Pointer(e)] /\ r = rep'[Pointer(e)]
      BY <1>2
    <3> QED BY <1>7, <2>4, <3>1 DEF ComplexSettled
  <2> QED BY <1>4, <1>8, <2>1, <2>2, <2>3, <2>4 DEF ComplexSettled
<1>9. DirectOwed' /\ ComplexOwed'
  <2>1. \A s \in SuperDirect' : s \in SuperDirect
    BY <1>2 DEF SuperDirect
  <2> QED BY <1>2, <1>3, <1>6, <1>8, <2>1, OwedKept
<1> QED BY <1>2, <1>5, <1>9

(* A resumed caller has one edge fewer to follow, the other calls are as
   they were. *)
LEMMA ResumedOuts ==
  ASSUME stack \in Seq(Frame), stack # <<>>, NEW s
  PROVE  /\ \A f \in Calls(stack) : f = Head(stack) \/ f \in Calls(Resumed(s))
         /\ \E g \in Calls(Resumed(s)) : g.node = Head(stack).node /\ g.d = Head(stack).d
                                         /\ g.outs = Head(stack).outs \ {s}
<1>1. /\ Calls(stack) = {Head(stack)} \cup Calls(Tail(stack))
      /\ Head(stack) \in Frame /\ Tail(stack) \in Seq(Frame)
  BY HeadCalls
<1>2. PICK g : g = [Head(stack) EXCEPT !.outs = @ \ {s}]
  OBVIOUS
<1>3. /\ g \in Frame /\ g.node = Head(stack).node /\ g.d = Head(stack).d
      /\ g.outs = Head(stack).outs \ {s}
  BY <1>1, <1>2 DEF Frame
<1>4. Resumed(s) = <<g>> \o Tail(stack)
  BY <1>2 DEF Resumed
<1>5. Calls(Resumed(s)) = {g} \cup Calls(Tail(stack))
  BY <1>1, <1>3, <1>4, PushCalls
<1> QED BY <1>1, <1>3, <1>5

(* A call along an edge carries what the caller's frame still owed there. *)
LEMMA InsOutOwed ==
  ASSUME BoundInv, AddrHeld, DirectOwed, ComplexOwed, NEW t \in PendingOuts, InsOut(t)
  PROVE  AddrHeld' /\ DirectOwed' /\ ComplexOwed' /\ Inserting'
<1>1. PICK h, S, c, flag, n :
        n = t.dst /\ h = Head(stack) /\ S = Transfer(t.kind, h.d) /\ c = Resumed(t) /\ flag = FALSE
  OBVIOUS
<1>2. /\ Inserting /\ Inserting' /\ stack # <<>> /\ t \in h.outs
      /\ UNCHANGED <<rep, fEdges, sEdges, compCache, insDirectEdgeVec, insDirectConsVec, insPropMap,
                     unFilterSet>>
      /\ propagateInsPts(S, n, flag, c)
  BY <1>1 DEF InsOut, InInsertion, Inserting, flatVars, superVars, insVars, ctlVars
<1>3. /\ TypeOK /\ GraphsAgree /\ stack \in Seq(Frame) /\ ~Over /\ FramesBounded /\ RepsOnCycles
      /\ EdgesBounded /\ RoundsCount
  BY <1>2, InsertingFacts
<1>4. c \in Seq(Frame) /\ h \in Frame /\ h \in Calls(stack)
  BY <1>1, <1>2, <1>3, HeadCalls, ResumedBounded
<1>5. h.d \subseteq Solved[h.node] /\ t \in sEdges /\ IsDirect(t) /\ t.src = h.node /\ t.src # t.dst
  BY <1>2, <1>3, <1>4 DEF FramesBounded, FrameBounded, DirectOut
<1>6. n \in Node /\ rep[n] = t.dst /\ S \in SUBSET Obj /\ t.kind \in DirectKind
  BY <1>1, <1>3, <1>5, SuperEdgeCarries
<1>7. /\ \A k \in Node : pts[k] \subseteq pts'[k]
      /\ Calls(c) \subseteq Calls(stack')
  <2>1. \A k \in Node : pts[k] \subseteq pts'[k]
    BY <1>2, <1>3, <1>4, <1>6, InsCall
  <2>2. Calls(c) \subseteq Calls(stack')
    BY <1>2, <1>3, <1>4, <1>6, InsCall
  <2> QED BY <2>1, <2>2
<1>8. S \subseteq pts'[t.dst]
  <2>1. S \subseteq pts'[rep[n]]
    BY <1>2, <1>3, <1>4, <1>6, InsCall
  <2> QED BY <1>6, <2>1
<1>9. \A k \in Node : \A x \in pts'[k] : x \in pts[k] \/ Announced(k, x)'
  <2>1. \A k \in Node : \A x : x \in pts'[k] \ pts[k] =>
          k = rep[n] /\ \E f \in Calls(stack') : f.node = k /\ x \in f.d /\ f.outs = DirectOut(rep[n])
    BY <1>2, <1>3, <1>4, <1>6, InsCall
  <2>2. \A k : DirectOut(k)' = DirectOut(k)
    BY <1>2 DEF DirectOut
  <2> QED BY <2>1, <2>2 DEF Announced
<1>10. AddrHeld'
  BY <1>2, <1>3, <1>7, AddrKept
<1>11. \A r, y : MergeDebt(r, y) => MergeDebt(r, y)'
  BY <1>2, MergeDebtsKept
<1>12. /\ \A f \in Calls(stack) : f = h \/ f \in Calls(stack')
       /\ \E g \in Calls(stack') : g.node = h.node /\ g.d = h.d /\ g.outs = h.outs \ {t}
  BY <1>1, <1>2, <1>3, <1>7, ResumedOuts
<1>13. ASSUME NEW s \in SuperDirect, NEW x \in pts[s.src], NEW o \in Transfer(s.kind, {x}),
              DirectSettled(s, x, o)
       PROVE  DirectSettled(s, x, o)'
  <2>1. s.dst \in Node
    BY <1>3 DEF SuperDirect, TypeOK, SuperTypeOK, Edge
  <2>2. CASE o \in pts[s.dst]
    BY <1>7, <2>1, <2>2 DEF DirectSettled
  <2>3. CASE \/ \E d \in insDirectConsVec : Lift(d) = s
             \/ <<s.dst, o>> \in insPropMap
    BY <1>2, <2>3 DEF DirectSettled, Lift
  <2>4. CASE MergeDebt(s.src, x)
    BY <1>11, <2>4 DEF DirectSettled
  <2>5. CASE h.node = s.src /\ s \in h.outs /\ x \in h.d
    <3>1. CASE s = t
      <4>1. o \in S
        BY <1>1, <1>6, <1>13, <2>5, <3>1, TransferPoints
      <4> QED BY <1>8, <3>1, <4>1 DEF DirectSettled
    <3>2. CASE s # t
      BY <1>12, <2>5, <3>2 DEF DirectSettled
    <3> QED BY <3>1, <3>2
  <2>6. CASE \E f \in Calls(stack') : f.node = s.src /\ s \in f.outs /\ x \in f.d
    BY <2>6 DEF DirectSettled
  <2> QED BY <1>12, <1>13, <2>2, <2>3, <2>4, <2>5, <2>6 DEF DirectSettled
<1>14. \A e, o : ComplexSettled(e, o) => ComplexSettled(e, o)'
  <2>1. \A f \in Calls(stack) : \E g \in Calls(stack') : g.node = f.node /\ g.d = f.d
    BY <1>12
  <2> QED BY <1>2, <2>1, ComplexDebtsKept
<1>15. DirectOwed' /\ ComplexOwed'
  <2>1. \A s \in SuperDirect' : s \in SuperDirect
    BY <1>2 DEF SuperDirect
  <2> QED BY <1>2, <1>3, <1>9, <1>13, <1>14, <2>1, OwedKept
<1> QED BY <1>2, <1>10, <1>15

(* An address is added: its object is announced at the pointer. *)
LEMMA AddrAdditionOwed ==
  ASSUME BoundInv, AddrHeld, DirectOwed, ComplexOwed, NEW e \in insEdgeVec, processAddrAddition(e)
  PROVE  AddrHeld' /\ DirectOwed' /\ ComplexOwed' /\ Inserting'
<1>1. /\ Inserting /\ Inserting' /\ stack = <<>> /\ e.kind = "Addr"
      /\ UNCHANGED <<rep, compCache, insDirectEdgeVec, insDirectConsVec, insPropMap, unFilterSet>>
      /\ fEdges' = fEdges \cup {e} /\ sEdges' = sEdges \cup {Lift(e)}
  BY DEF processAddrAddition, PopInsEdge, addSCGEdge, Inserting, ctlVars
<1>2. PICK S, c, flag, n : n = e.dst /\ S = {e.src} /\ c = <<>> /\ flag = FALSE
  OBVIOUS
<1>3. propagateInsPts(S, n, flag, c)
  BY <1>2 DEF processAddrAddition
<1>4. TypeOK /\ GraphsAgree
  BY <1>1, InsertingFacts
<1>5. n \in Node /\ S \in SUBSET Obj /\ c \in Seq(Frame)
  BY <1>1, <1>2, <1>4 DEF TypeOK, InsTypeOK, ProgramEdge, Edge
<1>6. SuperDirect' = SuperDirect /\ \A k : DirectOut(k)' = DirectOut(k)
  <2>1. ~IsDirect(Lift(e))
    BY <1>1, LiftFacts DEF Lift, IsDirect, DirectKind
  <2> QED BY <1>1, <2>1 DEF SuperDirect, DirectOut
<1>7. \A k \in Node : pts[k] \subseteq pts'[k]
  BY <1>3, <1>4, <1>5, InsCall
<1>8. S \subseteq pts'[rep[n]]
  BY <1>3, <1>4, <1>5, InsCall
<1>9. \A k \in Node : \A x \in pts'[k] : x \in pts[k] \/ Announced(k, x)'
  <2>1. \A k \in Node : \A x : x \in pts'[k] \ pts[k] =>
          k = rep[n] /\ \E f \in Calls(stack') : f.node = k /\ x \in f.d /\ f.outs = DirectOut(rep[n])
    BY <1>3, <1>4, <1>5, InsCall
  <2> QED BY <1>6, <2>1 DEF Announced
<1>10. AddrHeld'
  BY <1>1, <1>2, <1>4, <1>7, <1>8, AddrKept
<1>11. Calls(stack) = {}
  BY <1>1, EmptyCalls
<1>12. \A s \in SuperDirect : \A x, o : DirectSettled(s, x, o) => DirectSettled(s, x, o)'
  BY <1>1, <1>4, <1>7, <1>11, DirectDebtsKept
<1>13. \A f, o : ComplexSettled(f, o) => ComplexSettled(f, o)'
  BY <1>1, <1>11, ComplexDebtsKept
<1>14. \A f \in fEdges' : f \notin fEdges => ~IsComplex(f)
  BY <1>1 DEF IsComplex, ComplexKind
<1>15. DirectOwed' /\ ComplexOwed'
  BY <1>1, <1>4, <1>6, <1>9, <1>12, <1>13, <1>14, OwedKept
<1> QED BY <1>1, <1>10, <1>15

(* A load or store is added: it asks for the copies of what its pointer
   points to. *)
LEMMA ComplexAdditionOwed ==
  ASSUME BoundInv, AddrHeld, DirectOwed, ComplexOwed, NEW e \in insEdgeVec, processComplexAddition(e)
  PROVE  AddrHeld' /\ DirectOwed' /\ ComplexOwed' /\ Inserting'
<1>1. /\ Inserting /\ Inserting' /\ stack = <<>> /\ IsComplex(e)
      /\ UNCHANGED <<rep, pts, stack, compCache, insDirectConsVec, insPropMap, unFilterSet>>
      /\ fEdges' = fEdges \cup {e} /\ sEdges' = sEdges \cup {Lift(e)}
      /\ fEdgeSet' = fEdgeSet \cup {<<Lift(e), e>>}
  BY DEF processComplexAddition, PopInsEdge, addSCGEdge, Inserting, ctlVars
<1>2. PICK C : /\ C = {x[2] : x \in {y \in fEdgeSet' : y[1] = Lift(e)}}
               /\ insDirectEdgeVec' = insDirectEdgeVec \cup WantedCopies(C, getPts(Pointer(e)))
  BY DEF processComplexAddition
<1>3. e \in C
  <2>1. PICK y : y = <<Lift(e), e>>
    OBVIOUS
  <2>2. y \in fEdgeSet' /\ y[1] = Lift(e) /\ y[2] = e
    BY <1>1, <2>1
  <2> QED BY <1>2, <2>2
<1>4. TypeOK /\ GraphsAgree
  BY <1>1, InsertingFacts
<1>5. SuperDirect' = SuperDirect
  <2>1. ~IsDirect(Lift(e))
    BY <1>1, LiftFacts DEF Lift, IsDirect, DirectKind, IsComplex, ComplexKind
  <2> QED BY <1>1, <2>1 DEF SuperDirect
<1>6. AddrHeld'
  BY <1>1, <1>4, AddrKept DEF IsComplex, ComplexKind
<1>7. Calls(stack) = {}
  BY <1>1, EmptyCalls
<1>8. \A s \in SuperDirect : \A x, o : DirectSettled(s, x, o) => DirectSettled(s, x, o)'
  BY <1>1, <1>4, <1>7, DirectDebtsKept
<1>9. \A f, o : ComplexSettled(f, o) => ComplexSettled(f, o)'
  BY <1>1, <1>2, <1>7, ComplexDebtsKept
<1>10. ASSUME NEW o \in pts'[rep[Pointer(e)]] \ NonPtrObj
       PROVE  ComplexSettled(e, o)'
  <2>1. <<e, o>> \in compCache \/ <<DerivedCopy(e, o), e>> \in WantedCopies(C, getPts(Pointer(e)))
    BY <1>1, <1>3, <1>10 DEF WantedCopies, getPts
  <2> QED BY <1>1, <1>2, <2>1 DEF ComplexSettled
<1>11. \A f \in fEdges' : f \notin fEdges => f = e
  BY <1>1
<1>12. DirectOwed' /\ ComplexOwed'
  <2>1. \A f \in fEdges' : f \notin fEdges /\ IsComplex(f) =>
          \A o \in pts'[rep[Pointer(f)]] \ NonPtrObj : ComplexSettled(f, o)'
    BY <1>10, <1>11
  <2> QED BY <1>1, <1>4, <1>5, <1>8, <1>9, <2>1, OwedKept
<1> QED BY <1>1, <1>6, <1>12

(* Two representatives that detection merges have an edge between them whose
   effect is still queued: merging therefore leaves a debt that covers them. *)
LEMMA MergeLeavesDebt ==
  ASSUME TypeOK, GraphsAgree, SuperAcyclic, Inserting, SCCBreak, NEW m,
         \A r \in Reps : m[r] \in Reps,
         \A n, k \in Reps : m[n] = m[k] <=> SameCycle(Reps, SuperDirect, n, k),
         NEW r \in Reps, NEW k \in Reps, m[k] = m[r], r # k
  PROVE  \E c \in insDirectConsVec : m[rep[c.src]] = m[r] /\ m[rep[c.dst]] = m[r]
<1> PICK q : q = m[r]
  OBVIOUS
<1>1. Reps \in SUBSET Node
  BY RepTypes
<1>2. PICK E, D, V : /\ E = SuperDirect /\ D = SuperDirect \ NewLifts /\ V = Reps
  OBVIOUS
<1>3. PICK Cl : Cl = CycleOf(V, E, k)
  OBVIOUS
<1>4. r \in Cl /\ k \in Cl /\ Cl \in SUBSET V
  BY <1>1, <1>2, <1>3, SameCycleEquivalence DEF CycleOf
<1>5. \A x \in Cl : x \in V /\ m[x] = q
  BY <1>2, <1>3 DEF CycleOf
<1>6. ~(\A e \in E : e.src \in Cl /\ e.dst \in Cl => e \in D)
  <2>1. SUFFICES ASSUME \A e \in E : e.src \in Cl /\ e.dst \in Cl => e \in D PROVE FALSE
    OBVIOUS
  <2>2. \A x, y \in Cl : y \in Reached(V, D, x)
    <3>1. SUFFICES ASSUME NEW x \in Cl, NEW y \in Cl PROVE y \in Reached(V, D, x)
      OBVIOUS
    <3>2. Cl = CycleOf(V, E, x)
      <4>1. V \in SUBSET Node /\ x \in V /\ k \in V
        BY <1>1, <1>2, <1>5
      <4>2. SameCycle(V, E, k, x)
        BY <1>3 DEF CycleOf
      <4> QED BY <1>3, <4>1, <4>2, ComponentsAreCycles
    <3>3. y \in Reached(CycleOf(V, E, x), E, x)
      BY <1>1, <1>2, <1>5, <3>2, CycleReachedInside
    <3>4. y \in Reached(Cl, E, x)
      BY <3>2, <3>3
    <3>5. Reached(Cl, E, x) \subseteq Reached(V, D, x)
      BY <1>1, <1>2, <1>4, <2>1, ReachedMonotone
    <3> QED BY <3>4, <3>5
  <2>3. SameCycle(V, D, r, k)
    BY <1>4, <2>2 DEF SameCycle
  <2> QED BY <1>2, <2>3 DEF SuperAcyclic
<1>7. PICK e \in SuperDirect : e.src \in Cl /\ e.dst \in Cl /\ e \in NewLifts
  BY <1>2, <1>6
<1>8. PICK c \in insDirectConsVec : e = Lift(c)
  BY <1>7 DEF NewLifts
<1>9. rep[c.src] = e.src /\ rep[c.dst] = e.dst
  BY <1>8, LiftFacts DEF Lift
<1> QED BY <1>5, <1>7, <1>8, <1>9

(* Cycles are merged: a merged cycle has the facts of all its members, and
   each of its edges is still accounted for. *)
LEMMA DetectOwed ==
  ASSUME BoundInv, Merges, AddrHeld, DirectOwed, ComplexOwed, SCCDetect
  PROVE  AddrHeld' /\ DirectOwed' /\ ComplexOwed' /\ Inserting'
<1>1. /\ pc = "insDirect" /\ pc' = "insCons" /\ SCCBreak /\ Inserting /\ Inserting'
      /\ UNCHANGED <<flatVars, delVars, insVars, pdmVars, roundVars, stack>>
      /\ insDirectEdgeVec = {}
  BY DEF SCCDetect, Inserting, delVars
<1>2. TypeOK /\ GraphsAgree /\ stack = <<>> /\ ~Over
  BY <1>1, InsertingFacts
<1>3. insPropMap = {} /\ unFilterSet = {} /\ SuperAcyclic
  BY <1>1 DEF BoundInv, VectorsClean, Merges
<1>4. PICK m : /\ \A r \in Reps : m[r] \in Reps /\ m[m[r]] = m[r]
                                  /\ SameCycle(Reps, SuperDirect, r, m[r])
               /\ \A r, q \in Reps : m[r] = m[q] <=> SameCycle(Reps, SuperDirect, r, q)
               /\ mergeSccCycle(m)
               /\ \A n \in Node : rep'[n] = m[rep[n]]
               /\ pts' = [n \in Node |-> IF n \in Reps /\ m[n] = n
                                         THEN UNION {pts[k] : k \in {x \in Reps : m[x] = n}}
                                         ELSE pts[n]]
  BY <1>2, DetectedReps
<1>5. Reps \in SUBSET Node /\ \A n \in Node : rep[n] \in Reps
  BY <1>2, RepTypes
<1>6. \A r \in Reps : pts[r] \subseteq pts'[m[r]]
  BY <1>4, <1>5
<1>7. \A r \in Reps : \A x \in pts'[m[r]] : \E k \in Reps : m[k] = m[r] /\ x \in pts[k]
  BY <1>4, <1>5
<1>8. AddrHeld'
  <2>1. SUFFICES ASSUME NEW e \in fEdges, e.kind = "Addr" PROVE e.src \in pts'[rep'[e.dst]]
    BY <1>1 DEF AddrHeld, getPts, flatVars
  <2>2. e.dst \in Node /\ e.src \in pts[rep[e.dst]]
    BY <1>2, <2>1, RepTypes DEF AddrHeld, getPts
  <2> QED BY <1>4, <1>5, <1>6, <2>2
<1>9. ASSUME NEW r \in Reps, NEW x \in pts'[m[r]]
      PROVE  x \in pts[r] \/ MergeDebt(m[r], x)'
  <2>1. PICK k \in Reps : m[k] = m[r] /\ x \in pts[k]
    BY <1>7, <1>9
  <2>2. SUFFICES ASSUME k # r PROVE MergeDebt(m[r], x)'
    BY <2>1
  <2>3. PICK q : q = m[r]
    OBVIOUS
  <2>4. PICK c \in insDirectConsVec : m[rep[c.src]] = q /\ m[rep[c.dst]] = q
    <3>1. \A n \in Reps : m[n] \in Reps
      BY <1>4
    <3>2. \A n, j \in Reps : m[n] = m[j] <=> SameCycle(Reps, SuperDirect, n, j)
      BY <1>4
    <3>3. TypeOK /\ GraphsAgree /\ SuperAcyclic /\ Inserting /\ SCCBreak
      BY <1>1, <1>2, <1>3
    <3>4. m[r] = q /\ m[k] = q /\ r # k /\ r \in Reps /\ k \in Reps
      BY <2>1, <2>2, <2>3
    <3> HIDE <1>4
    <3>5. \E c \in insDirectConsVec : m[rep[c.src]] = m[r] /\ m[rep[c.dst]] = m[r]
      BY <3>1, <3>2, <3>3, <3>4, MergeLeavesDebt
    <3> QED BY <2>3, <3>5
  <2>5. c.src \in Node /\ c.dst \in Node
    BY <1>2 DEF TypeOK, InsTypeOK, DirectEdge, Edge
  <2>6. rep'[c.src] = q /\ rep'[c.dst] = q /\ c \in insDirectConsVec'
    BY <1>1, <1>4, <2>4, <2>5 DEF insVars
  <2> QED BY <2>3, <2>6 DEF MergeDebt
<1>10. \A r \in Reps : \A x : MergeDebt(r, x) => MergeDebt(m[r], x)'
  <2>1. SUFFICES ASSUME NEW r \in Reps, NEW x, MergeDebt(r, x) PROVE MergeDebt(m[r], x)'
    OBVIOUS
  <2>2. PICK c \in insDirectConsVec : rep[c.src] = r /\ rep[c.dst] = r
    BY <1>3, <2>1 DEF MergeDebt
  <2>3. c.src \in Node /\ c.dst \in Node
    BY <1>2 DEF TypeOK, InsTypeOK, DirectEdge, Edge
  <2>4. rep'[c.src] = m[r] /\ rep'[c.dst] = m[r] /\ c \in insDirectConsVec'
    BY <1>1, <1>4, <2>2, <2>3 DEF insVars
  <2> QED BY <2>4 DEF MergeDebt
<1>11. DirectOwed'
  <2>1. SUFFICES ASSUME NEW u \in SuperDirect', u.src # u.dst, NEW x \in pts'[u.src],
                        NEW o \in Transfer(u.kind, {x})
                 PROVE  DirectSettled(u, x, o)'
    BY DEF DirectOwed
  <2>2. PICK s \in sEdges : u = LiftBy(m, s)
    BY <1>4, <2>1 DEF mergeSccCycle, SuperDirect
  <2>3. /\ u.kind = s.kind /\ u.src = m[s.src] /\ u.dst = m[s.dst] /\ IsDirect(s)
    BY <2>1, <2>2, LiftFacts DEF SuperDirect, IsDirect
  <2>4. s.src \in Reps /\ s.dst \in Reps /\ s \in SuperDirect /\ s.src # s.dst
    BY <1>2, <2>1, <2>3 DEF SuperDirect, GraphsAgree, SuperEdgesUsed, Reps, TypeOK, SuperTypeOK, Edge
  <2>5. CASE MergeDebt(u.src, x)'
    BY <2>5 DEF DirectSettled
  <2>6. CASE x \in pts[s.src]
    <3>1. DirectSettled(s, x, o)
      BY <1>1, <2>1, <2>3, <2>4, <2>6 DEF DirectOwed
    <3>2. CASE o \in pts[s.dst]
      BY <1>6, <2>3, <2>4, <3>2 DEF DirectSettled
    <3>3. CASE \E c \in insDirectConsVec : Lift(c) = s
      <4>1. PICK c \in insDirectConsVec : Lift(c) = s
        BY <3>3
      <4>2. c.src \in Node /\ c.dst \in Node
        BY <1>2 DEF TypeOK, InsTypeOK, DirectEdge, Edge
      <4>3. LiftBy(rep', c) = u
        BY <1>4, <2>2, <4>1, <4>2 DEF LiftBy, Lift
      <4> QED BY <1>1, <4>1, <4>3 DEF DirectSettled, Lift, insVars
    <3>4. CASE \E f \in Calls(stack) : f.node = s.src /\ s \in f.outs /\ x \in f.d
      BY <1>2, <3>4, EmptyCalls
    <3>5. CASE MergeDebt(s.src, x)
      BY <1>10, <2>3, <2>4, <3>5 DEF DirectSettled
    <3> QED BY <1>3, <3>1, <3>2, <3>3, <3>4, <3>5 DEF DirectSettled
  <2>7. x \in pts[s.src] \/ MergeDebt(u.src, x)'
    BY <1>9, <2>1, <2>3, <2>4
  <2> QED BY <2>5, <2>6, <2>7
<1>12. ComplexOwed'
  <2>1. SUFFICES ASSUME NEW e \in fEdges, IsComplex(e), NEW o \in pts'[rep'[Pointer(e)]] \ NonPtrObj
                 PROVE  ComplexSettled(e, o)'
    BY <1>1 DEF ComplexOwed, getPts, flatVars
  <2>2. PICK r : r = rep[Pointer(e)]
    OBVIOUS
  <2>3. r \in Reps /\ rep'[Pointer(e)] = m[r]
    BY <1>2, <1>4, <1>5, <2>1, <2>2, PointerType DEF TypeOK, FlatTypeOK
  <2>4. CASE MergeDebt(m[r], o)'
    BY <2>3, <2>4 DEF ComplexSettled
  <2>5. CASE o \in pts[r]
    <3>1. ComplexSettled(e, o)
      BY <1>1, <2>1, <2>2, <2>5 DEF ComplexOwed, getPts
    <3>2. CASE <<e, o>> \in compCache
      BY <1>1, <3>2 DEF ComplexSettled, flatVars
    <3>3. CASE MergeDebt(r, o)
      BY <1>10, <2>3, <2>4, <3>3
    <3>4. CASE \E f \in Calls(stack) : f.node = rep[Pointer(e)] /\ o \in f.d
      BY <1>2, <3>4, EmptyCalls
    <3> QED BY <1>1, <2>2, <3>1, <3>2, <3>3, <3>4 DEF ComplexSettled
  <2>6. o \in pts[r] \/ MergeDebt(m[r], o)'
    BY <1>9, <2>1, <2>3
  <2> QED BY <2>4, <2>5, <2>6
<1> QED BY <1>1, <1>8, <1>11, <1>12

(* When the insertion starts every edge is applied, so nothing is owed. *)
LEMMA StartInsertionOwed ==
  ASSUME BoundInv, Facts, StartInsertion \/ StartDiffInsertion
  PROVE  AddrHeld' /\ DirectOwed' /\ ComplexOwed' /\ Inserting'
<1>1. /\ pc = "deleted" /\ ~Inserting /\ Inserting'
      /\ UNCHANGED <<rep, pts, fEdges, sEdges, compCache>>
  BY DEF StartInsertion, StartDiffInsertion, Inserting, flatVars, superVars
<1>2. TypeOK /\ GraphsAgree /\ AddrHeld /\ DirectHeld /\ ComplexHeld
  BY <1>1, InsertingFacts DEF Facts, DirectClosed, ComplexClosed
<1>3. AddrHeld'
  BY <1>1, <1>2 DEF AddrHeld, getPts
<1>4. DirectOwed'
  <2>1. SUFFICES ASSUME NEW s \in SuperDirect, s.src # s.dst, NEW x \in pts[s.src],
                        NEW o \in Transfer(s.kind, {x})
                 PROVE  o \in pts[s.dst]
    BY <1>1 DEF DirectOwed, DirectSettled, SuperDirect
  <2>2. PICK e \in FlatDirect : e.kind = s.kind /\ rep[e.src] = s.src /\ rep[e.dst] = s.dst
    BY <1>2, <2>1, SuperEdgeLifts
  <2>3. e.kind \in DirectKind
    BY DEF FlatDirect, IsDirect
  <2>4. o \in Transfer(e.kind, getPts(e.src))
    BY <2>1, <2>2, <2>3, TransferPoints DEF getPts
  <2> QED BY <1>2, <2>2, <2>4 DEF DirectHeld, getPts
<1>5. ComplexOwed'
  BY <1>1, <1>2 DEF ComplexOwed, ComplexHeld, ComplexSettled, getPts
<1> QED BY <1>1, <1>3, <1>4, <1>5

(* When the vectors are empty nothing is owed any more: every edge is
   applied. *)
LEMMA NothingOwed ==
  ASSUME BoundInv, Merges, DirectOwed, ComplexOwed, InsIterationDone, pc' = "idle"
  PROVE  DirectHeld /\ ComplexHeld
<1>1. pc = "insEdge" /\ Inserting /\ stack = <<>> /\ insDirectEdgeVec = {}
  BY DEF InsIterationDone, Inserting
<1>2. /\ TypeOK /\ GraphsAgree /\ ~Over /\ RepsOnCycles /\ RoundsCount /\ fEdges \subseteq SolvedEdges
      /\ EdgesLifted
  BY <1>1, InsertingFacts DEF EdgesBounded, Merges
<1>3. insDirectConsVec = {} /\ insPropMap = {} /\ Calls(stack) = {}
  BY <1>1, EmptyCalls DEF BoundInv, VectorsClean
<1>4. \A r, x : ~MergeDebt(r, x)
  BY <1>3 DEF MergeDebt
<1>5. DirectHeld
  <2>1. SUFFICES ASSUME NEW e \in FlatDirect, NEW o \in Transfer(e.kind, getPts(e.src))
                 PROVE  o \in getPts(e.dst)
    BY DEF DirectHeld
  <2>2. /\ e \in fEdges /\ e.kind \in DirectKind /\ IsDirect(e) /\ e.src \in Node /\ e.dst \in Node
        /\ Lift(e) \in SuperDirect
        /\ Lift(e).kind = e.kind /\ Lift(e).src = rep[e.src] /\ Lift(e).dst = rep[e.dst]
    BY <1>2, SuperEdgeOf DEF FlatDirect
  <2>3. CASE rep[e.src] = rep[e.dst]
    <3>1. e.kind = "Copy"
      BY <1>2, <2>2, <2>3, InnerIsCopy
    <3> QED BY <2>1, <2>3, <3>1, CopyTransfers DEF getPts
  <2>4. CASE rep[e.src] # rep[e.dst]
    <3>1. PICK x \in getPts(e.src) : o \in Transfer(e.kind, {x})
      <4>1. PICK S : S = getPts(e.src)
        OBVIOUS
      <4>2. o \in Transfer(e.kind, S)
        BY <2>1, <4>1
      <4>3. PICK k \in DirectKind : k = e.kind
        BY <2>2
      <4>4. \E x \in S : o \in Transfer(k, {x})
        BY <4>2, <4>3 DEF Transfer, DirectKind
      <4> QED BY <4>1, <4>3, <4>4
    <3>2. PICK s : s = Lift(e)
      OBVIOUS
    <3>3. DirectSettled(s, x, o)
      BY <1>1, <2>2, <2>4, <3>1, <3>2 DEF DirectOwed, getPts
    <3> QED BY <1>3, <1>4, <2>2, <3>2, <3>3 DEF DirectSettled, getPts
  <2> QED BY <2>3, <2>4
<1>6. ComplexHeld
  BY <1>1, <1>3, <1>4 DEF ComplexHeld, ComplexOwed, ComplexSettled
<1> QED BY <1>5, <1>6

(* The facts of the state after a step, from what holds of it. *)
LEMMA InsertingKeepsFacts ==
  ASSUME AddrHeld', DirectOwed', ComplexOwed', Inserting'
  PROVE  Facts'
BY DEF Facts, DirectClosed, ComplexClosed, CyclesSupported, FramesApart, Inserting, Deleting

(* With nothing owed the facts hold at rest. *)
LEMMA RestFacts ==
  ASSUME AddrHeld, DirectHeld, ComplexHeld, UNCHANGED <<fEdges, compCache, rep, pts>>, pc' = "idle"
  PROVE  Facts'
<1>1. ~Inserting' /\ ~Deleting'
  BY DEF Inserting, Deleting
<1>2. AddrHeld' /\ DirectHeld' /\ ComplexHeld'
  BY DEF AddrHeld, DirectHeld, ComplexHeld, FlatDirect, getPts
<1> QED BY <1>1, <1>2 DEF Facts, DirectClosed, ComplexClosed, CyclesSupported, FramesApart,
                          DirectOwed, ComplexOwed

(* Every step of the insertion phase accounts for what it leaves open. *)
LEMMA InsertionKeepsFacts ==
  ASSUME BoundInv, Merges, Facts, Kept, InsertionStep
  PROVE  Facts' /\ Kept'
<1>1. CASE FinishOld
  <2>1. AddrHeld /\ DirectHeld /\ ComplexHeld
    BY <1>1 DEF Facts, DirectClosed, ComplexClosed, FinishOld, Inserting
  <2>2. UNCHANGED <<fEdges, compCache, rep, pts>> /\ pc' = "idle"
    BY <1>1 DEF FinishOld, flatVars, superVars
  <2> QED BY <1>1, <2>1, <2>2, RestFacts, FinishKept
<1>2. CASE StartInsertion \/ StartDiffInsertion
  <2>1. TypeOK /\ VectorsClean
    BY DEF BoundInv, Inv
  <2> QED BY <1>2, <2>1, StartInsertionOwed, InsertingKeepsFacts, StartInsertionKept
<1>3. AddrHeld /\ DirectOwed /\ ComplexOwed
  BY DEF Facts
<1>4. CASE InsIterationDone /\ pc' = "idle"
  <2>1. DirectHeld /\ ComplexHeld
    BY <1>3, <1>4, NothingOwed
  <2>2. UNCHANGED <<fEdges, compCache, rep, pts>>
    BY <1>4 DEF InsIterationDone, flatVars, superVars
  <2> QED BY <1>3, <1>4, <2>1, <2>2, RestFacts, EndKept
<1>5. CASE \/ \E s \in PendingOuts : InsOut(s)
           \/ InsComplex
           \/ \E x \in insDirectEdgeVec : processCopyAddition(x[1], x[2]) \/ processGepAddition(x[1])
           \/ SkipSCCDetect \/ SCCDetect
           \/ \E e \in insDirectConsVec : processDirectConstraintAddition(e)
           \/ InsConsDone
           \/ \E n \in Node : ProcessPropMap(n)
           \/ InsPropDone
           \/ \E e \in insEdgeVec : processAddrAddition(e) \/ processComplexAddition(e)
           \/ InsIterationDone /\ pc' # "idle"
  <2>1. Kept'
    BY <1>5, InsertingKept
  <2>2. AddrHeld' /\ DirectOwed' /\ ComplexOwed' /\ Inserting'
    <3>1. CASE \E s \in PendingOuts : InsOut(s)
      BY <1>3, <3>1, InsOutOwed
    <3>2. CASE InsComplex
      BY <1>3, <3>2, InsComplexOwed
    <3>3. CASE \E x \in insDirectEdgeVec : processCopyAddition(x[1], x[2]) \/ processGepAddition(x[1])
      BY <1>3, <3>3, DirectAdditionOwed
    <3>4. CASE SkipSCCDetect
      BY <1>3, <3>4, QuietInsertionOwed
    <3>9. CASE InsConsDone
      BY <1>3, <3>9, QuietInsertionOwed
    <3>10. CASE InsPropDone
      BY <1>3, <3>10, QuietInsertionOwed
    <3>11. CASE InsIterationDone /\ pc' # "idle"
      BY <1>3, <3>11, QuietInsertionOwed
    <3>5. CASE SCCDetect
      BY <1>3, <3>5, DetectOwed
    <3>6. CASE \E e \in insDirectConsVec : processDirectConstraintAddition(e)
      BY <1>3, <3>6, ConstraintAdditionOwed
    <3>7. CASE \E n \in Node : ProcessPropMap(n)
      BY <1>3, <3>7, PropMapOwed
    <3>8. CASE \E e \in insEdgeVec : processAddrAddition(e) \/ processComplexAddition(e)
      BY <1>3, <3>8, AddrAdditionOwed, ComplexAdditionOwed
    <3> QED BY <1>5, <3>1, <3>2, <3>3, <3>4, <3>5, <3>6, <3>7, <3>8, <3>9, <3>10, <3>11
  <2> QED BY <2>1, <2>2, InsertingKeepsFacts
<1> QED BY <1>1, <1>2, <1>4, <1>5 DEF InsertionStep

-----------------------------------------------------------------------------
(* The inductive invariant *)

(* A round starts from the solution, in which every edge is applied. *)
LEMMA StartFacts ==
  ASSUME BoundInv, Facts, Kept, NEW D \in SUBSET base, StartRound(D)
  PROVE  Facts'
<1>1. /\ pc = "idle" /\ ~Inserting /\ ~Inserting' /\ Deleting'
      /\ UNCHANGED <<fEdges, compCache, rep, pts, base, stack>>
  BY DEF StartRound, Inserting, Deleting, flatVars, superVars
<1>2. ~Over /\ TypeOK /\ GraphsAgree /\ stack = <<>>
  BY <1>1, StartBound DEF BoundInv, Inv, Ledger, PhaseClean
<1>3. AddrHeld /\ DirectHeld /\ ComplexHeld
  BY <1>1 DEF Facts, DirectClosed, ComplexClosed
<1>4. AddrHeld' /\ DirectHeld' /\ ComplexHeld'
  BY <1>1, <1>3 DEF AddrHeld, DirectHeld, ComplexHeld, FlatDirect, getPts
<1>5. CyclesSupported'
  <2>1. \A n \in Node : getPts(n) = Solved[n]
    BY <1>1, <1>2, ExactAtRest
  <2>2. \A n \in Node : pts[rep[n]] = Solved[rep[n]]
    BY <1>2, <2>1, RepTypes DEF getPts
  <2> QED BY <1>1, <2>2 DEF CyclesSupported, Solved
<1>6. FramesApart'
  BY <1>1, <1>2, EmptyCalls DEF FramesApart
<1> QED BY <1>1, <1>4, <1>5, <1>6 DEF Facts, DirectClosed, ComplexClosed, DirectOwed, ComplexOwed

(* Initially the points-to sets and the edges are those of the solution. *)
LEMMA InitFacts ==
  ASSUME Init, BoundInv
  PROVE  Facts /\ Kept
<1>1. /\ pc = "idle" /\ ~Inserting /\ ~Deleting /\ ~Over /\ TypeOK /\ GraphsAgree /\ RoundsCount
      /\ RepsOnCycles
  BY InitBound, InitType, InitGraphs DEF Init, Inserting, Deleting, Bounded
<1>2. /\ SolvedFlat(base, Solved) /\ prePts = Solved
      /\ \E m \in RepChoices(Node, Components(Node, {e \in fEdges : IsDirect(e)})) :
           /\ SolvedSuper(m)
           /\ \E stale \in BOOLEAN : pts = SolvedPts(Solved, m, stale)
  BY DEF Init, Solved
<1>3. fEdges = SolvedEdges
  BY <1>2 DEF SolvedFlat, SolvedEdges, DerivedCopies
<1>4. PICK stale \in BOOLEAN : pts = SolvedPts(Solved, rep, stale)
  BY <1>2 DEF SolvedSuper
<1>5. \A n \in Node : getPts(n) = Solved[n]
  <2>1. SUFFICES ASSUME NEW n \in Node PROVE pts[rep[n]] = Solved[n]
    BY DEF getPts
  <2>2. \A k \in Node : rep[k] \in Node /\ rep[rep[k]] = rep[k] /\ Solved[rep[k]] = Solved[k]
    BY <1>1, RepFacts
  <2>3. pts[rep[n]] = UNION {Solved[k] : k \in {x \in Node : rep[x] = rep[n]}}
    BY <1>4, <2>2 DEF SolvedPts
  <2>4. \A k \in {x \in Node : rep[x] = rep[n]} : Solved[k] = Solved[n]
    BY <2>2
  <2> QED BY <2>3, <2>4
<1>6. base \in SUBSET ProgramEdge /\ Closes(base, Solved) /\ Solved \in Assignment
  BY <1>1, ProgramFacts
<1>7. \A e \in SolvedEdges : e.kind # "Copy" => e \in base
  BY <1>1, DerivedOutside
<1>8. AddrHeld
  <2>1. SUFFICES ASSUME NEW e \in SolvedEdges, e.kind = "Addr" PROVE e.src \in Solved[e.dst]
    BY <1>1, <1>3, <1>5, RepTypes DEF AddrHeld
  <2> QED BY <1>6, <1>7, <2>1 DEF Closes
<1>9. DirectHeld
  <2>1. SUFFICES ASSUME NEW e \in FlatDirect PROVE Transfer(e.kind, getPts(e.src)) \subseteq getPts(e.dst)
    BY DEF DirectHeld
  <2>2. e \in SolvedEdges /\ IsDirect(e)
    BY <1>3 DEF FlatDirect
  <2>3. e.src \in Node /\ e.dst \in Node /\ Transfer(e.kind, Solved[e.src]) \subseteq Solved[e.dst]
    BY <1>1, <2>2, SolvedEdgeCarries
  <2> QED BY <1>5, <2>3
<1>10. ComplexHeld
  <2>1. SUFFICES ASSUME NEW e \in fEdges, IsComplex(e), NEW o \in getPts(Pointer(e)) \ NonPtrObj
                 PROVE  <<e, o>> \in compCache
    BY DEF ComplexHeld
  <2>2. e \in base
    BY <1>3, <1>7, <2>1 DEF IsComplex, ComplexKind
  <2>3. Pointer(e) \in Node
    BY <1>6, <2>2, PointerType DEF ProgramEdge
  <2>4. o \in Solved[Pointer(e)] /\ o \in Obj
    BY <1>5, <1>6, <2>1, <2>3 DEF Assignment
  <2> QED BY <1>2, <2>1, <2>2, <2>4 DEF SolvedFlat
<1>11. Facts
  BY <1>1, <1>8, <1>9, <1>10
     DEF Facts, DirectClosed, ComplexClosed, CyclesSupported, FramesApart, DirectOwed, ComplexOwed
<1>12. Kept
  BY <1>1, <1>2, <1>3 DEF Init, Kept, KeptInDeletion, KeptInInsertion, SolvedEdges
<1> QED BY <1>11, <1>12

(* Nothing changes when no variable does. *)
LEMMA StutterExact ==
  ASSUME Merges, Facts, Kept, UNCHANGED vars
  PROVE  Merges' /\ Facts' /\ Kept'
<1> USE DEF vars, flatVars, superVars, delVars, insVars, pdmVars, ctlVars, roundVars
<1>1. Merges'
  BY DEF Merges, EdgesLifted, LoopsKept, ClassesConnected, CyclesMerged, SuperAcyclic, SolvedMerged,
     Lift, Over, ClassOf, FlatDirect, Inserting, Reps, SuperDirect, NewLifts, OnCycle
<1>2. Facts'
  <2>1. AddrHeld' /\ DirectClosed' /\ ComplexClosed'
    BY DEF Facts, AddrHeld, DirectHeld, ComplexHeld, DirectClosed, ComplexClosed, getPts, FlatDirect,
       Inserting
  <2>2. CyclesSupported' /\ FramesApart'
    BY DEF Facts, CyclesSupported, FramesApart, Deleting, Solved, Calls
  <2>3. \A r, x : MergeDebt(r, x) => MergeDebt(r, x)'
    BY DEF MergeDebt
  <2>4. \A s, x, o : DirectSettled(s, x, o) => DirectSettled(s, x, o)'
    BY <2>3 DEF DirectSettled, Lift, Calls
  <2>5. \A e, o : ComplexSettled(e, o) => ComplexSettled(e, o)'
    <3>1. \A e : rep'[Pointer(e)] = rep[Pointer(e)]
      OBVIOUS
    <3> QED BY <2>3, <3>1 DEF ComplexSettled, Calls
  <2>6. DirectOwed'
    BY <2>4 DEF Facts, DirectOwed, SuperDirect, Inserting
  <2>7. ComplexOwed'
    BY <2>5 DEF Facts, ComplexOwed, Inserting, getPts
  <2> QED BY <2>1, <2>2, <2>6, <2>7 DEF Facts
<1>3. Kept'
  BY DEF Kept, KeptInDeletion, KeptInInsertion, Remaining, Deleting, Inserting, Solved
<1> QED BY <1>1, <1>2, <1>3

(* The invariant is inductive. *)
LEMMA ExactInductive ==
  ASSUME ExactInv, [Next]_vars
  PROVE  ExactInv'
<1>1. BoundInv /\ CyclesReady /\ Merges /\ Facts /\ Kept /\ TypeOK /\ GraphsAgree
  BY DEF ExactInv, BoundInv, Inv
<1>2. BoundInv' /\ GraphsAgree'
  BY <1>1, BoundInductive DEF BoundInv, Inv
<1>3. CyclesReady'
  BY <1>1, CyclesInductive
<1>4. Merges' /\ Facts' /\ Kept'
  <2>1. CASE UNCHANGED vars
    BY <1>1, <2>1, StutterExact
  <2>2. ASSUME NEW D \in SUBSET base, StartRound(D)
        PROVE  Merges' /\ Facts' /\ Kept'
    <3>1. ~Over => \A e \in SolvedDirect(base) : e \in fEdges
      <4>1. pc = "idle"
        BY <2>2 DEF StartRound
      <4> QED BY <1>1, <4>1, ExactAtRest, ProgramFacts DEF BoundInv
    <3> QED BY <1>1, <2>2, <3>1, StartMerges, StartFacts, StartKept
  <2>3. CASE DeletionStep
    BY <1>1, <1>2, <2>3, DeletionMerges, DeletionKeepsFacts, DeletionKept
  <2>4. CASE InsertionStep
    BY <1>1, <2>4, InsertionMerges, InsertionKeepsFacts
  <2> QED BY <2>1, <2>2, <2>3, <2>4 DEF Next
<1> QED BY <1>2, <1>3, <1>4 DEF ExactInv

(* The invariant holds in every reachable state. *)
LEMMA ExactInvariant == Spec => []ExactInv
<1>1. Init => ExactInv
  <2>1. SUFFICES ASSUME Init PROVE ExactInv
    OBVIOUS
  <2>2. BoundInv
    BY <2>1, InitType, InitGraphs, InitLedger, InitBound DEF BoundInv, Inv
  <2> QED BY <2>1, <2>2, InitCycles, InitMerges, InitFacts DEF ExactInv
<1>2. ExactInv /\ [Next]_vars => ExactInv'
  BY ExactInductive
<1> QED BY <1>1, <1>2, PTL DEF Spec

-----------------------------------------------------------------------------
(* What follows from the invariant *)

(* Inserting what was deleted gives the solution of the program back, for
   every program, every choice of representatives and every order of work;
   stepwise, no node is reported as changed. *)
THEOREM RoundIsExact == Spec => []RoundExact
<1>1. ExactInv => RoundExact
  <2>1. SUFFICES ASSUME ExactInv, pc = "idle", mode # "old"
                 PROVE  Exact(base) /\ (mode = "step" => ptsChangeNodes = {})
    BY DEF RoundExact
  <2>2. ~Over /\ BoundInv /\ Facts /\ Kept /\ RoundsCount
    BY <2>1 DEF ExactInv, Over, BoundInv
  <2>3. \A n \in Node : getPts(n) = Solved[n]
    BY <2>1, <2>2, ExactAtRest
  <2>4. Solved \in [Node -> SUBSET Obj]
    BY <2>2, ProgramFacts DEF Assignment
  <2>5. Exact(base)
    BY <2>3, <2>4 DEF Exact, Solved
  <2> QED BY <2>2, <2>5 DEF Kept
<1> QED BY <1>1, ExactInvariant, PTL

(* From its first step on the deletion leaves no node without an object the
   remaining program implies. *)
LEMMA DeletionStaysSound ==
  ASSUME ExactInv, Deleting \/ pc = "deleted"
  PROVE  \A n \in Node : LeastSolution(base \ diff)[n] \subseteq getPts(n)
<1>1. /\ TypeOK /\ GraphsAgree /\ OwnersLive /\ CacheExact
      /\ AddrHeld /\ DirectHeld /\ ComplexHeld
  BY DEF ExactInv, BoundInv, Inv, Ledger, Facts, DirectClosed, ComplexClosed, Inserting, Deleting
<1>2. PICK B : B = base \ diff
  OBVIOUS
<1>3. B \in SUBSET ProgramEdge /\ B \subseteq fEdges
  BY <1>1, <1>2 DEF ExactInv, Kept, KeptInDeletion, Remaining, TypeOK, RoundTypeOK
<1>4. \A n \in Node : LeastSolution(B)[n] \subseteq getPts(n)
  BY <1>1, <1>3, ClosedIsSound
<1> QED BY <1>2, <1>4

(* What is left when the deletion is over contains everything the remaining
   program implies. *)
THEOREM DeletionIsSound == Spec => []DeletionSound
<1>1. ExactInv => DeletionSound
  BY DeletionStaysSound DEF DeletionSound, Sound
<1> QED BY <1>1, ExactInvariant, PTL

(* When a phase ends every direct edge is applied and every load and store
   has its derived copies. *)
THEOREM PhasesEndClosed == Spec => []Closed
<1>1. ExactInv => Closed
  <2>1. SUFFICES ASSUME ExactInv, pc \in {"deleted", "idle"}, NEW e \in fEdges
                 PROVE  /\ IsDirect(e) => Transfer(e.kind, getPts(e.src)) \subseteq getPts(e.dst)
                        /\ IsComplex(e) =>
                             \A o \in getPts(Pointer(e)) \ NonPtrObj : DerivedCopy(e, o) \in fEdges
    BY DEF Closed
  <2>2. TypeOK /\ OwnersLive /\ CacheExact /\ DirectHeld /\ ComplexHeld
    BY <2>1 DEF ExactInv, BoundInv, Inv, Ledger, Facts, DirectClosed, ComplexClosed, Inserting
  <2>3. IsDirect(e) => Transfer(e.kind, getPts(e.src)) \subseteq getPts(e.dst)
    BY <2>2 DEF DirectHeld, FlatDirect
  <2>4. ASSUME IsComplex(e), NEW o \in getPts(Pointer(e)) \ NonPtrObj
        PROVE  DerivedCopy(e, o) \in fEdges
    <3>1. PICK x : x = <<e, o>>
      OBVIOUS
    <3>2. x \in compCache /\ x[1] = e /\ x[2] = o
      BY <2>2, <2>4, <3>1 DEF ComplexHeld
    <3>3. DerivedCopy(x[1], x[2]) \in fEdges
      BY <2>2, <3>2, PairsOfLedger
    <3> QED BY <3>2, <3>3
  <2> QED BY <2>3, <2>4
<1> QED BY <1>1, ExactInvariant, PTL

(* When a phase ends the merged nodes are exactly the cycles of the flat
   graph. *)
THEOREM MergesMatchCycles == Spec => []MergedAreCycles
<1>1. ExactInv => MergedAreCycles
  <2>1. SUFFICES ASSUME ExactInv, pc \in {"deleted", "idle"}
                 PROVE  {sccSubNodes(r) : r \in Reps} = Components(Node, FlatDirect)
    BY DEF MergedAreCycles, FlatDirect
  <2>2. /\ TypeOK /\ GraphsAgree /\ CyclesMerged /\ ClassesConnected /\ redetectReps = {} /\ ~Inserting
    BY <2>1 DEF ExactInv, BoundInv, Inv, Merges, VectorsClean, Inserting
  <2>3. \A r \in Reps : sccSubNodes(r) = ClassOf(r)
    <3>1. SUFFICES ASSUME NEW r \in Reps PROVE sccSubNodes(r) = ClassOf(r)
      OBVIOUS
    <3>2. r \in Node /\ rep[r] = r
      BY <2>2, RepTypes
    <3> QED BY <2>2, <3>2 DEF GraphsAgree, SubsMatchReps, ClassOf
  <2>4. \A n, k \in Node : rep[n] = rep[k] => k \in Reached(Node, FlatDirect, n)
    <3>1. SUFFICES ASSUME NEW n \in Node, NEW k \in Node, rep[n] = rep[k]
                   PROVE  k \in Reached(Node, FlatDirect, n)
      OBVIOUS
    <3>2. PICK V, E : V = ClassOf(rep[n]) /\ E = FlatDirect
      OBVIOUS
    <3>3. n \in V /\ k \in V /\ V \in SUBSET Node
      BY <3>1, <3>2 DEF ClassOf
    <3>4. k \in Reached(V, E, n)
      BY <2>2, <3>1, <3>2, <3>3 DEF ClassesConnected
    <3>5. Node \in SUBSET Node /\ V \in SUBSET Node
      BY <3>3
    <3>6. Reached(V, E, n) \subseteq Reached(Node, E, n)
      BY <3>3, <3>5, ReachedMonotone
    <3> QED BY <3>2, <3>4, <3>6
  <2>5. \A n, k \in Node : SameCycle(Node, FlatDirect, n, k) <=> rep[n] = rep[k]
    BY <2>2, <2>4 DEF CyclesMerged, SameCycle
  <2>6. \A n \in Node : CycleOf(Node, FlatDirect, n) = ClassOf(rep[n])
    BY <2>5 DEF CycleOf, ClassOf
  <2>7. Components(Node, FlatDirect) = {CycleOf(Node, FlatDirect, n) : n \in Node}
    <3>1. PICK V, E : V = Node /\ E = FlatDirect
      OBVIOUS
    <3>2. V \in SUBSET Node
      BY <3>1
    <3>3. Components(V, E) = {CycleOf(V, E, v) : v \in V}
      BY <3>2, ComponentsAreCycles
    <3> QED BY <3>1, <3>3
  <2>8. Reps \in SUBSET Node /\ \A r \in Reps : rep[r] = r
    BY <2>2, RepTypes
  <2>9. \A n \in Node : rep[n] \in Reps
    BY <2>2, RepTypes
  <2>10. {sccSubNodes(r) : r \in Reps} = {CycleOf(Node, FlatDirect, n) : n \in Node}
    BY <2>3, <2>6, <2>8, <2>9
  <2> QED BY <2>7, <2>10
<1> QED BY <1>1, ExactInvariant, PTL

(***************************************************************************)
(* What one step does to the sets getPts answers with                      *)
(***************************************************************************)
(* A call of propagateDelPts only takes objects from the set of one
   representative. *)
LEMMA DelCallShrinks ==
  ASSUME TypeOK, NEW S, NEW n, NEW callers, propagateDelPts(S, n, callers), UNCHANGED rep
  PROVE  \A k \in Node : pts'[rep'[k]] \subseteq getPts(k)
<1>1. pts \in [Node -> SUBSET Obj] /\ \A k \in Node : rep[k] \in Node
  BY DEF TypeOK, PtsTypeOK, SuperTypeOK
<1>2. pts' = pts \/ \E r, X : pts' = [pts EXCEPT ![r] = @ \ X]
  BY Zenon DEF propagateDelPts
<1>3. \A k \in Node : pts'[k] \subseteq pts[k]
  BY <1>1, <1>2
<1> QED BY <1>1, <1>3 DEF getPts

(* A step of the deletion phase adds an object to no node: only the two
   calls of propagateDelPts touch the sets, and restoring a cycle, which
   writes whole sets, answers the same for every member as before. *)
LEMMA DeletionShrinks ==
  ASSUME BoundInv, CyclesReady, Facts, DeletionStep
  PROVE  \A n \in Node : pts'[rep'[n]] \subseteq getPts(n)
<1> USE DEF superVars
<1>1. TypeOK
  BY DEF BoundInv, Inv
<1>2. DeletionFacts
  BY DEF Facts, DeletionFacts
<1>3. ASSUME UNCHANGED <<rep, pts>>
      PROVE  \A n \in Node : pts'[rep'[n]] \subseteq getPts(n)
  BY <1>3 DEF getPts
<1>4. CASE \E s \in PendingOuts : DelOut(s)
  <2>1. PICK s : DelOut(s)
    BY <1>4
  <2>2. UNCHANGED rep
    BY <2>1 DEF DelOut
  <2>3. propagateDelPts(Transfer(s.kind, Head(stack).d), s.dst, Resumed(s))
    BY <2>1 DEF DelOut
  <2> QED BY <1>1, <2>2, <2>3, DelCallShrinks
<1>5. CASE DelComplex
  BY <1>3, <1>5 DEF DelComplex
<1>6. CASE \E e \in delDirectEdgeVec : processCopyEdgeRemoval(e) \/ processGepEdgeRemoval(e)
  BY <1>3, <1>6 DEF processCopyEdgeRemoval, processGepEdgeRemoval, dropDirectEdge, KeepDirectEdge
<1>7. CASE DelDirectDone \/ RedetectDone \/ DelIterationDone
  BY <1>3, <1>7 DEF DelDirectDone, RedetectDone, DelIterationDone
<1>8. CASE \E r \in redetectReps : SCCKeep(r)
  BY <1>3, <1>8 DEF SCCKeep
<1>9. CASE \E r \in redetectReps : SCCRestore(r)
  BY <1>2, <1>9, RestoreKeepsPts
<1>10. CASE \E e \in delEdgeVec : processAddrRemoval(e)
  <2>1. PICK e : processAddrRemoval(e)
    BY <1>10
  <2>2. UNCHANGED rep
    BY <2>1 DEF processAddrRemoval
  <2>3. propagateDelPts({e.src}, e.dst, <<>>)
    BY <2>1 DEF processAddrRemoval
  <2> QED BY <1>1, <2>2, <2>3, DelCallShrinks
<1>11. CASE \E e \in delEdgeVec : processDirectConstraintRemoval(e)
  <2>1. PICK e : processDirectConstraintRemoval(e)
    BY <1>11
  <2>2. UNCHANGED rep
    BY <2>1 DEF processDirectConstraintRemoval
  <2>3. propagateDelPts(Transfer(e.kind, getPts(e.src)), e.dst, <<>>)
    BY <2>1 DEF processDirectConstraintRemoval
  <2> QED BY <1>1, <2>2, <2>3, DelCallShrinks
<1>12. CASE \E e \in delEdgeVec : skipNormalGepConstraintRemoval(e) \/ processComplexRemoval(e)
  BY <1>3, <1>12 DEF skipNormalGepConstraintRemoval, processComplexRemoval
<1> QED BY <1>4, <1>5, <1>6, <1>7, <1>8, <1>9, <1>10, <1>11, <1>12 DEF DeletionStep

(* No step of the deletion phase adds an object to what getPts answers for
   any node, whatever cycles it takes apart. *)
THEOREM DeletionRemovesOnly == Spec => DeletionOnlyRemoves
<1>1. ASSUME ExactInv, [Next]_vars, pc \in {"delDirect", "redetect", "delEdge"}
      PROVE  \A n \in Node : pts'[rep'[n]] \subseteq getPts(n)
  <2> USE <1>1 DEF ExactInv
  <2>1. CASE DeletionStep
    BY <2>1, DeletionShrinks
  <2>2. ~InsertionStep
    BY InsertionFrame DEF InsertionMoves, Inserting, FinishOld
  <2>3. \A D : ~StartRound(D)
    BY DEF StartRound
  <2>4. CASE UNCHANGED vars
    BY <2>4 DEF vars, superVars, getPts
  <2> QED BY <2>1, <2>2, <2>3, <2>4 DEF Next
<1>2. ExactInv /\ [Next]_vars =>
        [(pc \in {"delDirect", "redetect", "delEdge"}) =>
           \A n \in Node : pts'[rep'[n]] \subseteq getPts(n)]_vars
  BY <1>1
<1> QED BY <1>2, ExactInvariant, PTL DEF Spec, DeletionOnlyRemoves

(* A call of propagateInsPts only adds objects to the set of one
   representative. *)
LEMMA InsCallGrows ==
  ASSUME TypeOK, NEW S, NEW n, NEW flag, NEW callers, propagateInsPts(S, n, flag, callers),
         UNCHANGED rep
  PROVE  \A k \in Node : getPts(k) \subseteq pts'[rep'[k]]
<1>1. pts \in [Node -> SUBSET Obj] /\ \A k \in Node : rep[k] \in Node
  BY DEF TypeOK, PtsTypeOK, SuperTypeOK
<1>2. pts' = pts \/ \E r, X : pts' = [pts EXCEPT ![r] = @ \cup X]
  BY Zenon DEF propagateInsPts
<1>3. \A k \in Node : pts[k] \subseteq pts'[k]
  BY <1>1, <1>2
<1> QED BY <1>1, <1>3 DEF getPts

(* A step of the insertion phase takes an object from no node: merging a
   cycle gives every member the union of the members' sets. *)
LEMMA InsertionGrows ==
  ASSUME BoundInv, InsertionStep
  PROVE  \A n \in Node : getPts(n) \subseteq pts'[rep'[n]]
<1> USE DEF superVars
<1>1. TypeOK /\ GraphsAgree
  BY DEF BoundInv, Inv
<1>2. ASSUME UNCHANGED <<rep, pts>>
      PROVE  \A n \in Node : getPts(n) \subseteq pts'[rep'[n]]
  BY <1>2 DEF getPts
<1>3. CASE FinishOld \/ StartInsertion \/ StartDiffInsertion \/ SkipSCCDetect \/ InsConsDone \/ InsPropDone
            \/ InsIterationDone
  BY <1>2, <1>3 DEF FinishOld, StartInsertion, StartDiffInsertion, SkipSCCDetect, InsConsDone,
                    InsPropDone, InsIterationDone
<1>4. CASE \E s \in PendingOuts : InsOut(s)
  <2>1. PICK s : InsOut(s)
    BY <1>4
  <2>2. PICK S, flag, callers : propagateInsPts(S, s.dst, flag, callers)
    BY <2>1 DEF InsOut
  <2>3. UNCHANGED rep
    BY <2>1 DEF InsOut
  <2> QED BY <1>1, <2>2, <2>3, InsCallGrows
<1>5. CASE InsComplex
  BY <1>2, <1>5 DEF InsComplex
<1>6. CASE \E x \in insDirectEdgeVec : processCopyAddition(x[1], x[2]) \/ processGepAddition(x[1])
  BY <1>2, <1>6 DEF processCopyAddition, processGepAddition
<1>7. CASE SCCDetect
  <2>1. PICK m : /\ \A r \in Reps : m[r] \in Reps /\ m[m[r]] = m[r]
                 /\ \A n \in Node : rep'[n] = m[rep[n]]
                 /\ pts' = [n \in Node |-> IF n \in Reps /\ m[n] = n
                                           THEN UNION {pts[k] : k \in {x \in Reps : m[x] = n}}
                                           ELSE pts[n]]
    BY <1>1, <1>7, DetectedReps
  <2>2. Reps \in SUBSET Node /\ \A n \in Node : rep[n] \in Reps
    BY <1>1, RepTypes
  <2>3. ASSUME NEW k \in Reps
        PROVE  pts[k] \subseteq pts'[m[k]]
    <3>1. PICK j : j = m[k]
      OBVIOUS
    <3>2. j \in Reps /\ j \in Node /\ m[j] = j
      BY <2>1, <2>2, <3>1
    <3>3. pts'[j] = UNION {pts[i] : i \in {x \in Reps : m[x] = j}}
      BY <2>1, <3>2
    <3> QED BY <3>1, <3>3
  <2> QED BY <2>1, <2>2, <2>3 DEF getPts
<1>8. CASE \E e \in insDirectConsVec : processDirectConstraintAddition(e)
  BY <1>2, <1>8 DEF processDirectConstraintAddition
<1>9. CASE \E n \in Node : ProcessPropMap(n)
  <2>1. PICK n : ProcessPropMap(n)
    BY <1>9
  <2>2. PICK S, flag, callers : propagateInsPts(S, n, flag, callers)
    BY <2>1 DEF ProcessPropMap
  <2>3. UNCHANGED rep
    BY <2>1 DEF ProcessPropMap
  <2> QED BY <1>1, <2>2, <2>3, InsCallGrows
<1>10. CASE \E e \in insEdgeVec : processAddrAddition(e)
  <2>1. PICK e : processAddrAddition(e)
    BY <1>10
  <2>2. PICK S, flag, callers : propagateInsPts(S, e.dst, flag, callers)
    BY <2>1 DEF processAddrAddition
  <2>3. UNCHANGED rep
    BY <2>1 DEF processAddrAddition
  <2> QED BY <1>1, <2>2, <2>3, InsCallGrows
<1>11. CASE \E e \in insEdgeVec : processComplexAddition(e)
  BY <1>2, <1>11 DEF processComplexAddition
<1> QED BY <1>3, <1>4, <1>5, <1>6, <1>7, <1>8, <1>9, <1>10, <1>11 DEF InsertionStep

-----------------------------------------------------------------------------
(***************************************************************************)
(* AndersenInc implements IncRound                                         *)
(***************************************************************************)
(* The solution IncRound speaks of is the one the analysis is compared with. *)
LEMMA SameSolution == \A B : Promise!LeastSolution(B) = LeastSolution(B)
<1>1. \A k, S : Promise!Transfer(k, S) = Transfer(k, S)
  BY DEF Promise!Transfer, Transfer
<1>2. \A e, o : Promise!DerivedCopy(e, o) = DerivedCopy(e, o)
  BY DEF Promise!DerivedCopy, DerivedCopy, Promise!CopyEdge, CopyEdge
<1>3. \A e : /\ Promise!IsDirect(e) = IsDirect(e) /\ Promise!IsComplex(e) = IsComplex(e)
             /\ Promise!Pointer(e) = Pointer(e)
  BY DEF Promise!Pointer, Pointer, Promise!IsDirect, IsDirect, Promise!IsComplex, IsComplex,
         Promise!DirectKind, DirectKind, Promise!ComplexKind, ComplexKind
<1>4. \A B, p : Promise!DerivedCopies(B, p) = DerivedCopies(B, p)
  BY <1>2, <1>3 DEF Promise!DerivedCopies, DerivedCopies
<1>5. \A B, p : Promise!SolveStep(B, p) = SolveStep(B, p)
  BY <1>1, <1>3, <1>4 DEF Promise!SolveStep, SolveStep
<1>6. \A S : Promise!Cardinality(S) = Cardinality(S)
  BY DEF Promise!Cardinality, Cardinality
<1> QED BY <1>5, <1>6 DEF Promise!LeastSolution, LeastSolution

(* A program has finitely many statements. *)
LEMMA BaseFinite ==
  ASSUME TypeOK
  PROVE  IsFiniteSet(base)
<1>1. IsFiniteSet(Kind)
  <2>1. Kind = {"Addr", "Copy", "VariantGep", "NormalGep", "Load", "Store"}
    BY DEF Kind, DirectKind, ComplexKind
  <2>2. IsFiniteSet({"Addr"} \cup {"Copy"}) /\ IsFiniteSet({"VariantGep"} \cup {"NormalGep"})
        /\ IsFiniteSet({"Load"} \cup {"Store"})
    BY FS_Singleton, FS_Union
  <2>3. IsFiniteSet((({"Addr"} \cup {"Copy"}) \cup ({"VariantGep"} \cup {"NormalGep"}))
                    \cup ({"Load"} \cup {"Store"}))
    BY <2>2, FS_Union
  <2> QED BY <2>1, <2>3
<1>2. IsFiniteSet(Kind \X Node)
  BY <1>1, NodesAssumption, FS_Product
<1>3. IsFiniteSet((Kind \X Node) \X Node)
  BY <1>2, NodesAssumption, FS_Product
<1>4. PICK f : f = [x \in (Kind \X Node) \X Node |-> [kind |-> x[1][1], src |-> x[1][2], dst |-> x[2]]]
  OBVIOUS
<1>5. f \in Surjection((Kind \X Node) \X Node, Edge)
  <2>1. \A e \in Edge : f[<<<<e.kind, e.src>>, e.dst>>] = e
    BY <1>4 DEF Edge
  <2>2. f \in [(Kind \X Node) \X Node -> Edge]
    BY <1>4 DEF Edge
  <2>3. \A e \in Edge : <<<<e.kind, e.src>>, e.dst>> \in (Kind \X Node) \X Node
    BY DEF Edge
  <2> QED BY <2>1, <2>2, <2>3 DEF Surjection
<1>6. IsFiniteSet(Edge)
  BY <1>3, <1>5, FS_Surjection
<1> QED BY <1>6, FS_Subset DEF TypeOK, RoundTypeOK, ProgramEdge

(* What getPts answers lies between what the remaining program implies, while
   the deletion runs, and what the whole program implies; at rest it is the
   latter. *)
AnswersBounded ==
  /\ ~Over => \A n \in Node : getPts(n) \subseteq LeastSolution(base)[n]
  /\ Deleting \/ pc = "deleted" =>
       \A n \in Node : LeastSolution(base \ diff)[n] \subseteq getPts(n)
  /\ RoundExact

(* The three bounds hold in every reachable state. *)
LEMMA AnswersBoundedInvariant == Spec => []AnswersBounded
<1>1. ASSUME ExactInv, ~Over
      PROVE  \A n \in Node : getPts(n) \subseteq LeastSolution(base)[n]
  BY <1>1, GetPtsBounded DEF ExactInv, BoundInv, Inv, Bounded, Solved
<1>2. ExactInv /\ RoundExact => AnswersBounded
  BY <1>1, DeletionStaysSound DEF AnswersBounded
<1> QED BY <1>2, ExactInvariant, RoundIsExact, PTL

(* A round is set up: the abstract round starts. *)
LEMMA StartMaps ==
  ASSUME TypeOK, NEW D \in SUBSET base, D # {}, Cardinality(D) <= MaxStep, StartRound(D)
  PROVE  Promise!Next
<1>1. Promise!Cardinality(D) = Cardinality(D)
  BY DEF Promise!Cardinality, Cardinality
<1>2. Cardinality(D) \in 1..MaxStep
  <2>1. IsFiniteSet(D)
    BY BaseFinite, FS_Subset
  <2>2. Cardinality(D) \in Nat /\ Cardinality(D) # 0
    BY <2>1, FS_CardinalityType, FS_EmptySet
  <2> QED BY <2>2, AndersenIncAssumption
<1>3. /\ pc = "idle" /\ pc' = "delDirect" /\ (mode = "old" => ~(round > 0))
      /\ diff' = D /\ UNCHANGED <<base, pts, rep>>
  BY DEF StartRound, superVars, TypeOK, RoundTypeOK
<1>4. AbstractPhase = "idle" /\ AbstractPhase' = "out"
  BY <1>3 DEF AbstractPhase
<1>5. [n \in Node |-> getPts(n)]' = [n \in Node |-> getPts(n)]
  BY <1>3 DEF getPts
<1>6. Promise!Start(D)
  BY <1>3, <1>4, <1>5 DEF Promise!Start
<1> QED BY <1>1, <1>2, <1>6 DEF Promise!Next

(* A step of the deletion phase retracts, or ends the retraction. *)
LEMMA DeletionMaps ==
  ASSUME ExactInv, AnswersBounded', DeletionStep
  PROVE  Promise!Next
<1>1. /\ Deleting /\ (Deleting' \/ pc' = "deleted") /\ UNCHANGED <<base, diff>>
      /\ (pc' = "deleted" => DelIterationDone)
  <2>1. DeletionMoves
    BY DeletionFrame
  <2>2. pc' = "deleted" => DelIterationDone
    BY DEF DeletionStep, DelOut, DelComplex, processCopyEdgeRemoval, processGepEdgeRemoval,
           DelDirectDone, SCCKeep, SCCRestore, RedetectDone, processAddrRemoval, PopDelEdge,
           processDirectConstraintRemoval, skipNormalGepConstraintRemoval, processComplexRemoval,
           ctlVars, InDeletion
  <2> QED BY <2>1, <2>2 DEF DeletionMoves
<1>2. AbstractPhase = "out"
  BY <1>1 DEF AbstractPhase, Deleting
<1>3. CASE Deleting'
  <2>1. AbstractPhase' = "out"
    BY <1>3 DEF AbstractPhase, Deleting
  <2>2. \A n \in Node : pts'[rep'[n]] \subseteq getPts(n)
    BY DeletionShrinks DEF ExactInv
  <2>3. Promise!Below([n \in Node |-> getPts(n)]', [n \in Node |-> getPts(n)])
    BY <2>2 DEF Promise!Below, getPts
  <2>4. \A n \in Node : LeastSolution(base \ diff)[n] \subseteq pts'[rep'[n]]
    BY <1>1, <1>3 DEF AnswersBounded, getPts
  <2>5. Promise!Below(Promise!LeastSolution(base \ diff), [n \in Node |-> getPts(n)]')
    BY <2>4, SameSolution DEF Promise!Below, getPts
  <2>6. Promise!Retract
    BY <1>1, <1>2, <2>1, <2>3, <2>5 DEF Promise!Retract
  <2> QED BY <2>6 DEF Promise!Next
<1>4. CASE pc' = "deleted"
  <2>1. AbstractPhase' = "in"
    BY <1>4 DEF AbstractPhase
  <2>2. UNCHANGED <<pts, rep>>
    BY <1>1, <1>4 DEF DelIterationDone
  <2>3. [n \in Node |-> getPts(n)]' = [n \in Node |-> getPts(n)]
    BY <2>2 DEF getPts
  <2>4. Promise!Retracted
    BY <1>1, <1>2, <2>1, <2>3 DEF Promise!Retracted
  <2> QED BY <2>4 DEF Promise!Next
<1> QED BY <1>1, <1>3, <1>4

(* The old version is done: the abstract round is abandoned. *)
LEMMA FinishMaps ==
  ASSUME ExactInv, FinishOld
  PROVE  Promise!Next
<1>1. /\ pc = "deleted" /\ pc' = "idle" /\ mode = "old" /\ mode' = "old" /\ round' = round
      /\ base' = base \ diff /\ diff' = {} /\ UNCHANGED <<pts, rep>>
  BY DEF FinishOld, superVars
<1>2. round > 0
  BY <1>1 DEF ExactInv, BoundInv, RoundsCount
<1>3. AbstractPhase = "in" /\ AbstractPhase' = "over"
  BY <1>1, <1>2 DEF AbstractPhase
<1>4. [n \in Node |-> getPts(n)]' = [n \in Node |-> getPts(n)]
  BY <1>1 DEF getPts
<1>5. Promise!Abandon
  BY <1>1, <1>3, <1>4 DEF Promise!Abandon
<1> QED BY <1>5 DEF Promise!Next

(* A step of the insertion phase inserts, or finds everything restored. *)
LEMMA InsertionMaps ==
  ASSUME ExactInv, AnswersBounded', InsertionStep, ~FinishOld
  PROVE  Promise!Next
<1>1. /\ Inserting \/ pc = "deleted"
      /\ Inserting' \/ pc' = "idle"
      /\ mode # "old" /\ mode' = mode /\ UNCHANGED <<base, diff>>
  <2>1. InsertionMoves
    BY InsertionFrame
  <2>2. Inserting => mode # "old"
    BY DEF ExactInv, BoundInv, RoundsCount
  <2> QED BY <2>1, <2>2 DEF InsertionMoves
<1>2. AbstractPhase = "in"
  BY <1>1 DEF AbstractPhase, Inserting
<1>3. CASE Inserting'
  <2>1. AbstractPhase' = "in"
    BY <1>3 DEF AbstractPhase, Inserting
  <2>2. \A n \in Node : getPts(n) \subseteq pts'[rep'[n]]
    BY InsertionGrows DEF ExactInv
  <2>3. Promise!Below([n \in Node |-> getPts(n)], [n \in Node |-> getPts(n)]')
    BY <2>2 DEF Promise!Below, getPts
  <2>4. \A n \in Node : pts'[rep'[n]] \subseteq LeastSolution(base)[n]
    BY <1>1 DEF AnswersBounded, getPts, Over
  <2>5. Promise!Below([n \in Node |-> getPts(n)]', Promise!LeastSolution(base))
    BY <2>4, SameSolution DEF Promise!Below, getPts
  <2>6. Promise!Insert
    BY <1>1, <1>2, <2>1, <2>3, <2>5 DEF Promise!Insert
  <2> QED BY <2>6 DEF Promise!Next
<1>4. CASE pc' = "idle"
  <2>1. AbstractPhase' = "idle"
    BY <1>1, <1>4 DEF AbstractPhase
  <2>2. UNCHANGED <<pts, rep>>
    BY <1>4 DEF InsertionStep, FinishOld, StartInsertion, StartDiffInsertion, InsOut, InsComplex,
        processCopyAddition, processGepAddition, SkipSCCDetect, SCCDetect, InsConsDone, InsPropDone,
        processDirectConstraintAddition, ProcessPropMap, processAddrAddition, processComplexAddition,
        PopInsEdge, InsIterationDone, superVars, ctlVars, InInsertion
  <2>3. [n \in Node |-> getPts(n)]' = [n \in Node |-> getPts(n)]
    BY <2>2 DEF getPts
  <2>4. [n \in Node |-> getPts(n)]' = LeastSolution(base)
    BY <1>1, <1>4 DEF AnswersBounded, RoundExact, Exact
  <2>5. Promise!Restored
    BY <1>1, <1>2, <2>1, <2>3, <2>4, SameSolution DEF Promise!Restored
  <2> QED BY <2>5 DEF Promise!Next
<1> QED BY <1>1, <1>3, <1>4

(* The incremental analysis implements IncRound. Whatever the graphs, vectors
   and active calls are up to, the sets getPts answers with shrink during the
   deletion, to no less than the remaining statements imply, then grow during
   the insertion, to no more than the whole program implies, and a round ends
   with what an analysis from scratch computes. *)
THEOREM RoundsKeepPromise == Spec => ImplementsPromise
<1>1. Init /\ ExactInv => Promise!Init
  <2>1. SUFFICES ASSUME Init, ExactInv PROVE Promise!Init
    OBVIOUS
  <2>2. base \in Programs /\ diff = {} /\ pc = "idle" /\ round = 0
    BY <2>1 DEF Init
  <2>3. AbstractPhase = "idle"
    BY <2>2 DEF AbstractPhase
  <2>4. ~Over
    BY <2>2 DEF Over
  <2>5. \A n \in Node : getPts(n) = Solved[n]
    BY <2>1, <2>2, <2>4, ExactAtRest DEF ExactInv
  <2>6. Solved \in [Node -> SUBSET Obj]
    BY <2>1, <2>4, ProgramFacts DEF Assignment, ExactInv, BoundInv
  <2>7. [n \in Node |-> getPts(n)] = LeastSolution(base)
    BY <2>5, <2>6 DEF Solved
  <2> QED BY <2>2, <2>3, <2>7, SameSolution DEF Promise!Init
<1>2. ExactInv /\ AnswersBounded' /\ [Next]_vars => [Promise!Next]_(Promise!vars)
  <2>1. SUFFICES ASSUME ExactInv, AnswersBounded', [Next]_vars
                 PROVE  Promise!Next \/ UNCHANGED Promise!vars
    OBVIOUS
  <2>2. TypeOK
    BY <2>1 DEF ExactInv, BoundInv, Inv
  <2>3. CASE UNCHANGED vars
    BY <2>3 DEF vars, superVars, ctlVars, roundVars, Promise!vars, AbstractPhase, getPts
  <2>4. CASE Next
    BY <2>1, <2>2, <2>4, StartMaps, DeletionMaps, FinishMaps, InsertionMaps DEF Next
  <2> QED BY <2>1, <2>3, <2>4
<1> QED BY <1>1, <1>2, ExactInvariant, AnswersBoundedInvariant, PTL
       DEF Spec, ImplementsPromise, Promise!Spec

-----------------------------------------------------------------------------
(***************************************************************************)
(* Deletion from a program without loads, stores and cycles                *)
(***************************************************************************)
(* No load, no store, and no two nodes on a cycle of direct edges. *)
Plain ==
  /\ \A e \in base : ~IsComplex(e)
  /\ \A C \in Components(Node, SolvedDirect(base)) : Cardinality(C) = 1

(* In such a program nothing is ever merged and no edge derived. *)
LEMMA PlainFacts ==
  ASSUME TypeOK, RoundsCount, ~Over, RepsOnCycles, Plain
  PROVE  /\ \A n, k \in Node : OnCycle(n, k) => n = k
         /\ \A n \in Node : rep[n] = n
         /\ SolvedEdges = base
         /\ \A e \in base : Lift(e) = e
         /\ \A e \in base : IsDirect(e) => e.src # e.dst
<1>1. \A n, k \in Node : OnCycle(n, k) => n = k
  <2>1. SUFFICES ASSUME NEW n \in Node, NEW k \in Node, OnCycle(n, k)
                 PROVE  n = k
    OBVIOUS
  <2>2. PICK E : E = SolvedDirect(base)
    OBVIOUS
  <2>3. PICK V : V = Node
    OBVIOUS
  <2>4. PICK C : C = CycleOf(V, E, n)
    OBVIOUS
  <2>5. C \in Components(V, E)
    <3>1. V \in SUBSET Node
      BY <2>3
    <3>2. Components(V, E) = {CycleOf(V, E, v) : v \in V}
      BY <3>1, ComponentsAreCycles
    <3> QED BY <2>3, <2>4, <3>2
  <2>6. n \in C /\ k \in C
    BY <2>1, <2>2, <2>3, <2>4, CycleFacts DEF CycleOf, OnCycle
  <2>7. Cardinality(C) = 1
    BY <2>2, <2>3, <2>5 DEF Plain
  <2>8. IsFiniteSet(C)
    BY <2>3, <2>4, NodesAssumption, FS_Subset DEF CycleOf
  <2>9. \E x : C = {x}
    BY <2>7, <2>8, FS_Singleton
  <2> QED BY <2>6, <2>9
<1>2. \A n \in Node : rep[n] = n
  BY <1>1 DEF RepsOnCycles, TypeOK, SuperTypeOK
<1>3. SolvedEdges = base
  BY DEF SolvedEdges, DerivedCopies, Plain
<1>4. base \in SUBSET Edge
  BY ProgramFacts
<1>5. \A e \in base : Lift(e) = e
  BY <1>2, <1>4 DEF Lift, LiftBy, Edge
<1> QED BY <1>1, <1>2, <1>3, <1>5, DerivedOutside

(* The super graph of such a program has no edge but the program's, and no
   cycle is ever queued for redetection. *)
PlainInv == ~Over /\ Plain => sEdges \subseteq base /\ redetectReps = {}

(* No step of an analysis of such a program adds an edge to it. *)
LEMMA PlainKept ==
  ASSUME BoundInv, PlainInv, [Next]_vars
  PROVE  PlainInv'
<1> SUFFICES ASSUME ~Over', Plain'
             PROVE  sEdges' \subseteq base' /\ redetectReps' = {}
  BY DEF PlainInv
<1>1. ~Over
  <2>0. round \in Nat
    BY DEF BoundInv, Inv, TypeOK, RoundTypeOK
  <2>1. Over /\ Next => FALSE
    BY <2>0, InsertionFrame, DeletionFrame DEF Over, Next, StartRound, DeletionMoves, Deleting,
       InsertionMoves, Inserting, FinishOld
  <2>2. UNCHANGED vars => Over' = Over
    BY DEF vars, ctlVars, roundVars, Over
  <2> QED BY <2>1, <2>2
<1>2. base' = base
  <2>1. ~FinishOld
    <3>1. FinishOld => Over'
      BY DEF FinishOld, Over, BoundInv, RoundsCount
    <3> QED BY <3>1
  <2> QED BY <2>1, InsertionFrame, DeletionFrame DEF Next, vars, ctlVars, roundVars, StartRound,
             DeletionMoves, InsertionMoves
<1>3. Plain /\ sEdges \subseteq base /\ redetectReps = {}
  BY <1>1, <1>2 DEF Plain, PlainInv
<1>4. /\ TypeOK /\ GraphsAgree /\ RoundsCount /\ RepsOnCycles /\ EdgesBounded /\ WorkBounded
  BY <1>1 DEF BoundInv, Inv, Bounded
<1>5. /\ \A n, k \in Node : OnCycle(n, k) => n = k
      /\ \A n \in Node : rep[n] = n
      /\ \A e \in base : Lift(e) = e
      /\ \A e \in base : IsDirect(e) => e.src # e.dst
      /\ fEdges \subseteq base /\ delDirectEdgeVec \subseteq base /\ base \in SUBSET Edge
  BY <1>1, <1>3, <1>4, PlainFacts, ProgramFacts DEF EdgesBounded
<1> USE DEF superVars, delVars
<1>6. ASSUME sEdges' = sEdges, redetectReps' = redetectReps
      PROVE  sEdges' \subseteq base' /\ redetectReps' = {}
  BY <1>2, <1>3, <1>6
<1>7. ASSUME NEW e \in base, sEdges' \subseteq sEdges \cup {Lift(e)}, redetectReps' = redetectReps
      PROVE  sEdges' \subseteq base' /\ redetectReps' = {}
  BY <1>2, <1>3, <1>5, <1>7
<1>8. CASE UNCHANGED vars
  BY <1>6, <1>8 DEF vars
<1>9. CASE \E D : StartRound(D)
  BY <1>6, <1>9 DEF StartRound
<1>10. CASE DeletionStep
  <2>1. CASE \E e \in delDirectEdgeVec : processCopyEdgeRemoval(e) \/ processGepEdgeRemoval(e)
    <3>1. PICK e \in delDirectEdgeVec : processCopyEdgeRemoval(e) \/ processGepEdgeRemoval(e)
      BY <2>1
    <3>2. CASE KeepDirectEdge
      BY <1>6, <3>2 DEF KeepDirectEdge
    <3>3. CASE dropDirectEdge(e)
      <4>1. e \in base /\ e.src \in Node /\ e.dst \in Node /\ e.src # e.dst
        BY <1>4, <1>5 DEF TypeOK, DelTypeOK, DirectEdge, Edge
      <4>2. rep[e.src] # rep[e.dst]
        BY <1>5, <4>1
      <4>3. sEdges' \subseteq sEdges /\ redetectReps' = redetectReps
        BY <3>3, <4>2 DEF dropDirectEdge, removeSCGFlat
      <4> QED BY <1>2, <1>3, <4>3
    <3> QED BY <3>1, <3>2, <3>3 DEF processCopyEdgeRemoval, processGepEdgeRemoval
  <2>2. CASE \E e \in delEdgeVec : processAddrRemoval(e) \/ processComplexRemoval(e)
    <3>1. sEdges' \subseteq sEdges /\ redetectReps' = redetectReps
      BY <2>2 DEF processAddrRemoval, processComplexRemoval, removeSCGFlat
    <3> QED BY <1>2, <1>3, <3>1
  <2>3. CASE \E e \in delEdgeVec : processDirectConstraintRemoval(e) \/ skipNormalGepConstraintRemoval(e)
    BY <1>6, <2>3 DEF processDirectConstraintRemoval, skipNormalGepConstraintRemoval
  <2>4. CASE \/ \E s \in PendingOuts : DelOut(s)
             \/ DelComplex \/ DelDirectDone \/ RedetectDone \/ DelIterationDone
    BY <1>6, <2>4 DEF DelOut, DelComplex, DelDirectDone, RedetectDone, DelIterationDone
  <2> QED BY <1>3, <1>10, <2>1, <2>2, <2>3, <2>4 DEF DeletionStep
<1>11. CASE InsertionStep
  <2>1. CASE \E x \in insDirectEdgeVec : processCopyAddition(x[1], x[2]) \/ processGepAddition(x[1])
    <3>1. PICK x \in insDirectEdgeVec : processCopyAddition(x[1], x[2]) \/ processGepAddition(x[1])
      BY <2>1
    <3>2. PICK e : e = x[1]
      OBVIOUS
    <3>3. e \in base
      BY <1>1, <1>3, <1>4, <3>2, RequestBounded, PlainFacts
    <3>4. sEdges' \subseteq sEdges \cup {Lift(e)} /\ redetectReps' = redetectReps
      BY <3>1, <3>2 DEF processCopyAddition, processGepAddition, addDirectSCGEdge, addSCGEdge, KeepSCG
    <3> QED BY <1>7, <3>3, <3>4
  <2>2. CASE \E e \in insEdgeVec : processAddrAddition(e) \/ processComplexAddition(e)
    <3>1. PICK e \in insEdgeVec : processAddrAddition(e) \/ processComplexAddition(e)
      BY <2>2
    <3>2. e \in base
      BY <1>4 DEF WorkBounded, OtherPart
    <3>3. sEdges' \subseteq sEdges \cup {Lift(e)} /\ redetectReps' = redetectReps
      BY <3>1 DEF processAddrAddition, processComplexAddition, PopInsEdge, addSCGEdge
    <3> QED BY <1>7, <3>2, <3>3
  <2>3. CASE SCCDetect
    <3>1. PICK m : /\ \A r \in Reps : m[r] \in Reps /\ SameCycle(Reps, SuperDirect, r, m[r])
                   /\ mergeSccCycle(m) /\ redetectReps' = redetectReps
      BY <1>4, <2>3, DetectedReps
    <3>2. Reps \in SUBSET Node /\ \A n \in Node : n \in Reps
      BY <1>5 DEF Reps
    <3>3. ASSUME NEW r \in Node
          PROVE  m[r] = r
      <4>1. PICK k : k = m[r]
        OBVIOUS
      <4>2. k \in Node /\ k \in Reached(Reps, SuperDirect, r) /\ r \in Reached(Reps, SuperDirect, k)
        BY <3>1, <3>2, <4>1 DEF SameCycle
      <4>3. PICK E : E = SuperDirect
        OBVIOUS
      <4>4. \A n \in Reps : \A q \in Reached(Reps, E, n) : q \in Reached(Node, SolvedDirect(base), n)
        BY <1>1, <1>4, <4>3, SuperReachesSolved
      <4>5. OnCycle(r, k)
        BY <3>2, <4>2, <4>3, <4>4 DEF OnCycle, SameCycle
      <4> QED BY <1>5, <4>1, <4>2, <4>5
    <3>4. \A s \in sEdges : LiftBy(m, s) = s
      BY <1>3, <1>5, <3>3 DEF LiftBy, Edge
    <3>5. sEdges' \subseteq sEdges
      BY <3>1, <3>4 DEF mergeSccCycle
    <3> QED BY <1>2, <1>3, <3>1, <3>5
  <2>4. CASE \/ FinishOld \/ StartInsertion \/ StartDiffInsertion
             \/ \E s \in PendingOuts : InsOut(s)
             \/ InsComplex \/ SkipSCCDetect \/ InsConsDone \/ InsPropDone \/ InsIterationDone
             \/ \E e \in insDirectConsVec : processDirectConstraintAddition(e)
             \/ \E n \in Node : ProcessPropMap(n)
    BY <1>6, <2>4 DEF FinishOld, StartInsertion, StartDiffInsertion, InsOut, InsComplex, SkipSCCDetect,
       InsConsDone, InsPropDone, InsIterationDone, processDirectConstraintAddition, ProcessPropMap
  <2> QED BY <1>11, <2>1, <2>2, <2>3, <2>4 DEF InsertionStep
<1> QED BY <1>8, <1>9, <1>10, <1>11 DEF Next

(* Where every node of a set has a predecessor in it that is not on a cycle
   with it, the set is empty: predecessors reach more and more. *)
LEMMA NoEndlessDescent ==
  ASSUME NEW E, NEW W \in SUBSET Node,
         \A n \in W : \E e \in E : e.dst = n /\ e.src \in W /\ ~SameCycle(Node, E, e.src, n)
  PROVE  W = {}
<1> SUFFICES ASSUME W # {} PROVE FALSE
  OBVIOUS
<1>1. PICK V : V = Node
  OBVIOUS
<1>2. V \in SUBSET Node /\ IsFiniteSet(V) /\ W \in SUBSET V
  BY <1>1, NodesAssumption
<1>3. \A n \in V : Reached(V, E, n) \in SUBSET V
  BY <1>2, ReachedCloses
<1>4. \A n \in V : /\ IsFiniteSet(Reached(V, E, n)) /\ Cardinality(Reached(V, E, n)) \in Nat
                   /\ Cardinality(Reached(V, E, n)) <= Cardinality(V)
  BY <1>2, <1>3, FS_Subset, FS_CardinalityType
<1>5. ASSUME NEW n \in W
      PROVE  \E m \in W : Cardinality(Reached(V, E, n)) < Cardinality(Reached(V, E, m))
  <2>1. PICK e \in E : e.dst = n /\ e.src \in W /\ ~SameCycle(V, E, e.src, n)
    BY <1>1
  <2>2. PICK m : m = e.src
    OBVIOUS
  <2>3. m \in V /\ n \in V /\ m \in W
    BY <1>2, <2>1, <2>2
  <2>4. m \in Reached(V, E, m) /\ n \in Reached(V, E, n) /\ n \in Reached(V, E, m)
    <3>1. m \in Reached(V, E, m)
      BY <1>2, <2>3, ReachedCloses
    <3>2. n \in Reached(V, E, n)
      BY <1>2, <2>3, ReachedCloses
    <3>3. \A f \in E : f.src \in Reached(V, E, m) /\ f.dst \in V => f.dst \in Reached(V, E, m)
      BY <1>2, <2>3, ReachedCloses
    <3> QED BY <2>1, <2>2, <2>3, <3>1, <3>2, <3>3
  <2>5. Reached(V, E, n) \subseteq Reached(V, E, m)
    BY <1>2, <2>3, <2>4, ReachedTransitive
  <2>6. m \notin Reached(V, E, n)
    BY <2>1, <2>2, <2>4 DEF SameCycle
  <2>7. Reached(V, E, n) # Reached(V, E, m)
    BY <2>4, <2>6
  <2>8. Cardinality(Reached(V, E, n)) < Cardinality(Reached(V, E, m))
    <3>1. PICK R, Q : R = Reached(V, E, n) /\ Q = Reached(V, E, m)
      OBVIOUS
    <3>2. IsFiniteSet(Q) /\ R \in SUBSET Q /\ R # Q
      BY <1>4, <2>3, <2>5, <2>7, <3>1
    <3>3. Cardinality(R) <= Cardinality(Q) /\ (Cardinality(R) = Cardinality(Q) => R = Q)
      BY <3>2, FS_Subset
    <3>4. Cardinality(R) \in Nat /\ Cardinality(Q) \in Nat
      BY <1>4, <2>3, <3>1
    <3> QED BY <3>1, <3>2, <3>3, <3>4
  <2> QED BY <2>3, <2>8
<1>6. PICK T : T = {i \in Nat : \E n \in W : i <= Cardinality(Reached(V, E, n))}
  OBVIOUS
<1>7. 0 \in T
  BY <1>2, <1>4, <1>6
<1>8. \A i \in Nat : i \in T => i + 1 \in T
  <2>1. SUFFICES ASSUME NEW i \in Nat, NEW n \in W, i <= Cardinality(Reached(V, E, n))
                 PROVE  i + 1 \in T
    BY <1>6
  <2>2. PICK m \in W : Cardinality(Reached(V, E, n)) < Cardinality(Reached(V, E, m))
    BY <1>5
  <2>3. Cardinality(Reached(V, E, n)) \in Nat /\ Cardinality(Reached(V, E, m)) \in Nat
    BY <1>2, <1>4
  <2>4. i + 1 <= Cardinality(Reached(V, E, m))
    BY <2>1, <2>2, <2>3
  <2> QED BY <1>6, <2>4
<1>9. Nat \subseteq T
  BY <1>7, <1>8, NatWithSuccessors
<1>10. Cardinality(V) \in Nat
  BY <1>2, FS_CardinalityType
<1>11. Cardinality(V) + 1 \in T
  BY <1>9, <1>10
<1>12. PICK n \in W : Cardinality(V) + 1 <= Cardinality(Reached(V, E, n))
  BY <1>6, <1>11
<1>13. n \in V /\ Cardinality(Reached(V, E, n)) \in Nat /\ Cardinality(Reached(V, E, n)) <= Cardinality(V)
  BY <1>2, <1>4
<1> QED BY <1>10, <1>12, <1>13

(* A single statement is deleted from such a program, and it is not a normal
   gep. *)
Single == Plain /\ Cardinality(diff) = 1 /\ \A e \in diff : e.kind # "NormalGep"

(* Object o is provided to n by an address or by a direct edge. *)
Provided(n, o) ==
  \/ \E e \in fEdges : e.kind = "Addr" /\ e.src = o /\ e.dst = n
  \/ \E s \in SuperDirect : s.dst = n /\ o \in Transfer(s.kind, pts[s.src])

(* Object o was provided to n by an edge that is gone or has lost it, and an
   active call or the retraction of that edge will see to it. *)
Doubted(n, o) ==
  \/ \E f \in Calls(stack) : \E s \in f.outs : s.dst = n /\ o \in Transfer(s.kind, f.d)
  \/ \E e \in delEdgeVec : IsDirect(e) /\ e.dst = n /\ o \in Transfer(e.kind, pts[e.src])

(* No object is held without an edge that provides it or a doubt about it. *)
Reckoned == \A n \in Node : \A o \in pts[n] : Provided(n, o) \/ Doubted(n, o)

(* While one statement is being deleted from such a program. *)
SingleInv ==
  (Deleting \/ pc = "deleted") /\ Single =>
    /\ diff \cap fEdges \subseteq delDirectEdgeVec \cup delEdgeVec
    /\ delDirectEdgeVec \subseteq diff /\ delEdgeVec \subseteq diff
    /\ stack # <<>> => delEdgeVec = {}
    /\ \A e \in delEdgeVec : IsDirect(e) => e \notin fEdges
    /\ Reckoned

(* What a step leaves is provided, or doubted by the calls that remain, or it
   is among the objects S that the step asks n to give up. *)
Accounted(S, n, callers) ==
  \A k \in Node : \A o \in pts[k] :
    \/ \E e \in fEdges' : e.kind = "Addr" /\ e.src = o /\ e.dst = k
    \/ \E s \in SuperDirect : s.dst = k /\ o \in Transfer(s.kind, pts[s.src])
    \/ \E f \in Calls(callers) : \E s \in f.outs : s.dst = k /\ o \in Transfer(s.kind, f.d)
    \/ k = n /\ o \in S

(* A call of propagateDelPts for the objects S at n: what n still holds of
   them is provided, and what it loses others doubt. *)
LEMMA DelCallDoubts ==
  ASSUME TypeOK, \A k \in Node : rep[k] = k, \A s \in SuperDirect : s.src # s.dst,
         NEW S, NEW n \in Node, NEW callers \in Seq(Frame), propagateDelPts(S, n, callers),
         SuperDirect' = SuperDirect,
         Accounted(S, n, callers)
  PROVE  Reckoned'
<1>1. pts \in [Node -> SUBSET Obj] /\ \A s \in SuperDirect : s.src \in Node /\ s.dst \in Node /\ s.kind \in DirectKind
  BY DEF TypeOK, PtsTypeOK, SuperTypeOK, SuperDirect, IsDirect, Edge
<1>2. PICK lost : lost = (S \cap pts[n]) \ Supported(n)
  OBVIOUS
<1>3. \A o \in S \cap pts[n] : o \in lost \/ \E s \in SuperDirect : s.dst = n /\ o \in Transfer(s.kind, pts[s.src])
  BY <1>1, <1>2 DEF Supported, DirectIn, SuperDirect, getPts
<1>4. \A s \in SuperDirect : s.src = n => s \in DirectOut(n)
  BY DEF SuperDirect, DirectOut
<1>5. CASE lost = {}
  <2>1. pts' = pts /\ stack' = callers
    BY <1>2, <1>5 DEF propagateDelPts
  <2> QED BY <1>3, <1>5, <2>1 DEF Accounted, Reckoned, Provided, Doubted
<1>6. CASE lost # {}
  <2>1. /\ pts' = [pts EXCEPT ![n] = @ \ lost]
        /\ stack' = <<[node |-> n, d |-> lost, outs |-> DirectOut(n)]>> \o callers
    BY <1>2, <1>6, Zenon DEF propagateDelPts
  <2>2. PICK g : g = [node |-> n, d |-> lost, outs |-> DirectOut(n)]
    OBVIOUS
  <2>3. g \in Frame /\ g.d = lost /\ g.outs = DirectOut(n)
    BY <1>1, <1>2, <2>2 DEF Frame, DirectOut, DirectEdge, TypeOK, SuperTypeOK
  <2>4. Calls(stack') = {g} \cup Calls(callers)
    BY <2>1, <2>2, <2>3, PushCalls
  <2>5. SUFFICES ASSUME NEW k \in Node, NEW o \in pts'[k]
                 PROVE  Provided(k, o)' \/ Doubted(k, o)'
    BY DEF Reckoned
  <2>6. o \in pts[k] /\ (k = n => o \notin lost)
    BY <1>1, <2>1
  <2>7. CASE \E e \in fEdges' : e.kind = "Addr" /\ e.src = o /\ e.dst = k
    BY <2>7 DEF Provided
  <2>8. CASE \E f \in Calls(callers) : \E s \in f.outs : s.dst = k /\ o \in Transfer(s.kind, f.d)
    BY <2>4, <2>8 DEF Doubted
  <2>9. CASE \E s \in SuperDirect : s.dst = k /\ o \in Transfer(s.kind, pts[s.src])
    <3>1. PICK s \in SuperDirect : s.dst = k /\ o \in Transfer(s.kind, pts[s.src])
      BY <2>9
    <3>2. PICK x \in pts[s.src] : o \in Transfer(s.kind, {x})
      <4>1. PICK kind, P : kind = s.kind /\ P = pts[s.src]
        OBVIOUS
      <4>2. kind \in DirectKind
        BY <1>1, <4>1
      <4>3. \A y : y \in Transfer(kind, P) <=> \E x \in P : y \in Transfer(kind, {x})
        BY <4>2 DEF Transfer, DirectKind
      <4> QED BY <3>1, <4>1, <4>3
    <3>3. CASE x \in pts'[s.src]
      <4>1. o \in Transfer(s.kind, pts'[s.src])
        BY <1>1, <3>1, <3>2, <3>3, TransferPoints
      <4> QED BY <3>1, <4>1 DEF Provided
    <3>4. CASE x \notin pts'[s.src]
      <4>1. s.src = n /\ x \in lost
        BY <1>1, <2>1, <3>2, <3>4
      <4>2. o \in Transfer(s.kind, lost)
        BY <1>1, <3>1, <3>2, <4>1, TransferPoints
      <4>3. s \in g.outs
        BY <1>4, <2>3, <3>1, <4>1
      <4> QED BY <2>3, <2>4, <3>1, <4>2, <4>3 DEF Doubted
    <3> QED BY <3>3, <3>4
  <2>10. CASE k = n /\ o \in S
    BY <1>3, <2>6, <2>9, <2>10
  <2> QED BY <2>6, <2>7, <2>8, <2>9, <2>10 DEF Accounted
<1> QED BY <1>5, <1>6

(* Every fact of the least solution is provided by a constraint. *)
LEMMA SolutionProvided ==
  ASSUME NEW B \in SUBSET ProgramEdge, NEW n \in Node, NEW o \in LeastSolution(B)[n]
  PROVE  \/ \E e \in B : e.kind = "Addr" /\ e.dst = n /\ e.src = o
         \/ \E e \in SolvedDirect(B) : e.dst = n /\ o \in Transfer(e.kind, LeastSolution(B)[e.src])
<1>1. PICK L : L = LeastSolution(B)
  OBVIOUS
<1>2. L \in [Node -> SUBSET Obj] /\ Closes(B, L)
  BY <1>1, SolutionType, SolutionCloses DEF Assignment
<1>3. PICK q : q = [k \in Node |-> {x \in L[k] :
        \/ \E e \in B : e.kind = "Addr" /\ e.dst = k /\ e.src = x
        \/ \E e \in SolvedDirect(B) : e.dst = k /\ x \in Transfer(e.kind, L[e.src])}]
  OBVIOUS
<1>4. q \in Assignment /\ \A k \in Node : q[k] \subseteq L[k]
  BY <1>2, <1>3 DEF Assignment
<1>5. \A e \in B : e.src \in Node /\ e.dst \in Node
  BY DEF ProgramEdge, Edge
<1>6. \A c \in DerivedCopies(B, L) : c.kind = "Copy" /\ c.src \in Node /\ c.dst \in Node
  BY DerivedCopiesType DEF DirectEdge, Edge
<1>7. DerivedCopies(B, q) \subseteq DerivedCopies(B, L)
  <2>1. \A e \in B : q[Pointer(e)] \subseteq L[Pointer(e)]
    BY <1>4, <1>5 DEF Pointer
  <2> QED BY <2>1, DerivedCopiesMonotone
<1>8. SolvedDirect(B) = {e \in B : IsDirect(e)} \cup DerivedCopies(B, L)
  BY <1>1 DEF SolvedDirect
<1>9. Closes(B, q)
  <2>1. ASSUME NEW e \in B, e.kind = "Addr"
        PROVE  e.src \in q[e.dst]
    BY <1>2, <1>3, <1>5, <2>1 DEF Closes
  <2>2. ASSUME NEW e \in B, IsDirect(e)
        PROVE  Transfer(e.kind, q[e.src]) \subseteq q[e.dst]
    <3>1. PICK kind, S, T : kind = e.kind /\ S = q[e.src] /\ T = L[e.src]
      OBVIOUS
    <3>2. kind \in DirectKind /\ S \in SUBSET Obj /\ T \in SUBSET Obj /\ S \subseteq T
      BY <1>2, <1>4, <1>5, <2>2, <3>1 DEF Assignment, IsDirect
    <3>3. Transfer(kind, S) \subseteq Transfer(kind, T)
      BY <3>2, TransferMonotone
    <3>4. Transfer(kind, T) \subseteq L[e.dst]
      BY <1>2, <2>2, <3>1 DEF Closes
    <3>5. \A x \in Transfer(kind, T) : x \in q[e.dst]
      BY <1>3, <1>5, <1>8, <2>2, <3>1, <3>4
    <3> QED BY <3>1, <3>3, <3>5
  <2>3. ASSUME NEW c \in DerivedCopies(B, q)
        PROVE  q[c.src] \subseteq q[c.dst]
    <3>1. c \in DerivedCopies(B, L) /\ c.kind = "Copy" /\ c.src \in Node /\ c.dst \in Node
      BY <1>6, <1>7
    <3>2. L[c.src] \subseteq L[c.dst]
      BY <1>2, <3>1 DEF Closes
    <3>3. \A x \in L[c.src] : x \in Transfer(c.kind, L[c.src])
      BY <3>1, CopyTransfers
    <3>4. \A x \in L[c.src] : x \in q[c.dst]
      BY <1>3, <1>8, <3>1, <3>2, <3>3
    <3> QED BY <1>4, <3>1, <3>4
  <2> QED BY <2>1, <2>2, <2>3 DEF Closes
<1>10. o \in q[n]
  BY <1>1, <1>4, <1>9, SolutionLeast
<1> QED BY <1>1, <1>3, <1>10

(* What is known of a program without loads, stores and cycles while a
   statement is deleted from it. *)
LEMMA PlainDeletion ==
  ASSUME BoundInv, PlainInv, Merges, ~Over, Plain
  PROVE  /\ \A k \in Node : rep[k] = k
         /\ \A s \in SuperDirect : s.src # s.dst /\ s.src \in Node /\ s.dst \in Node
         /\ fEdges \subseteq base /\ \A e \in fEdges : e \in sEdges
         /\ \A e \in base : Lift(e) = e /\ ~IsComplex(e)
         /\ sEdges \subseteq base /\ redetectReps = {}
         /\ \A e \in base : IsDirect(e) => e.src # e.dst /\ e.src \in Node /\ e.dst \in Node
<1>1. /\ TypeOK /\ RoundsCount /\ RepsOnCycles /\ EdgesBounded
  BY DEF BoundInv, Inv, Bounded
<1>2. /\ \A k \in Node : rep[k] = k
      /\ SolvedEdges = base /\ \A e \in base : Lift(e) = e
      /\ \A e \in base : IsDirect(e) => e.src # e.dst
  BY <1>1, PlainFacts
<1>3. sEdges \subseteq base /\ redetectReps = {}
  BY DEF PlainInv
<1>4. base \in SUBSET Edge
  BY <1>1, ProgramFacts
<1>5. fEdges \subseteq base
  BY <1>1, <1>2 DEF EdgesBounded
<1>6. \A e \in fEdges : e \in sEdges
  BY <1>2, <1>5 DEF Merges, EdgesLifted
<1>7. \A e \in base : IsDirect(e) => e.src # e.dst /\ e.src \in Node /\ e.dst \in Node
  BY <1>2, <1>4 DEF Edge
<1>8. \A e \in base : ~IsComplex(e)
  BY DEF Plain
<1>9. \A s \in SuperDirect : s.src # s.dst /\ s.src \in Node /\ s.dst \in Node
  BY <1>3, <1>7 DEF SuperDirect
<1> QED BY <1>2, <1>3, <1>5, <1>6, <1>7, <1>8, <1>9

(* The statement is queued, and every fact is provided. *)
LEMMA StartSingle ==
  ASSUME ExactInv, PlainInv, NEW D \in SUBSET base, StartRound(D)
  PROVE  SingleInv'
<1>1. /\ pc = "idle" /\ diff' = D /\ delDirectEdgeVec' = DirectPart(D) /\ delEdgeVec' = OtherPart(D)
      /\ UNCHANGED <<base, fEdges, sEdges, rep, pts, stack>>
  BY DEF StartRound, Deletions, flatVars, superVars
<1>2. ~Over
  BY DEF StartRound, Over, ExactInv, BoundInv, Inv, TypeOK, RoundTypeOK
<1>3. stack' = <<>>
  BY <1>1 DEF ExactInv, BoundInv, Inv, Ledger, PhaseClean
<1> SUFFICES ASSUME Plain
             PROVE  \A n \in Node : \A o \in pts[n] : Provided(n, o)'
  BY <1>1, <1>3 DEF SingleInv, Reckoned, Single, Plain, DirectPart, OtherPart
<1>4. /\ \A k \in Node : rep[k] = k
      /\ \A e \in fEdges : e \in sEdges
      /\ \A e \in base : IsDirect(e) => e.src \in Node
  BY <1>2, PlainDeletion DEF ExactInv
<1>5. \A n \in Node : pts[n] = LeastSolution(base)[n]
  BY <1>1, <1>2, <1>4, ExactAtRest DEF ExactInv, getPts, Solved
<1>6. base \subseteq fEdges
  BY <1>1 DEF ExactInv, Kept
<1>7. base \in SUBSET ProgramEdge /\ SolvedDirect(base) = {e \in base : IsDirect(e)}
  <2>1. RoundsCount
    BY DEF ExactInv, BoundInv
  <2> QED BY <1>2, <2>1, ProgramFacts DEF SolvedDirect, DerivedCopies, Plain
<1>8. SUFFICES ASSUME NEW n \in Node, NEW o \in pts[n]
               PROVE  Provided(n, o)'
  OBVIOUS
<1>9. o \in LeastSolution(base)[n]
  BY <1>5
<1>10. PICK B : B = base
  OBVIOUS
<1>11. \/ \E e \in B : e.kind = "Addr" /\ e.dst = n /\ e.src = o
       \/ \E e \in SolvedDirect(B) : e.dst = n /\ o \in Transfer(e.kind, LeastSolution(B)[e.src])
  BY <1>7, <1>9, <1>10, SolutionProvided
<1>12. CASE \E e \in B : e.kind = "Addr" /\ e.dst = n /\ e.src = o
  BY <1>1, <1>6, <1>10, <1>12 DEF Provided
<1>13. CASE \E e \in SolvedDirect(B) : e.dst = n /\ o \in Transfer(e.kind, LeastSolution(B)[e.src])
  <2>1. PICK e \in base : IsDirect(e) /\ e.dst = n /\ o \in Transfer(e.kind, LeastSolution(base)[e.src])
    BY <1>7, <1>10, <1>13
  <2>2. e \in SuperDirect /\ e.src \in Node
    BY <1>4, <1>6, <2>1 DEF SuperDirect
  <2>3. o \in Transfer(e.kind, pts[e.src])
    BY <1>5, <2>1, <2>2
  <2> QED BY <1>1, <2>1, <2>2, <2>3 DEF Provided, SuperDirect
<1> QED BY <1>11, <1>12, <1>13

(* A direct edge goes from both graphs: what it provided is in doubt until
   the edge is retracted. *)
LEMMA DirectRemovalSingle ==
  ASSUME ExactInv, PlainInv, SingleInv, Single, ~Over, NEW e \in delDirectEdgeVec,
         processCopyEdgeRemoval(e) \/ processGepEdgeRemoval(e)
  PROVE  SingleInv'
<1> USE DEF ctlVars, roundVars, superVars
<1>1. /\ pc = "delDirect" /\ delDirectEdgeVec' = delDirectEdgeVec \ {e}
      /\ UNCHANGED <<pts, stack, base, diff>>
      /\ dropDirectEdge(e) \/ (KeepDirectEdge /\ e.kind = "Copy"
                               /\ (e \notin fEdges \/ ~Orphan(e, complexEdgeSet \ {<<e, e>>})))
  BY DEF processCopyEdgeRemoval, processGepEdgeRemoval
<1>2. /\ stack = <<>> /\ TypeOK /\ GraphsAgree /\ OwnersLive /\ BoundInv /\ Merges /\ Plain
  BY <1>1 DEF ExactInv, BoundInv, Inv, Ledger, PhaseClean, Single
<1>3. /\ \A k \in Node : rep[k] = k
      /\ \A s \in SuperDirect : s.src # s.dst /\ s.src \in Node /\ s.dst \in Node
      /\ fEdges \subseteq base /\ \A f \in fEdges : f \in sEdges
      /\ \A f \in base : Lift(f) = f /\ ~IsComplex(f)
      /\ sEdges \subseteq base
      /\ \A f \in base : IsDirect(f) => f.src # f.dst /\ f.src \in Node /\ f.dst \in Node
  BY <1>2, PlainDeletion
<1>4. /\ diff \cap fEdges \subseteq delDirectEdgeVec \cup delEdgeVec
      /\ delDirectEdgeVec \subseteq diff /\ delEdgeVec \subseteq diff
      /\ \A f \in delEdgeVec : IsDirect(f) => f \notin fEdges
      /\ \A n \in Node : \A o \in pts[n] : Provided(n, o) \/ Doubted(n, o)
  BY <1>1 DEF SingleInv, Reckoned, Deleting
<1>5. e \in base /\ IsDirect(e)
  BY <1>2, <1>4 DEF TypeOK, RoundTypeOK, DelTypeOK, DirectEdge
<1>6. CASE KeepDirectEdge /\ e.kind = "Copy" /\ (e \notin fEdges \/ ~Orphan(e, complexEdgeSet \ {<<e, e>>}))
  <2>1. e \notin fEdges
    <3> SUFFICES ASSUME NEW x \in complexEdgeSet, x # <<e, e>>, x[1] = e
                 PROVE  FALSE
      BY <1>6 DEF Orphan
    <3>1. x[1] # x[2]
      BY <1>2 DEF TypeOK, FlatTypeOK
    <3>2. IsComplex(x[2]) /\ x[2] \in fEdges
      BY <1>2, <3>1 DEF OwnersLive
    <3> QED BY <1>3, <3>2
  <2>2. UNCHANGED <<fEdges, sEdges, delEdgeVec>>
    BY <1>6 DEF KeepDirectEdge
  <2> QED BY <1>1, <1>2, <1>4, <2>1, <2>2 DEF SingleInv, Reckoned, Provided, Doubted, SuperDirect
<1>7. CASE dropDirectEdge(e)
  <2>1. rep[e.src] # rep[e.dst]
    BY <1>3, <1>5
  <2>2. /\ fEdges' = fEdges \ {e} /\ removeSCGFlat(e, TRUE)
        /\ delEdgeVec' = IF EmptySEdge(Lift(e), fEdgeSet \ {<<Lift(e), e>>})
                         THEN delEdgeVec \cup {e} ELSE delEdgeVec
    BY <1>7, <2>1 DEF dropDirectEdge
  <2>3. EmptySEdge(Lift(e), fEdgeSet \ {<<Lift(e), e>>})
    <3>1. fEdgeSet = {<<Lift(f), f>> : f \in fEdges}
      BY <1>2 DEF GraphsAgree, SuperMirrorsFlat
    <3> QED BY <1>3, <1>5, <3>1 DEF EmptySEdge
  <2>4. delEdgeVec' = delEdgeVec \cup {e} /\ sEdges' = sEdges \ {e}
    BY <1>3, <1>5, <2>2, <2>3 DEF removeSCGFlat
  <2>5. ASSUME NEW n \in Node, NEW o \in pts[n], Provided(n, o)
        PROVE  Provided(n, o)' \/ Doubted(n, o)'
    <3>1. CASE \E f \in fEdges : f.kind = "Addr" /\ f.src = o /\ f.dst = n
      <4>1. PICK f \in fEdges : f.kind = "Addr" /\ f.src = o /\ f.dst = n
        BY <3>1
      <4>2. f # e
        BY <1>5, <4>1 DEF IsDirect, DirectKind
      <4> QED BY <2>2, <4>1, <4>2 DEF Provided
    <3>2. CASE \E s \in SuperDirect : s.dst = n /\ o \in Transfer(s.kind, pts[s.src])
      <4>1. PICK s \in SuperDirect : s.dst = n /\ o \in Transfer(s.kind, pts[s.src])
        BY <3>2
      <4>2. CASE s = e
        BY <1>1, <1>5, <2>4, <4>1, <4>2 DEF Doubted
      <4>3. CASE s # e
        BY <1>1, <2>4, <4>1, <4>3 DEF Provided, SuperDirect
      <4> QED BY <4>2, <4>3
    <3> QED BY <2>5, <3>1, <3>2 DEF Provided
  <2>6. ASSUME NEW n \in Node, NEW o \in pts[n], Doubted(n, o)
        PROVE  Doubted(n, o)'
    BY <1>1, <2>4, <2>6 DEF Doubted
  <2>7. Reckoned'
    BY <1>1, <1>4, <2>5, <2>6 DEF Reckoned
  <2> QED BY <1>1, <1>2, <1>4, <1>5, <2>2, <2>4, <2>7 DEF SingleInv
<1> QED BY <1>1, <1>6, <1>7

(* The statement is retracted. *)
LEMMA RetractionSingle ==
  ASSUME ExactInv, PlainInv, SingleInv, Single, ~Over, NEW e \in delEdgeVec,
         processAddrRemoval(e) \/ processDirectConstraintRemoval(e)
  PROVE  SingleInv'
<1> USE DEF ctlVars, roundVars, superVars
<1>1. /\ pc = "delEdge" /\ stack = <<>> /\ delEdgeVec' = delEdgeVec \ {e}
      /\ UNCHANGED <<delDirectEdgeVec, base, diff, rep>>
  BY DEF processAddrRemoval, processDirectConstraintRemoval, PopDelEdge
<1>2. /\ TypeOK /\ BoundInv /\ Merges /\ Plain
  BY <1>1 DEF ExactInv, BoundInv, Inv, Single
<1>3. /\ \A k \in Node : rep[k] = k
      /\ \A s \in SuperDirect : s.src # s.dst
      /\ fEdges \subseteq base
      /\ \A f \in base : Lift(f) = f
      /\ sEdges \subseteq base
  BY <1>2, PlainDeletion
<1>4. /\ diff \cap fEdges \subseteq delDirectEdgeVec \cup delEdgeVec
      /\ delDirectEdgeVec \subseteq diff /\ delEdgeVec \subseteq diff
      /\ \A f \in delEdgeVec : IsDirect(f) => f \notin fEdges
      /\ \A n \in Node : \A o \in pts[n] : Provided(n, o) \/ Doubted(n, o)
  BY <1>1 DEF SingleInv, Reckoned, Deleting
<1>5. diff = {e}
  <2>1. IsFiniteSet(diff)
    BY <1>2, BaseFinite, FS_Subset DEF TypeOK, RoundTypeOK
  <2>2. Cardinality(diff) = 1
    BY DEF Single
  <2> QED BY <1>4, <2>1, <2>2, FS_Singleton
<1>6. delEdgeVec = {e} /\ delEdgeVec' = {} /\ e \in base /\ e.src \in Node /\ e.dst \in Node
  BY <1>1, <1>2, <1>4, <1>5 DEF TypeOK, RoundTypeOK, ProgramEdge, Edge
<1>7. Calls(stack) = {} /\ Calls(<<>>) = {} /\ <<>> \in Seq(Frame)
  BY <1>1, EmptyCalls
<1>8. CASE processAddrRemoval(e)
  <2>1. fEdges' = fEdges \ {e} /\ e.kind = "Addr" /\ removeSCGFlat(e, TRUE)
    BY <1>8 DEF processAddrRemoval
  <2>2. SuperDirect' = SuperDirect
    BY <1>3, <1>6, <2>1 DEF removeSCGFlat, SuperDirect, IsDirect, DirectKind
  <2>3. PICK S, n : S = {e.src} /\ n = e.dst
    OBVIOUS
  <2>4. propagateDelPts(S, n, <<>>)
    BY <1>8, <2>3 DEF processAddrRemoval
  <2>5. \A k \in Node : \A o \in pts[k] :
           \/ \E f \in fEdges' : f.kind = "Addr" /\ f.src = o /\ f.dst = k
           \/ \E s \in SuperDirect : s.dst = k /\ o \in Transfer(s.kind, pts[s.src])
           \/ k = n /\ o \in S
    BY <1>4, <1>6, <1>7, <2>1, <2>3 DEF Provided, Doubted, IsDirect, DirectKind
  <2>6. Reckoned'
    <3>1. PICK callers : callers = <<>>
      OBVIOUS
    <3>2. callers \in Seq(Frame) /\ n \in Node /\ propagateDelPts(S, n, callers)
      BY <1>6, <1>7, <2>3, <2>4, <3>1
    <3>3. Accounted(S, n, callers)
      BY <2>1, <2>5, <3>1 DEF Accounted
    <3>4. TypeOK /\ (\A k \in Node : rep[k] = k) /\ \A s \in SuperDirect : s.src # s.dst
      BY <1>2, <1>3
    <3>5. callers \in Seq(Frame)
      BY <3>2
    <3>6. n \in Node
      BY <3>2
    <3>7. propagateDelPts(S, n, callers)
      BY <3>2
    <3> QED BY <2>2, <3>3, <3>4, <3>5, <3>6, <3>7, DelCallDoubts
  <2> QED BY <1>1, <1>4, <1>6, <2>1, <2>6 DEF SingleInv
<1>9. CASE processDirectConstraintRemoval(e)
  <2>1. UNCHANGED <<fEdges, sEdges>>
    BY <1>9 DEF processDirectConstraintRemoval, flatVars
  <2>2. SuperDirect' = SuperDirect
    BY <2>1 DEF SuperDirect
  <2>3. PICK S, n : S = Transfer(e.kind, pts[e.src]) /\ n = e.dst
    OBVIOUS
  <2>4. propagateDelPts(S, n, <<>>)
    BY <1>3, <1>6, <1>9, <2>3 DEF processDirectConstraintRemoval, getPts
  <2>5. \A k \in Node : \A o \in pts[k] :
           \/ \E f \in fEdges : f.kind = "Addr" /\ f.src = o /\ f.dst = k
           \/ \E s \in SuperDirect : s.dst = k /\ o \in Transfer(s.kind, pts[s.src])
           \/ k = n /\ o \in S
    BY <1>4, <1>6, <1>7, <2>3 DEF Provided, Doubted
  <2>6. Reckoned'
    <3>1. PICK callers : callers = <<>>
      OBVIOUS
    <3>2. callers \in Seq(Frame) /\ n \in Node /\ propagateDelPts(S, n, callers)
      BY <1>6, <1>7, <2>1, <2>3, <2>4, <3>1
    <3>3. Accounted(S, n, callers)
      BY <2>1, <2>5, <3>1 DEF Accounted
    <3>4. TypeOK /\ (\A k \in Node : rep[k] = k) /\ \A s \in SuperDirect : s.src # s.dst
      BY <1>2, <1>3
    <3>5. callers \in Seq(Frame)
      BY <3>2
    <3>6. n \in Node
      BY <3>2
    <3>7. propagateDelPts(S, n, callers)
      BY <3>2
    <3> QED BY <2>2, <3>3, <3>4, <3>5, <3>6, <3>7, DelCallDoubts
  <2>7. e \notin fEdges
    BY <1>4, <1>9 DEF processDirectConstraintRemoval, IsDirect, DirectKind
  <2> QED BY <1>1, <1>4, <1>6, <2>1, <2>6, <2>7 DEF SingleInv
<1> QED BY <1>8, <1>9

(* A call along an edge: what the caller's frame doubted there. *)
LEMMA DelOutSingle ==
  ASSUME ExactInv, PlainInv, SingleInv, Single, ~Over, NEW t \in PendingOuts, DelOut(t)
  PROVE  SingleInv'
<1> USE DEF ctlVars, roundVars, superVars, flatVars, delVars
<1>1. /\ stack # <<>> /\ t \in Head(stack).outs /\ Deleting
      /\ propagateDelPts(Transfer(t.kind, Head(stack).d), t.dst, Resumed(t))
      /\ UNCHANGED <<fEdges, sEdges, delDirectEdgeVec, delEdgeVec, base, diff>>
  BY DEF DelOut, InDeletion, Deleting
<1>2. /\ TypeOK /\ BoundInv /\ Merges /\ Plain /\ stack \in Seq(Frame)
  BY DEF ExactInv, BoundInv, Inv, Single, TypeOK, PtsTypeOK
<1>3. /\ \A k \in Node : rep[k] = k
      /\ \A s \in SuperDirect : s.src # s.dst
  BY <1>2, PlainDeletion
<1>4. /\ diff \cap fEdges \subseteq delDirectEdgeVec \cup delEdgeVec
      /\ delDirectEdgeVec \subseteq diff /\ delEdgeVec = {} /\ Reckoned
  BY <1>1 DEF SingleInv
<1>5. t.dst \in Node
  BY <1>1, <1>2, HeadCalls DEF Frame, DirectEdge, Edge
<1>6. PICK S, n, callers : S = Transfer(t.kind, Head(stack).d) /\ n = t.dst /\ callers = Resumed(t)
  OBVIOUS
<1>7. callers \in Seq(Frame)
  BY <1>1, <1>2, <1>6, ResumedCalls
<1>8. n \in Node
  BY <1>5, <1>6
<1>9. propagateDelPts(S, n, callers)
  BY <1>1, <1>6
<1>10. SuperDirect' = SuperDirect
  BY <1>1 DEF SuperDirect
<1>11. /\ \A f \in Calls(stack) : f = Head(stack) \/ f \in Calls(callers)
       /\ \E g \in Calls(callers) : g.d = Head(stack).d /\ g.outs = Head(stack).outs \ {t}
  BY <1>1, <1>2, <1>6, ResumedOuts
<1>12. Accounted(S, n, callers)
  <2> SUFFICES ASSUME NEW k \in Node, NEW o \in pts[k]
               PROVE  \/ \E e \in fEdges' : e.kind = "Addr" /\ e.src = o /\ e.dst = k
                      \/ \E s \in SuperDirect : s.dst = k /\ o \in Transfer(s.kind, pts[s.src])
                      \/ \E f \in Calls(callers) : \E s \in f.outs : s.dst = k /\ o \in Transfer(s.kind, f.d)
                      \/ k = n /\ o \in S
    BY DEF Accounted
  <2>1. CASE Provided(k, o)
    BY <1>1, <2>1 DEF Provided
  <2>2. CASE Doubted(k, o)
    <3>1. PICK f \in Calls(stack) : \E s \in f.outs : s.dst = k /\ o \in Transfer(s.kind, f.d)
      BY <1>4, <2>2 DEF Doubted
    <3>2. PICK s \in f.outs : s.dst = k /\ o \in Transfer(s.kind, f.d)
      BY <3>1
    <3>3. CASE f \in Calls(callers)
      BY <3>2, <3>3
    <3>4. CASE f = Head(stack) /\ s = t
      BY <1>6, <3>2, <3>4
    <3>5. CASE f = Head(stack) /\ s # t
      BY <1>11, <3>2, <3>5
    <3> QED BY <1>11, <3>3, <3>4, <3>5
  <2> QED BY <1>4, <2>1, <2>2 DEF Reckoned
<1>13. TypeOK /\ (\A k \in Node : rep[k] = k) /\ \A s \in SuperDirect : s.src # s.dst
  BY <1>2, <1>3
<1>14. Reckoned'
  BY <1>7, <1>8, <1>9, <1>10, <1>12, <1>13, DelCallDoubts
<1> QED BY <1>1, <1>4, <1>14 DEF SingleInv

(* A call that has followed every edge doubts nothing, and there is no load
   or store at its node. *)
LEMMA DelComplexSingle ==
  ASSUME ExactInv, PlainInv, SingleInv, Single, ~Over, DelComplex
  PROVE  SingleInv'
<1> USE DEF ctlVars, roundVars, superVars
<1>1. /\ stack # <<>> /\ Head(stack).outs = {} /\ Deleting /\ stack' = Tail(stack)
      /\ UNCHANGED <<fEdges, sEdges, pts, delEdgeVec, base, diff>>
  BY DEF DelComplex, InDeletion, Deleting
<1>2. /\ TypeOK /\ BoundInv /\ Merges /\ Plain /\ stack \in Seq(Frame)
      /\ FlatTypeOK /\ SuperTypeOK /\ SuperMirrorsFlat
  BY DEF ExactInv, BoundInv, Inv, Single, TypeOK, PtsTypeOK, GraphsAgree
<1>3. fEdges \subseteq base /\ \A e \in base : ~IsComplex(e)
  BY <1>2, PlainDeletion
<1>4. ComplexAt(Head(stack).node) = {}
  <2>1. PICK r : r = Head(stack).node
    OBVIOUS
  <2>2. ComplexAt(r) = {e \in fEdges : IsComplex(e) /\ rep[Pointer(e)] = r}
    BY <1>2, ComplexAtMembers
  <2> QED BY <1>3, <2>1, <2>2
<1>5. LostDerivations({}, Head(stack).d) = {}
  BY DEF LostDerivations
<1>6. delDirectEdgeVec' = delDirectEdgeVec
  <2>1. PICK P : P = LostDerivations(ComplexAt(Head(stack).node), Head(stack).d)
    OBVIOUS
  <2>2. delDirectEdgeVec' = delDirectEdgeVec \cup {x[1] : x \in {y \in P : Orphan(y[1], ComplexEdgesWithout(P))}}
    BY <2>1 DEF DelComplex
  <2>3. P = {}
    BY <1>4, <1>5, <2>1
  <2> QED BY <2>2, <2>3
<1>7. /\ diff \cap fEdges \subseteq delDirectEdgeVec \cup delEdgeVec
      /\ delDirectEdgeVec \subseteq diff /\ delEdgeVec = {} /\ Reckoned
  BY <1>1 DEF SingleInv
<1>8. Calls(stack) = {Head(stack)} \cup Calls(Tail(stack))
  BY <1>1, <1>2, HeadCalls
<1>9. Reckoned'
  BY <1>1, <1>7, <1>8 DEF Reckoned, Provided, Doubted, SuperDirect
<1> QED BY <1>1, <1>6, <1>7, <1>9 DEF SingleInv

(* No step of the deletion loses count. *)
LEMMA DeletionSingle ==
  ASSUME ExactInv, PlainInv, SingleInv, Single, ~Over, DeletionStep
  PROVE  SingleInv'
<1> USE DEF ctlVars, roundVars, superVars, flatVars, delVars
<1>1. /\ BoundInv /\ Merges /\ Plain /\ Deleting
  BY DeletionFrame DEF ExactInv, Single, DeletionMoves
<1>2. /\ redetectReps = {} /\ \A e \in base : ~IsComplex(e)
  BY <1>1, PlainDeletion
<1>3. /\ delEdgeVec \subseteq diff /\ diff \subseteq base
  BY <1>1 DEF SingleInv, BoundInv, Inv, TypeOK, RoundTypeOK
<1>4. ASSUME UNCHANGED <<fEdges, sEdges, pts, stack, delDirectEdgeVec, delEdgeVec, base, diff>>
      PROVE  SingleInv'
  <2>1. Reckoned' = Reckoned /\ (stack # <<>>)' = (stack # <<>>)
    BY <1>4 DEF Reckoned, Provided, Doubted, SuperDirect
  <2> QED BY <1>1, <1>4, <2>1 DEF SingleInv
<1>5. CASE \E s \in PendingOuts : DelOut(s)
  BY <1>5, DelOutSingle
<1>6. CASE DelComplex
  BY <1>6, DelComplexSingle
<1>7. CASE \E e \in delDirectEdgeVec : processCopyEdgeRemoval(e) \/ processGepEdgeRemoval(e)
  BY <1>7, DirectRemovalSingle
<1>8. CASE DelDirectDone \/ RedetectDone \/ DelIterationDone
  BY <1>4, <1>8 DEF DelDirectDone, RedetectDone, DelIterationDone
<1>9. CASE \E r \in redetectReps : SCCKeep(r) \/ SCCRestore(r)
  BY <1>2, <1>9
<1>10. CASE \E e \in delEdgeVec : \/ processAddrRemoval(e)
                                  \/ processDirectConstraintRemoval(e)
                                  \/ skipNormalGepConstraintRemoval(e)
                                  \/ processComplexRemoval(e)
  <2>1. PICK e \in delEdgeVec : \/ processAddrRemoval(e)
                                \/ processDirectConstraintRemoval(e)
                                \/ skipNormalGepConstraintRemoval(e)
                                \/ processComplexRemoval(e)
    BY <1>10
  <2>2. e.kind # "NormalGep" /\ ~IsComplex(e)
    BY <1>2, <1>3 DEF Single
  <2>3. processAddrRemoval(e) \/ processDirectConstraintRemoval(e)
    BY <2>1, <2>2 DEF skipNormalGepConstraintRemoval, processComplexRemoval
  <2> QED BY <2>3, RetractionSingle
<1> QED BY <1>5, <1>6, <1>7, <1>8, <1>9, <1>10 DEF DeletionStep

(* Nor any other step. *)
LEMMA SingleKept ==
  ASSUME ExactInv, PlainInv, SingleInv, [Next]_vars
  PROVE  SingleInv'
<1>1. CASE UNCHANGED vars
  BY <1>1 DEF vars, flatVars, superVars, delVars, ctlVars, roundVars, SingleInv, Deleting, Single, Plain,
              Reckoned, Provided, Doubted, SuperDirect
<1>2. CASE \E D \in SUBSET base : D # {} /\ StartRound(D)
  BY <1>2, StartSingle
<1>3. CASE DeletionStep
  <2>1. DeletionMoves
    BY <1>3, DeletionFrame
  <2>2. ~Over /\ base' = base /\ diff' = diff
    BY <2>1 DEF DeletionMoves, Deleting, Over
  <2>3. CASE Single
    BY <1>3, <2>2, <2>3, DeletionSingle
  <2>4. CASE ~Single
    <3>1. ~Single'
      BY <2>2, <2>4 DEF Single, Plain
    <3> QED BY <3>1 DEF SingleInv
  <2> QED BY <2>3, <2>4
<1>4. CASE InsertionStep
  <2>1. ~Deleting' /\ pc' # "deleted"
    BY <1>4, InsertionFrame DEF InsertionMoves, Inserting, Deleting, FinishOld
  <2> QED BY <2>1 DEF SingleInv
<1> QED BY <1>1, <1>2, <1>3, <1>4 DEF Next

(* Both hold throughout. *)
LEMMA SingleInvariant == Spec => [](PlainInv /\ SingleInv)
<1>1. Init /\ ExactInv => PlainInv /\ SingleInv
  <2>1. SUFFICES ASSUME Init, ExactInv PROVE PlainInv /\ SingleInv
    OBVIOUS
  <2>2. SingleInv
    BY <2>1 DEF Init, SingleInv, Deleting
  <2>3. PlainInv
    <3>1. SUFFICES ASSUME ~Over, Plain PROVE sEdges \subseteq base
      BY <2>1 DEF Init, PlainInv
    <3>2. BoundInv
      BY <2>1 DEF ExactInv
    <3>3. /\ TypeOK /\ RoundsCount /\ RepsOnCycles /\ EdgesBounded
      BY <3>2, <3>1 DEF BoundInv, Inv, Bounded
    <3>4. fEdges \subseteq base /\ \A e \in base : Lift(e) = e
      BY <3>1, <3>3, PlainFacts DEF EdgesBounded
    <3>5. sEdges = {Lift(e) : e \in fEdges}
      BY <2>1 DEF Init, SolvedSuper, Lift
    <3> QED BY <3>4, <3>5
  <2> QED BY <2>2, <2>3
<1>2. ExactInv /\ PlainInv /\ SingleInv /\ [Next]_vars => (PlainInv /\ SingleInv)'
  <2>1. ExactInv => BoundInv
    BY DEF ExactInv
  <2> QED BY <2>1, PlainKept, SingleKept
<1>3. Spec => []ExactInv
  BY ExactInvariant
<1> QED BY <1>1, <1>2, <1>3, PTL DEF Spec

(* When the deletion is over nothing is doubted any more. *)
LEMMA SingleExact ==
  ASSUME ExactInv, PlainInv, SingleInv, pc = "deleted", Single
  PROVE  \A n \in Node : pts[n] = LeastSolution(base \ diff)[n]
<1>1. /\ TypeOK /\ BoundInv /\ RoundsCount /\ Merges /\ Plain /\ ~Over /\ stack = <<>>
      /\ delEdgeVec = {} /\ delDirectEdgeVec = {}
  BY DEF ExactInv, BoundInv, Inv, Single, Over, Ledger, PhaseClean, VectorsClean, Deleting
<1>2. /\ \A k \in Node : rep[k] = k
      /\ fEdges \subseteq base /\ sEdges \subseteq base
      /\ \A e \in base : ~IsComplex(e)
      /\ \A e \in base : IsDirect(e) => e.src # e.dst /\ e.src \in Node /\ e.dst \in Node
      /\ \A e \in base : Lift(e) = e
  BY <1>1, PlainDeletion
<1>3. /\ diff \cap fEdges = {} /\ Reckoned
  BY <1>1 DEF SingleInv
<1>4. \A n \in Node : \A o \in pts[n] : Provided(n, o)
  BY <1>1, <1>3, EmptyCalls DEF Reckoned, Doubted
<1>5. PICK B, L : B = base \ diff /\ L = LeastSolution(B)
  OBVIOUS
<1>6. base \in SUBSET ProgramEdge
  BY <1>1, ProgramFacts
<1>7. B \in SUBSET ProgramEdge
  BY <1>5, <1>6
<1>8. Closes(B, L) /\ L \in [Node -> SUBSET Obj]
  BY <1>5, <1>7, SolutionCloses, SolutionType DEF Assignment
<1>9. fEdges \subseteq B
  BY <1>2, <1>3, <1>5
<1>10. SuperDirect \subseteq B
  <2>1. SuperEdgesUsed /\ fEdgeSet = {<<Lift(f), f>> : f \in fEdges}
    BY <1>1 DEF BoundInv, Inv, GraphsAgree, SuperMirrorsFlat
  <2>2. ASSUME NEW s \in SuperDirect
        PROVE  s \in fEdges
    <3>1. s \in sEdges /\ s.src # s.dst
      BY <1>2, <2>2 DEF SuperDirect
    <3>2. PICK x \in fEdgeSet : x[1] = s
      BY <2>1, <3>1 DEF SuperEdgesUsed
    <3> QED BY <1>2, <2>1, <3>2
  <2> QED BY <1>9, <2>2
<1>11. SolvedDirect(base) = {e \in base : IsDirect(e)}
  BY <1>1 DEF SolvedDirect, DerivedCopies, Plain
<1>12. PICK W : W = {n \in Node : ~(pts[n] \subseteq L[n])}
  OBVIOUS
<1>13. ASSUME NEW n \in W
       PROVE  \E e \in SolvedDirect(base) : e.dst = n /\ e.src \in W /\ ~SameCycle(Node, SolvedDirect(base), e.src, n)
  <2>1. PICK o \in pts[n] : o \notin L[n]
    BY <1>12
  <2>2. n \in Node /\ Provided(n, o)
    BY <1>4, <1>12
  <2>3. ~\E e \in fEdges : e.kind = "Addr" /\ e.src = o /\ e.dst = n
    BY <1>8, <1>9, <2>1 DEF Closes
  <2>4. PICK s \in SuperDirect : s.dst = n /\ o \in Transfer(s.kind, pts[s.src])
    BY <2>2, <2>3 DEF Provided
  <2>5. s \in B /\ IsDirect(s) /\ s \in base
    BY <1>5, <1>10, <2>4 DEF SuperDirect
  <2>6. s.src \in Node /\ s.src # n
    BY <1>2, <2>4, <2>5
  <2>7. ~(pts[s.src] \subseteq L[s.src])
    <3>1. SUFFICES ASSUME pts[s.src] \subseteq L[s.src] PROVE FALSE
      OBVIOUS
    <3>2. PICK kind, S, T : kind = s.kind /\ S = pts[s.src] /\ T = L[s.src]
      OBVIOUS
    <3>3. kind \in DirectKind /\ S \in SUBSET Obj /\ T \in SUBSET Obj /\ S \subseteq T
      BY <1>1, <1>8, <2>5, <2>6, <3>1, <3>2 DEF IsDirect, TypeOK, PtsTypeOK
    <3>4. Transfer(kind, S) \subseteq Transfer(kind, T)
      BY <3>3, TransferMonotone
    <3>5. Transfer(kind, T) \subseteq L[n]
      BY <1>8, <2>4, <2>5, <3>2 DEF Closes
    <3> QED BY <2>1, <2>4, <3>2, <3>4, <3>5
  <2>8. s.src \in W
    BY <1>12, <2>6, <2>7
  <2>9. ~SameCycle(Node, SolvedDirect(base), s.src, n)
    <3>1. RepsOnCycles
      BY <1>1 DEF BoundInv, Bounded
    <3> QED BY <1>1, <2>2, <2>6, <3>1, PlainFacts DEF OnCycle
  <2>10. s \in SolvedDirect(base)
    BY <1>11, <2>5
  <2> QED BY <2>4, <2>8, <2>9, <2>10
<1>14. W = {}
  <2>1. PICK E : E = SolvedDirect(base)
    OBVIOUS
  <2>2. \A n \in W : \E e \in E : e.dst = n /\ e.src \in W /\ ~SameCycle(Node, E, e.src, n)
    BY <1>13, <2>1
  <2>3. W \in SUBSET Node
    BY <1>12
  <2> QED BY <2>2, <2>3, NoEndlessDescent
<1>15. \A n \in Node : L[n] \subseteq getPts(n)
  BY <1>5, DeletionStaysSound
<1>16. ASSUME NEW n \in Node
       PROVE  pts[n] = L[n]
  <2>1. pts[n] \subseteq L[n]
    BY <1>12, <1>14
  <2>2. L[n] \subseteq pts[n]
    BY <1>2, <1>15 DEF getPts
  <2> QED BY <2>1, <2>2
<1> QED BY <1>5, <1>16

(* After one constraint is deleted from a program without loads, stores and
   cycles the points-to sets are those of the exhaustive analysis of what is
   left: deletion takes away exactly what the constraint alone provided. *)
THEOREM DeletionIsExact == Spec => []DeletionExactAcyclic
<1>1. ExactInv /\ PlainInv /\ SingleInv => DeletionExactAcyclic
  <2>1. SUFFICES ASSUME ExactInv, PlainInv, SingleInv, pc = "deleted", Single
                 PROVE  Exact(base \ diff)
    BY DEF DeletionExactAcyclic, Single, Plain
  <2>2. \A n \in Node : getPts(n) = LeastSolution(base \ diff)[n]
    <3>1. \A n \in Node : pts[n] = LeastSolution(base \ diff)[n]
      BY <2>1, SingleExact
    <3>2. BoundInv /\ Merges /\ Plain /\ ~Over
      BY <2>1 DEF ExactInv, Single, Over
    <3> QED BY <2>1, <3>1, <3>2, PlainDeletion DEF getPts
  <2>3. LeastSolution(base \ diff) \in [Node -> SUBSET Obj]
    <3>1. base \ diff \in SUBSET ProgramEdge
      BY <2>1 DEF ExactInv, BoundInv, Inv, TypeOK, RoundTypeOK
    <3> QED BY <3>1, SolutionType DEF Assignment
  <2> QED BY <2>2, <2>3 DEF Exact
<1> QED BY <1>1, ExactInvariant, SingleInvariant, PTL
=============================================================================
