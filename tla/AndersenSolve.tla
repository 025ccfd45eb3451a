--------------------------- MODULE AndersenSolve ---------------------------
(***************************************************************************)
(* The exhaustive phase of the incremental analysis (AndersenInc::analyze; *)
(* AndersenWaveDiff works the same way on its one graph): waves of cycle   *)
(* merging, propagation of the difference sets in topological order, and   *)
(* derivation of copies from loads and stores, until no wave adds an edge; *)
(* then the indirect calls are resolved, and all again if that connects    *)
(* one. An object reached by a gep with a variable offset, or pointed to   *)
(* from a cycle with a gep in it, is collapsed: its fields become it.      *)
(*                                                                         *)
(* The representative of a cycle and the order of nodes that no direct     *)
(* edge orders are left open. The worklist is drained in one order: no     *)
(* points-to set changes meanwhile. Offsets are abstracted to one: a       *)
(* normal gep is one that has an offset.                                   *)
(***************************************************************************)
EXTENDS SuperConsG

CONSTANTS
  Programs,        \* the sets of program constraints that are analysed
  Calls,           \* [ptr, fun, copies]: an indirect call through ptr passes its
                   \* arguments and result along copies when it calls object fun
  BlkOrConstObj    \* isBlkObjOrConstantObj: objects that are never collapsed

SolveAssumption ==
  /\ ConstraintsAssumption
  /\ BlkOrConstObj \subseteq Obj
  /\ \A o \in BlkOrConstObj : GepObjVar[o] = o /\ FIObjVar[o] = o
  /\ \A B \in Programs : WellFormed(B)
  /\ \A c \in Calls : c.ptr \in Ptr /\ c.fun \in Obj /\ c.copies \subseteq DirectEdge

VARIABLES
  base,       \* the constraints of the program
  pts,        \* points-to sets, kept for representatives
  propa,      \* propaPtsMap: what a node has already handed on
  insensitive,\* the base objects set field-insensitive
  pwc,        \* representatives of cycles with a gep inside
  nodeStack,  \* nodes still to be processed in this wave
  order,      \* the direct edges that ordered them
  cur,        \* the node popped last
  toCollapse, \* nodesToBeCollapsed, and the objects collapseNodePts is to collapse
  worklist,   \* nodes whose set changed
  derivable,  \* <<ce, o>>: the node being post-processed has ce and points to o
  connected,  \* the indirect calls resolved
  reanalyze, pc

ptsVars == <<pts, propa>>
fieldVars == <<insensitive, pwc, toCollapse>>
waveVars == <<nodeStack, order, cur>>
vars == <<flatVars, superVars, base, ptsVars, fieldVars, waveVars, worklist, derivable,
          connected, reanalyze, pc>>

getPts(n) == pts[rep[n]]

Direct(E) == {e \in E : IsDirect(e)}

-----------------------------------------------------------------------------
(* Both graphs are built from the statements, one edge of a kind between two
   nodes, no copy of a node to itself; processAllAddr. *)
Built(B) == {e \in B : e.kind = "Copy" => e.src # e.dst}

Init ==
  /\ base \in Programs
  /\ fEdges = Built(base) /\ compCache = {}
  /\ complexEdgeSet = {<<e, e>> : e \in {x \in Built(base) : x.kind = "Copy"}}
  /\ rep = [n \in Node |-> n] /\ subs = [n \in Node |-> {}]
  /\ sEdges = fEdges /\ fEdgeSet = {<<e, e>> : e \in fEdges} /\ rep2tempG = <<>>
  /\ pts = [n \in Node |-> {e.src : e \in {x \in base : x.kind = "Addr" /\ x.dst = n}}]
  /\ propa = [n \in Node |-> {}]
  /\ insensitive = {} /\ pwc = {} /\ toCollapse = {}
  /\ nodeStack = {} /\ order = {} /\ cur \in {CHOOSE n \in Node : TRUE}
  /\ worklist = {n \in Node : pts[n] # {}}
  /\ derivable = {} /\ connected = {} /\ reanalyze = FALSE /\ pc = "scc"

-----------------------------------------------------------------------------
(***************************************************************************)
(* mergeSrcToTgt for every representative k that m gives another one: the  *)
(* sets are united, only what both have handed on stays handed on, and a   *)
(* gep that now leads from the representative to itself, or a flag of a    *)
(* merged node, makes it the node of a positive-weight cycle.              *)
(***************************************************************************)
Joined(m, n) == {k \in Reps : m[k] = n}

MergedPropa_Union(m, n) == UNION {propa[k] : k \in Joined(m, n)}

MergedPropa(m, n) == {o \in Obj : \A k \in Joined(m, n) : o \in propa[k]}

MergedPWC(m) ==
  {n \in Reps : m[n] = n /\
     \/ \E k \in Joined(m, n) : k \in pwc
     \/ \E s \in sEdges : /\ s.kind \in {"NormalGep", "VariantGep"}
                          /\ m[s.src] = n /\ m[s.dst] = n
                          /\ {s.src, s.dst} # {n}}

mergeNodes(m, p) ==
  /\ mergeSccCycle(m)
  /\ pts' = [n \in Node |-> UNION {p[k] : k \in IF n \in Reps THEN Joined(m, n) \cup {n} ELSE {n}}]
  /\ propa' = [n \in Node |-> IF n \in Reps /\ m[n] = n THEN MergedPropa(m, n) ELSE propa[n]]
  /\ pwc' = MergedPWC(m)

(* SCCDetect: the start of a wave. *)
SCCDetect ==
  /\ pc = "scc"
  /\ \E m \in RepChoices(Reps, Components(Reps, Direct(sEdges))) :
       /\ mergeNodes(m, pts)
       /\ nodeStack' = {n \in Reps : m[n] = n}
       /\ order' = {<<m[s.src], m[s.dst]>> : s \in {x \in Direct(sEdges) : m[x.src] # m[x.dst]}}
  /\ pc' = "node"
  /\ UNCHANGED <<flatVars, base, insensitive, toCollapse, cur, worklist, derivable,
                 connected, reanalyze>>

-----------------------------------------------------------------------------
(* The base objects of S that collapseNodePts finds field-sensitive;
   collapseField leaves the black hole and constants alone. *)
Collapsible(S) == {FIObjVar[o] : o \in S \ BlkOrConstObj} \ insensitive

(***************************************************************************)
(* The next node in topological order. If it stands for a positive-weight  *)
(* cycle, everything it points to is collapsed first (collapsePWCNode).    *)
(***************************************************************************)
Ready == {n \in nodeStack : \A x \in order : x[2] = n => x[1] \notin nodeStack}

(* Nodes that have something to do; the others pass in one order. *)
Active == {n \in Ready : rep[n] \in pwc \/ pts[n] # propa[n]}
Next1  == IF Ready \subseteq Active THEN Ready ELSE {CHOOSE n \in Ready \ Active : TRUE}

PopNode(n) ==
  /\ pc = "node" /\ toCollapse = {} /\ n \in Next1
  /\ nodeStack' = nodeStack \ {n}
  /\ cur' = n
  /\ toCollapse' = IF rep[n] \in pwc THEN Collapsible(getPts(n)) ELSE {}
  /\ pc' = "pwc"
  /\ UNCHANGED <<flatVars, superVars, base, ptsVars, insensitive, pwc, order, worklist,
                 derivable, connected, reanalyze>>

(***************************************************************************)
(* collapseField: what points to a field points to the object instead and  *)
(* is put on the worklist, and the fields' nodes are merged into the       *)
(* object's. If that is the node of a positive-weight cycle, what it       *)
(* points to is collapsed as well.                                         *)
(***************************************************************************)
Fields(b) == {f \in Obj \ {b} : FIObjVar[f] = b /\ \E n \in Node : f \in pts[n]}

CollapseRep(b) ==
  [r \in Reps |-> IF \E f \in Fields(b) : rep[f] = r THEN rep[b] ELSE r]

collapseField(b) ==
  LET F == Fields(b)
      users == {n \in Node : pts[n] \cap F # {}}
  IN  /\ b \in toCollapse
      /\ insensitive' = insensitive \cup {b}
      /\ mergeNodes(CollapseRep(b),
           [n \in Node |-> IF n \in users THEN (pts[n] \ F) \cup {b} ELSE pts[n]])
      /\ worklist' = worklist \cup {rep[n] : n \in users}
      /\ toCollapse' = (toCollapse \ {b}) \cup
           IF rep[b] \in pwc' THEN {FIObjVar[o] : o \in pts'[rep[b]] \ BlkOrConstObj} \ insensitive'
           ELSE {}
      /\ reanalyze' = (reanalyze \/ users # {})
      /\ UNCHANGED <<flatVars, base, waveVars, derivable, connected, pc>>

(***************************************************************************)
(* processNode: the difference set of the node, if it is still a           *)
(* representative, goes along its copies and geps. A gep with a variable   *)
(* offset sets the objects field-insensitive and leaves them to            *)
(* collapseFields; late says whether the normal geps come after it.        *)
(***************************************************************************)
Diff(n) == pts[n] \ propa[n]

Sent(s, D, fi) ==
  CASE s.kind = "Copy" -> D
    [] s.kind = "VariantGep" -> {FIObjVar[o] : o \in D}
    [] s.kind = "NormalGep" ->
         {IF FIObjVar[o] \in fi THEN o ELSE GepObjVar[o] : o \in D}

VariantTargets(n, D) ==
  IF \E s \in sEdges : s.kind = "VariantGep" /\ s.src = n /\ s.dst # n
  THEN Collapsible(D) ELSE {}

processNode ==
  /\ pc = "pwc" /\ toCollapse = {}
  /\ pc' = "node"
  /\ IF rep[cur] # cur
     THEN UNCHANGED <<ptsVars, insensitive, toCollapse, worklist>>
     ELSE \E late \in BOOLEAN :
       LET D   == Diff(cur)
           new == VariantTargets(cur, D)
           fi  == IF late THEN insensitive \cup new ELSE insensitive
           got == [n \in Node |-> UNION {Sent(s, D, fi) : s \in
                     {x \in Direct(sEdges) : x.src = cur /\ x.dst = n /\ n # cur}}]
       IN  /\ late => new # {}
           /\ pts' = [n \in Node |-> pts[n] \cup got[n]]
           /\ propa' = [propa EXCEPT ![cur] = pts[cur]]
           /\ insensitive' = insensitive \cup new
           /\ toCollapse' = new
           /\ worklist' = worklist \cup {n \in Node : ~(got[n] \subseteq pts[n])}
  /\ UNCHANGED <<flatVars, superVars, base, pwc, waveVars, derivable, connected, reanalyze>>

-----------------------------------------------------------------------------
(* The loads and stores a representative stands for. *)
ComplexAt_Own(r) == {e \in fEdges : IsComplex(e) /\ Pointer(e) = r}

ComplexAt(r) ==
  {x[2] : x \in {y \in fEdgeSet : IsComplex(y[1]) /\ Pointer(y[1]) = r}}

(* postProcessNode, once the nodes are through: the pairs whose copy is not
   recorded yet. *)
PostProcess(w) ==
  /\ pc = "node" /\ nodeStack = {} /\ toCollapse = {} /\ derivable = {}
  /\ w \in worklist
  /\ worklist' = worklist \ {w}
  /\ derivable' = (ComplexAt(rep[w]) \X (getPts(w) \ NonPtrObj)) \ compCache
  /\ UNCHANGED <<flatVars, superVars, base, ptsVars, fieldVars, waveVars, connected,
                 reanalyze, pc>>

(* updatePropaPts for a new super edge: what its target has handed on it
   already has. *)
Propa_Kept(e) == propa

Propa(e) == [propa EXCEPT ![rep[e.src]] = @ \cap propa[rep[e.dst]]]

(* addCopyEdgeByComplexEdge *)
Derive(x) ==
  LET e == DerivedCopy(x[1], x[2])
  IN  /\ x \in derivable
      /\ derivable' = derivable \ {x}
      /\ addCopyFCGEdge(e, x[1])
      /\ addSCGEdge(e)
      /\ propa' = IF NewSEdge(e) THEN Propa(e) ELSE propa
      /\ reanalyze' = (reanalyze \/ NewSEdge(e))
      /\ UNCHANGED <<rep, subs, rep2tempG, base, pts, fieldVars, waveVars, worklist,
                     connected, pc>>

-----------------------------------------------------------------------------
(***************************************************************************)
(* updateCallGraph, when the worklist is empty: every call whose pointer   *)
(* has come to point to the function is connected; the sources of new      *)
(* copies go on the worklist; another wave if there is something new.      *)
(***************************************************************************)
NewCalls == {c \in Calls \ connected : c.fun \in getPts(c.ptr)}

updateCallGraph ==
  LET new == UNION {c.copies : c \in NewCalls}
      sup == {e \in new : NewSEdge(e)}
  IN  /\ pc = "node" /\ nodeStack = {} /\ toCollapse = {} /\ derivable = {} /\ worklist = {}
      /\ connected' = connected \cup NewCalls
      /\ fEdges' = fEdges \cup new
      /\ complexEdgeSet' = complexEdgeSet \cup {<<e, e>> : e \in new \ fEdges}
      /\ sEdges' = sEdges \cup {Lift(e) : e \in new}
      /\ fEdgeSet' = fEdgeSet \cup {<<Lift(e), e>> : e \in new}
      /\ propa' = [n \in Node |-> {o \in propa[n] :
                     \A e \in sup : rep[e.src] = n => o \in propa[rep[e.dst]]}]
      /\ worklist' = {rep[e.src] : e \in sup}
      /\ pc' = IF reanalyze \/ NewCalls # {} THEN "scc" ELSE "done"
      /\ reanalyze' = FALSE
      /\ UNCHANGED <<compCache, rep, subs, rep2tempG, base, pts, fieldVars, waveVars, derivable>>

Next ==
  \/ SCCDetect
  \/ \E n \in Next1 : PopNode(n)
  \/ \E b \in toCollapse : collapseField(b)
  \/ processNode
  \/ worklist # {} /\ PostProcess(CHOOSE w \in worklist : TRUE)
  \/ derivable # {} /\ Derive(CHOOSE x \in derivable : TRUE)
  \/ updateCallGraph

Spec == Init /\ [][Next]_vars /\ WF_vars(Next)
-----------------------------------------------------------------------------
(***************************************************************************)
(* The reference: the least assignment closed under the constraints and    *)
(* the calls it makes possible, where the fields of a field-insensitive    *)
(* object are the object.                                                  *)
(***************************************************************************)
Whole(o) == IF FIObjVar[o] \in insensitive THEN FIObjVar[o] ELSE o

RefEdges(p) ==
  LET called == UNION {c.copies : c \in {x \in Calls : x.fun \in p[x.ptr]}}
  IN  Direct(base) \cup called \cup DerivedCopies(base, p)

RefStep(p) ==
  [n \in Node |-> p[n]
     \cup {e.src : e \in {x \in base : x.kind = "Addr" /\ x.dst = n}}
     \cup UNION {{Whole(o) : o \in Sent(e, p[e.src], insensitive)} :
                   e \in {x \in RefEdges(p) : x.dst = n}}]

Reference ==
  LET it[i \in Nat] ==
        IF i = 0 THEN [n \in Node |-> {}]
        ELSE LET q == it[i-1]
                 r == RefStep(q)
             IN  IF r = q THEN q ELSE r
  IN  it[Cardinality(Node) * Cardinality(Obj)]

Classes == {{k \in Node : rep[k] = r} : r \in Reps}

(***************************************************************************)
(* A cycle that closed after the first detection and takes in a pointer    *)
(* some load or store goes through: mergeNodeToRep does not put the        *)
(* representative on the worklist, although the loads and stores of each   *)
(* member have not seen what the others point to.                          *)
(***************************************************************************)
LateCycle ==
  \E C \in Classes :
    /\ \A D \in Components(Node, Direct(base)) : ~(C \subseteq D)
    /\ \E e \in base : IsComplex(e) /\ Pointer(e) \in C

Compared == {n \in Node : n \in Obj => Whole(n) = n}

(* The analysis never says more than the constraints do. *)
NothingExtra ==
  pc = "done" => \A n \in Compared : getPts(n) \subseteq Reference[n]

(* Without a late cycle it says all they do. *)
Complete ==
  pc = "done" /\ ~LateCycle => \A n \in Compared : Reference[n] \subseteq getPts(n)

(* With one as well, what a node points to has reached its successors. *)
Propagated ==
  pc = "done" => \A s \in Direct(sEdges) : s.src # s.dst =>
    Sent(s, pts[s.src], insensitive) \subseteq pts[s.dst]

(* The nodes of a cycle are merged; what is merged is a cycle, or the fields
   of a collapsed object with it. *)
CyclesMerged ==
  pc = "done" =>
    LET E == Direct(fEdges) \cup {CopyEdge(o, Whole(o)) : o \in Obj}
                            \cup {CopyEdge(Whole(o), o) : o \in {f \in Obj : rep[f] = rep[Whole(f)]}}
    IN  /\ \A C \in Components(Node, Direct(fEdges)) : \A n, k \in C : rep[n] = rep[k]
        /\ \A C \in Classes : \E D \in Components(Node, E) : C \subseteq D

(* What a variable gep or a cycle with a gep reaches is collapsed, and
   nothing else is. *)
GepCycle(e) == e.kind \in {"NormalGep", "VariantGep"} /\ rep[e.src] = rep[e.dst]

CollapsedExact ==
  pc = "done" =>
    LET from == {e.src : e \in {x \in fEdges : x.kind = "VariantGep" \/ GepCycle(x)}}
    IN  insensitive = {FIObjVar[o] : o \in UNION {getPts(n) : n \in from} \ BlkOrConstObj}

(***************************************************************************)
(* What the rounds start from: every derived copy recorded for every load  *)
(* and store that wants it, every flat edge in its super edge.             *)
(***************************************************************************)
HandedOver ==
  pc = "done" /\ ~LateCycle =>
    LET cx == {x \in {e \in base : IsComplex(e)} \X (Obj \ NonPtrObj) : x[2] \in getPts(Pointer(x[1]))}
    IN  /\ \A x \in cx : DerivedCopy(x[1], x[2]) \in fEdges /\ x \in compCache
        /\ \A x \in cx : <<DerivedCopy(x[1], x[2]), x[1]>> \in complexEdgeSet
        /\ fEdgeSet = {<<Lift(e), e>> : e \in fEdges}
        /\ sEdges = {Lift(e) : e \in fEdges}

SolveCorrect ==
  NothingExtra /\ Complete /\ Propagated /\ CyclesMerged /\ CollapsedExact /\ HandedOver

(***************************************************************************)
(* "src --load--> dst, node \in pts(src) ==> node--copy-->dst", and the    *)
(* like of stores.                                                         *)
(***************************************************************************)
EdgesDerived ==
  pc = "done" => \A e \in {x \in base : IsComplex(x)} : \A o \in getPts(Pointer(e)) \ NonPtrObj :
    LET d == DerivedCopy(e, o) IN rep[d.src] = rep[d.dst] \/ Lift(d) \in sEdges
=============================================================================
