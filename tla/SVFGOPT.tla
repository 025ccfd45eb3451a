------------------------------ MODULE SVFGOPT -------------------------------
(***************************************************************************)
(* The optimisation of the sparse value-flow graph: parameter and call-site *)
(* nodes are taken out, phis of formal parameters and results put in, and   *)
(* memory phis bypassed, while the stores and loads must stay connected as  *)
(* they were. An edge that carries several objects is one record for each.  *)
(***************************************************************************)
EXTENDS Naturals, Sequences, FiniteSets

CONSTANTS
  Node,        \* nodes of value-flow graphs
  Kind,        \* [Node -> "stmt", "phi", "AI", "AO", "FI", "FO", "AP", "FP", "AR", "FR"]
  Programs,    \* [nodes, graph, pinned, later, selfCycle]: the nodes and edges of a graph,
               \* the nodes at indirect call sites or in address-taken functions, the edges
               \* between actual and formal nodes of indirect calls, and the option
               \* -keep-self-cycle; an edge is [src, dst, kind, cs, obj]
  MaxCalls     \* how many calls and returns along a flow are looked at

OfKind(ks) == {n \in Node : Kind[n] \in ks}
In(E, n) == {e \in E : e.dst = n}
Out(E, n) == {e \in E : e.src = n}
Inter(e) == e.kind # "intra"

(* Calls and returns lead from what is passed to what is received. *)
Crosses(e) ==
  \/ e.src \in OfKind({"AI", "FO"}) /\ e.dst \in OfKind({"FI", "AO"})
  \/ e.src \in OfKind({"AP", "FR"}) /\ e.dst \in OfKind({"FP", "AR"})

(* Within a function memory and variables are apart; a statement uses both. The
   stores of global initialisers lead to the entry of the program. *)
Stays(e) ==
  \/ /\ e.src \in OfKind({"stmt", "phi", "FI", "AO"})
     /\ e.dst \in OfKind({"stmt", "phi", "AI", "FO"})
  \/ /\ e.src \in OfKind({"stmt", "FP", "AR"})
     /\ e.dst \in OfKind({"stmt", "AP", "FR"})
  \/ e.src \in OfKind({"stmt"}) /\ e.dst \in OfKind({"FI"})

Defined(G, e) == \E d \in In(G, e.src) : d.obj = e.obj

(* What is passed has one definition; an indirect call passes what it got, and
   its nodes stay. *)
WellFormed(p) ==
  /\ p.nodes \subseteq Node /\ p.selfCycle \in {"all", "context", "none"}
  /\ IsFiniteSet(p.nodes) /\ IsFiniteSet(p.graph) /\ IsFiniteSet(p.later)
  /\ \A e \in p.graph \cup p.later :
       /\ e.src \in p.nodes /\ e.dst \in p.nodes /\ (IF Inter(e) THEN Crosses(e) ELSE Stays(e))
       /\ e.src \in OfKind({"AI", "FO", "AP", "FR"}) => Defined(p.graph, e)
  /\ \A d, e \in p.graph : d.dst = e.dst /\ Kind[e.dst] \in {"AI", "FO", "AP", "FR"} => d.src = e.src
  /\ \A n \in p.nodes \cap OfKind({"AP", "FR"}) : In(p.graph, n) # {}
  /\ \A e \in p.later : Inter(e) /\ (Kind[e.dst] \in {"FI", "AO"} => e.dst \in p.pinned)

(* The phi that takes the place of a formal parameter or an actual result. *)
Phi(n) == [phiOf |-> n]

OptAssumption ==
  /\ Kind \in [Node -> {"stmt", "phi", "AI", "AO", "FI", "FO", "AP", "FP", "AR", "FR"}]
  /\ \A p \in Programs : WellFormed(p)
  /\ \A n \in Node : Phi(n) \notin Node
  /\ MaxCalls \in Nat \ {0}

Nodes == Node \cup {Phi(n) : n \in {m \in Node : Kind[m] \in {"FP", "AR"}}}

VARIABLES
  program,
  graph,       \* the graph before, for reference
  edges,
  phase,       \* "inter", "delete", "intra", "done"
  cands,       \* candidates not yet looked at
  del,         \* nodes to be deleted
  paramDef,    \* PAGNodeToDefMap: the definition of what an AP or FR passes
  defOf,       \* actualInToDefMap and formalOutToDefMap, pairs
  worklist,    \* memory phis
  removed      \* nodes taken out of the graph

optVars == <<program, graph, edges, phase, cands, del, paramDef, defOf, worklist, removed>>
-----------------------------------------------------------------------------
Around(E, n) == In(E, n) \cup Out(E, n)
DefNodes == {d[2] : d \in defOf}

(* The same edge between other nodes. *)
Moved(e, s, d) == [src |-> s, dst |-> d, kind |-> e.kind, cs |-> e.cs, obj |-> e.obj]

OptInit ==
  /\ program \in Programs /\ graph = program.graph /\ edges = graph
  /\ phase = "inter" /\ cands = program.nodes \ OfKind({"stmt", "phi"}) /\ del = {}
  /\ paramDef = [n \in OfKind({"AP", "FR"}) |->
       IF In(graph, n) = {} THEN n ELSE (CHOOSE e \in In(graph, n) : TRUE).src]
  /\ defOf = {} /\ worklist = {} /\ removed = {}

(* addNewSVFGEdge and the retargeting: the edge that stands for two others has
   the kind and the call site of the one that crosses functions. *)
Joined_Second(a, b) == [src |-> a.src, dst |-> b.dst, kind |-> b.kind, cs |-> b.cs, obj |-> a.obj]
Joined(a, b) ==
  LET k == IF Inter(a) THEN a ELSE b
  IN  [src |-> a.src, dst |-> b.dst, kind |-> k.kind, cs |-> k.cs, obj |-> a.obj]

Through_Any(I, O) == {Joined(x[1], x[2]) : x \in I \X O}
Through(I, O) == {Joined(x[1], x[2]) : x \in {y \in I \X O : y[1].obj = y[2].obj}}

(* A formal parameter, or an actual result, gives its edges to a new phi. What
   is passed is connected to the phi from where it is defined. *)
DefBy_Old(n) == paramDef
DefBy(n) == [p \in DOMAIN paramDef |-> IF paramDef[p] = n THEN Phi(n) ELSE paramDef[p]]

Migrated(n) == {Moved(e, Phi(n), e.dst) : e \in Out(edges, n)}
Passed_Intra(n, defs) ==
  {[Moved(e, defs[e.src], Phi(n)) EXCEPT !.kind = "intra"] : e \in In(edges, n)}
Passed(n, defs) == {Moved(e, defs[e.src], Phi(n)) : e \in In(edges, n)}

ReplaceFParamARet(n) ==
  /\ phase = "inter" /\ n \in cands \cap OfKind({"FP", "AR"})
  /\ paramDef' = DefBy(n)
  /\ edges' = (edges \ Around(edges, n)) \cup Migrated(n) \cup Passed(n, paramDef')
  /\ cands' = cands \ {n} /\ del' = del \cup {n}
  /\ UNCHANGED <<program, graph, phase, defOf, worklist, removed>>

(* An actual-in or formal-out leaves its definition, which is remembered, in
   its place, and stands without edges. *)
Remembered_Not(n) == defOf
Remembered_Swapped(n) == defOf \cup {<<e.src, n>> : e \in In(edges, n)}
Remembered(n) == defOf \cup {<<n, e.src>> : e \in In(edges, n)}

RetargetAInFOut(n) ==
  /\ phase = "inter" /\ n \in cands \cap OfKind({"AI", "FO"})
  /\ defOf' = Remembered(n)
  /\ edges' = (edges \ Around(edges, n)) \cup Through(In(edges, n), Out(edges, n))
  /\ cands' = cands \ {n} /\ del' = del \cup {n}
  /\ UNCHANGED <<program, graph, phase, paramDef, worklist, removed>>

(* The others are only marked. *)
Mark(n) ==
  /\ phase = "inter" /\ n \in cands \cap OfKind({"AP", "FR", "AO", "FI"})
  /\ cands' = cands \ {n} /\ del' = del \cup {n}
  /\ UNCHANGED <<program, graph, edges, phase, paramDef, defOf, worklist, removed>>

InterDone ==
  /\ phase = "inter" /\ cands = {}
  /\ phase' = "delete"
  /\ UNCHANGED <<program, graph, edges, cands, del, paramDef, defOf, worklist, removed>>

ConnectingTwoCallSites(n) ==
  (\E e \in In(edges, n) : Inter(e)) /\ \E e \in Out(edges, n) : Inter(e)

CanBeRemoved_Defs(n) == Kind[n] \in {"AP", "FP", "AR", "FR"} \/ n \notin program.pinned
CanBeRemoved(n) ==
  \/ Kind[n] \in {"AP", "FP", "AR", "FR"}
  \/ /\ ~ConnectingTwoCallSites(n) /\ n \notin program.pinned
     /\ Kind[n] \in {"AO", "FI"} => n \notin DefNodes

Bypassable_Any(n) == n \in OfKind({"phi"})
Bypassable_Local(n) ==
  n \in OfKind({"phi"}) /\ n \notin DefNodes /\ \A e \in Around(edges, n) : ~Inter(e)

(* Only memory phis that are no definition of an actual-in or formal-out. *)
Bypassable(n) ==
  n \in OfKind({"phi"}) /\ ~ConnectingTwoCallSites(n) /\ n \notin DefNodes

Delete(n) ==
  /\ phase = "delete" /\ n \in del
  /\ IF CanBeRemoved(n)
     THEN /\ edges' = (edges \ Around(edges, n)) \cup
               (IF Kind[n] \in {"AO", "FI"} THEN Through(In(edges, n), Out(edges, n)) ELSE {})
          /\ removed' = removed \cup {n}
     ELSE UNCHANGED <<edges, removed>>
  /\ del' = del \ {n}
  /\ UNCHANGED <<program, graph, phase, cands, paramDef, defOf, worklist>>

DeleteDone ==
  /\ phase = "delete" /\ del = {}
  /\ phase' = "intra" /\ worklist' = {n \in Node : Bypassable(n)}
  /\ UNCHANGED <<program, graph, edges, cands, del, paramDef, defOf, removed>>

(* Self cycles that the option does not keep. *)
Dropped(n) ==
  {e \in edges : /\ e.src = n /\ e.dst = n /\ program.selfCycle # "all"
                 /\ ~(program.selfCycle = "context" /\ Inter(e))}

(* A memory phi with edges in and out is bypassed, except from a node to
   itself; one with edges on one side only loses them. What may have become
   removable by that is looked at again. *)
Bypass_Intra(E, n) == {e \in Through(In(E, n), Out(E, n)) : e.src # e.dst /\ ~Inter(e)}
Bypass(E, n) == {e \in Through(In(E, n), Out(E, n)) : e.src # e.dst}

Again_Self(E, n) == {n}
Again(E, n) ==
  LET I == In(E, n)  O == Out(E, n)
      none(a, b) == a.src = b.dst \/ Through({a}, {b}) \subseteq E
  IN  IF I # {} /\ O # {}
      THEN {b.dst : b \in {x \in O : \E a \in I : none(a, x)}}
           \cup {a.src : a \in {x \in I : \A b \in O : none(x, b)}}
      ELSE {a.src : a \in I} \cup {b.dst : b \in O}

Process(n) ==
  /\ phase = "intra" /\ n \in worklist
  /\ LET E == edges \ Dropped(n)
     IN  IF \E e \in E : e.src = n /\ e.dst = n
         THEN edges' = E /\ worklist' = worklist \ {n} /\ UNCHANGED removed
         ELSE /\ edges' = (E \ Around(E, n)) \cup Bypass(E, n)
              /\ worklist' = (worklist \ {n}) \cup {m \in Again(E, n) : Bypassable(m)}
              /\ removed' = removed \cup {n}
  /\ UNCHANGED <<program, graph, phase, cands, del, paramDef, defOf>>

IntraDone ==
  /\ phase = "intra" /\ worklist = {}
  /\ phase' = "done"
  /\ UNCHANGED <<program, graph, edges, cands, del, paramDef, defOf, worklist, removed>>

(* A callee found later at an indirect call: the actual and formal nodes are
   stood for by what took their place. *)
Source_Itself(e) == e.src
Source(e) ==
  IF Kind[e.src] \in {"AI", "FO"} THEN (CHOOSE d \in defOf : d[1] = e.src)[2]
  ELSE paramDef[e.src]
Target(e) == IF Kind[e.dst] \in {"FP", "AR"} THEN Phi(e.dst) ELSE e.dst

Connect(e) ==
  /\ phase = "done" /\ e \in program.later \ graph
  /\ graph' = graph \cup {e}
  /\ edges' = edges \cup {Moved(e, Source(e), Target(e))}
  /\ UNCHANGED <<program, phase, cands, del, paramDef, defOf, worklist, removed>>

OptStep ==
  \/ \E n \in Node : \/ ReplaceFParamARet(n) \/ RetargetAInFOut(n) \/ Mark(n)
                     \/ Delete(n) \/ Process(n)
  \/ InterDone \/ DeleteDone \/ IntraDone
OptNext == OptStep \/ \E e \in program.later : Connect(e)

OptSpec == OptInit /\ [][OptNext]_optVars
-----------------------------------------------------------------------------
OptTypeOK ==
  /\ phase \in {"inter", "delete", "intra", "done"}
  /\ cands \subseteq Node /\ del \subseteq Node /\ worklist \subseteq OfKind({"phi"})
  /\ \A e \in edges : e.src \in Nodes /\ e.dst \in Nodes
  /\ \A d \in defOf : d[1] \in OfKind({"AI", "FO"}) /\ d[2] \in Node

(* No edge leads to or from a node that has been taken out. *)
NoDanglingEdge ==
  /\ \A e \in edges : e.src \notin removed /\ e.dst \notin removed
  /\ \A d \in defOf : d[2] \notin removed
  /\ worklist \cap removed = {}

(* The words of calls and returns along the paths from nodes S, object by
   object, up to a length. *)
Label(e) == IF Inter(e) THEN <<<<e.kind, e.cs>>>> ELSE <<>>
Words(E) == {w \in Seq({<<e.kind, e.cs>> : e \in E}) : Len(w) <= MaxCalls}
FlowSpace(E, S) == [src : S, dst : S \cup {e.dst : e \in E}, obj : {e.obj : e \in graph}, word : Words(E)]
Longer(f, e) == [src |-> f.src, dst |-> e.dst, obj |-> e.obj, word |-> f.word \o Label(e)]
OneMore(F, E) ==
  F \cup UNION {{Longer(f, e) : e \in {d \in E : /\ f.dst = d.src /\ f.obj = d.obj
                                                /\ Len(f.word \o Label(d)) <= MaxCalls}} : f \in F}
NoSteps(S) == {[src |-> x[1], dst |-> x[1], obj |-> x[2], word |-> <<>>] : x \in S \X {e.obj : e \in graph}}
Flows(E, S) ==
  LET closed[F \in SUBSET FlowSpace(E, S)] ==
        LET next == OneMore(F, E) IN IF next = F THEN F ELSE closed[next]
  IN  closed[NoSteps(S)]

(* From statement to statement. *)
Statements == program.nodes \cap OfKind({"stmt"})
Effects(E) == {f \in Flows(E, Statements) : f.dst \in Statements}
Ends(F) == {<<f.src, f.dst, f.obj>> : f \in F}

(* Something comes back where it was by one call, or by one return. *)
Recurs == \E f \in Flows(graph, program.nodes) : f.src = f.dst /\ Len(f.word) = 1

(* The same statements stay connected, for the same objects, after every step
   and in every order of the steps: nothing is lost and nothing is made up.
   That includes the calls connected after the graph has been optimised. They
   stay connected along the same calls and returns, unless there is recursion:
   then a cycle that is not kept takes its call along. *)
FlowKept ==
  LET before == Effects(graph)  after == Effects(edges)
  IN  /\ after \subseteq before /\ Ends(before) \subseteq Ends(after)
      /\ after # before => Recurs

(* The edges made for two are never made for two that both cross functions,
   whose call sites could not both be kept ("both edges are inter edges"). *)
NotBothInter ==
  \A n \in worklist : ~ConnectingTwoCallSites(n)

(* Where a call graph edge may come later the definition of each actual-in and
   formal-out is known and in the graph. *)
DefsKnown ==
  phase # "inter" => \A n \in OfKind({"AI", "FO"}) : In(graph, n) # {} =>
    \E d \in defOf : d[1] = n

(* At the end only the memory phis that serve as definitions, or have a self
   cycle, are left between statements. *)
Bypassed ==
  phase = "done" => \A n \in OfKind({"phi"}) \ DefNodes : Around(edges, n) # {} =>
    program.selfCycle # "none" /\ \E e \in edges : e.src = n /\ e.dst = n

(* Edges and definitions lead to nodes that are there; no phi on the work list
   joins two calls; definitions are remembered for calls that come later; the
   phis that can go are gone at the end. *)
GraphCorrect == OptTypeOK /\ NoDanglingEdge /\ NotBothInter /\ DefsKnown /\ Bypassed
=============================================================================
