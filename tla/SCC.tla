-------------------------------- MODULE SCC --------------------------------
(***************************************************************************)
(* SCCDetection, the variant of Nuutila's algorithm every cycle in the     *)
(* program is found with: of the constraint graph, the call graph, the     *)
(* value-flow graph. visit is recursive; its active calls are an explicit  *)
(* stack, each at a loop over the children of its node. The order of the   *)
(* nodes and of the children of a node is left open.                       *)
(***************************************************************************)
EXTENDS Naturals, Sequences, FiniteSets

CONSTANTS
  Searches,  \* [nodes, edges, from]: a graph and the nodes find() goes through,
             \* all of them or the candidates
  Unset      \* UINT_MAX

SCCAssumption ==
  \A s \in Searches :
    /\ IsFiniteSet(s.nodes) /\ Unset \notin s.nodes
    /\ s.edges \subseteq s.nodes \X s.nodes /\ s.from \subseteq s.nodes

VARIABLES
  search,            \* the input
  scI, scD,          \* _I, _D: visit numbers
  rep,               \* node -> representative or Unset
  subNodes,          \* representative -> its component
  visited, inSCC,
  calls,             \* active calls of visit: [v, todo, w], w the child just visited
  SS,                \* _SS: visited nodes whose component is not complete
  topo               \* _T: the representatives, the first to be processed on top (first)

vars == <<search, scI, scD, rep, subNodes, visited, inSCC, calls, SS, topo>>

Nodes == search.nodes
Children(v) == {w \in Nodes : <<v, w>> \in search.edges}

Init ==
  /\ search \in Searches
  /\ scI = 0 /\ scD = [n \in Nodes |-> 0]
  /\ rep = [n \in Nodes |-> Unset] /\ subNodes = [n \in Nodes |-> {}]
  /\ visited = {} /\ inSCC = {} /\ calls = <<>> /\ SS = <<>> /\ topo = <<>>

(* rep(n, r): n is a sub node of r, and has none itself any more. *)
SubNodesWith(n, r) ==
  [k \in Nodes |-> IF k = r THEN subNodes[k] \cup {n} ELSE IF k = n THEN {} ELSE subNodes[k]]

(* The start of visit(v). *)
Enter(v, callers) ==
  /\ scI' = scI + 1
  /\ scD' = [scD EXCEPT ![v] = scI + 1]
  /\ rep' = [rep EXCEPT ![v] = v]
  /\ subNodes' = SubNodesWith(v, v)
  /\ visited' = visited \cup {v}
  /\ calls' = <<[v |-> v, todo |-> Children(v), w |-> Unset]>> \o callers

(* find: the next node not visited yet. *)
Find(n) ==
  /\ calls = <<>> /\ n \in search.from \ visited
  /\ Enter(n, <<>>)
  /\ UNCHANGED <<search, inSCC, SS, topo>>

Top == Head(calls)
Active == calls # <<>>

(* The next child, visited first if it has not been. *)
NextChild(w) ==
  /\ Active /\ Top.w = Unset /\ w \in Top.todo
  /\ LET callers == <<[Top EXCEPT !.todo = @ \ {w}, !.w = w]>> \o Tail(calls)
     IN  IF w \in visited
         THEN calls' = callers /\ UNCHANGED <<scI, scD, rep, subNodes, visited>>
         ELSE Enter(w, callers)
  /\ UNCHANGED <<search, inSCC, SS, topo>>

Lower_Child(v, w) == rep[w]

(* The representative visited first. *)
Lower(v, w) == IF scD[rep[v]] < scD[rep[w]] THEN rep[v] ELSE rep[w]

(* Back from the child: unless its component is complete. *)
CompareChild ==
  /\ Active /\ Top.w # Unset
  /\ calls' = <<[Top EXCEPT !.w = Unset]>> \o Tail(calls)
  /\ IF Top.w \in inSCC
     THEN UNCHANGED <<rep, subNodes>>
     ELSE LET r == Lower(Top.v, Top.w)
          IN  rep' = [rep EXCEPT ![Top.v] = r] /\ subNodes' = SubNodesWith(Top.v, r)
  /\ UNCHANGED <<search, scI, scD, visited, inSCC, SS, topo>>

(* The nodes of _SS above the first one visited before v. *)
Above(v) ==
  {SS[i] : i \in {j \in DOMAIN SS : \A k \in 1..j : scD[SS[k]] > scD[v]}}

(* The children are through: a root takes its component off _SS. *)
Leave ==
  /\ Active /\ Top.w = Unset /\ Top.todo = {}
  /\ calls' = Tail(calls)
  /\ LET v == Top.v
         P == Above(v)
     IN  IF rep[v] = v
         THEN /\ inSCC' = inSCC \cup P \cup {v}
              /\ SS' = SubSeq(SS, Cardinality(P) + 1, Len(SS))
              /\ rep' = [n \in Nodes |-> IF n \in P THEN v ELSE rep[n]]
              /\ subNodes' = [n \in Nodes |-> IF n = v THEN subNodes[v] \cup P
                                              ELSE IF n \in P THEN {} ELSE subNodes[n]]
              /\ topo' = <<v>> \o topo
         ELSE /\ SS' = <<v>> \o SS
              /\ UNCHANGED <<inSCC, rep, subNodes, topo>>
  /\ UNCHANGED <<search, scI, scD, visited>>

Next ==
  \/ \E n \in Nodes : Find(n)
  \/ \E w \in Nodes : NextChild(w)
  \/ CompareChild
  \/ Leave

Spec == Init /\ [][Next]_vars /\ WF_vars(Next)
-----------------------------------------------------------------------------
Detected == calls = <<>> /\ search.from \subseteq visited

(* The nodes along a path of one edge or more from n. *)
ReachedFrom(n) ==
  LET it[i \in Nat] ==
        IF i = 0 THEN Children(n)
        ELSE it[i-1] \cup UNION {Children(k) : k \in it[i-1]}
  IN  it[Cardinality(Nodes)]

SameCycle(n, k) == n = k \/ (k \in ReachedFrom(n) /\ n \in ReachedFrom(k))

(* repNode is the same for two nodes exactly when they are on a cycle, and
   the sub nodes of a representative are its component. *)
RepsExact ==
  Detected => \A n \in visited :
    /\ \A k \in visited : rep[n] = rep[k] <=> SameCycle(n, k)
    /\ subNodes[n] = IF rep[n] = n THEN {k \in visited : rep[k] = n} ELSE {}

(* Everything reachable from where find() started has been visited, and no
   node is left behind on _SS. *)
AllVisited ==
  Detected => visited = search.from \cup UNION {ReachedFrom(n) : n \in search.from} /\ SS = <<>>

(* The stack of representatives has each once, sources of edges above. *)
TopoOrdered ==
  Detected =>
    /\ \A i, j \in DOMAIN topo : topo[i] = topo[j] => i = j
    /\ {topo[i] : i \in DOMAIN topo} = {n \in visited : rep[n] = n}
    /\ \A i, j \in DOMAIN topo :
         (\E n \in subNodes[topo[i]], k \in subNodes[topo[j]] : <<n, k>> \in search.edges) => i <= j

isInCycle_Multi(n) == Cardinality(subNodes[rep[n]]) > 1

(* A node of a component with more than one node or with a self-loop. *)
isInCycle(n) == Cardinality(subNodes[rep[n]]) > 1 \/ rep[n] \in Children(rep[n])

(* What the analyses ask it: may this be executed, or passed, again? *)
CyclesKnown == Detected => \A n \in visited : isInCycle(n) <=> n \in ReachedFrom(n)

DetectionCorrect == RepsExact /\ AllVisited /\ TopoOrdered /\ CyclesKnown
=============================================================================
