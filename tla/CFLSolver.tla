----------------------------- MODULE CFLSolver -----------------------------
(***************************************************************************)
(* Context-free-language reachability on the bidirected constraint graph:  *)
(* the solver of CFLAlias, its two variants that keep successor and        *)
(* predecessor sets beside the graph (POCR, POCR hybrid), and the loop     *)
(* that connects indirect calls and solves again.                          *)
(*                                                                         *)
(* A symbol is <<kind, attribute>>, attribute 0 being the plain kind. The  *)
(* sets of POCR are one set of edges, data: successors and predecessors    *)
(* are always updated together. What is pushed at once is pushed in some   *)
(* order.                                                                  *)
(***************************************************************************)
EXTENDS Naturals, Sequences, FiniteSets

CONSTANT
  Problems   \* [solver, nodes, constraints, productions, start, calls]: the solver,
             \* constraints [kind, src, dst, idx], productions [lhs, rhs], symbols in
             \* them <<kind, attribute, variable>> (variable "", or the letter of an
             \* attribute that stands for any), and calls [ptr, fun, copies]

(* The kind of an edge the other way. *)
Bar(k) == k \o "bar"

CFLAssumption ==
  /\ Bar("copy") # "F"
  /\ \A x \in Problems :
       /\ IsFiniteSet(x.nodes) /\ IsFiniteSet(x.constraints) /\ IsFiniteSet(x.productions)
       /\ x.solver \in {"plain", "pocr", "hybrid"}
       /\ \A c \in x.constraints : {c.src, c.dst} \subseteq x.nodes /\ c.src # c.dst
       /\ \A p \in x.productions : Len(p.rhs) \in 1..2
       /\ \A c \in x.calls : c.ptr \in x.nodes /\ c.copies \subseteq x.nodes \X x.nodes

VARIABLES
  problem,
  grammar,    \* the productions without variables
  edges,      \* the edges [src, sym, dst] of the graph
  data,       \* the edges in succMap and predMap
  keys,       \* nodes with an entry in succMap
  worklist,
  connected,  \* the calls resolved
  cflPc

cflVars == <<problem, grammar, edges, data, keys, worklist, connected, cflPc>>

Link(i, X, j) == [src |-> i, sym |-> X, dst |-> j]

(* The variants with sets. *)
POCR == problem.solver # "plain"

-----------------------------------------------------------------------------
(* buildBigraph: every edge, and its bar the other way; only geps have an
   attribute, their offset. *)
Bigraph(C) ==
  UNION {{Link(c.src, <<c.kind, c.idx>>, c.dst), Link(c.dst, <<Bar(c.kind), c.idx>>, c.src)} :
           c \in C}

(* getFilledProductions: a variable stands for one attribute throughout. *)
Filled(p, attributes) ==
  LET sym(x, a) == <<x[1], IF x[3] = "" THEN x[2] ELSE a>>
      with(a)   == [lhs |-> sym(p.lhs, a), rhs |-> [i \in DOMAIN p.rhs |-> sym(p.rhs[i], a)]]
  IN  IF p.lhs[3] = "" /\ \A i \in DOMAIN p.rhs : p.rhs[i][3] = "" THEN {with(0)}
      ELSE {with(a) : a \in attributes}

fillAttribute(x) ==
  LET attributes == {c.idx : c \in {k \in x.constraints : k.kind = "gep"}}
  IN  UNION {Filled(p, attributes) : p \in x.productions}

(* insertToCFLGrammar *)
EpsilonRHS == <<<<"epsilon", 0>>>>
EpsilonProds(P) == {p \in P : p.rhs = EpsilonRHS}
SingleProds(P)  == {p \in P : Len(p.rhs) = 1 /\ p.rhs # EpsilonRHS}
PairProds(P)    == {p \in P : Len(p.rhs) = 2}

CFLInit ==
  /\ problem \in Problems
  /\ grammar = fillAttribute(problem)
  /\ edges = Bigraph(problem.constraints)
  /\ data = IF POCR THEN edges ELSE {}
  /\ keys = IF POCR THEN {e.src : e \in edges} ELSE problem.nodes
  /\ worklist = <<>> /\ connected = {} /\ cflPc = "init"

(* FIFOWorkList::push of the edges E, those on the list already left out. *)
Pushed(w, E) ==
  LET listed[S \in SUBSET E] ==
        IF S = {} THEN <<>>
        ELSE LET e == CHOOSE x \in S : TRUE IN <<e>> \o listed[S \ {e}]
  IN  w \o listed[E \ {w[i] : i \in DOMAIN w}]

-----------------------------------------------------------------------------
(* What the solver looks edges up in. *)
Known == IF POCR THEN data ELSE edges

(* initialize: every edge, and X(i, i) for X -> epsilon. The variants go
   through the nodes that have successors. *)
EpsilonEdges ==
  {Link(i, p.lhs, i) : i \in keys, p \in EpsilonProds(grammar)} \ Known

initialize ==
  /\ cflPc = "init"
  /\ worklist' = Pushed(Pushed(worklist, edges), EpsilonEdges)
  /\ edges' = edges \cup EpsilonEdges
  /\ data' = IF POCR THEN data \cup EpsilonEdges ELSE data
  /\ cflPc' = "solve"
  /\ UNCHANGED <<problem, grammar, keys, connected>>

-----------------------------------------------------------------------------
(* The hybrid solver hands F -> F F to addArc, which returns at once for an
   edge the sets have: every F edge that is popped. *)
F == <<"F", 0>>
IsArc(p) == problem.solver = "hybrid" /\ p.lhs = F /\ p.rhs = <<F, F>>

(* What the edge e gives by X -> Y, X -> Y Z and X -> Z Y. *)
FromSingle(e) == {Link(e.src, p.lhs, e.dst) : p \in {x \in SingleProds(grammar) : x.rhs[1] = e.sym}}

FromFirst(e) ==
  UNION {{Link(e.src, p.lhs, z.dst) : z \in {x \in Known : x.src = e.dst /\ x.sym = p.rhs[2]}} :
           p \in {x \in PairProds(grammar) : x.rhs[1] = e.sym /\ ~IsArc(x)}}

FromSecond_Plain(e) ==
  UNION {{Link(z.src, p.lhs, e.dst) : z \in {x \in Known : x.dst = e.src /\ x.sym = p.rhs[1]}} :
           p \in {x \in PairProds(grammar) : x.rhs[2] = e.sym /\ x.rhs[1] = x.lhs /\ ~IsArc(x)}}

FromSecond(e) ==
  UNION {{Link(z.src, p.lhs, e.dst) : z \in {x \in Known : x.dst = e.src /\ x.sym = p.rhs[1]}} :
           p \in {x \in PairProds(grammar) : x.rhs[2] = e.sym /\ ~IsArc(x)}}

(* processCFLEdge. An edge added on the way is on the worklist and meets e
   when it is popped. Looking up the successors of a node makes it a key. *)
processCFLEdge ==
  LET e   == Head(worklist)
      new == (FromSingle(e) \cup FromFirst(e) \cup FromSecond(e)) \ Known
  IN  /\ cflPc = "solve" /\ worklist # <<>>
      /\ worklist' = Pushed(Tail(worklist), new)
      /\ edges' = edges \cup new
      /\ IF POCR
         THEN /\ data' = data \cup new
              /\ keys' = keys \cup {n.src : n \in new} \cup
                   {e.dst : p \in {x \in PairProds(grammar) : x.rhs[1] = e.sym /\ ~IsArc(x)}}
         ELSE UNCHANGED <<data, keys>>
      /\ UNCHANGED <<problem, grammar, connected, cflPc>>

-----------------------------------------------------------------------------
(* getCFLPts: what the start symbol leads to, and objects whose address is
   there. *)
getCFLPts(n, E) ==
  LET V == {e.dst : e \in {x \in E : x.src = n /\ x.sym = <<problem.start, 0>>}}
  IN  V \cup {e.src : e \in {x \in E : x.dst \in V /\ x.sym = <<"addr", 0>>}}

Resolved(E) == {c \in problem.calls : c.fun \in getCFLPts(c.ptr, E)}

(* connectCaller2CalleeParams, addCopyEdge *)
Copies(C) ==
  Bigraph({[kind |-> "copy", src |-> x[1], dst |-> x[2], idx |-> 0] : x \in UNION {c.copies : c \in C}})

(* updateCallGraph: the copies go into the graph and on the worklist; solve
   again if there are any. *)
updateCallGraph ==
  /\ cflPc = "solve" /\ worklist = <<>>
  /\ connected' = Resolved(edges)
  /\ LET new == Copies(Resolved(edges) \ connected) \ edges
     IN  /\ edges' = edges \cup new
         /\ worklist' = Pushed(worklist, new)
         /\ cflPc' = IF new = {} THEN "done" ELSE "init"
  /\ UNCHANGED <<problem, grammar, data, keys>>

CFLNext == initialize \/ processCFLEdge \/ updateCallGraph

CFLSpec == CFLInit /\ [][CFLNext]_cflVars /\ WF_cflVars(CFLNext)
-----------------------------------------------------------------------------
(***************************************************************************)
(* The reference: the least set of edges with those of the constraints     *)
(* closed under the productions P and, of calls C, those it makes          *)
(* possible, with X -> epsilon at the nodes N.                             *)
(***************************************************************************)
ClosureStep(E, P, N, C) ==
  UNION {E,
    {Link(i, p.lhs, i) : i \in N, p \in EpsilonProds(P)},
    UNION {{Link(e.src, p.lhs, e.dst) : p \in {x \in SingleProds(P) : x.rhs[1] = e.sym}} : e \in E},
    UNION {UNION {{Link(e.src, p.lhs, z.dst) : e \in {x \in E : x.dst = z.src /\ x.sym = p.rhs[1]}} :
                    z \in {x \in E : x.sym = p.rhs[2]}} : p \in PairProds(P)},
    Copies(Resolved(E) \cap C)}

Closure(P, N, C) ==
  LET syms == {p.lhs : p \in P} \cup {e.sym : e \in edges \cup Copies(problem.calls)}
      closed[E \in SUBSET [src : problem.nodes, sym : syms, dst : problem.nodes]] ==
        LET next == ClosureStep(E, P, N, C)
        IN  IF next = E THEN E ELSE closed[next]
  IN  closed[Bigraph(problem.constraints)]

(* Nodes with an edge: in a bidirected graph they have successors. *)
Joined == {c.src : c \in problem.constraints} \cup {c.dst : c \in problem.constraints}

Done == cflPc = "done"

(* The plain solver computes the closure. *)
PlainExact ==
  Done /\ ~POCR => edges = Closure(grammar, problem.nodes, problem.calls)

(* The variants do so at the nodes with an edge, the hybrid one without the
   transitivity of F, when no call is resolved. *)
SetsExact ==
  Done /\ POCR /\ connected = {} =>
    edges = Closure({p \in grammar : ~IsArc(p)}, Joined, {})

(* When one is they say nothing that does not follow, and in every case the
   sets have what the graph has, but for the copies of calls. *)
SetsSound ==
  /\ Done /\ POCR => edges \subseteq Closure(grammar, problem.nodes, problem.calls)
  /\ POCR => /\ data \subseteq edges
             /\ edges \ data \subseteq Copies(connected)

(* What addArc relies on. *)
ArcsKnown == POCR => \A i \in DOMAIN worklist : worklist[i].sym = F => worklist[i] \in data

(* What the solvers of CFLAlias compute. *)
CFLCorrect == PlainExact /\ SetsExact /\ SetsSound /\ ArcsKnown
=============================================================================
