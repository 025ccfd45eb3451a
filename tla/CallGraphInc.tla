---------------------------- MODULE CallGraphInc ----------------------------
(***************************************************************************)
(* The call graph the incremental analysis keeps up to date. Each round    *)
(* deletes statements and inserts them again; after every pass over the    *)
(* work vectors the points-to sets of the function pointers are compared   *)
(* with those of the pass before, calls whose target came or went are      *)
(* connected or disconnected, and the copy edges that pass their           *)
(* parameters and results go to the vectors of the next pass.              *)
(*                                                                         *)
(* A pass over the vectors is one step here: it applies the statements and *)
(* lets the points-to sets shrink, or grow, as IncRound allows.            *)
(***************************************************************************)
EXTENDS Naturals, SequencesExt

CONSTANTS
  Node, Obj,     \* nodes, and the functions and vtables they may point to
  Func, Site,    \* functions with a body; call sites
  Direct,        \* direct calls, pairs <<site, function>>
  Virtual,       \* the virtual call sites
  FunPtr,        \* indirect site -> node of its function or vtable pointer
  Callee,        \* indirect site -> object -> functions it may call there
  Caller,        \* site -> function the site is in
  Params,        \* <<site, function>> -> copies that pass arguments and result
  Limit,         \* Options::IndirectCallLimit
  Programs,      \* the sets of statements an analysis may start from
  MaxStep, MaxRounds  \* bounds for each program: statements of a round, rounds

Indirect == DOMAIN FunPtr
Calls == Indirect \X Func

(* A statement is an address-of or a copy; a parameter copy is a copy. *)
Addrs == [kind : {"Addr"}, src : Obj, dst : Node]
Copies == [kind : {"Copy"}, src : Node, dst : Node]

CallGraphAssumption ==
  /\ IsFiniteSet(Node) /\ IsFiniteSet(Obj) /\ IsFiniteSet(Site) /\ IsFiniteSet(Func)
  /\ Virtual \subseteq Indirect /\ Indirect \subseteq Site
  /\ FunPtr \in [Indirect -> Node]
  /\ Callee \in [Indirect -> [Obj -> SUBSET Func]]
  /\ Caller \in [Site -> Func]
  /\ Direct \subseteq (Site \ Indirect) \X Func
  /\ Params \in [Calls -> SUBSET Copies]
  /\ Programs \subseteq SUBSET (Addrs \cup Copies)
  /\ Limit \in Nat /\ MaxStep \in [Programs -> Nat] /\ MaxRounds \in [Programs -> Nat]

VARIABLES
  base, diff,         \* the program and what this round changes of it
  edges,              \* the address-of and copy edges of the constraint graph
  pts,                \* points-to sets
  nowPts,             \* fpPtsDiffMap: what each function pointer had at the last look
  work,               \* delDirectEdgeVec and delEdgeVec, or the insertion vectors
  todo,               \* <<s, f>>: a target of site s that is f left or joined
  indCallMap,         \* site -> callees
  callEdges,          \* PTACallGraph edges, each the pair of its call site id
  callSites,          \* csToIdMap: the pair with id i is the i-th
  instEdges,          \* callinstToCallGraphEdgesMap: <<site, edge>>
  dangling,           \* the entries of that map whose edge has been deleted
  numOfResolvedIndCallEdge,
  pc, round

cgVars == <<indCallMap, callEdges, callSites, instEdges, dangling, numOfResolvedIndCallEdge>>
vars == <<base, diff, edges, pts, nowPts, work, todo, cgVars, pc, round>>
-----------------------------------------------------------------------------
(* A fact <<n, o>> says that n may point to o. The facts that statements E
   make of the facts F in one application, and in all. *)
Facts(p) == UNION {{n} \X p[n] : n \in Node}
Holding(F) == [n \in Node |-> {x[2] : x \in {y \in F : y[1] = n}}]

Flow(E, F) ==
  F \cup {<<e.dst, e.src>> : e \in {x \in E : x.kind = "Addr"}}
    \cup {<<x[1].dst, x[2][2]>> : x \in {y \in E \X F : y[1].kind = "Copy" /\ y[1].src = y[2][1]}}

Closure(E, p) ==
  LET spread[F \in SUBSET (Node \X Obj)] ==
        LET next == Flow(E, F) IN IF next = F THEN F ELSE spread[next]
  IN  Holding(spread[Facts(p)])

Nothing == [n \in Node |-> {}]

(* The calls an assignment makes possible. *)
Possible(p) == {x \in Calls : \E o \in p[FunPtr[x[1]]] : x[2] \in Callee[x[1]][o]}

(* The exhaustive analysis of E: solveWorklist and updateCallGraph in turn. *)
Exhaustive(E) ==
  LET solve[D \in SUBSET (Addrs \cup Copies)] ==
        LET next == D \cup UNION {Params[x] : x \in Possible(Closure(D, Nothing))}
        IN  IF next = D THEN D ELSE solve[next]
  IN  solve[E]

ExhaustivePts(E) == Closure(Exhaustive(E), Nothing)

Init ==
  /\ base \in Programs /\ diff = {}
  /\ edges = Exhaustive(base)
  /\ pts = Closure(edges, Nothing)
  /\ nowPts = [s \in Indirect |-> {}] /\ work = {} /\ todo = {}
  /\ LET calls == Possible(pts)
     IN  /\ indCallMap = [s \in Indirect |-> {x[2] : x \in {y \in calls : y[1] = s}}]
         /\ callEdges = Direct \cup calls
         /\ callSites = SetToSeq(Direct) \o SetToSeq(calls)
         /\ instEdges = {<<x[1], x>> : x \in Direct \cup calls}
         /\ numOfResolvedIndCallEdge = Cardinality(calls)
  /\ dangling = {}
  /\ pc = "idle" /\ round = 0

(* initFpPDM, and the vectors hold the statements of the round. *)
FunPtrPts(p) == [s \in Indirect |-> p[FunPtr[s]]]

StartRound(D) ==
  /\ pc = "idle" /\ round < MaxRounds[base]
  /\ diff' = D /\ work' = D
  /\ nowPts' = FunPtrPts(pts)
  /\ pc' = "delete" /\ round' = round + 1
  /\ UNCHANGED <<base, edges, pts, todo, cgVars>>

(* A pass over the deletion vectors: a copy edge goes when the statement or
   the call it is deleted for goes. computeFpPDM follows. *)
Deleted(E) == edges \ E

(* The calls whose target is among the objects the sites lost or gained. *)
CallsOf(delta) ==
  UNION {{s} \X UNION {Callee[s][o] : o \in delta[s]} : s \in Indirect}

Lost_Everything(p) == [s \in Indirect |-> nowPts[s]]
Lost_Joined(p) == [s \in Indirect |-> p[FunPtr[s]] \ nowPts[s]]

Lost(p) == [s \in Indirect |-> nowPts[s] \ p[FunPtr[s]]]

(* Deletion keeps a fact only if an edge still brings it, so that what it
   keeps beyond the least assignment are facts that support themselves on a
   cycle, and what they imply. *)
Extra(E) == UNION {{n} \X (pts[n] \ Closure(E, Nothing)[n]) : n \in Node}
SelfSupported(E) ==
  {x \in Extra(E) : \E e \in E : /\ e.kind = "Copy" /\ e.dst = x[1]
                                /\ x[2] \in Closure(E, Holding({x}))[e.src]}

DeletePass ==
  /\ pc = "delete" /\ todo = {}
  /\ edges' = Deleted(work)
  /\ \E kept \in SUBSET SelfSupported(edges') : pts' = Closure(edges', Holding(kept))
  /\ todo' = CallsOf(Lost(pts'))
  /\ nowPts' = FunPtrPts(pts')
  /\ work' = {} /\ pc' = "disconnect"
  /\ UNCHANGED <<base, diff, cgVars, round>>

InBudget(s) == s \in Virtual \/ numOfResolvedIndCallEdge < Limit

(* The call graph edge removeIndirectCallGraphEdge finds for the call x:
   getGraphEdge goes by caller and callee and takes the lowest id. *)
IdOf(x) == CHOOSE i \in DOMAIN callSites : callSites[i] = x
SameEnds(x) == {y \in callEdges : Caller[y[1]] = Caller[x[1]] /\ y[2] = x[2]}
GraphEdge(x) == CHOOSE y \in SameEnds(x) : \A z \in SameEnds(x) : IdOf(y) <= IdOf(z)

ParamsDel_None(x) == {}
ParamsDel(x) == Params[x]

RemoveCall(s, f) ==
  LET x == <<s, f>>
      e == GraphEdge(x)
  IN  /\ indCallMap' = [indCallMap EXCEPT ![s] = @ \ {f}]
      /\ IF x \in callEdges
         THEN /\ callEdges' = callEdges \ {e}
              /\ instEdges' = instEdges \ {<<s, e>>, <<e[1], e>>}
              /\ dangling' = IF e[1] = s THEN dangling ELSE dangling \cup {<<e[1], e>>}
         ELSE UNCHANGED <<callEdges, instEdges, dangling>>
      /\ UNCHANGED <<callSites, numOfResolvedIndCallEdge>>

(* resolveIndCallsDel and connectVCallToVFnsDel: a connected callee of a
   lost object is disconnected and its parameter copies are to be deleted. *)
Disconnect(s, f) ==
  /\ pc = "disconnect" /\ <<s, f>> \in todo
  /\ todo' = todo \ {<<s, f>>}
  /\ IF InBudget(s) /\ f \in indCallMap[s]
     THEN RemoveCall(s, f) /\ work' = work \cup ParamsDel(<<s, f>>)
     ELSE UNCHANGED <<cgVars, work>>
  /\ UNCHANGED <<base, diff, edges, pts, nowPts, pc, round>>

(* newCallCopyEdge: the vectors are not empty. (The flag is also set when a
   call without parameters changed; a pass over empty vectors does nothing.) *)
NewWork_AnyCall == work # {} \/ \E s \in Indirect : indCallMap[s] # {}
NewWork == work # {}

DeletePassDone ==
  /\ pc = "disconnect" /\ todo = {}
  /\ pc' = IF NewWork THEN "delete" ELSE "deleted"
  /\ UNCHANGED <<base, diff, edges, pts, nowPts, work, todo, cgVars, round>>

StartInsertion ==
  /\ pc = "deleted"
  /\ work' = diff /\ nowPts' = FunPtrPts(pts)
  /\ pc' = "insert"
  /\ UNCHANGED <<base, diff, edges, pts, todo, cgVars, round>>

(* A pass over the insertion vectors, and computeFpPDM. *)
Gained(p) == [s \in Indirect |-> p[FunPtr[s]] \ nowPts[s]]

InsertPass ==
  /\ pc = "insert" /\ todo = {}
  /\ edges' = edges \cup work
  /\ pts' = Closure(edges', pts)
  /\ todo' = CallsOf(Gained(pts'))
  /\ nowPts' = FunPtrPts(pts')
  /\ work' = {} /\ pc' = "connect"
  /\ UNCHANGED <<base, diff, cgVars, round>>

AddCall_NewId(s, f) ==
  LET x == <<s, f>>
  IN  /\ numOfResolvedIndCallEdge' = numOfResolvedIndCallEdge + 1
      /\ callSites' = Append(callSites, x)
      /\ callEdges' = callEdges \cup {x}
      /\ instEdges' = IF x \in callEdges THEN instEdges ELSE instEdges \cup {<<s, x>>}
      /\ UNCHANGED dangling

(* addIndirectCallGraphEdge counts every call, also of an edge there is. *)
AddCall(s, f) ==
  LET x == <<s, f>>
  IN  /\ numOfResolvedIndCallEdge' = numOfResolvedIndCallEdge + 1
      /\ callSites' = IF \E i \in DOMAIN callSites : callSites[i] = x THEN callSites
                      ELSE Append(callSites, x)
      /\ callEdges' = callEdges \cup {x}
      /\ instEdges' = IF x \in callEdges THEN instEdges ELSE instEdges \cup {<<s, x>>}
      /\ UNCHANGED dangling

ParamsIns(x) == Params[x]

(* resolveIndCallsIns and connectVCallToVFnsIns: a callee of a gained object
   is connected unless it is in the map. The one of a virtual call is then
   erased from the map, where it has just not been found. *)
Connect(s, f) ==
  /\ pc = "connect" /\ <<s, f>> \in todo
  /\ todo' = todo \ {<<s, f>>}
  /\ IF InBudget(s) /\ f \notin indCallMap[s]
     THEN /\ indCallMap' = [indCallMap EXCEPT ![s] = IF s \in Virtual THEN @ \ {f} ELSE @ \cup {f}]
          /\ AddCall(s, f)
          /\ work' = work \cup ParamsIns(<<s, f>>)
     ELSE UNCHANGED <<cgVars, work>>
  /\ UNCHANGED <<base, diff, edges, pts, nowPts, pc, round>>

InsertPassDone ==
  /\ pc = "connect" /\ todo = {}
  /\ IF NewWork THEN pc' = "insert" /\ UNCHANGED diff ELSE pc' = "idle" /\ diff' = {}
  /\ UNCHANGED <<base, edges, pts, nowPts, work, todo, cgVars, round>>

Update ==
  \/ DeletePass \/ DeletePassDone
  \/ StartInsertion \/ InsertPass \/ InsertPassDone
  \/ \E x \in todo : Disconnect(x[1], x[2]) \/ Connect(x[1], x[2])

Next ==
  \/ \E D \in SUBSET base : Cardinality(D) \in 1..MaxStep[base] /\ StartRound(D)
  \/ Update

Spec == Init /\ [][Next]_vars
FairSpec == Spec /\ WF_vars(Update)
-----------------------------------------------------------------------------
(* Types: the map and the graph only ever hold calls that some object makes
   possible, the ids are those of different calls. *)
TypeOK ==
  /\ base \in Programs /\ diff \subseteq base
  /\ edges \subseteq Addrs \cup Copies /\ pts \in [Node -> SUBSET Obj]
  /\ nowPts \in [Indirect -> SUBSET Obj]
  /\ work \subseteq Addrs \cup Copies /\ todo \subseteq Calls
  /\ indCallMap \in [Indirect -> SUBSET Func] /\ callEdges \subseteq Site \X Func
  /\ callSites \in Seq(Site \X Func)
  /\ \A i, j \in DOMAIN callSites : callSites[i] = callSites[j] => i = j
  /\ instEdges \subseteq Site \X (Site \X Func) /\ dangling \subseteq Site \X (Site \X Func)
  /\ numOfResolvedIndCallEdge \in Nat /\ round \in 0..MaxRounds[base]
  /\ pc \in {"idle", "delete", "disconnect", "deleted", "insert", "connect"}

(* Among the calls that are possible at all no copy serves two, or one and a
   statement, and no function is the target of two objects at one site. *)
Unshared ==
  LET all == ExhaustivePts(base)
      known == Possible(all)
  IN  /\ \A x \in known : Params[x] \cap base = {}
      /\ \A x, y \in known : x # y => Params[x] \cap Params[y] = {}
      /\ \A s \in Indirect : \A o, k \in all[FunPtr[s]] : o # k => Callee[s][o] \cap Callee[s][k] = {}

(* Deletion keeps what the remaining program implies, calls through its
   function pointers included, provided each parameter copy serves one call:
   a shared copy goes with the first of its calls; and provided the budget
   lasts: a possible call that was refused is not connected. *)
DeletionSound ==
  pc = "deleted" /\ Unshared /\ numOfResolvedIndCallEdge < Limit =>
    LET least == ExhaustivePts(base \ diff)
    IN  \A n \in Node : least[n] \subseteq pts[n]

(* After deletion no call is connected whose function the pointer no longer
   leads to, however many passes of lost parameters and lost targets it took
   to find out, unless the budget was used up. *)
NoStaleCall ==
  pc = "deleted" /\ numOfResolvedIndCallEdge < Limit =>
    \A s \in Indirect \ Virtual : \A f \in indCallMap[s] : <<s, f>> \in Possible(pts)

(* Between the phases every edge of the constraint graph is a statement of
   the program or a parameter copy of a call that is connected. *)
NoLeakedParams ==
  pc \in {"deleted", "idle"} =>
    \A e \in edges : e \in base \ diff \/
      \E x \in Calls : e \in Params[x] /\ (x[2] \in indCallMap[x[1]] \/ x[1] \in Virtual)

(* Points-to sets and edges never go beyond the exhaustive result, copies
   shared or not. *)
NothingBeyond ==
  LET most == Exhaustive(base)
      all == Closure(most, Nothing)
  IN  edges \subseteq most /\ \A n \in Node : pts[n] \subseteq all[n]

(* Inserting what was deleted restores the exhaustive result, virtual calls
   included, as long as the budget holds. Where copies are shared it need not:
   a call that loses its copy to another is still connected, and nothing
   brings the copy back. *)
RoundRestores ==
  pc = "idle" /\ Unshared /\ numOfResolvedIndCallEdge < Limit =>
    /\ pts = ExhaustivePts(base) /\ edges = Exhaustive(base)
    /\ \A s \in Indirect \ Virtual : \A f \in Func :
         f \in indCallMap[s] <=> <<s, f>> \in Possible(pts)

(* Formal and actual parameters of the calls in the map are connected. *)
ParamsConnected ==
  pc \in {"deleted", "idle"} =>
    \A x \in Calls : x[2] \in indCallMap[x[1]] => Params[x] \subseteq edges

(* No other of these calls is between the same two functions. *)
Alone(x, all) ==
  \A y \in all : Caller[y[1]] = Caller[x[1]] /\ y[2] = x[2] => y = x

(* A call that is the only one from its caller to its callee has its edge in
   the graph, and its entry in the map of call instructions, exactly while it is
   connected, and a direct call always: removeIndirectCallGraphEdge, which
   finds the edge by its two functions, takes that of another call only
   where the exhaustive analysis knows several. *)
EdgesFollowCalls ==
  LET all == Direct \cup Possible(ExhaustivePts(base))
  IN  /\ \A x \in Direct : Alone(x, all) => x \in callEdges
      /\ \A x \in Calls : x[1] \notin Virtual /\ Alone(x, all) =>
           /\ x \in callEdges <=> x[2] \in indCallMap[x[1]]
           /\ <<x[1], x>> \in instEdges <=> x \in callEdges
           /\ <<x[1], x>> \notin dangling

(* The call graph: deletion retracts nothing that still holds, and leaves no
   impossible call and no parameter copy; a round restores points-to sets, edges
   and calls. Nothing goes beyond the solution. A call alone between two functions
   keeps its edge of the call graph. *)
CallsCorrect ==
  /\ TypeOK /\ DeletionSound /\ NoStaleCall /\ NoLeakedParams /\ RoundRestores
  /\ pc \in {"deleted", "idle"} => NothingBeyond /\ EdgesFollowCalls

(* The passes of a round come to an end. *)
RoundEnds == pc # "idle" ~> pc = "idle"

(* getIndCallMap answers the callees of an indirect call: those the call
   graph has edges for. *)
MapListsCallees ==
  pc = "idle" =>
    \A s \in Indirect : indCallMap[s] = {x[2] : x \in {y \in callEdges : y[1] = s}}

(* callinstToCallGraphEdgesMap maps a call to its edges: those in the graph
   and no deleted one. *)
MapHasEdges ==
  pc = "idle" => dangling = {} /\ instEdges = {<<x[1], x>> : x \in callEdges}

(* The limit is one on resolved calls: a possible call is refused only when
   so many are connected. *)
LimitOnCalls ==
  pc = "idle" /\ Possible(pts) # {x \in Calls : x[2] \in indCallMap[x[1]]} =>
    Cardinality({x \in Calls : x[2] \in indCallMap[x[1]]}) >= Limit
=============================================================================
