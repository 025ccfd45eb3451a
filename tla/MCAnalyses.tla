----------------------------- MODULE MCAnalyses -----------------------------
(***************************************************************************)
(* The exhaustive analyses and the algorithms under them, for TLC, side by *)
(* side. A behaviour is one of one part; the variables of the others are   *)
(* off, those of CFLSolver and SCC, which this module extends, at a start. *)
(***************************************************************************)
EXTENDS CFLSolver, SCC, MCJsonPrograms, MCPrograms

CONSTANTS
  None,    \* the value of a variable that is off
  Parts    \* the parts to look at

VARIABLES
  part,
  fEdges, compCache, complexEdgeSet, asRep, subs, sEdges, fEdgeSet, rep2tempG, base, pts,
  propa, insensitive, pwc, nodeStack, order, cur, toCollapse, asWorklist, derivable,
  asConnected, reanalyze, pc,                                            \* AndersenSolve
  prog, readable, pools, written, doc, heap, jsonPc,                      \* SVFIRJson
  itvProg, at, es, globalES, saved, conc, mem, taken, trusted,           \* IntervalState
  thProg, stage, tct, multiforked, root, cxtStmtList, aliveFlag, pairs, interleav, lockList,
  lockSets, threads, handles, holds, clean                               \* MTA

asVars == <<fEdges, compCache, complexEdgeSet, asRep, subs, sEdges, fEdgeSet, rep2tempG, base,
  pts, propa, insensitive, pwc, nodeStack, order, cur, toCollapse, asWorklist, derivable,
  asConnected, reanalyze, pc>>
jsVars == <<prog, readable, pools, written, doc, heap, jsonPc>>
itVars == <<itvProg, at, es, globalES, saved, conc, mem, taken, trusted>>
thVars == <<thProg, stage, tct, multiforked, root, cxtStmtList, aliveFlag, pairs, interleav,
  lockList, lockSets, threads, handles, holds, clean>>
suiteVars == <<part, asVars, vars, cflVars, jsVars, itVars, thVars>>
-----------------------------------------------------------------------------
E(k, n, m) == [kind |-> k, src |-> n, dst |-> m]
Same(S) == [z \in S |-> z]

(* A store of b and a load of t through s: the copies among xa, yb, a, b and t
   close cycles that go through the object o. *)
CycleObj  == {"x", "y", "o"}
CycleNode == CycleObj \cup {"a", "b", "p", "q", "t", "s", "xa", "yb"}
ThroughMemory == {E("Addr", "x", "xa"), E("Addr", "y", "yb"), E("Addr", "o", "s"),
  E("Load", "s", "t"), E("Store", "b", "s"), E("Copy", "a", "p")}
CycleCases == {ThroughMemory \cup B : B \in SUBSET
  {E("Copy", "xa", "a"), E("Copy", "yb", "b"), E("Copy", "a", "b"), E("Copy", "t", "a"),
   E("Load", "a", "q")}}

(* o has the field f; geps with and without variable offset, on cycles. *)
GepObj  == {"x", "o", "f"}
GepNode == GepObj \cup {"a", "b", "q", "t", "s", "xa"}
BaseOf  == [z \in GepObj |-> IF z = "f" THEN "o" ELSE z]
FieldOf == [z \in GepObj |-> IF z = "o" THEN "f" ELSE z]
GepCases == {B \in {S \cup {E("Addr", "x", "xa"), E("Addr", "o", "s")} : S \in SUBSET
  {E("Copy", "xa", "a"), E("Copy", "a", "b"), E("NormalGep", "s", "q"), E("VariantGep", "s", "q"),
   E("Copy", "q", "a"), E("NormalGep", "a", "t"), E("Copy", "t", "a"), E("Store", "b", "a")}} :
   \A e, g \in B : e.dst = g.dst /\ e # g => "Store" \in {e.kind, g.kind} \/
                                          (e.kind = "Copy" /\ g.kind = "Copy")}

(* Calls through fp and through the parameter of f; the call of g makes fp
   point to what it is passed. *)
CallObj  == {"f", "g", "h"}
CallNode == CallObj \cup {"fa", "fp", "ga", "a", "xf", "xg", "t", "r", "s"}
CallCases == {B \cup {E("Addr", "f", "fa"), E("Copy", "fa", "fp"), E("Addr", "g", "ga"),
  E("Copy", "ga", "a")} : B \in SUBSET
  {E("Addr", "h", "s"), E("Store", "fp", "s"), E("Load", "s", "t"), E("Copy", "t", "r"),
   E("Copy", "xg", "r"), E("Copy", "r", "a")}}
CallsThrough == {
  [ptr |-> "fp", fun |-> "f", copies |-> {E("Copy", "a", "xf")}],
  [ptr |-> "xf", fun |-> "g", copies |-> {E("Copy", "xf", "xg"), E("Copy", "a", "xg")}],
  [ptr |-> "r",  fun |-> "g", copies |-> {E("Copy", "r", "fp")}]}

SolveCycles == INSTANCE AndersenSolve WITH Node <- CycleNode, Obj <- CycleObj, NonPtrObj <- {},
  FIObjVar <- Same(CycleObj), GepObjVar <- Same(CycleObj), Programs <- CycleCases, Calls <- {},
  BlkOrConstObj <- {}, worklist <- asWorklist, connected <- asConnected, rep <- asRep
SolveGeps == INSTANCE AndersenSolve WITH Node <- GepNode, Obj <- GepObj, NonPtrObj <- {},
  worklist <- asWorklist, connected <- asConnected, rep <- asRep,
  FIObjVar <- BaseOf, GepObjVar <- FieldOf, Programs <- GepCases, Calls <- {},
  BlkOrConstObj <- {"x"}
SolveCalls == INSTANCE AndersenSolve WITH Node <- CallNode, Obj <- CallObj, NonPtrObj <- {},
  worklist <- asWorklist, connected <- asConnected, rep <- asRep,
  FIObjVar <- Same(CallObj), GepObjVar <- Same(CallObj), Programs <- CallCases,
  Calls <- CallsThrough, BlkOrConstObj <- {}
-----------------------------------------------------------------------------
(* All graphs of three nodes, and those of five with most of eight edges. *)
Eight == {<<1, 2>>, <<2, 3>>, <<3, 4>>, <<4, 5>>, <<5, 3>>, <<3, 1>>, <<2, 2>>, <<5, 1>>}
SccCases ==
  {[nodes |-> 1..3, edges |-> e, from |-> f] :
     e \in SUBSET ((1..3) \X (1..3)), f \in {1..3, {1, 2}}} \cup
  {[nodes |-> 1..5, edges |-> e, from |-> 1..5] : e \in {x \in SUBSET Eight : Cardinality(x) > 5}}

NoGraph == [nodes |-> {}, edges |-> {}, from |-> {}]
SccSearches == {NoGraph} \cup SccCases
-----------------------------------------------------------------------------
(* Productions of PAGGrammar.txt after normalisation: X1 to X6 are heads it
   makes up, and i stands for every offset. *)
T(k)    == <<k, 0, "">>
P(l, r) == [lhs |-> l, rhs |-> r]
PAGGrammar == {
  P(T("F"), <<T("epsilon")>>), P(T("F"), <<T("F"), T("copy")>>), P(T("F"), <<T("F"), T("F")>>),
  P(T("F"), <<T("addr"), T("Memflow")>>), P(T("F"), <<T("F"), T("X1")>>),
  P(T("X1"), <<T("store"), T("X2")>>), P(T("X2"), <<T("V"), T("load")>>),
  P(T("Fbar"), <<T("epsilon")>>), P(T("Fbar"), <<T("copybar"), T("Fbar")>>),
  P(T("Fbar"), <<T("Memflowbar"), T("addrbar")>>), P(T("Fbar"), <<T("loadbar"), T("X3")>>),
  P(T("X3"), <<T("V"), T("X4")>>), P(T("X4"), <<T("storebar"), T("Fbar")>>),
  P(T("V"), <<T("Fbar"), T("X5")>>), P(T("X5"), <<T("V"), T("F")>>),
  P(T("V"), <<T("addrbar"), T("addr")>>),
  P(T("V"), <<<<"gepbar", 0, "i">>, <<"X6", 0, "i">>>>),
  P(<<"X6", 0, "i">>, <<T("V"), <<"gep", 0, "i">>>>),
  P(T("copy"), <<T("vgep")>>), P(T("copybar"), <<T("vgepbar")>>),
  P(T("Memflow"), <<T("load"), T("store")>>), P(T("Memflowbar"), <<T("storebar"), T("loadbar")>>)}

C(k, n, m)   == [kind |-> k, src |-> n, dst |-> m, idx |-> 0]
Gep(n, m, i) == [kind |-> "gep", src |-> n, dst |-> m, idx |-> i]
CFLConstraints == {S \cup {C("addr", "o", "p"), C("copy", "p", "q")} : S \in SUBSET
  {C("store", "p", "q"), C("load", "q", "r"), C("copy", "r", "p"), C("vgep", "q", "r"),
   Gep("p", "r", 1), Gep("q", "s", 1), Gep("q", "s", 2)}}
CFLCalls == {
  [ptr |-> "q", fun |-> "o", copies |-> {<<"p", "s">>, <<"s", "t">>, <<"t", "r">>}],
  [ptr |-> "s", fun |-> "o", copies |-> {<<"s", "r">>}]}

NoEdges == [solver |-> "plain", nodes |-> {}, constraints |-> {}, productions |-> {},
            start |-> "V", calls |-> {}]
CFLProblems == {NoEdges} \cup
  {[solver |-> k, nodes |-> {"o", "p", "q", "r", "s", "t"}, constraints |-> B,
    productions |-> PAGGrammar, start |-> "V", calls |-> calling] :
      k \in {"plain", "pocr", "hybrid"},
      <<B, calling>> \in {x \in CFLConstraints \X {{}, CFLCalls} :
                            Cardinality(x[1]) < IF x[2] = {} THEN 7 ELSE 5}}

Json == INSTANCE SVFIRJson WITH Programs <- JsonPrograms, Word <- 16, visited <- written,
  pc <- jsonPc

Execution == INSTANCE IntervalState WITH Programs <- IntervalPrograms, Inputs <- {-2, 0, 3},
  IntBits <- 5, LongBits <- 8, DoubleBits <- 5, Undefined <- {-16, 0, 2}, MaxFieldLimit <- 3,
  MaxOffset <- [o |-> 3, u |-> 1, big |-> 5, fi |-> 0, k |-> 1], NullPtr <- "null", BlkPtr <- "blk",
  prog <- itvProg

Threads == INSTANCE MTA WITH ThreadPrograms <- ThreadCases \cup Unprotected,
  NoFork <- "none", MaxThreads <- 4, MaxDepth <- 4, code <- thProg
-----------------------------------------------------------------------------
ASSUME PartsAssumption ==
  /\ SolveCycles!SolveAssumption /\ SolveGeps!SolveAssumption /\ SolveCalls!SolveAssumption
  /\ SCCAssumption /\ CFLAssumption
  /\ Json!JsonAssumption /\ Execution!IntervalAssumption
  /\ Threads!TCTAssumption

AsOff ==
  /\ fEdges = None /\ compCache = None /\ complexEdgeSet = None /\ asRep = None /\ subs = None
  /\ sEdges = None /\ fEdgeSet = None /\ rep2tempG = None /\ base = None /\ pts = None
  /\ propa = None /\ insensitive = None /\ pwc = None /\ nodeStack = None /\ order = None
  /\ cur = None /\ toCollapse = None /\ asWorklist = None /\ derivable = None
  /\ asConnected = None /\ reanalyze = None /\ pc = None
ScOff == search = NoGraph /\ Init
CfOff == problem = NoEdges /\ CFLInit
JsOff ==
  /\ prog = None /\ readable = None /\ pools = None /\ written = None /\ doc = None
  /\ heap = None /\ jsonPc = None
ItOff ==
  /\ itvProg = None /\ at = None /\ es = None /\ globalES = None /\ saved = None
  /\ conc = None /\ mem = None /\ taken = None /\ trusted = None
ThOff ==
  /\ thProg = None /\ stage = None /\ tct = None /\ multiforked = None /\ root = None
  /\ cxtStmtList = None /\ aliveFlag = None /\ pairs = None /\ interleav = None
  /\ lockList = None /\ lockSets = None /\ threads = None /\ handles = None
  /\ holds = None /\ clean = None

ThreadParts == [threads |-> ThreadCases, unprotected |-> Unprotected]
SuiteInit ==
  /\ part \in Parts
  /\ \/ /\ ScOff /\ CfOff /\ JsOff /\ ItOff /\ ThOff
        /\ \/ part = "cycles" /\ SolveCycles!Init
           \/ part = "geps" /\ SolveGeps!Init
           \/ part = "calls" /\ SolveCalls!Init
     \/ AsOff /\ CfOff /\ JsOff /\ ItOff /\ ThOff /\ part = "scc" /\ Init
     \/ AsOff /\ ScOff /\ JsOff /\ ItOff /\ ThOff /\ part = "cfl" /\ CFLInit
     \/ AsOff /\ ScOff /\ CfOff /\ ItOff /\ ThOff /\ part = "json" /\ Json!Init
     \/ AsOff /\ ScOff /\ CfOff /\ JsOff /\ ThOff /\ part = "intervals" /\ Execution!Init
     \/ AsOff /\ ScOff /\ CfOff /\ JsOff /\ ItOff /\ part \in DOMAIN ThreadParts
        /\ Threads!MTAInit /\ thProg \in ThreadParts[part]

SuiteNext ==
  /\ UNCHANGED part
  /\ \/ /\ UNCHANGED <<vars, cflVars, jsVars, itVars, thVars>>
        /\ \/ part = "cycles" /\ SolveCycles!Next
           \/ part = "geps" /\ SolveGeps!Next
           \/ part = "calls" /\ SolveCalls!Next
     \/ part = "scc" /\ Next /\ UNCHANGED <<asVars, cflVars, jsVars, itVars, thVars>>
     \/ part = "cfl" /\ CFLNext /\ UNCHANGED <<asVars, vars, jsVars, itVars, thVars>>
     \/ part = "json" /\ Json!Next /\ UNCHANGED <<asVars, vars, cflVars, itVars, thVars>>
     \/ part = "intervals" /\ Execution!Next /\ UNCHANGED <<asVars, vars, cflVars, jsVars, thVars>>
     \/ part \in DOMAIN ThreadParts /\ Threads!MTANext /\ UNCHANGED <<asVars, vars, cflVars, jsVars, itVars>>

SuiteSpec == SuiteInit /\ [][SuiteNext]_suiteVars
-----------------------------------------------------------------------------
(* The solution is the least one, and cycles that are collapsed are cycles. *)
AndersenCorrect ==
  /\ part = "cycles" => SolveCycles!SolveCorrect
  /\ part = "geps" => SolveGeps!SolveCorrect
  /\ part = "calls" => SolveCalls!SolveCorrect

(* The intermediate representation survives being written and read. *)
JsonCorrect == part = "json" => Json!JsonCorrect

(* The abstract execution holds the values of every concrete run, until one
   meets what IntervalState says no operation promises. *)
AbstractSound == part = "intervals" => Execution!AbstractSound

(* What two threads do at the same time is found to happen in parallel, and   *)
(* not found to be protected by a common lock.                               *)
ThreadsCorrect == part = "threads" => Threads!ThreadsCorrect

(* "Check if two Instructions are protected by common locks"                 *)
(* (LockAnalysis.h:303).                                                     *)
ProtectedByLocks == part = "unprotected" => Threads!AlwaysExclude

(* "src --load--> dst, node in pts(src) ==> node--copy-->dst"
   (AndersenInc.cpp:1145). *)
EdgesDerived == part = "cycles" => SolveCycles!EdgesDerived
=============================================================================
