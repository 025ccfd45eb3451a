---------------------------- MODULE MCValueFlow -----------------------------
(***************************************************************************)
(* The value-flow graph, the flow-sensitive analysis on it and the data it  *)
(* keeps its points-to sets in, for TLC, side by side. A behaviour is one of *)
(* one part; the variables of the others are off.                           *)
(***************************************************************************)
EXTENDS SVFGOPT, TLC

CONSTANTS
  None,   \* no call site, and the value of a variable that is off
  Top,    \* the label of direct edges
  s1, l1, s2, phF, phG, aiC, aoC, fi, fo, aiD, aoD,   \* nodes of memory
  a1, u1, a2, u2, apC, apD, fp, fr, arC, arD          \* and of variables

VARIABLES
  part,
  prog, direct, indirect, called, pts, in, out, inNew, outNew, work, pc,      \* FlowSens
  cache, ptsMap, revPtsMap, diffPtsMap, propaPtsMap, result, ops,  \* the two PTData
  reg, held, flag, changed                           \* CoreBitVector, SparseBitVector

fsVars == <<prog, direct, indirect, called, pts, in, out, inNew, outNew, work, pc>>
pdVars == <<cache, ptsMap, revPtsMap, diffPtsMap, propaPtsMap, result, ops>>
bvVars == <<reg, held, flag, changed>>
suiteVars == <<part, optVars, fsVars, pdVars, bvVars>>
-----------------------------------------------------------------------------
(* A caller with a store s1 and a load l1 around call c, and a callee with a
   store s2 and a phi, which may call itself at d; and parameters and results
   that are passed on. Every use has one of its possible definitions, a phi any
   of them. *)
E(src, dst, kind, cs, S) ==
  {[src |-> src, dst |-> dst, kind |-> kind, cs |-> cs, obj |-> x] : x \in S}
Use(n, defs, S) == UNION {E(x, n, "intra", None, S) : x \in defs}

MemNode == {s1, l1, s2, phF, phG, aiC, aoC, fi, fo}
RecNode == MemNode \cup {aiD, aoD}

(* The caller's region is S, the callee's T. *)
Caller(S) ==
  {Use(aiC, {x[1]}, S) \cup Use(l1, {x[2]}, S) \cup Use(phF, x[3], S) :
     x \in {s1, phF} \X {aoC, phF} \X {{aoC}, {s1, aoC}, {aoC, phF}}}
Callee(T, phis) ==
  {Use(fo, {x[1]}, T) \cup Use(s2, {x[2]}, T) \cup Use(phG, x[3], T) :
     x \in {fi, s2, phG} \X {fi, phG} \X phis}
Crossing(ai, ao, cs, S) == E(ai, fi, "call", cs, S) \cup E(fo, ao, "ret", cs, S)

PlainGraphs == UNION {
  {g \cup h \cup Crossing(aiC, aoC, "c", x[1] \cap x[2]) :
     g \in Caller(x[1]), h \in Callee(x[2], {{s2}, {fi, s2}, {s2, phG}})} :
  x \in {<<{"o"}, {"o"}>>, <<{"o", "p"}, {"o"}>>}}

(* The callee calls itself at d; the call may be indirect, and resolved after
   the optimisation. In GlobalGraphs it is the entry of the program, and s1 a
   store that initialises a global. *)
RecCall == Crossing(aiD, aoD, "d", {"o"})
LaterGraphs == {
  Use(aiC, {s1}, {"o"}) \cup Use(l1, {aoC}, {"o"}) \cup h
  \cup Use(aiD, {x}, {"o"}) \cup Crossing(aiC, aoC, "c", {"o"}) :
    h \in Callee({"o"}, {{fi, s2}, {fi, aoD}, {s2, aoD}, {aoD, phG}}),
    x \in {fi, s2, phG}}
RecGraphs == {g \cup RecCall : g \in LaterGraphs}
GlobalGraphs ==
  {g \cup Use(fi, {s1}, {"o"}) :
     g \in {h \in RecGraphs : Use(aiD, {fi}, {"o"}) \cup Use(fo, {phG}, {"o"}) \subseteq h}}
FewGraphs == {g \in RecGraphs : \E e \in g : e.src = phG /\ e.dst = phG}

(* Parameters and results, passed on at d. *)
TopNode == {a1, u1, a2, u2, apC, apD, fp, fr, arC, arD}
TopCall == E(apD, fp, "call", "d", {Top}) \cup E(fr, arD, "ret", "d", {Top})
TopGraphs == {
  Use(apC, {a1}, {Top}) \cup Use(u1, {fp}, {Top}) \cup Use(apD, {x[1]}, {Top})
  \cup Use(fr, {x[2]}, {Top}) \cup Use(u2, {arC}, {Top})
  \cup E(apC, fp, "call", "c", {Top}) \cup E(fr, arC, "ret", "c", {Top}) :
    x \in {fp, a2, arD} \X {fp, a2, arD}}

OptNode == RecNode \cup TopNode
OptKind == [n \in OptNode |->
  CASE n \in {s1, l1, s2, a1, u1, a2, u2} -> "stmt" [] n \in {phF, phG} -> "phi"
    [] n \in {aiC, aiD} -> "AI" [] n \in {aoC, aoD} -> "AO"
    [] n = fi -> "FI" [] n = fo -> "FO" [] n \in {apC, apD} -> "AP" [] n = fp -> "FP"
    [] n = fr -> "FR" [] n \in {arC, arD} -> "AR"]

Compiled(nodes, graphs, pinned, later, selfCycle) ==
  {[nodes |-> nodes, graph |-> g, pinned |-> pinned, later |-> later, selfCycle |-> selfCycle] :
     g \in graphs}
NoProgram == [nodes |-> {}, graph |-> {}, pinned |-> {}, later |-> {}, selfCycle |-> "all"]
OptPrograms == [
  plain |-> Compiled(MemNode, PlainGraphs, {}, {}, "all"),
  rec |-> Compiled(RecNode, RecGraphs \cup GlobalGraphs, {aoD}, {}, "none"),
  late |-> Compiled(RecNode, LaterGraphs, {aiD, aoD, fi, fo}, RecCall, "context"),
  params |-> Compiled(TopNode, TopGraphs, {}, TopCall, "all"),
  ending |-> Compiled(RecNode, FewGraphs, {}, {}, "none")]
AllPrograms == {NoProgram} \cup UNION {OptPrograms[p] : p \in DOMAIN OptPrograms}
-----------------------------------------------------------------------------
(* FsLoop: q and s are stored through p, around a loop, while p goes from o to o
   and h. FsCall: p gets h from a call that is resolved because fp points to F.
   FsFields: h is field-insensitive and has a field; g.x is a field of g. *)
FsObj == {"o", "h", "h.x", "g", "g.x", "a", "b", "F"}
FsVar == {"p", "q", "r", "s", "t", "x", "w", "y", "fp"}
St(k, dst, src) == [kind |-> k, dst |-> dst, src |-> src]
Mem(k) == St(k, "none", "none")
Edge(m, n, P) == [src |-> m, dst |-> n, pts |-> P]
OH == {"o", "h"}
FsLoop == <<
  St("Addr", "p", "o"), St("Addr", "q", "a"), St("Store", "p", "q"), Mem("MSSAPhi"),
  St("Load", "r", "p"), St("Store", "p", "s"), St("Addr", "s", "b"), St("Addr", "y", "h"),
  St("Copy", "p", "y")>>
FsCall == <<
  St("Addr", "p", "o"), St("Addr", "q", "a"), St("Store", "p", "q"), St("Addr", "fp", "F"),
  Mem("ActualIN"), Mem("FormalIN"), St("Load", "t", "x"), St("Phi", "x", {"p", "y"}),
  St("Addr", "y", "h"), St("FormalRet", "none", "y"), St("Param", "p", "none")>>
FsFields == <<
  St("Addr", "p", "g"), St("Addr", "q", "a"), St("Gep", "x", "p"), St("Store", "x", "q"),
  St("VGep", "y", "r"), St("Addr", "r", "h"), St("Store", "y", "q"), St("Load", "w", "r"),
  St("Load", "t", "x"), St("Copy", "s", "p"), St("Store", "x", "s")>>
NoCalls == [c \in {} |-> c]
FsPrograms(b) ==
  { [stmt |-> FsLoop,
     direct |-> {<<1, 3>>, <<1, 5>>, <<1, 6>>, <<2, 3>>, <<7, 6>>, <<8, 9>>, <<9, 3>>, <<9, 5>>, <<9, 6>>},
     indirect |-> {Edge(3, 4, OH), Edge(4, 5, OH), Edge(4, 6, OH), Edge(6, 4, OH)},
     calls |-> NoCalls, inc |-> b] }
  \cup
  { [stmt |-> FsCall,
     direct |-> {<<1, 3>>, <<2, 3>>, <<8, 7>>, <<9, 10>>, <<11, 3>>},
     indirect |-> {Edge(3, 5, OH), Edge(6, 7, OH)},
     calls |-> <<"cs", "F">> :> [fp |-> "fp", ander |-> k, direct |-> {<<1, 8>>, <<10, 11>>},
                                 indirect |-> {Edge(5, 6, {"h"}), Edge(3, 6, {"o"})}],
     inc |-> b] : k \in BOOLEAN }
  \cup
  { [stmt |-> FsFields,
     direct |-> {<<1, 3>>, <<2, 4>>, <<3, 4>>, <<6, 5>>, <<5, 7>>, <<2, 7>>, <<6, 8>>, <<3, 9>>, <<1, 10>>,
                 <<10, 11>>, <<3, 11>>},
     indirect |-> {Edge(4, 9, {"g.x"}), Edge(7, 8, {"h"}), Edge(4, 11, {"g.x"}), Edge(11, 9, {"g.x"})},
     calls |-> NoCalls, inc |-> b] }

Flow == INSTANCE FlowSens WITH
  Programs <- FsPrograms(TRUE) \cup FsPrograms(FALSE), Obj <- FsObj, Var <- FsVar,
  Strong <- {"o", "g.x"}, FieldsOf <- "h" :> {"h", "h.x"}, FieldOf <- [o \in FsObj |-> IF o = "g" THEN "g.x" ELSE o]
-----------------------------------------------------------------------------
(* Two pointers, two objects. A sparse bit vector is represented by its set, a
   core bit vector by its words. *)
Bits == INSTANCE CoreBitVector WITH WordSize <- 2, Bit <- 0..4
Sparse == INSTANCE SparseBitVector WITH WordSize <- 2, ElementSize <- 4, Bit <- {0, 3, 5, 8, 10}

Set1(o) == {o}
SetJoin(p, q) == p \cup q
SetMinus(p, q) == p \ q
SetMeet(p, q) == p \cap q
SetElems(p) == p

CoreSingle(o) == Bits!Insert(Bits!EmptyVector, o)
CoreJoin(p, q) == Bits!UnionWith(p, q).vec
CoreMinus(p, q) == Bits!Subtract(p, q).vec
CoreMeet(p, q) == Bits!IntersectWith(p, q).vec
CoreRebuilt(p) ==
  LET v == Bits!Visited(p)
      upTo[i \in 0..Len(v)] == IF i = 0 THEN Bits!EmptyVector ELSE Bits!Insert(upTo[i - 1], v[i])
  IN  upTo[Len(v)]

(* The vectors that hold bits 1 and 2 at most. *)
CoreSets ==
  [offset : {0}, words : {<<>>} \cup {<<v>> : v \in SUBSET {1}}
                         \cup {<<v, w>> : v \in SUBSET {1}, w \in SUBSET {0}}]
  \cup [offset : {2}, words : {<<w>> : w \in SUBSET {0}}]

Mutable == INSTANCE MutablePTData WITH Key <- {"p", "q"}, Obj <- {1, 2, 3}, MaxOps <- 4
Persistent == INSTANCE PersistentPTData WITH Key <- {"p", "q"}, Obj <- {1, 2}, MaxOps <- 5,
  Rep <- SUBSET {1, 2}, Empty <- {}, Single <- Set1, Join <- SetJoin, Minus <- SetMinus, Meet <- SetMeet,
  Elems <- SetElems, Rebuilt <- SetElems
Core == INSTANCE PersistentPTData WITH Key <- {"p", "q"}, Obj <- {1, 2}, MaxOps <- 5,
  Rep <- CoreSets, Empty <- Bits!EmptyVector, Single <- CoreSingle, Join <- CoreJoin, Minus <- CoreMinus,
  Meet <- CoreMeet, Elems <- Bits!Elements, Rebuilt <- CoreRebuilt
-----------------------------------------------------------------------------
ASSUME PartsAssumption ==
  /\ OptAssumption
  /\ Flow!FlowAssumption
  /\ Mutable!MutableAssumption /\ Persistent!PersistentAssumption /\ Persistent!Canonical
  /\ Core!PersistentAssumption /\ Bits!CoreAssumption
  /\ Sparse!SparseAssumption

OptOff == program = NoProgram /\ OptInit
FsOff ==
  /\ prog = None /\ direct = None /\ indirect = None /\ called = None /\ pts = None /\ in = None
  /\ out = None /\ inNew = None /\ outNew = None /\ work = None /\ pc = None
PdOff ==
  /\ cache = None /\ ptsMap = None /\ revPtsMap = None /\ diffPtsMap = None /\ propaPtsMap = None
  /\ result = None /\ ops = None
BvOff == reg = None /\ held = None /\ flag = None /\ changed = None

CoreInit == part = "core" /\ Core!Init /\ OptOff /\ FsOff /\ BvOff

SuiteInit ==
  \/ /\ FsOff /\ PdOff /\ BvOff
     /\ part \in DOMAIN OptPrograms /\ program \in OptPrograms[part] /\ OptInit
  \/ part = "flow" /\ Flow!Init /\ OptOff /\ PdOff /\ BvOff
  \/ part = "mutable" /\ cache = None /\ Mutable!Init /\ OptOff /\ FsOff /\ BvOff
  \/ part = "persistent" /\ Persistent!Init /\ OptOff /\ FsOff /\ BvOff
  \/ part = "bits" /\ Bits!Init /\ OptOff /\ FsOff /\ PdOff
  \/ part = "sparse" /\ Sparse!Init /\ OptOff /\ FsOff /\ PdOff

SuiteNext ==
  /\ UNCHANGED part
  /\ \/ /\ UNCHANGED <<fsVars, pdVars, bvVars>>
        /\ part \in DOMAIN OptPrograms /\ OptNext
     \/ part = "flow" /\ Flow!Step /\ UNCHANGED <<optVars, pdVars, bvVars>>
     \/ part = "mutable" /\ Mutable!Step /\ UNCHANGED <<cache, optVars, fsVars, bvVars>>
     \/ part = "persistent" /\ Persistent!Step /\ UNCHANGED <<optVars, fsVars, bvVars>>
     \/ part = "bits" /\ Bits!Step /\ UNCHANGED <<optVars, fsVars, pdVars>>
     \/ part = "sparse" /\ Sparse!Step /\ UNCHANGED <<optVars, fsVars, pdVars>>

Step == part = "ending" /\ OptStep /\ UNCHANGED <<part, fsVars, pdVars, bvVars>>

SuiteSpec == SuiteInit /\ [][SuiteNext]_suiteVars /\ WF_suiteVars(Step)

CoreNext == Core!Step /\ UNCHANGED <<part, optVars, fsVars, bvVars>>
CoreSpec == CoreInit /\ [][CoreNext]_suiteVars
-----------------------------------------------------------------------------
(* The flow-sensitive analysis ends with the least solution, whatever order its
   worklist has; what it keeps its sets in holds what sets would. *)
SolutionExact == part = "flow" => Flow!SolutionExact
DataExact ==
  /\ part = "mutable" => Mutable!ReverseExact
  /\ part = "persistent" => Persistent!CacheSound /\ Persistent!OneIdPerSet /\ Persistent!ReverseExact
  /\ part = "bits" => Bits!SetsExact
  /\ part = "sparse" => Sparse!SetsExact

(* Both backends of points-to data keep the promise of points-to data, step by
   step and in what each operation returns: that a set changed, that there is
   something to propagate. *)
BackendsKeepPromise ==
  /\ part = "mutable" => Mutable!Promise!Init
  /\ part = "persistent" => Persistent!Promise!Init
  /\ [][/\ part = "mutable" => Mutable!Promise!Next
        /\ part = "persistent" => Persistent!Promise!Next]_suiteVars

(* "Whether diff is empty or not; just need to check against the ID since it is
   the only empty set": of core bit vectors, described as "without leading and
   trailing 0s", too. *)
OnlyEmptySet ==
  \A i \in Core!Id(cache) :
    Bits!Elements(Core!getActualPts(cache, i)) = {} => i = Core!emptyPointsToId

(* The optimisation ends: phis that put one another back on the list run out. *)
Ended == part = "ending" ~> phase = "done"
=============================================================================
