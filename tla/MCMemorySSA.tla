---------------------------- MODULE MCMemorySSA ----------------------------
(***************************************************************************)
(* The parts memory SSA is made from, for TLC, side by side: points-to      *)
(* chains, mod-ref sets, memory regions, and the SSA form itself. A         *)
(* behaviour is one of one part; the variables of the others are off (None), *)
(* those of PtsChain and MemPartition, which this module extends, at a      *)
(* start.                                                                   *)
(***************************************************************************)
EXTENDS PtsChain, MemPartition, TLC

CONSTANT SuiteParts    \* the parts to look at

VARIABLES
  part,
  change, mrPts, changed, chain, globs, dGlobs, args, rets, oldArgs, \* ModRef
  oldRets, eff, effLS, effCS, oldLS, csEff, entered, del, changedFun, stmtPts,
  lsSets, ptSets, sitePts, worklist, current, delList, pc, round,
  ssaPhase, built, ssaFun, dom, usedRegs, work, phis, ssaStack, frames,  \* MemSSA
  reads, phiOps

mrVars == <<change, mrPts, changed, chain, globs, dGlobs, args, rets, oldArgs, oldRets, eff,
  effLS, effCS, oldLS, csEff, entered, del, changedFun, stmtPts, lsSets, ptSets, sitePts, worklist,
  current, delList, pc, round>>
ssaVars == <<ssaPhase, built, ssaFun, dom, usedRegs, work, phis, ssaStack, frames, reads, phiOps>>
suiteVars == <<part, chainVars, mrVars, partitionVars, ssaVars>>
-----------------------------------------------------------------------------
(* A structure s with a field sf, and plain objects a, b, c; the field and a
   have up to two targets, b and c one, c only a or b. *)
Few(S, n) == {T \in SUBSET S : Cardinality(T) <= n}
ChObj == {"s", "sf", "a", "b", "c"}
ChBase == [o \in ChObj |-> IF o = "sf" THEN "s" ELSE o]
ChPointing == {p \in [ChObj -> Few(ChObj, 2)] :
  /\ p["s"] = {} /\ \A o \in {"b", "c"} : Cardinality(p[o]) <= 1 /\ "sf" \notin p[o]
  /\ "s" \notin p["sf"] /\ p["c"] \subseteq {"a", "b"} /\ p["a"] \cap {"s", "sf", "a"} = {}}

(* Three objects in and out of circles. *)
ChCircles == {p \in [ChObj -> SUBSET {"a", "b", "c"}] : p["s"] = {} /\ p["sf"] = {}}

PointingNowhere == [o \in ChObj |-> {}]
AllPointing == ChPointing \cup ChCircles
ChainCircles == INSTANCE PtsChain WITH Pointing <- ChCircles, MaxQueries <- 1
-----------------------------------------------------------------------------
(* main calls h, h calls f and g, f calls g; in the recursive program h calls
   f, f calls g and g calls h. *)
Ptr == {"p", "q"}
MrObj == {"G", "O", "L"}
Global == {"G"}
Owner == "L" :> "h"
Func == {"main", "h", "f", "g"}
Site == 1..4
Caller == <<"main", "h", "f", "h">>
Callees == <<{"h"}, {"f"}, {"g"}, {"g"}>>
Args == <<{"p"}, {"p", "q"}, {"q"}, {"p"}>>
RetArgs == [Args EXCEPT ![4] = {}]
Nothing == [s \in Site |-> {}]
Results == [s \in Site |-> IF s \in {3, 4} THEN {"p"} ELSE {}]
Heap == [s \in Site |-> IF s = 4 THEN {"O"} ELSE {}]

RecCaller == <<"main", "h", "f", "g">>
RecCallees == <<{"h"}, {"f"}, {"g"}, {"h"}>>

St(k, f, p) == [kind |-> k, fun |-> f, ptr |-> p]
Stmt == {St("mod", "f", "p"), St("mod", "g", "q"), St("ref", "g", "p"), St("ref", "h", "q")}

Alone(f) == [rep |-> f, nodes |-> <<f>>]
Order == <<Alone("main"), Alone("h"), Alone("f"), Alone("g")>>
RecOrder == <<Alone("main"), [rep |-> "h", nodes |-> <<"h", "f", "g">>]>>

(* What p, q and the objects point to, before and after. *)
Assign(P, Q, Gs, Ls) == [n \in Ptr \cup MrObj |->
  CASE n = "p" -> P [] n = "q" -> Q [] n = "G" -> Gs [] n = "L" -> Ls [] OTHER -> {}]
Changes == UNION {
  {[before |-> Assign(P, Q, Gs, {"O"}), after |-> Assign(P2, Q2, Gs2, Ls2), diff |-> D] :
     P2 \in SUBSET P, Q2 \in SUBSET Q, Gs2 \in SUBSET Gs, Ls2 \in SUBSET {"O"},
     D \in {{}, {St("mod", "f", "p")}, {St("mod", "g", "q"), St("ref", "g", "p")}}}
  : P \in SUBSET {"O", "L"}, Q \in {{"G", "O"}, {"L"}}, Gs \in SUBSET {"O"}}
FewChanges == {c \in Changes :
  /\ c.before \in {Assign({"O", "L"}, {"G", "O"}, {"O"}, {"O"}), Assign({"O"}, {"L"}, {}, {"O"})}
  /\ c.after["L"] = {"O"}}

ModRefOld == INSTANCE ModRef WITH Obj <- MrObj, pts <- mrPts, Ret <- Nothing, Alloc <- Nothing, Mode <- "old"
ModRefNew == INSTANCE ModRef WITH Obj <- MrObj, pts <- mrPts, Args <- RetArgs, Ret <- Results, Alloc <- Heap,
  Mode <- "new", Changes <- FewChanges
ModRefRec == INSTANCE ModRef WITH Obj <- MrObj, pts <- mrPts, Caller <- RecCaller, Callees <- RecCallees, Ret <- Results,
  Alloc <- Heap, Order <- RecOrder, Mode <- "new", Changes <- FewChanges
-----------------------------------------------------------------------------
(* One function with up to three sets of four objects, and two functions with
   up to two sets of three objects each. *)
PaFun == {"f", "g"}
PaSets(n) == {S \in SUBSET (SUBSET (1..n) \ {{}}) : Cardinality(S) <= n - 1}
OneFun == {("f" :> S) @@ ("g" :> {}) : S \in PaSets(4)}
TwoFuns == [PaFun -> PaSets(3)]
Partitioned(how, of) == {[strategy |-> how, sets |-> s] : s \in of}
NoAccesses == [strategy |-> "distinct", sets |-> [f \in PaFun |-> {}]]
PaAccesses == Partitioned("intra", OneFun) \cup Partitioned("inter", TwoFuns)
              \cup Partitioned("distinct", TwoFuns)
-----------------------------------------------------------------------------
(* The control flow of an if, loops, a loop with a break, an irreducible loop
   and a function that never returns, with a block that cannot be reached. *)
Block == 1..4
Flows == {
  [succ |-> <<{2, 3}, {4}, {4}, {}>>, exit |-> {4}],
  [succ |-> <<{2}, {3, 4}, {2}, {}>>, exit |-> {4}],
  [succ |-> <<{2}, {3}, {2, 3, 4}, {}>>, exit |-> {4}],
  [succ |-> <<{2, 4}, {3, 4}, {2, 4}, {}>>, exit |-> {4}],
  [succ |-> <<{2, 3}, {3}, {2, 4}, {}>>, exit |-> {4}],
  [succ |-> <<{2}, {3}, {2}, {2}>>, exit |-> {}] }

Load(S) == [mu |-> S, chi |-> {}]
Store(S) == [mu |-> {}, chi |-> S]
Call(S, T) == [mu |-> S, chi |-> T]
WithStmts(S) == {[succ |-> x[1].succ, exit |-> x[1].exit, stmts |-> x[2]] : x \in Flows \X S}

(* One region, every choice of statements of the blocks. *)
Ways == {<<>>, <<Load({"r"})>>, <<Store({"r"})>>, <<Store({"r"}), Load({"r"})>>,
         <<Load({"r"}), Store({"r"})>>, <<Store({"r"}), Store({"r"})>>}
OneRegion == WithStmts({s \in [Block -> Ways] : s[1] \in {<<>>, <<Store({"r"})>>} /\ s[4] = <<Load({"r"})>>})

(* Two regions, call sites, two functions one after the other. *)
Ways2 == {<<>>, <<Call({"r"}, {"q"}), Load({"q"})>>, <<Store({"r", "q"})>>}
TwoRegions == WithStmts({s \in [Block -> Ways2] : s[1] = <<>> /\ s[4] = <<>>})

SSA == INSTANCE MemSSA WITH Entry <- 1, phase <- ssaPhase, fun <- ssaFun, stack <- ssaStack, Region <- {"r"}, Functions <- OneRegion,
  MaxFunctions <- 1
SSATwo == INSTANCE MemSSA WITH Entry <- 1, phase <- ssaPhase, fun <- ssaFun, stack <- ssaStack, Region <- {"r", "q"}, Functions <- TwoRegions,
  MaxFunctions <- 2
-----------------------------------------------------------------------------
ASSUME PartsAssumption ==
  /\ ChainAssumption /\ ChainCircles!ChainAssumption
  /\ ModRefOld!ModRefAssumption /\ ModRefNew!ModRefAssumption /\ ModRefRec!ModRefAssumption
  /\ PartitionAssumption
  /\ SSA!MemSSAAssumption /\ SSATwo!MemSSAAssumption

ChOff == pts = PointingNowhere /\ ChainInit
MrOff ==
  /\ change = None /\ mrPts = None /\ changed = None /\ chain = None /\ globs = None
  /\ dGlobs = None /\ args = None /\ rets = None /\ oldArgs = None /\ oldRets = None
  /\ eff = None /\ effLS = None /\ effCS = None /\ oldLS = None /\ csEff = None /\ entered = None /\ del = None
  /\ changedFun = None /\ stmtPts = None /\ lsSets = None /\ ptSets = None /\ sitePts = None
  /\ worklist = None /\ current = None /\ delList = None /\ pc = None /\ round = None
PaOff == strategy = NoAccesses.strategy /\ sets = NoAccesses.sets /\ PartitionInit
SsaOff ==
  /\ ssaPhase = None /\ built = None /\ ssaFun = None /\ dom = None /\ usedRegs = None /\ work = None
  /\ phis = None /\ ssaStack = None /\ frames = None /\ reads = None /\ phiOps = None

SuiteInit ==
  /\ part \in SuiteParts
  /\ \/ /\ MrOff /\ PaOff /\ SsaOff
        /\ \/ part = "chain" /\ ChainInit
           \/ part = "chain circles" /\ ChainCircles!ChainInit
     \/ /\ ChOff /\ PaOff /\ SsaOff
        /\ \/ part = "modref old" /\ ModRefOld!Init
           \/ part = "modref new" /\ ModRefNew!Init
           \/ part = "modref rec" /\ ModRefRec!Init
     \/ /\ ChOff /\ MrOff /\ SsaOff
        /\ part = "partition" /\ PartitionInit
     \/ /\ ChOff /\ MrOff /\ PaOff
        /\ \/ part = "ssa" /\ SSA!Init
           \/ part = "ssa two" /\ SSATwo!Init

ChNext == \/ part = "chain" /\ ChainNext
          \/ part = "chain circles" /\ ChainCircles!ChainNext
MrNext == \/ part = "modref old" /\ ModRefOld!Next
          \/ part = "modref new" /\ ModRefNew!Next
          \/ part = "modref rec" /\ ModRefRec!Next
PaNext == part = "partition" /\ PartitionNext
SsaNext == \/ part = "ssa" /\ SSA!Next
           \/ part = "ssa two" /\ SSATwo!Next

SuiteNext ==
  /\ UNCHANGED part
  /\ \/ ChNext /\ UNCHANGED <<mrVars, partitionVars, ssaVars>>
     \/ MrNext /\ UNCHANGED <<chainVars, partitionVars, ssaVars>>
     \/ PaNext /\ UNCHANGED <<chainVars, mrVars, ssaVars>>
     \/ SsaNext /\ UNCHANGED <<chainVars, mrVars, partitionVars>>

(* Steps the program goes on to take by itself. *)
Step ==
  \/ part = "chain circles" /\ ChainCircles!ChainStep /\ UNCHANGED <<part, mrVars, partitionVars, ssaVars>>
  \/ part = "modref rec" /\ ModRefRec!Work /\ UNCHANGED <<part, chainVars, partitionVars, ssaVars>>
  \/ part = "ssa two" /\ SSATwo!Step /\ UNCHANGED <<part, chainVars, mrVars, partitionVars>>

SuiteSpec == SuiteInit /\ [][SuiteNext]_suiteVars /\ WF_suiteVars(Step)
-----------------------------------------------------------------------------
(* MRGenerator: what loads and stores access is exact, before and after an
   update, and at first what functions and call sites do is exact, too. After
   a deletion (part "modref old") a function has the effects of its own
   statements, no effect is stale, and each map is the union of its two parts;
   after a reset and an insertion (part "modref new") no effect is stale. *)
EffectsExact ==
  /\ part = "modref old" =>
       /\ ModRefOld!ExhaustiveExact /\ ModRefOld!LoadStoreExact /\ ModRefOld!TypeOK
       /\ ModRefOld!OwnEffectsKept /\ ModRefOld!NoStaleEffect /\ ModRefOld!EffectsAreUnions
  /\ part = "modref new" =>
       /\ ModRefNew!ExhaustiveExact /\ ModRefNew!LoadStoreExact /\ ModRefNew!TypeOK
       /\ ModRefNew!NoStaleEffect

(* MemRegion.h, lines 249 and 259: the effects of a function are those of its
   loads and stores and those of its call sites, here after an update that
   inserts statements again. *)
UnionsKept == part = "modref new" => ModRefNew!EffectsAreUnions

(* MemSSA: names come from the function at hand, each use is given exactly the
   definitions that reach it, which dominate it, and phis join different ones. *)
UsesCorrect ==
  /\ part = "ssa" => /\ SSA!StackNotEmpty /\ SSA!ReachingDefs /\ SSA!DefsDominateUses
                     /\ SSA!PhisJoin /\ SSA!TypeOK
  /\ part = "ssa two" => SSATwo!StackNotEmpty /\ SSATwo!ReachingDefs

(* The recursion over circles of objects, the update of recursive functions and
   the construction of a function all end. *)
Busy ==
  \/ part = "chain circles" /\ stack # <<>>
  \/ part = "modref rec" /\ pc # "ready"
  \/ part = "ssa two" /\ ssaPhase # "idle"
Finishes == Busy ~> ~Busy
=============================================================================
