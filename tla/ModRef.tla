------------------------------- MODULE ModRef -------------------------------
(***************************************************************************)
(* MRGenerator: which objects every function and every call site may write *)
(* (mod) and read (ref), computed for the whole program and then brought   *)
(* up to date after an incremental pointer analysis. The side effects of a *)
(* function are those of its stores and loads and those of its call sites; *)
(* a call site has those of its callees that get there through arguments,  *)
(* results or globals. An update deletes what may be gone, along the call  *)
(* graph, and then propagates again what is there.                         *)
(*                                                                         *)
(* The chains of objects reachable from an object are taken from PtsChain, *)
(* here for objects that do not point to one another in a circle.          *)
(***************************************************************************)
EXTENDS Naturals, SequencesExt, FiniteSets

CONSTANTS
  Ptr, Obj,      \* pointers and objects
  Global,        \* the global objects
  Owner,         \* stack object -> its function; the other objects are heap
  Func, Site,    \* functions and call sites
  Caller,        \* [Site -> Func]
  Callees,       \* [Site -> SUBSET Func], the edges of the call graph
  Args, Ret,     \* [Site -> SUBSET Ptr], pointers passed and received
  Alloc,         \* [Site -> SUBSET Obj], heap objects of allocation calls
  Stmt,          \* stores and loads, [kind : {"mod", "ref"}, fun, ptr]
  Order,         \* the SCCs of the call graph, callers first: [rep, nodes]
  Mode,          \* "old": statements are deleted; "new": reset and inserted
  Changes        \* the updates to consider, [before, after, diff]

Kind == {"mod", "ref"}
Node == Ptr \cup Obj

ModRefAssumption ==
  /\ Global \subseteq Obj /\ DOMAIN Owner \subseteq Obj \ Global
  /\ Caller \in [Site -> Func] /\ Callees \in [Site -> SUBSET Func]
  /\ Args \in [Site -> SUBSET Ptr] /\ Ret \in [Site -> SUBSET Ptr]
  /\ Alloc \in [Site -> SUBSET Obj]
  /\ Stmt \subseteq [kind : Kind, fun : Func, ptr : Ptr]
  /\ Mode \in {"old", "new"}
  /\ \A c \in Changes : /\ c.before \in [Node -> SUBSET Obj]
                        /\ c.after \in [Node -> SUBSET Obj]
                        /\ \A n \in Node : c.after[n] \subseteq c.before[n]
                        /\ c.diff \subseteq Stmt

VARIABLES
  change,        \* the update of this run
  pts,           \* points-to sets
  changed,       \* ptsChangeNodes
  chain,         \* cachedPtsChainMap
  globs,         \* allGlobals
  dGlobs,
  args, rets,    \* csToCallSiteArgsPtsMap, csToCallSiteRetPtsMap
  oldArgs, oldRets,  \* the _t maps
  eff,           \* funToModsMap, funToRefsMap
  effLS, effCS,  \* the _ls and _cs maps
  oldLS,         \* the _ls_t maps, of the functions whose _ls map changed
  csEff,         \* csToModsMap, csToRefsMap
  entered,       \* the call sites these have an entry for, an empty one or not
  del,           \* funToDelModsMap, funToDelRefsMap
  changedFun,    \* storeChangedFunctions, loadChangedFunctions
  stmtPts,       \* storesToPointsToMap, loadsToPointsToMap
  lsSets, ptSets,  \* funToPointsToMap_ls, funToPointsToMap
  sitePts,       \* callsiteToModPointsToMap, callsiteToRefPointsToMap
  worklist, current, \* work list, and functions of the SCC at hand
  delList,       \* modlist and reflist
  pc, round

chains == <<chain, globs, args, rets>>
effects == <<eff, effCS, csEff, entered>>
sets == <<stmtPts, lsSets, ptSets, sitePts>>
lists == <<worklist, current, delList>>
vars == <<change, pts, changed, chains, dGlobs, oldArgs, oldRets, effects, effLS,
          oldLS, del, changedFun, sets, lists, pc, round>>
-----------------------------------------------------------------------------
NoneOf(S) == [x \in S |-> {}]
NoEffects(S) == [k \in Kind |-> NoneOf(S)]

(* CollectPtsChain(o) with the cache c: the objects reached through objects
   that have no entry, and the entries met on the way. *)
Uncached(c, o) ==
  LET it[i \in Nat] == IF i = 0 THEN {o} \ DOMAIN c
                       ELSE it[i-1] \cup (UNION {pts[x] : x \in it[i-1]} \ DOMAIN c)
  IN  it[Cardinality(Obj)]

ChainOf(c, o) ==
  IF o \in DOMAIN c THEN c[o]
  ELSE LET U == Uncached(c, o)
       IN  U \cup UNION {c[y] : y \in UNION {pts[x] : x \in U} \cap DOMAIN c}

Chains(c, S) == UNION {ChainOf(c, o) : o \in S}
Caching(c, S) ==
  LET new == UNION {Uncached(c, o) : o \in S}
  IN  [x \in DOMAIN c \cup new |-> ChainOf(c, x)]

Empty == [x \in {} |-> {}]
PtsOf(P) == UNION {pts[p] : p \in P}

(* isNonLocalObject: a stack object of f is local to f unless f is recursive. *)
InCycle(f) ==
  \E i \in DOMAIN Order : /\ f \in Range(Order[i].nodes)
                          /\ \/ Len(Order[i].nodes) > 1
                             \/ \E s \in Site : Caller[s] = f /\ f \in Callees[s]

NonLocal(o, f) == o \in DOMAIN Owner => Owner[o] # f \/ InCycle(f)

SitesIn(f) == {s \in Site : Caller[s] = f}
SitesOf(f) == {s \in Site : f \in Callees[s]}

(* getCallGraphSCCRevTopoOrder: the stack of representatives, from its top. *)
Reps == [i \in DOMAIN Order |-> Order[i].rep]
AllNodes == FlattenSeq([i \in DOMAIN Order |-> Order[i].nodes])

(* subNodes is empty for a function that represents no component. *)
SubNodes(f) ==
  IF \E i \in DOMAIN Order : Order[i].rep = f
  THEN Order[CHOOSE i \in DOMAIN Order : Order[i].rep = f].nodes ELSE <<>>

(* FIFOWorkList::push, in some order of the in-edges. *)
Pushed_Again(list, S) == {list \o q : q \in SetToSeqs(S)}
Pushed(list, S) ==
  {list \o q : q \in SetToSeqs({f \in S : ~ \E i \in DOMAIN list : list[i] = f})}

(* The side effects of the stores (loads) of f, and the sets they have. *)
Deleted(st) == Mode = "old" /\ st \in change.diff
StmtsOf(k, f) == {st \in Stmt : st.kind = k /\ st.fun = f}

LoadStore(S, f) == {o \in UNION {pts[st.ptr] : st \in S} : NonLocal(o, f)}
SetsOf(S) == {pts[st.ptr] : st \in S} \ {{}}
-----------------------------------------------------------------------------
Init ==
  /\ change \in Changes
  /\ pts = change.before /\ changed = {}
  /\ chain = Empty /\ globs = {} /\ dGlobs = {}
  /\ args = NoneOf(Site) /\ rets = NoneOf(Site) /\ oldArgs = NoneOf(Site) /\ oldRets = NoneOf(Site)
  /\ eff = NoEffects(Func) /\ effLS = NoEffects(Func) /\ effCS = NoEffects(Func)
  /\ oldLS = NoEffects(Func) /\ csEff = NoEffects(Site)
  /\ entered = [k \in Kind |-> {}] /\ del = NoEffects(Func)
  /\ changedFun = [k \in Kind |-> {}]
  /\ stmtPts = NoneOf(Stmt) /\ lsSets = NoneOf(Func) /\ ptSets = NoneOf(Func)
  /\ sitePts = NoEffects(Site)
  /\ worklist = <<>> /\ current = <<>> /\ delList = [k \in Kind |-> <<>>]
  /\ pc = "start" /\ round = 0

(* generateMRs_exh_step1 up to the work list of collectModRefForCall. *)
CollectExhaustive ==
  /\ pc = "start"
  /\ LET c1 == Caching(Empty, Global)
         c2 == Caching(c1, PtsOf(UNION {Args[s] \cup Ret[s] : s \in Site}))
     IN  /\ chain' = c2
         /\ globs' = Chains(c1, Global)
         /\ args' = [s \in Site |-> Chains(c2, PtsOf(Args[s]))]
         /\ rets' = [s \in Site |-> Chains(c2, PtsOf(Ret[s]))]
  /\ effLS' = [k \in Kind |-> [f \in Func |-> LoadStore(StmtsOf(k, f), f)]]
  /\ eff' = effLS'
  /\ stmtPts' = [st \in Stmt |-> pts[st.ptr]]
  /\ lsSets' = [f \in Func |-> SetsOf(StmtsOf("mod", f) \cup StmtsOf("ref", f))]
  /\ ptSets' = lsSets'
  /\ worklist' = Reps /\ pc' = "modref"
  /\ UNCHANGED <<change, pts, changed, dGlobs, oldArgs, oldRets, effCS, csEff, entered, oldLS,
                 del, changedFun, sitePts, current, delList, round>>

(* The next component of the work list. *)
Pop ==
  /\ pc \in {"modref", "globs"} /\ current = <<>> /\ worklist # <<>>
  /\ current' = SubNodes(Head(worklist)) /\ worklist' = Tail(worklist)
  /\ UNCHANGED <<change, pts, changed, chains, dGlobs, oldArgs, oldRets, effects, effLS,
                 oldLS, del, changedFun, sets, delList, pc, round>>

(* What of the callee's effects S gets to the call site s. *)
Passing_NoGlobals(k, s, S) == S \cap (args[s] \cup (IF k = "mod" THEN rets[s] ELSE {}))
Passing(k, s, S) == S \cap (args[s] \cup (IF k = "mod" THEN rets[s] ELSE {}) \cup globs)

CalleeEffect(k, s, f) ==
  IF Alloc[s] = {} THEN eff[k][f] ELSE IF k = "mod" THEN Alloc[s] ELSE {}

Plus(e, add) == [k \in Kind |-> [x \in DOMAIN e[k] |-> e[k][x] \cup add[k][x]]]

(* The callers of the call sites whose effects grow. *)
Grown_Any(add) == {Caller[s] : s \in {x \in Site : \E k \in Kind : add[k][x] # {}}}
Grown(add) ==
  {Caller[s] : s \in {x \in Site : \E k \in Kind : ~ add[k][x] \subseteq csEff[k][x]}}

(* modRefAnalysis: the callee f's effects go to its call sites and their
   callers; a caller is pushed when a call site's effects have grown. *)
ModRefAnalysis ==
  /\ pc = "modref" /\ current # <<>>
  /\ LET f == Head(current)
         toSite == [k \in Kind |-> [s \in Site |->
                     IF s \in SitesOf(f) THEN Passing(k, s, CalleeEffect(k, s, f)) ELSE {}]]
         toFunc == [k \in Kind |-> [g \in Func |->
                     {o \in UNION {toSite[k][s] : s \in SitesIn(g)} : NonLocal(o, g)}]]
     IN  /\ csEff' = Plus(csEff, toSite)
         /\ eff' = Plus(eff, toFunc) /\ effCS' = Plus(effCS, toFunc)
         /\ entered' = [k \in Kind |->
              entered[k] \cup {s \in SitesOf(f) : CalleeEffect(k, s, f) # {}}]
         /\ worklist' \in Pushed(worklist, Grown(toSite))
  /\ current' = Tail(current)
  /\ UNCHANGED <<change, pts, changed, chains, dGlobs, oldArgs, oldRets, effLS, oldLS,
                 del, changedFun, sets, delList, pc, round>>

(* addCPtsToCallSiteRefs and addCPtsToCallSiteMods for every call site. *)
ModRefDone ==
  /\ pc = "modref" /\ current = <<>> /\ worklist = <<>>
  /\ sitePts' = [sitePts EXCEPT
       !["mod"] = [s \in Site |-> @[s] \cup csEff["mod"][s]],
       !["ref"] = [s \in Site |-> @[s] \cup csEff["ref"][s] \cup csEff["mod"][s]]]
  /\ ptSets' = [f \in Func |->
       ptSets[f] \cup UNION {{csEff[k][s] : s \in SitesIn(f) \cap entered[k]} : k \in Kind}]
  /\ pc' = "ready"
  /\ UNCHANGED <<change, pts, changed, chains, dGlobs, oldArgs, oldRets, effects, effLS,
                 oldLS, del, changedFun, stmtPts, lsSets, lists, round>>
-----------------------------------------------------------------------------
(* The pointer analysis. analyze_inc leaves the nodes whose points-to set is
   not what it was in ptsChangeNodes, analyze_inc_reset does not. *)
Analyze ==
  /\ pc = "ready" /\ round < IF Mode = "old" THEN 1 ELSE 2
  /\ pts' = IF round = 0 THEN change.after ELSE change.before
  /\ changed' = IF Mode = "new" /\ round = 0 THEN changed
                ELSE {n \in Node : pts'[n] # pts[n]}
  /\ pc' = "ls" /\ round' = round + 1
  /\ UNCHANGED <<change, chains, dGlobs, oldArgs, oldRets, effects, effLS, oldLS, del,
                 changedFun, sets, lists>>

(* initChangedFunctions. *)
IsChanged(st) == st.ptr \in changed \/ st \in change.diff
ChangedFuns_PtsOnly(k) == {f \in Func : \E st \in StmtsOf(k, f) : st.ptr \in changed}
ChangedFuns(k) == {f \in Func : \E st \in StmtsOf(k, f) : IsChanged(st)}

(* The statements collectModRefForLoadStore_inc looks at again. *)
Kept_NotInserted(k, f) == StmtsOf(k, f) \ change.diff
Kept(k, f) == {st \in StmtsOf(k, f) : ~ Deleted(st)}

LostLS(k, f) == oldLS'[k][f] \ effLS'[k][f]

(* collectModRefForLoadStore_inc, and step 1 of incrementalModRefAnalysis up
   to its two lists: what a function's own statements no longer do is taken
   from its effects. *)
CollectLoadStore ==
  /\ pc = "ls"
  /\ changedFun' = [k \in Kind |-> changedFun[k] \cup ChangedFuns(k)]
  /\ LET redo(k, f) == f \in changedFun'[k]
     IN  /\ effLS' = [k \in Kind |-> [f \in Func |->
                       IF redo(k, f) THEN LoadStore(Kept(k, f), f) ELSE effLS[k][f]]]
         /\ lsSets' = [f \in Func |->
              IF \E k \in Kind : redo(k, f)
              THEN UNION {SetsOf(Kept(k, f)) : k \in {x \in Kind : redo(x, f)}}
              ELSE lsSets[f]]
         /\ stmtPts' = [st \in Stmt |->
              IF redo(st.kind, st.fun) /\ ~ Deleted(st) /\ pts[st.ptr] # {}
              THEN pts[st.ptr] ELSE stmtPts[st]]
  /\ ptSets' = lsSets'
  /\ oldLS' = [k \in Kind |-> [f \in Func |->
                IF effLS'[k][f] # effLS[k][f] THEN effLS[k][f] ELSE oldLS[k][f]]]
  /\ eff' = [k \in Kind |-> [f \in Func |-> eff[k][f] \ LostLS(k, f)]]
  /\ del' = [k \in Kind |-> [f \in Func |-> del[k][f] \cup LostLS(k, f)]]
  /\ delList' = [k \in Kind |-> SelectSeq(AllNodes, LAMBDA f : LostLS(k, f) # {})]
  /\ pc' = "del"
  /\ UNCHANGED <<change, pts, changed, chains, dGlobs, oldArgs, oldRets, effCS, csEff,
                 entered, sitePts, worklist, current, round>>

(* delMod/RefSideEffectOfFunction_callSite for all call sites at once: minus
   is what each loses; a caller loses of it what it does not do itself. *)
OwnEffect_None(k, g) == {}
OwnEffect(k, g) == effLS[k][g]

Lost(k, minus) ==
  [g \in Func |-> {o \in UNION {minus[s] : s \in SitesIn(g)} :
                     NonLocal(o, g) /\ o \notin OwnEffect(k, g) /\ o \in eff[k][g]}]
LostCS_None(minus) == [g \in Func |-> {}]
LostCS(minus) ==
  [g \in Func |-> {o \in UNION {minus[s] : s \in SitesIn(g)} : NonLocal(o, g)}]

Minus(e, loss) == [k \in Kind |-> [x \in DOMAIN e[k] |-> e[k][x] \ loss[k][x]]]

(* delModAnalysis and delRefAnalysis. The list of mods is worked off first. *)
DelAnalysis(k) ==
  /\ pc = "del" /\ delList[k] # <<>>
  /\ k = "ref" => delList["mod"] = <<>>
  /\ LET f == Head(delList[k])
         minus == [s \in Site |-> IF s \in SitesOf(f) THEN Passing(k, s, del[k][f]) ELSE {}]
         lost == Lost(k, minus)
     IN  /\ csEff' = [csEff EXCEPT ![k] = [s \in Site |-> @[s] \ minus[s]]]
         /\ entered' = [entered EXCEPT ![k] = @ \cup IF del[k][f] = {} THEN {} ELSE SitesOf(f)]
         /\ effCS' = [effCS EXCEPT ![k] = [g \in Func |-> @[g] \ LostCS(minus)[g]]]
         /\ eff' = [eff EXCEPT ![k] = [g \in Func |-> @[g] \ lost[g]]]
         /\ del' = [del EXCEPT ![k] = [g \in Func |-> (IF g = f THEN {} ELSE @[g]) \cup lost[g]]]
         /\ \E list \in Pushed(Tail(delList[k]), {g \in Func : lost[g] # {}}) :
              delList' = [delList EXCEPT ![k] = list]
  /\ UNCHANGED <<change, pts, changed, chains, dGlobs, oldArgs, oldRets, effLS, oldLS,
                 changedFun, sets, worklist, current, pc, round>>

(* Steps 2 and 3: the globals are collected again, from the cache as it is;
   then the cache is cleared and the chains of those call sites are computed
   again that hold a changed node. Where the old result objects belong,
   collectCallSitePts_inc saves the argument objects. *)
Stale(P, S) == (P \cup S) \cap changed # {}

Recollect ==
  /\ pc = "del" /\ \A k \in Kind : delList[k] = <<>>
  /\ del' = NoEffects(Func)
  /\ globs' = Chains(chain, Global)
  /\ dGlobs' = globs \ globs'
  /\ LET redoArgs == {s \in Site : Stale(Args[s], args[s])}
         redoRets == {s \in Site : Stale(Ret[s], rets[s])}
     IN  /\ args' = [s \in Site |-> IF s \in redoArgs THEN Chains(Empty, PtsOf(Args[s])) ELSE args[s]]
         /\ rets' = [s \in Site |-> IF s \in redoRets THEN Chains(Empty, PtsOf(Ret[s])) ELSE rets[s]]
         /\ oldArgs' = [s \in Site |-> IF s \in redoArgs THEN args[s] ELSE oldArgs[s]]
         /\ oldRets' = [s \in Site |-> IF s \in redoRets THEN args'[s] ELSE oldRets[s]]
         /\ chain' = Caching(Empty, PtsOf(UNION {Args[s] : s \in redoArgs} \cup
                                          UNION {Ret[s] : s \in redoRets}))
  /\ worklist' = Reps /\ pc' = "globs"
  /\ UNCHANGED <<change, pts, changed, effects, effLS, oldLS, changedFun, sets,
                 current, delList, round>>

(* delGlobsArgsRetsPtsAnalysis: a call site loses what no longer is global,
   argument or result, and what the callee f has lost. *)
DelGlobsAnalysis ==
  /\ pc = "globs" /\ current # <<>>
  /\ LET f == Head(current)
         dRets(s) == oldRets[s] \ rets[s]
         dArgs(s) == oldArgs[s] \ args[s]
         minus == [k \in Kind |-> [s \in Site |->
           IF s \notin SitesOf(f) THEN {}
           ELSE dGlobs \cup dArgs(s) \cup (IF k = "mod" THEN dRets(s) ELSE {}) \cup del[k][f]]]
         lost == [k \in Kind |-> Lost(k, minus[k])]
     IN  /\ oldRets' = [s \in Site |-> IF s \in SitesOf(f) /\ dRets(s) = {} THEN {} ELSE oldRets[s]]
         /\ oldArgs' = [s \in Site |-> IF s \in SitesOf(f) /\ dArgs(s) = {} THEN {} ELSE oldArgs[s]]
         /\ csEff' = Minus(csEff, minus)
         /\ entered' = [k \in Kind |-> entered[k] \cup SitesOf(f)]
         /\ effCS' = Minus(effCS, [k \in Kind |-> LostCS(minus[k])])
         /\ eff' = Minus(eff, lost)
         /\ del' = [k \in Kind |-> [g \in Func |-> (IF g = f THEN {} ELSE del[k][g]) \cup lost[k][g]]]
         /\ worklist' \in Pushed(worklist, {g \in Func : \E k \in Kind : lost[k][g] # {}})
  /\ current' = Tail(current)
  /\ UNCHANGED <<change, pts, changed, chains, dGlobs, effLS, oldLS, changedFun, sets,
                 delList, pc, round>>

(* Step 5 begins with all functions again. *)
Recompute ==
  /\ pc = "globs" /\ current = <<>> /\ worklist = <<>>
  /\ worklist' = Reps /\ pc' = "modref"
  /\ UNCHANGED <<change, pts, changed, chains, dGlobs, oldArgs, oldRets, effects, effLS,
                 oldLS, del, changedFun, sets, current, delList, round>>

Work ==
  \/ CollectExhaustive \/ Pop \/ ModRefAnalysis \/ ModRefDone
  \/ CollectLoadStore \/ Recollect \/ DelGlobsAnalysis \/ Recompute
  \/ \E k \in Kind : DelAnalysis(k)

Next == Analyze \/ Work

Spec == Init /\ [][Next]_vars
FairSpec == Spec /\ WF_vars(Work)
-----------------------------------------------------------------------------
TypeOK ==
  /\ pts \in [Node -> SUBSET Obj] /\ changed \subseteq Node
  /\ globs \subseteq Obj /\ dGlobs \subseteq Obj
  /\ DOMAIN chain \subseteq Obj /\ \A o \in DOMAIN chain : chain[o] \subseteq Obj
  /\ \A m \in {args, rets, oldArgs, oldRets} : m \in [Site -> SUBSET Obj]
  /\ \A m \in {eff, effLS, effCS, oldLS, del} : m \in [Kind -> [Func -> SUBSET Obj]]
  /\ \A m \in {csEff, sitePts} : m \in [Kind -> [Site -> SUBSET Obj]]
  /\ entered \in [Kind -> SUBSET Site]
  /\ changedFun \in [Kind -> SUBSET Func] /\ stmtPts \in [Stmt -> SUBSET Obj]
  /\ lsSets \in [Func -> SUBSET SUBSET Obj] /\ ptSets \in [Func -> SUBSET SUBSET Obj]
  /\ worklist \in Seq(Func) /\ current \in Seq(Func) /\ IsInjective(worklist)
  /\ \A k \in Kind : delList[k] \in Seq(Func) /\ IsInjective(delList[k])
  /\ pc \in {"start", "modref", "ready", "ls", "del", "globs"} /\ round \in 0..2

(* What the program as it is now implies: the chains under pts, the effects
   of the statements there are, and the least effects closed under calls, as
   sets of triples <<k, f, o>>. *)
Now == {st \in Stmt : round = 0 \/ ~ Deleted(st)}
NowGlobs == Chains(Empty, Global)
NowLS == [k \in Kind |-> [f \in Func |-> LoadStore(StmtsOf(k, f) \cap Now, f)]]

Triples(e) == UNION {UNION {{<<k, f>>} \X e[k][f] : f \in Func} : k \in Kind}
Paired(T) == {<<x[1][1], x[1][2], x[2]>> : x \in T}
NowPassing ==
  Paired(UNION {UNION {{<<k, s>>} \X
    (NowGlobs \cup Chains(Empty, PtsOf(Args[s] \cup IF k = "mod" THEN Ret[s] ELSE {})))
    : s \in Site} : k \in Kind})

NowEffects ==
  LET passing == NowPassing
      own == Paired(Triples(NowLS))
      calls(E) == {y \in UNION {
        IF Alloc[s] = {} THEN {<<x[1], s, x[3]>> : x \in {z \in E : z[2] \in Callees[s]}}
        ELSE {"mod"} \X {s} \X Alloc[s] : s \in Site} : y \in passing}
      over(E) == E \cup {x \in {<<y[1], Caller[y[2]], y[3]>> : y \in calls(E)} : NonLocal(x[3], x[2])}
      it[i \in Nat] == IF i = 0 THEN own ELSE over(it[i-1])
  IN  it[Cardinality(Func)]

(* The exhaustive analysis finds exactly what the program implies, where
   calls are not recursive, although callers come before their callees. *)
ExhaustiveExact == pc = "ready" /\ round = 0 => Paired(Triples(eff)) = NowEffects

(* The effects of the statements are recomputed wherever a statement or what
   it may access has changed, also where the reset reports no change. *)
LoadStoreExact == pc = "ready" /\ (Mode = "new" => round # 1) => effLS = NowLS

(* Deletion along the call graph does not take away from a function what a
   store or load of its own does. *)
OwnEffectsKept ==
  Mode = "old" /\ pc # "ls" => \A k \in Kind, f \in Func : effLS[k][f] \subseteq eff[k][f]

(* After an update no function is left with an effect that the
   program does not have, where the chains of globals and results are still
   the same: those are not updated as they should be. *)
SameChains == rets = [s \in Site |-> Chains(Empty, PtsOf(Ret[s]))] /\ globs = NowGlobs /\ oldRets = NoneOf(Site)
NoStaleEffect ==
  pc = "ready" /\ (Mode = "new" => round # 1) /\ SameChains => Paired(Triples(eff)) \subseteq NowEffects

(* Every analysis and update of the mod-ref sets comes to its end. *)
Finishes == pc # "ready" ~> pc = "ready"

(* funToMods := funToMods_ls \union funToMods_cs, and so for the refs. *)
EffectsAreUnions ==
  pc = "ready" => \A k \in Kind, f \in Func : eff[k][f] = effLS[k][f] \cup effCS[k][f]

(* U/D_callsite is (N_callsite intersected with U/D_callee) and (G intersected
   with U/D_callee): a call site has what its callee may do and pass on. *)
CallSitesClosed ==
  pc = "ready" => \A s \in Site : \A f \in Callees[s] : \A k \in Kind :
    Passing(k, s, CalleeEffect(k, s, f)) \subseteq csEff[k][s]

(* And no more than what can get there. *)
CallSitesBounded ==
  pc = "ready" => \A s \in Site, k \in Kind : csEff[k][s] = Passing(k, s, csEff[k][s])

(* The globals' objects are those of the current points-to sets. *)
GlobalsCurrent == pc = "ready" => globs = NowGlobs

(* Every object a load or store or call site may access is in a set that
   memory regions are made from. *)
RegionsExist ==
  pc = "ready" =>
    UNION ({stmtPts[st] : st \in Now} \cup {sitePts[k][s] : k \in Kind, s \in Site})
      \subseteq UNION UNION {ptSets[f] : f \in Func}
=============================================================================
