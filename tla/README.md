# Verification of SeParaTe

The repository is a fork of SVF that makes Andersen's pointer analysis and the
mod-ref analysis incremental: after a change of the program only the effect of
the deleted and inserted statements is computed. This directory holds TLA+
modules of that analysis and of the parts of SVF around it, the TLC
configurations that check them on small instances, and theorems about them
checked by TLAPS.

    tlc -workers 2 -config MCCycles.cfg MCAndersenInc
    tlapm AndersenExact_proofs.tla        (and the other *_proofs modules)

## 1. Inventory

| part | state | operations | talks to | modelled |
|---|---|---|---|---|
| **AndersenInc** (`svf/lib/WPA/AndersenInc.cpp`) | points-to sets; work vectors `delDirectEdgeVec`, `delEdgeVec`, `insDirectEdgeVec`, `insDirectConsVec`, `insEdgeVec`; `redetectReps`, `rep2EdgeSet`; `allPtsDiffMap`, `ptsChangeNodes` | `analyze_inc`, `analyze_inc_reset`, `processDeletion_EdgeConstraint`, `processInsertion`, `propagateDelPts`, `propagateInsPts`, cycle redetection and merging, `computeAllPDM` | both graphs, the call graph; read by MemRegion | mostly |
| **FlatConsG** (`svf/lib/Graphs/FlatConsG.cpp`) | every constraint edge, never merged; `complexEdgeSet` per copy edge, `compCache` per load and store | adding, removing, the ledger of derivations | AndersenInc, SuperConsG | mostly |
| **SuperConsG** (`svf/lib/Graphs/SuperConsG.cpp`) | super edges with their `fEdgeSet`; `nodeToRepMap`, `nodeToSubsMap`; `rep2tempG` | adding, removing, `moveEdgesToRepNode`, `sccBreakDetect`, `restoreEdge`, `buildTempG` | AndersenInc | mostly |
| **SCC detection** (`Util/SCC.h`) | visit numbers, stacks, representatives | `find` | called on every graph | yes |
| **Call graph** (`PTACallGraph.cpp`, `PointerAnalysis.cpp`, the `...Del` and `...Ins` methods of AndersenInc) | call edges, call site ids, `callinstToCallGraphEdgesMap`, `indCallMap`, `fpPtsDiffMap` | connecting and disconnecting indirect and virtual calls | parameter copies go to the work vectors | mostly |
| **Drivers** (`AndersenInc::analyze`, `WPAPass`) | vectors of a round, counters | stepping, change proportion, pseudo insertion; order of the passes | AndersenInc, MemRegion | mostly |
| **Source and IR difference** (`svf-llvm/lib/Diff`, `SVFIRGetter`) | hunks, changed lines, added and deleted statements | parse, mark, look up | feeds the drivers | partly |
| **Mod-ref, regions, memory SSA** (`svf/lib/MSSA`) | effects per function, load, store and call site; chains; regions; version stacks | `generate`, `generate_inc`, three partitions, phi placement and renaming | reads `ptsChangeNodes` | mostly |
| **Value-flow optimisation** (`Graphs/SVFGOPT`) | value-flow edges, remembered definitions | bypassing parameter, memory and phi nodes | after SVFG | mostly |
| **Flow-sensitive analysis** (`WPA/FlowSensitive.cpp`) | sets per node and location, marks of what grew | transfer, strong update, propagation, calls on the fly | value-flow graph, points-to data | partly |
| **Points-to data, bit vectors** (`MemoryModel`, `Util/*BitVector*`) | maps and their reverse, difference sets, cache of set operations; words and elements | add, union, difference, clear, remap | every analysis | mostly |
| **Exhaustive solver** (`AndersenInc` exhaustive phase, `Andersen.cpp`) | as AndersenInc, and `propa`, worklist | the wave: detection, propagation, calls, field collapse | | mostly |
| **CFL reachability** (`svf/lib/CFL`) | edges, worklist, successor and predecessor sets | grammar normalisation, three solvers | | partly |
| **SVFIR as JSON** (`SVFFileSystem`) | pools of numbered objects | write, read by kind | | partly |
| **Abstract execution** (`AbstractExecution`) | interval states, one global state | arithmetic, join, widening, transfer | | partly |
| **Multithreaded analysis** (`svf/lib/MTA`) | thread tree, interleavings, lock sets | build, forward and backward passes, queries | | partly |
| VFG and SVFG construction, versioned flow-sensitive and type analysis, DDA, SABER, statistics, options, LLVM front end, vendored code, scripts | | | | no |

What is hard in it. Apart from the programs it analyses, nothing runs
concurrently: the difficulty is order and staleness. Work vectors and worklists
are filled from hash sets, so the order of steps is arbitrary; the propagations
are recursive and read the points-to sets of all predecessors at each call, while
the outer calls have not finished; deletion takes cycles apart that insertion
merges again, so representatives, super edges, cached member graphs and queued
edges may all be stale; one copy edge is derived by many loads and stores and two
records of that fact are kept; each round starts from what the last one left.
PROJECT.json lists these hazards, and those of the other parts, at their lines
with the properties that watch over them.

What makes the parts correct: the points-to sets after insertion are those of
the exhaustive analysis, deletion loses no fact that still holds, and each phase
ends; flat and super graph agree; the ledger of derived copies is exact and
points at live edges only; merged nodes are exactly the cycles; connected calls
are the possible ones; effects and regions are exact; every use in SSA form has
its reaching definitions; the optimised value-flow graph connects what the full
one does; containers hold the sets they stand for; abstract results contain the
concrete ones.

## 2. Modules

| module | models |
|---|---|
| `Constraints` | constraint edges, what an edge transfers, the reference solution and components |
| `FlatConsG`, `SuperConsG` | the two graphs, the ledger, merging and taking apart |
| `AndersenInc` | the analysis: rounds, both phases, both propagations, one action per handler |
| `IncRound` | what a round promises, whatever computes it (abstract; `AndersenInc` implements it) |
| `CallGraphInc` | a round at the grain of passes, with indirect and virtual calls and the call graph |
| `RoundDriver` | how the drivers divide a program into rounds |
| `ChangeSet` | from two source trees to changed statements |
| `AndersenSolve` | the exhaustive solver with detection, collapse and calls |
| `SCC` | the detection itself, step by step |
| `PtsChain`, `ModRef`, `MemPartition`, `MemSSA` | chains of points-to sets, effects and their update, memory regions, SSA form |
| `SVFGOPT` | optimisation of the value-flow graph |
| `FlowSens` | flow-sensitive analysis, plain and incremental data |
| `PointsToData` | what points-to data promises (abstract) |
| `MutablePTData`, `PersistentPTData` | its two backends |
| `CoreBitVector`, `SparseBitVector` | the sets underneath, word by word |
| `CFLSolver` | grammar graph and three solvers |
| `SVFIRJson`, `SVFIRJsonFormat` | writing and reading, the format of each kind |
| `Interval`, `IntervalBits`, `IntervalState` | interval values, bit operations, states and transfer |
| `TCT`, `MHP`, `LockAnalysis`, `MTA` | thread tree, interleaving, locks, and runs of the program to compare with |
| `MCAndersenInc`, `MCIncrement`, `MCMemorySSA`, `MCValueFlow`, `MCAnalyses` | instances for TLC (`MCPrograms`, `MCJsonPrograms` hold input programs) |
| `AndersenInc_proofs` | types, agreement of the graphs, the ledger, cycles waiting to be taken apart; what the reference solution and components are; nothing beyond the solution |
| `AndersenExact_proofs` | soundness, exactness, refinement |
| `SCC_proofs` | the detection finds the cycles |
| `Increment_proofs` | calls and the call graph (`CallGraphInc`), rounds (`RoundDriver`), changed lines (`ChangeSet`) |
| `MemorySSA_proofs` | chains of points-to sets (`PtsChain`), partitions into regions (`MemPartition`) |
| `ValueFlow_proofs` | points-to data, the optimised value-flow graph (`SVFGOPT`) |
| `Analyses_proofs` | the CFL solvers, interval arithmetic |
| `Iteration_proofs` | finite iterations stop, numbers and finite sets |

`FlatConsG` extends `Constraints`, `SuperConsG` extends `FlatConsG` and
`AndersenInc` and `AndersenSolve` extend `SuperConsG`, each adding its
variables; `LockAnalysis` extends `MHP` extends `TCT`. `MCIncrement`,
`MCMemorySSA`, `MCValueFlow` and `MCAnalyses` are suites: `part` says which of
several instances a behaviour belongs to, the variables of the others are
`None`, and each property of a suite says for each part what must hold of it.
They extend the components whose property is proved as it stands
(`MCIncrement`: `CallGraphInc`, `RoundDriver` and `ChangeSet`, `MCMemorySSA`:
`PtsChain` and `MemPartition`, `MCValueFlow`: `SVFGOPT`, `MCAnalyses`: `CFLSolver`
and `SCC`); in the other
parts these rest in one of their initial states.
`PartsAssumption` evaluates the assumptions of all instances. The map in
PROJECT.json gives the source lines of every definition. A definition whose name
contains an underscore and that stands before the one it varies
(`Supported_None` and `Supported`) carries a planted fault: it shows that each
property notices a fault of that kind and is used nowhere else.

### How AndersenInc corresponds to the code

* *Edges.* The code identifies an edge by kind and ends; so does `Edge`. A
  pointer to an edge is the edge itself, a dangling pointer an edge that has
  left `fEdges`.
* *Vectors are sets.* They are drained before the phase goes on and are filled
  in hash-set order, so every order of draining is explored. The one order the
  code fixes is kept: `delEdgeVec` is a stack on which the direct constraints,
  pushed during the first loop, lie above the others (`PopDelEdge`). A duplicate
  finds its edge gone or already there.
* *Recursion* is an explicit stack with one frame per active call of
  `propagateDelPts` or `propagateInsPts`; a step is one recursive call along an
  outgoing edge (in any order, the edge set is ordered by address) or the final
  part of a call, the loads and stores at the node. The latter only writes the
  ledger and a vector that nothing reads before the propagation ends, so making
  it one step loses no interleaving.
* *Initial states* are those in which the exhaustive analysis has finished: the
  least solution, all derived copies with their ledger, every cycle merged, with
  any member as its representative (it depends on the visiting order) holding the
  union of the members' sets, and stale or empty sets left at merged nodes.
* *Modes* is how the tool is driven: `step` deletes and inserts again at most
  `MaxStep` statements per round; `old` deletes a difference (`analyze_inc` on
  the old version); `new` deletes it (`analyze_inc_reset`), records all
  points-to sets and inserts it (`analyze_inc` on the new version).
* *Field model.* An object's field is `GepObjVar`, its base `FIObjVar`; one
  field per object is enough to tell normal and variant transfers apart. Objects
  that loads and stores skip are `NonPtrObj`.

Programs satisfy `WellFormed` (what the front end can produce: SSA pointers,
objects only under an address-of) and `FieldsSettled` (the exhaustive phase has
collapsed objects that reach a variant gep, and no gep lies on a cycle of direct
edges). Collapsing during a round, statistics and printing are left out. Calls
are in `CallGraphInc`, where a pass over the deletion or insertion vectors is one
step: a deletion pass ends with the closure of the remaining edges plus any set
of facts that support themselves on a cycle, which is what `AndersenInc` can
leave.

### The other modules

* `RoundDriver` has the two driving loops with their counters as the code has
  them (unsigned, `Word` values), the sixteen statements of the instance include
  the groups the code treats together (operands of a phi, a call that passes what
  a statement copies, equal stores).
* `ChangeSet` works on hunks as `SourceDiff` gets them and on instructions that
  are the kinds `SVFIRGetter` distinguishes.
* `PtsChain` has the recursion of `CollectPtsChain` as a stack with its cache,
  which inner calls read half filled; `ModRef` the worklists of the exhaustive
  and incremental collection; `MemPartition` the cutting in place of the three
  strategies; `MemSSA` the placing of phis and the renaming walk with stacks that
  functions share.
* `SVFGOPT` takes nodes out in any order; `FlowSens` takes any worklist element
  (an order finer than the code's FIFO is not assumed).
* `PersistentPTData` is parameterised by the representation of sets (`Rep`,
  `Join`, ...), because ids are compared where sets are meant: sparse vectors
  represent a set in one way, core vectors in several.
* `IntervalState` and `MTA` carry a concrete run of the program beside the
  analysis to compare with.

## 3. Runs

| run | instances and bounds | what it shows |
|---|---|---|
| `cycles` | all well-formed subsets of an address-of and six copies with cycles of two and three nodes, two rounds, up to two changes each, three modes; two watched programs under fairness, a copy cycle and a cycle through memory | a cycle survives, breaks partly or fully and is merged again; graphs, representatives, queued edges stay right; the result is the exhaustive one; exact deletion on acyclic programs; merged nodes are the cycles; a round of the watched programs always ends |
| `memory` | all well-formed subsets of eight constraints with loads and stores through two pointers, programs with both geps and a skipped object, two programs with a cycle through memory; one round, up to two changes, three modes | ledger, cached member graphs, soundness and monotonicity of deletion, closure at the end of phases, and `AndersenInc` implements `IncRound`, so that a round ends with the exhaustive result |
| `increment` | calls: a chain of calls each of which makes the next possible, the same with a virtual call, shared parameter copies with a direct call and a second object of one function, two rounds, one for the chains and the largest program; drivers: sixteen statements, step sizes 1 to 6, all starts, proportions 10 to 100 %, rounds 3 and 6, counters of 16 values; changes: any one or two of four hunks, fourteen instructions, both versions | calls follow the points-to sets and rounds restore them; each statement is in one round and the program is itself again in between; changed lines become the changed statements, and the others do not; drivers and passes end |
| `memory_ssa` | chains: five objects with a field, two queries, points-to relations with and without circles; effects: four functions, four call sites, with and without recursion, every shrinking of the sets; partitions: up to three sets of four objects in one function, two sets of three in each of two; SSA: six control-flow graphs of four blocks (irreducible and without exit among them), one region with all placements, two regions and two functions | see `ChainsCorrect`, `EffectsExact`, `RegionsCorrect`, `UsesCorrect`; the recursions end |
| `value_flow` | value-flow graph of a caller and a callee, self-recursive callee, call resolved later, parameters; three programs for the flow-sensitive analysis, both kinds of data; points-to data: two pointers, two or three objects, four to five operations; bit vectors: words of two bits, elements of two words; flows with up to two calls and returns (`MaxCalls`) | statements stay connected, and along the same calls unless there is recursion; least solution in every order; data exact, and both backends implement `PointsToData` |
| `analyses` | exhaustive analysis with cycles through memory, geps on cycles, indirect calls; detection on all graphs of three nodes and some of five; CFL with three solvers; JSON programs; interval programs; programs with up to four threads | each equals, or contains, its reference |
| `normal_gep`, `edges_derived`, `core_sets`, `protected_by_locks`, `shared_params`, `modref_union` | smallest instances | findings 1 to 6 |

*Why the bounds are enough.* Two changes reach every interaction of two
statements (both edges of a cycle, a load and the store that feeds it, a gep and
the address-of behind it). Two rounds are needed where a round starts from
representatives, super self-loops and caches of another one. Three-node cycles
are the smallest that can break into a cycle and a single node; two objects are
the smallest number at which a load derives some copies and gives up others. In
the suites each instance is the smallest in which every branch of its module is
taken: two words and an element boundary for vectors, two operations between
which a cached result is reused and remapped, two call sites that share a
callee. For the parts with theorems the bounds do not matter.

*Deadlock* is not checked: bounded programs end.

*Fairness.* `WatchedSpec` (of `MCAndersenInc`) requires weak fairness of
`DeletionStep \/ InsertionStep`, for two programs to keep the graph that TLC has to
search for liveness small; the suites require it of `Step`: one sequential thread that keeps running
once started. `StartRound` is not fair: nobody has to start another round.

*Precision.* Deletion is sound and only removes, but it is not exact: the filter
looks at all incoming edges, so the facts on a merged cycle support themselves
through its self-loop, and two nodes that lose a fact in one propagation may each
see the other still holding it. `DeletionExactAcyclic` states where it is exact:
one change, no cycle, no load or store. After insertion the result is exact
again, because the same statements come back.

### Findings

1. `AndersenInc.cpp:2603` (run `normal_gep`): the dispatch of retracted
   constraints tests `FVariantGep` twice, so a deleted normal gep leaves its
   facts behind. Soundness is not affected, precision is.
2. `AndersenInc.cpp:1498` (`edges_derived`): a cycle that closes after the first
   wave is merged without putting its representative on the worklist; loads and
   stores of one member miss what the others point to.
3. `CoreBitVector.cpp:298` (`core_sets`): words that became zero are kept and
   hashed, so the empty set has a second id where the code says it has one.
4. `LockAnalysis.h:361` (`protected_by_locks`): locks of one path survive a join
   with a path that was reached without locks; a child gets the locks its parent
   held at the fork (`LockAnalysis.cpp:417`); and a statement without a lock that
   several threads run in one context is protected from itself, because equal
   context statements are passed over (`:619`). The run has a program for each.
5. `AndersenInc.cpp:2079` (`shared_params`): retracting one call deletes a
   parameter copy another connected call needs.
6. `MemRegion.cpp:992` and `:935` (`modref_union`): the incremental adders feed
   only the maps of loads and stores, so a function whose statements were reset
   and inserted again lacks its own effects, against `MemRegion.h:249` and `:259`.

Other disagreements met while modelling, modelled as the code does it and
without a run of their own:

* *Rounds.* The comment at `SuperConsG.cpp:1473` says edges inside a merged
  cycle are removed; they are kept as self-loops, and deletion depends on them.
  `RoundRestores` of `CallGraphInc` fails where copies are shared, where two
  objects stand for one function (`AndersenInc.cpp:2943` disconnects for one of
  them) and where the limit is used up (its counter is never decremented).
  `connectVCallToVFnsIns` erases from the map what it has just not found
  (`AndersenInc.cpp:3689`). `getGraphEdge` ignores the call site id
  (`PTACallGraph.cpp:168`), so the edge of another call between the same
  functions may be deleted and its map entry dangles. A step may exceed its size
  (`AndersenInc.cpp:646`); `changeProportionInc` goes on until its counter wraps
  if the last round is short (`:749`); pseudo insertion leaves
  `insDirectEdgeVec` filled.
* *Differences.* The getter skips external calls and constant expressions
  (`SVFIRGetter.cpp:330`), retracts a store or return phi that an unchanged
  instruction shares, and the line of `\ No newline` adds line 0. Changed
  indirect call sites are collected and never used.
* *Memory SSA.* After `generate_inc` call sites may keep too little
  (`MemRegion.cpp:1092`). `EffectsExact` says what is exact: at first everything;
  after a deletion what loads and stores access, no stale effect, the own effects
  of each function, and each map the union of its two parts; after a reset and an
  insertion only what loads and stores access, and no stale effect (the unions
  fail, finding 6). Also chains of circles
  of objects are incomplete for later callers; the inter-procedural partition
  overlaps within a function.
* *Exhaustive and CFL.* `SCC.h` fills `repNodes` and nobody reads it. Copies of
  resolved calls are not in POCR's successor sets (`CFLAlias.h:117`), which also
  get X(i,i) only where a node has successors; the hybrid solver never applies
  F → F F; `check_head` of the normaliser reuses a head that has other
  productions; `addCopyEdge` may push a null edge.
* *JSON.* Negative 64-bit numbers come back as `LLONG_MAX`; the comment at
  `SVFFileSystem.h:878` says nodes come first and edges do.
* *Points-to data.* `clear` of the mutable difference and data-flow classes
  leaves the difference and in/out sets; the plain and the incremental data-flow
  class differ in the reverse map; `|=` into an empty core vector reports a
  change for zero words; iterators of a cleared sparse vector dangle.
* *Intervals.* `>=` and `<=` of equal non-singletons; `isTop` tests the left
  operand twice; Z3's division and remainder differ from C's for negatives;
  numbers do not overflow, while those of the program do; integer constants go
  through a double (`SVFIR2ItvExeState.cpp:432`) and fractions lose theirs; shifts
  are of 32-bit ints, and so is the power of two above the bounds of `|` and `^`
  (`IntervalValue.h:822`, negative at the sign bit, undefined above); an unknown
  select stores the condition; every pointee of a store is strongly updated, and
  every element of an object without fields; an index out of bounds is clamped and
  a constant one of -1 is none; a number hides an address stored after it;
  `_es[id]` writes the global state.
  `AbstractSound` compares with a concrete run of integers that wrap around, and
  claims nothing once the run has met one of these; `Reliable` names each, and none
  of them can be left out. The run has ints of 5, longs of 8 and doubles of 5 bits,
  so that all of these limits are met, and takes each of three values for what C++
  leaves undefined. Modelled are `-model-arrays` and `-ff-eq-base`; types of numbers
  are not kept, all are signed.
* *Threads.* `isSameSCEV` is always false, so joins in loops never match;
  `removeCxtStmtToSpan` stops at every unlock; a fork under a lock gives the
  child its parent's locks; equal context statements are skipped when two
  statements are compared. `LocksExclude` excepts these three: it speaks of
  statements that both lie in locks of their functions, or of threads that were
  started outside of locks and have released none (`clean`), and not of a statement
  in one context without a lock (`LeftAlone`); `AlwaysExclude` is the claim without
  exceptions, of finding 4. Two entry functions share node 0; `dirAndIndJoinMap`
  caches the first answer; `MTA::detect` lists pairs without asking either
  analysis. The programs of the passing run have `main` as only entry.

## 4. Proofs

For every `Node`, `Obj`, field map, program, step size and number of rounds. A
theorem that has a property in the second column proves it of `Spec`.

| theorem | states | that is |
|---|---|---|
| `TypeCorrect` | `TypeOK` | every variable of `AndersenInc` keeps its type |
| `MirrorCorrect`, `SuperEdgesCorrect`, `SubsCorrect` | `SuperMirrorsFlat`, `SuperEdgesUsed`, `SubsMatchReps` | flat and super graph and the two maps of representatives agree |
| `OwnersCorrect`, `CacheCorrect`, `BackingCorrect`, `OrphansQueued`, `PendingCorrect` | `OwnersLive`, `CacheExact`, `CacheBacked`, `NoOrphanCopy`, `PendingOwnerLive` | the ledger of derived copies is exact and points at live edges |
| `RedetectCorrect`, `TempGCorrect` | `RedetectReady`, `TempGSync` | queued cycles are merged, cached member graphs current |
| `SolutionCloses`, `SolutionLeast`, `ComponentsAreCycles` | – | the references used by properties and initial states are what their names say |
| `NothingBeyondSolution` | – | no node ever points to more than the program implies, merged nodes share a cycle |
| `DeletionIsSound` | `DeletionSound` | deletion keeps every fact the remaining program implies |
| `DeletionRemovesOnly` | `DeletionOnlyRemoves` | no step of deletion adds one |
| `DeletionIsExact` | `DeletionExactAcyclic` | on programs without cycles, loads and stores deletion of one statement leaves just these facts |
| `PhasesEndClosed` | `Closed` | a phase ends with every constraint applied |
| `MergesMatchCycles` | `MergedAreCycles` | and the merged nodes the cycles |
| `RoundIsExact` | `RoundExact` | and insertion with the solution of an analysis from scratch |
| `RoundsKeepPromise` | `ImplementsPromise` | `AndersenInc` implements `IncRound` |
| `CallTypes`, `NothingTooMuch`, `StaleCallsGo`, `ParamsGoWithCalls`, `RemainderKept`, `RoundsRestore`, `EdgesGoWithCalls` | `TypeOK`, `NothingBeyond`, `NoStaleCall`, `NoLeakedParams`, `DeletionSound`, `RoundRestores`, `EdgesFollowCalls` of `CallGraphInc` (in `CallsCorrect`) | calls, parameter copies and call graph follow the points-to sets |
| `CallsAreCorrect` | `CallsCorrect` of `CallGraphInc` | all of these at once, as the run checks them |
| `CachedResultsRight`, `ReverseMapExact`, `OneIdEach`, `MutableReverseExact` | `CacheSound`, `ReverseExact`, `OneIdPerSet` of the backends (in `DataExact`) | cache, reverse maps and ids are right |
| `PersistentKeepsPromise`, `MutableKeepsPromise` | `Promise!Spec` (in `BackendsKeepPromise`) | both backends implement `PointsToData` |
| `SearchInvariant`, `DetectionIsCorrect` | `DetectionCorrect` of `SCC` | representatives, sub nodes, topological order and `isInCycle` are those of the graph's cycles |
| `RoundsAreCorrect` | `RoundsCorrect` of `RoundDriver` | both drivers put the program together again after every round; each statement is in one round, of the size asked for; slices do not cut an operand group |
| `ChangesAreCorrect` | `ChangesCorrect` of `ChangeSet` | the instructions of the changed lines are marked, what they do to pointers is retracted or inserted, and nothing else but what they share |
| `ChainsAreCorrect` | `ChainsCorrect` of `PtsChain` | chains collected through a cache that is still being filled hold what can be reached, all of it outside circles and for the first caller |
| `RegionsAreCorrect` | `RegionsCorrect` of `MemPartition` | the regions of a function are disjoint where they must be, make up what each access may touch and are no finer than they need to be |
| `GraphsAreCorrect` | `GraphCorrect` of `SVFGOPT` | edges and definitions lead to nodes that are there, no phi on the work list joins two calls, what later calls need is remembered, and every phi that can go is gone at the end |
| `FlowsAreKept` | `FlowKept` of `SVFGOPT` | in every order of the steps, and with calls connected later, no flow between statements is lost or made up; it passes the same calls and returns unless there is recursion |
| `SolversAreCorrect` | `CFLCorrect` of `CFLSolver` | the solvers end with the least closure under the grammar and the calls it resolves |
| `AddSound` ... `EqualSound` | – | interval arithmetic and comparisons contain the concrete results |

*Assumptions.* `ConstraintsAssumption` and `NodesAssumption` (objects are nodes,
field maps are functions on objects, finitely many nodes), `AndersenIncAssumption`
(the programs are well-formed and their fields settled), `CallGraphAssumption`
(finitely many nodes, objects, functions and sites),
`MutableAssumption`, `PersistentAssumption`, `SCCAssumption` (a finite graph),
`DriverAssumption` (a finite program of sequences of statements, step sizes and
proportions that are not zero), `ChangeAssumption` (hunks as `diff` prints them, an
instruction for each id, and `ChosenOnce`: a node that holds what a phi or a select
chooses or a function returns is a copy of nothing else), `ChainAssumption` (finitely many objects, a base
for each that is its own), `PartitionAssumption` (finitely many objects, numbered;
no empty set among the accesses, which the collection leaves out), `OptAssumption` (the value-flow graph is well-formed: what is passed has one definition, as
the assertion at `SVFGOPT.cpp:206` says, calls lead from what is passed to what is received, the objects passed on are defined
where they are passed, and the nodes of calls resolved later are among those that are kept;
`MaxCalls`, up to which flows are looked at, is any positive number), `CFLAssumption` (finite graph and labels, a bar that
undoes itself and does not turn the copy label into the label of aliases). TLC
evaluates each in the runs. `PersistentAssumption` includes `Representation` (the
operations do what they say on the sets that are represented), which TLC confirms
of sparse and of core vectors. `OneIdEach` and `PersistentKeepsPromise` also have
the hypothesis `Canonical` (one representation per set), which sparse vectors have
and core vectors do not: finding 3 is what is left without.

### AndersenInc

*Types and graphs.* The inductive invariant is `TypeOK /\ GraphsAgree`, where
`GraphsAgree` is the conjunction of `SuperMirrorsFlat`, `SuperEdgesUsed` and
`SubsMatchReps`. None of the parts is inductive by itself. Merging maps super
edges through a map defined on representatives only, so its result has a type
only if super edges join representatives (`MergeType`, `MergeGraphs`). Taking a
cycle apart moves only the pairs at the representative `r` whose flat edge now
belongs to another one; that every other pair is at its place already, and that
no pair elsewhere has to move, needs all three (`RestoreGraphs`).

*The ledger.* The inductive invariant `Inv` adds the five ledger properties and
three auxiliary parts: what each phase leaves empty (`PhaseClean`), that a frame
of an insertion carries only objects its node already points to
(`FramesBacked`), and that objects without pointers derive nothing. Removal of a
load or store looks for its derived copies by the points-to set of its pointer;
that it finds them all, and leaves no pointer to itself behind, is `CacheBacked`
with no active call, together with `CacheExact`. `CacheBacked` survives a call of
`propagateDelPts` because the objects it takes are in its frame until the loads
and stores at the node, found through the super graph, have given up their
copies. An insertion records a derivation for a copy that was queued earlier;
that its pointer still points to the object then, also after a merge, is
`PendingOwnerLive`. Active calls are compared as sets of frames (`Calls`), which
keeps sequences out of all other lemmas.

*The references.* `LeastSolution` is an iteration over sets of facts, cut off
after as many steps as there are facts. `Iteration_proofs` shows that a growing
iteration below a finite set has stopped by then, so its value is closed and
least. Components, defined by an iteration as well, are the classes of nodes that
reach each other.

*Nothing too much.* `BoundInv` holds points-to sets, frames and derived copies
below the solution of the program, and merged nodes inside its cycles. Merging
unites sets of nodes on a common cycle, whose solutions are equal.

*Cycles.* `CyclesReady` is the two properties of queued cycles; `Merges` says that
members of a merged node reach each other along flat edges inside it, unless an
inner edge of it waits in `rep2EdgeSet`, and that outside insertion every cycle is
merged. A cycle taken apart changes the representatives of its own members only
(`CyclesAfterRestore`).

*What holds.* `Facts` says, during deletion, that every remaining constraint is
satisfied at every step: `propagateDelPts` takes an object from a node only if no
predecessor holds it, and then follows every edge that could have carried it.
During insertion a constraint not satisfied yet is *owed*: for each fact it does
not provide there is a frame that carries it, a pending edge, or a node to
propagate. A debt is settled when the last of these goes. `Kept` adds where the
statements of the program are. The whole is `ExactInv`; since the sets are then
closed for the program and below its solution, they are its solution, from which
soundness, closure and exactness follow. The refinement is proved step by step:
`StartMaps`, `DeletionMaps`, `FinishMaps` and `InsertionMaps` name the step of
`IncRound` that each action is.

*Exact deletion.* Where there is one change and no cycle, load or store, every
object at a node is `Provided` by an edge or `Doubted` by an active call. When
no call is left, an object that the remaining program does not imply would have a
predecessor that holds it too, and so on without end, which a finite acyclic
graph has not.

### CallGraphInc

`CallInv` has types, what each phase leaves empty (`Phases`), that nothing is
beyond the exhaustive result (`Bounded`), that `nowPts` is what the sites saw last
(`Current`), that every copy is a statement's or a connected call's or about to
be deleted (`Accounted`), and, under `Unshared` and while the budget lasts, that
every remaining fact and call is there (`Complete`). The exhaustive result is two
nested recursions over sets, which stop where nothing changes; that they have a
value, closed and least, follows from the growth of a set below a finite one
(`ClosureIs`, `ExhaustiveIs`). `Unshared` speaks only of the calls the exhaustive
analysis finds possible: calls that never are may share what they like. The hypotheses of
`RemainderKept` and `RoundsRestore` were found by the attempt to prove them
without: where two calls share a copy, or two objects stand for one function, the
first that goes takes the copy along, and a call refused by the limit never comes
back; run `shared_params` shows the first. `EdgesGoWithCalls` needs `GraphMatches`:
ids are those of different calls, an edge that is found by its ends is that of the
call itself if no other call is between the same functions.

### Points-to data

For each operation there is one lemma on the cache (`CacheOK`: every remembered
result is right), on what it may change in it (`Grows`: ids only come) and on
its answer (`Gives`). `PtInv` reads the ids of all maps through the cache (`Data`)
and says of the sets what the mutable backend keeps directly (`MInv`). Remapping
changes the representation of every id and keeps the sets (`RemapOK`). Where
representations are unique, two ids of equal sets are one (`OneId`), so comparing
ids compares sets and each operation refines that of `PointsToData`.

### SCC

The detection is a variant of Nuutila's: a node is put on `_SS` only when it turns
out not to be a root, and the representative a node has before its component is
complete is just some older open node it reaches. `Inv` says so (`Led`), and that
the node of an active call reaches every open node visited since (`Leading`). That
a root is one follows from two parts that are less obvious. `Lowered`: a node on
`_SS` is known to the innermost call it was visited in, whose representative is as
old as that of the node, or will be once that call compares itself with the child
it is at; for this one needs what a call hands to its caller when it ends, so the
part speaks of `calls[1].w`. `Sorted`: the nodes on `_SS` visited after a node in a
call are above the others, so that what a root takes off the top, by comparing
visit numbers, is all of its component (`RootFacts`): the representatives of these
nodes are not older than the root, so their children are in complete components or
among themselves, and following representatives from any of them ends at the root.
`ChildrenHandled` carries the edges seen, `Components` the closed part.
`DetectionCorrect` is read off `Inv` when no call is left: a node on `_SS` would then
have an older one as representative, and so on without end. `ReachedFrom`, in which
the property is stated, is an iteration, and reachability by `Iteration_proofs`.

### RoundDriver

The invariant says where the program's edges are: `delVec` is part of `insVec`, and
the graph with the edges of what is still to be inserted is the program
(`EdgesThere`). For statements that share an edge this needs the two vectors to be
emptied in this order. What the pseudo insertion leaves behind is the difference
of the two. `StepRounds` counts, for each statement passed, the rounds it is in;
`StepSizes` identifies the counter with the size of the vector, which a variant
gep that is counted and then filtered breaks: hence the hypothesis of `RoundSize`.
`ProportionRounds` says that round `r` is slice `r`. That slices divide the
statements is arithmetic on positions in a finite set: two slices with an element
in common overlap as intervals of numbers, below the word, and the last slice that
does not exceed the size leaves no number out.

### ChangeSet

The output is a concatenation of concatenations. `JoinedOwned` says of one that
every line is a line of one of the sequences and follows another of the same
sequence unless it is its first; from this `OutputPrinted` assigns each line to its
file, and `ReaderInv` says of the lines that were read which ranges they have added
and that `before`, `after` and `flag` are those of the file of the last line, unless it
was a binary one, which has no line before its own. `GetterInv` identifies the
statements collected with those found for the instructions visited. The rest is
about identities: two statements with one key are one, or a phi or a select into one
node (`SameKey`), and then `ChosenOnce` says that they belong to one instruction or to
returns of one function. Without it one of two phis into a node would be retracted
with the other.

### PtsChain

The entry of a base is read by inner calls before it is complete, so that completeness
cannot be an invariant of entries. Without circles `Collected` does: a frame has the
whole chains of the targets it has taken, because `Nested` (bases of inner frames are
reached from those of outer ones) excludes that a target is one whose frame is open.
With circles only the first caller gets everything, and the reason is global:
`Absorbed`, that the fields of every base entered are in the entry of some open frame,
or in one that an open frame is still to take, and `Followed`, that every target was
entered or waits. When the last frame returns it holds all that was entered, which
is closed, so it is `Reach` by `Iteration_proofs`.

### MemPartition

The list of regions is cut in place, so what a set gets is known only when the last
set has been cut against the list. `Sharp` says of the list between two sets that the
regions are disjoint and that two objects are in one region exactly when the sets
seen so far do not tell them apart; `SharpLoop` says it of the middle of the loop,
where the list, the parts and the remainder of the set held have to be read together
(`SharpCut`: cutting ends with the classes). A single object joins the list without a
look at it; `SmallFirst` says why it may: the sets are taken by size, so the sets
before a single object are single objects. The order that makes it so is total
(two sets of one size have a least id in which they differ), hence some set is always
first. On the list of the whole program the order is lost, and only `Made` is left:
each set seen is the union of regions inside it. This is enough for loads and for
stores that meet them, and `InterKept` claims no more: regions of that list may overlap (section 3).
`DistinctKept` and `Answered` carry the result through `createMR` and
`updateAliasMRs`.

### SVFGOPT

Which edges there can be depends on how far the optimisation is: `EdgeOK` says of
each kind of node what leads to it and from it, and when. That a bypassed phi never
joins two calls, although bypassing makes edges that cross functions end at phis,
rests on one fact: an edge into memory that crosses functions comes from an actual-in or
formal-out, or from a node remembered as the definition of one (`DefNodes`), and from
such a node on it is not taken further, since definitions are never taken out
(`NodeEdges`). So no edge leaves a node that goes but within a function, and the
edge made for two has the call site of the first (`ThroughOK`). `DefsOK` keeps the
definitions: until an actual-in is looked at, its edges are those of the graph before;
afterwards its definition is remembered and stays. That the work list misses no phi is
`PhisOK`: one that is not on it and still has edges has a cycle the option keeps, because
bypassing its neighbours gives it no edge where it had none.

That flows are kept is `FlowInv`, which adds two relations between the graph and the graph
before. `Sound`: each edge stands for a path of the graph before with the edge's calls as its
word. `Complete`: a path of the graph before between nodes that stay is there still, with the
same word or, where something `Turns` (comes back to itself along one call or return), with
one no longer (`Fits`). `Complete` quantifies over all nodes that stay and not over statements
alone, since the next step has to cut paths at phis. Paths have no bound in this argument:
`Leads` holds of what is in every set closed under taking an edge, and `FlowsAre` identifies the bounded
recursion of `Flows` with it. Each step is one lemma about paths: a replaced parameter
renames a node (`ReplacedPaths`), a node taken out is passed by (`WithoutNode`,
`BypassPaths`), self cycles that are dropped are left out (`WithoutLoops`, the one place
where a word gets shorter), and a call connected later splits a path where it was last
taken. `PassedOK` and `OldEdges` say what remembered definitions stand for until then.

### CFLSolver

`Follows` is the upper bound: every edge is in every closed set (of all calls, and
while none is connected also of those closed under what the POCR variants apply).
`Processed` is the lower one: what the productions give from edges that are not on
the worklist is there. An edge popped is looked up against edges that may still be
on the list; the pair is found when the other is popped, which needs both lookups.
Where a call is connected its copies miss in the sets of the POCR variants
(`Copied`), so that the lower bound ends there. `ArcsKnown` needs that such a copy is
no F edge: neither the label of copies nor its bar is `F` (`CFLAssumption`). The reference is defined by recursion over sets of edges;
`RecursionCloses` gives its value without induction over data: the recursion exists,
and the measure, the number of edges that are missing, gets smaller.

### Only model-checked

Liveness (`RoundTerminates`, `Finishes`, `Ended`; out of the prover's reach, as
`ENABLED` is). The properties of the suites other than those named above:
`AndersenSolve`, `ModRef`, `MemSSA`, `FlowSens`, the bit vectors, `SVFIRJson`, `IntervalState`, `MTA`. The references of
`SVFIRJson`, `IntervalState` and `MTA` follow the structure of data or of runs and
would need induction over it. For the others nothing stands in the way but their
length: the instances are what there is to go by.

## 5. Plan and limits

The modules were written in the order of section 2, from the constraint graphs
outwards, and each was proved about after TLC had found nothing more in it.

Left out for good: VFG and SVFG construction (a translation without state of its
own), versioned flow-sensitive and type analysis, DDA and SABER (upstream SVF,
not on the incremental path), the LLVM front end beyond the statement kinds of
`ChangeSet`, option parsing, printing and statistics, vendored libraries,
scripts. PROJECT.json lists each component with what is left out of it.
