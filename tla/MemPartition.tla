---------------------------- MODULE MemPartition ----------------------------
(***************************************************************************)
(* Memory regions: the points-to sets of the loads and stores of each      *)
(* function are cut into regions, one per object (distinct), into disjoint *)
(* sets per function (intra) or into sets shared by all functions (inter), *)
(* and every load and store is given the regions it touches.               *)
(***************************************************************************)
EXTENDS Naturals, FiniteSets

CONSTANTS
  ObjId,       \* object ids, numbers
  Fun,         \* functions
  None,        \* no function
  Accesses     \* the recorded sets to consider and the option -mem-par that
               \* they are partitioned with, [strategy, sets]; a set that is
               \* empty has no part in a region and is left out

PartitionAssumption ==
  /\ IsFiniteSet(ObjId) /\ ObjId \subseteq Nat
  /\ None \notin Fun
  /\ Accesses \subseteq [strategy : {"distinct", "intra", "inter"},
                         sets : [Fun -> SUBSET ((SUBSET ObjId) \ {{}})]]

VARIABLES
  strategy,
  sets,        \* funToPointsToMap: what the accesses of a function point to
  phase,       \* "cut", "create", "alias", "done"
  left,        \* functions whose sets or regions are still to do
  fun,         \* the function whose sets are being cut, or None
  todo,        \* its sets not yet looked at
  inters,      \* funToInterMap, or the list of the whole program under None
  loop,        \* computeIntersections: [rest, copy, del, new]
  memRegSet,   \* all regions
  funToMRs,    \* the regions of each function
  stores, loads  \* storesToMRsMap and loadsToMRsMap, by function and set

partitionVars == <<strategy, sets, phase, left, fun, todo, inters, loop, memRegSet, funToMRs, stores, loads>>
-----------------------------------------------------------------------------
Least(S) == CHOOSE x \in S : \A y \in S : x <= y

(* cmpNodeBS, the order of the lists: by size, then by the first id in which
   two sets of the same size differ. *)
Before(S, T) ==
  \/ Cardinality(S) < Cardinality(T)
  \/ /\ Cardinality(S) = Cardinality(T) /\ S # T
     /\ Least((S \ T) \cup (T \ S)) \in S

IsFirst(S, list) == S \in list /\ \A T \in list : ~Before(T, S)

(* Not in the loop, or at the end of one that changes nothing. *)
NoLoop == [rest |-> {}, copy |-> {}, del |-> {}, new |-> {}]

(* The list that the sets of f are cut against. *)
ListOf(f) == IF strategy = "inter" THEN None ELSE f

PartitionInit ==
  /\ \E a \in Accesses : strategy = a.strategy /\ sets = a.sets
  /\ phase = "cut" /\ left = Fun /\ fun = None /\ todo = {}
  /\ inters = [f \in Fun \cup {None} |-> {}]
  /\ loop = NoLoop
  /\ memRegSet = {} /\ funToMRs = [f \in Fun |-> {}]
  /\ stores = [f \in Fun |-> [c \in {} |-> {}]]
  /\ loads = [f \in Fun |-> [c \in {} |-> {}]]

(* The functions come in the order of a hash map. *)
Begin(f) ==
  /\ phase = "cut" /\ strategy # "distinct" /\ fun = None /\ f \in left
  /\ fun' = f /\ left' = left \ {f} /\ todo' = sets[f]
  /\ UNCHANGED <<strategy, sets, phase, inters, loop, memRegSet, funToMRs, stores, loads>>

(* computeIntersections of the next set: a set of the list is skipped, a
   single object is added as it is, and another set is held against the list. *)
Skip(c, list) == c \in list

Single_Two(c) == Cardinality(c) <= 2
Single(c) == Cardinality(c) = 1

Take(c) ==
  /\ fun # None /\ loop = NoLoop /\ IsFirst(c, todo)
  /\ todo' = todo \ {c}
  /\ LET list == inters[ListOf(fun)]
     IN  IF Skip(c, list)
         THEN UNCHANGED <<inters, loop>>
         ELSE IF Single(c)
         THEN inters' = [inters EXCEPT ![ListOf(fun)] = @ \cup {c}] /\ UNCHANGED loop
         ELSE /\ loop' = [rest |-> list, copy |-> c, del |-> {}, new |-> {}]
              /\ UNCHANGED inters
  /\ UNCHANGED <<strategy, sets, phase, left, fun, memRegSet, funToMRs, stores, loads>>

(* What a set of the list falls into when it is cut by the set held. *)
Parts_Inner(i, copy) == {i \cap copy}
Parts(i, copy) == {i \cap copy, i \ copy} \ {{}}

Held(i, copy) == copy \ i

(* One set of the list against what is left of the set held. *)
Against(i) ==
  /\ loop.copy # {} /\ IsFirst(i, loop.rest)
  /\ loop' = IF i \cap loop.copy = {}
             THEN [loop EXCEPT !.rest = @ \ {i}]
             ELSE [rest |-> loop.rest \ {i},
                   copy |-> Held(i, loop.copy),
                   del  |-> loop.del \cup (IF i \subseteq loop.copy THEN {} ELSE {i}),
                   new  |-> loop.new \cup (IF i \subseteq loop.copy THEN {}
                                           ELSE Parts(i, loop.copy))]
  /\ UNCHANGED <<strategy, sets, phase, left, fun, todo, inters, memRegSet, funToMRs, stores, loads>>

(* The list after the loop: cut sets go, parts come, and the rest of the set. *)
Cut_Empty(list) == ((list \ loop.del) \cup loop.new) \cup {loop.copy}
Cut(list) == ((list \ loop.del) \cup loop.new) \cup ({loop.copy} \ {{}})

Settle ==
  /\ fun # None /\ loop # NoLoop /\ (loop.rest = {} \/ loop.copy = {})
  /\ inters' = [inters EXCEPT ![ListOf(fun)] = Cut(@)]
  /\ loop' = NoLoop
  /\ UNCHANGED <<strategy, sets, phase, left, fun, todo, memRegSet, funToMRs, stores, loads>>

(* createMR for each of the given regions. *)
CreateMRs(f, regions) ==
  /\ memRegSet' = memRegSet \cup regions
  /\ funToMRs' = [funToMRs EXCEPT ![f] = @ \cup regions]

(* The sets of a function are done. Per function, its regions are made now. *)
End ==
  /\ fun # None /\ todo = {} /\ loop = NoLoop
  /\ IF strategy = "intra" THEN CreateMRs(fun, inters[fun])
                           ELSE UNCHANGED <<memRegSet, funToMRs>>
  /\ fun' = None
  /\ UNCHANGED <<strategy, sets, phase, left, todo, inters, loop, stores, loads>>

CutDone ==
  /\ phase = "cut" /\ strategy # "distinct" /\ fun = None /\ left = {}
  /\ IF strategy = "inter" THEN phase' = "create" /\ left' = Fun
                           ELSE phase' = "alias" /\ UNCHANGED left
  /\ UNCHANGED <<strategy, sets, fun, todo, inters, loop, memRegSet, funToMRs, stores, loads>>

(* For the whole program, a function gets what its sets contain. *)
Contained_Equal(f) == inters[None] \cap sets[f]
Contained(f) == {i \in inters[None] : \E c \in sets[f] : i \subseteq c}

Create(f) ==
  /\ phase = "create" /\ f \in left
  /\ CreateMRs(f, Contained(f))
  /\ left' = left \ {f}
  /\ phase' = IF left' = {} THEN "alias" ELSE phase
  /\ UNCHANGED <<strategy, sets, fun, todo, inters, loop, stores, loads>>

CreateDistinct_Sets(f) ==
  /\ phase = "cut" /\ strategy = "distinct" /\ f \in left
  /\ CreateMRs(f, sets[f])
  /\ left' = left \ {f}
  /\ phase' = IF left' = {} THEN "alias" ELSE phase
  /\ UNCHANGED <<strategy, sets, fun, todo, inters, loop, stores, loads>>

(* One region for each object of a function. *)
CreateDistinct(f) ==
  /\ phase = "cut" /\ strategy = "distinct" /\ f \in left
  /\ CreateMRs(f, {{o} : o \in UNION sets[f]})
  /\ left' = left \ {f}
  /\ phase' = IF left' = {} THEN "alias" ELSE phase
  /\ UNCHANGED <<strategy, sets, fun, todo, inters, loop, stores, loads>>

(* A store, or a call site that modifies, gets what it touches of the regions
   of its function; a load, or a call site that refers, gets the regions its
   set is made of. *)
AliasMRs_Inside(f, c) == funToMRs[f] \cap {c}
AliasMRs(f, c) == {r \in funToMRs[f] : r \cap c # {}}

MRsForLoad(f, c) ==
  IF strategy = "distinct" THEN {{o} : o \in c}
  ELSE {i \in inters[ListOf(f)] : i \subseteq c}

UpdateAliasMRs ==
  /\ phase = "alias"
  /\ stores' = [f \in Fun |-> [c \in sets[f] |-> AliasMRs(f, c)]]
  /\ loads' = [f \in Fun |-> [c \in sets[f] |-> MRsForLoad(f, c)]]
  /\ phase' = "done"
  /\ UNCHANGED <<strategy, sets, left, fun, todo, inters, loop, memRegSet, funToMRs>>

TakeAny == \E c \in todo : Take(c)
AgainstAny == \E i \in loop.rest : Against(i)
PartitionNext ==
  \/ \E f \in Fun : Begin(f) \/ Create(f) \/ CreateDistinct(f)
  \/ TakeAny \/ AgainstAny \/ Settle \/ End \/ CutDone \/ UpdateAliasMRs

PartitionSpec == PartitionInit /\ [][PartitionNext]_partitionVars
-----------------------------------------------------------------------------
Region == (SUBSET ObjId) \ {{}}

PartitionTypeOK ==
  /\ phase \in {"cut", "create", "alias", "done"}
  /\ left \subseteq Fun /\ fun \in Fun \cup {None}
  /\ todo \subseteq Region /\ (fun # None => todo \subseteq sets[fun])
  /\ inters \in [Fun \cup {None} -> SUBSET Region]
  /\ loop.rest \subseteq Region /\ loop.copy \subseteq ObjId
  /\ loop.del \subseteq Region /\ loop.new \subseteq Region
  /\ memRegSet \subseteq Region /\ funToMRs \in [Fun -> SUBSET memRegSet]
  /\ \A f \in Fun : \A c \in DOMAIN stores[f] : stores[f][c] \subseteq memRegSet

Disjoint(S) == \A r, q \in S : r # q => r \cap q = {}

(* The regions of one function do not overlap, whether there is one per object
   or they are cut per function. Cutting relies on the order of the sets: a
   single object is added without a look at the list. *)
DisjointInFunction ==
  strategy # "inter" => \A f \in Fun : Disjoint(funToMRs[f])

(* The regions of a load are regions that exist, in its function, and are
   made of exactly the objects the load may read. *)
LoadsExact ==
  phase = "done" => \A f \in Fun : \A c \in sets[f] :
    /\ loads[f][c] \subseteq memRegSet \cap funToMRs[f]
    /\ UNION loads[f][c] = c

(* A store and a load of one function that may touch the same object meet in
   a region of both that holds the object. *)
StoresMeetLoads ==
  phase = "done" => \A f \in Fun : \A c, d \in sets[f] : \A o \in c \cap d :
    \E r \in stores[f][c] \cap loads[f][d] : o \in r

(* The regions of a function are the classes of objects that its accesses do
   not tell apart: cut as fine as they need, and no finer. *)
Together(f, o, p) == \A c \in sets[f] : o \in c <=> p \in c
RegionsAreClasses ==
  strategy = "intra" /\ phase = "done" => \A f \in Fun :
    /\ UNION funToMRs[f] = UNION sets[f]
    /\ \A o, p \in UNION sets[f] :
         Together(f, o, p) <=> \E r \in funToMRs[f] : {o, p} \subseteq r

(* The regions of a function do not overlap, except those of the inter-procedural
   partition; regions make up what each access may touch, let a store and a load
   meet, and are no finer than they must be. *)
RegionsCorrect ==
  /\ PartitionTypeOK /\ DisjointInFunction /\ LoadsExact /\ StoresMeetLoads
  /\ RegionsAreClasses

(* "Create memory regions which don't have intersections with each other in
   the whole program scope." *)
DisjointInProgram == phase = "done" => Disjoint(memRegSet)
=============================================================================
