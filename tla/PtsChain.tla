------------------------------ MODULE PtsChain ------------------------------
(***************************************************************************)
(* CollectPtsChain of the mod-ref analysis: all objects that can be reached *)
(* from an object through its fields and what they point to. The recursion  *)
(* is a stack of frames here. A frame enters its base into the cache before *)
(* it is complete, and an inner call that meets that base takes what the    *)
(* entry holds at that moment.                                              *)
(***************************************************************************)
EXTENDS Naturals, Sequences, FiniteSets

CONSTANTS
  Obj,         \* objects and field objects
  Base,        \* [Obj -> Obj], getBaseObjVar
  Pointing,    \* the points-to relations to consider, sets of [Obj -> SUBSET Obj]
  MaxQueries

ChainAssumption ==
  /\ IsFiniteSet(Obj)
  /\ Base \in [Obj -> Obj] /\ \A o \in Obj : Base[Base[o]] = Base[o]
  /\ Pointing \subseteq [Obj -> SUBSET Obj]
  /\ MaxQueries \in Nat

VARIABLES
  pts,         \* what each object points to
  cache,       \* cachedPtsChainMap, a function on the bases seen so far
  stack,       \* frames [base, todo], the innermost last
  queries      \* the outermost calls that have returned, [obj, chain]

chainVars == <<pts, cache, stack, queries>>
-----------------------------------------------------------------------------
BaseOf_Self(o) == o
BaseOf(o) == Base[o]

Bases == {Base[o] : o \in Obj}
Fields(b) == {o \in Obj : Base[o] = b}
Top == stack[Len(stack)]

(* The objects whose chains the frame of base b collects. *)
Targets_BaseOnly(b) == pts[b]
Targets(b) == UNION {pts[o] : o \in Fields(b)}

ChainInit ==
  /\ pts \in Pointing
  /\ cache = [b \in {} |-> {}] /\ stack = <<>> /\ queries = {}

Extended(b, S) == [x \in DOMAIN cache \cup {b} |-> IF x = b THEN S ELSE cache[x]]

Enter_NoFields(b) ==
  /\ cache' = Extended(b, {})
  /\ stack' = Append(stack, [base |-> b, todo |-> Targets(b)])

(* A base not in the cache gets an entry with its fields, and a frame. *)
Enter(b) ==
  /\ cache' = Extended(b, Fields(b))
  /\ stack' = Append(stack, [base |-> b, todo |-> Targets(b)])

(* A call from outside. A base in the cache is answered from there. *)
Query(o) ==
  /\ stack = <<>> /\ Cardinality(queries) < MaxQueries
  /\ IF BaseOf(o) \in DOMAIN cache
     THEN /\ queries' = queries \cup {[obj |-> o, chain |-> cache[BaseOf(o)]]}
          /\ UNCHANGED <<cache, stack>>
     ELSE Enter(BaseOf(o)) /\ UNCHANGED queries
  /\ UNCHANGED pts

(* The chain of the top frame with that of o, and the objects still to go. *)
Merged_Swapped(o) == [cache EXCEPT ![BaseOf(o)] = @ \cup cache[Top.base]]
Merged(o) == [cache EXCEPT ![Top.base] = @ \cup cache[BaseOf(o)]]

Rest_Same(o) == Top.todo
Rest(o) == Top.todo \ {o}

(* An inner call: it is answered from the cache, or enters a frame of its
   own and is repeated, and then answered, when that frame is done. *)
Collect(o) ==
  /\ stack # <<>> /\ o \in Top.todo
  /\ IF BaseOf(o) \in DOMAIN cache
     THEN /\ cache' = Merged(o)
          /\ stack' = [stack EXCEPT ![Len(stack)].todo = Rest(o)]
     ELSE Enter(BaseOf(o))
  /\ UNCHANGED <<pts, queries>>

Return ==
  /\ stack # <<>> /\ Top.todo = {}
  /\ stack' = SubSeq(stack, 1, Len(stack) - 1)
  /\ IF Len(stack) = 1
     THEN queries' = queries \cup {[obj |-> Top.base, chain |-> cache[Top.base]]}
     ELSE UNCHANGED queries
  /\ UNCHANGED <<pts, cache>>

ChainStep == Return \/ \E o \in Obj : Collect(o)
ChainNext == ChainStep \/ \E o \in Obj : Query(o)

ChainSpec == ChainInit /\ [][ChainNext]_chainVars
ChainFairSpec == ChainSpec /\ WF_chainVars(ChainStep)
-----------------------------------------------------------------------------
ChainTypeOK ==
  /\ pts \in Pointing /\ stack \in Seq([base : Bases, todo : SUBSET Obj])
  /\ DOMAIN cache \subseteq Bases /\ \A b \in DOMAIN cache : cache[b] \subseteq Obj
  /\ queries \subseteq [obj : Obj, chain : SUBSET Obj]

(* What the chain of b is meant to be: closed under fields and points-to. *)
Reach(b) ==
  LET more(S) == S \cup UNION {Fields(Base[o]) : o \in UNION {pts[x] : x \in S}}
      it[i \in Nat] == IF i = 0 THEN Fields(b) ELSE more(it[i-1])
  IN  it[Cardinality(Obj)]

Acyclic == \A b \in Bases : \A o \in Fields(b) :
  \A k \in pts[o] : Base[k] # b => b \notin Reach(Base[k])

(* A chain never holds more than it has to: it is within every set of objects
   that holds the fields of its base and is closed. *)
Closed(S) == \A x \in S : \A o \in pts[x] : Fields(Base[o]) \subseteq S
ChainSound ==
  \A S \in SUBSET Obj : Closed(S) =>
    \A b \in DOMAIN cache : Fields(b) \subseteq S => cache[b] \subseteq S

(* Where the objects do not point to one another in a circle, every chain
   whose frame is done is complete, although it is put together from the
   entries of others. *)
ChainComplete ==
  Acyclic => \A b \in DOMAIN cache :
    (\A i \in DOMAIN stack : stack[i].base # b) => cache[b] = Reach(b)

(* The first call from outside gets the whole chain, whatever the circles. *)
FirstComplete ==
  Cardinality(queries) = 1 =>
    \A q \in queries : q.chain = Reach(Base[q.obj])

(* CollectPtsChain: chains are sound, complete where objects do not point to one
   another in a circle, and the first is complete in any case. *)
ChainsCorrect == ChainTypeOK /\ ChainSound /\ ChainComplete /\ FirstComplete

(* Every call returns: the recursion cannot run round a circle. *)
Returns == stack # <<>> ~> stack = <<>>

(* CollectPtsChain collects "all points-to of the whole struct fields",
   also for the second and every later call. *)
EveryComplete == \A q \in queries : q.chain = Reach(Base[q.obj])
=============================================================================
