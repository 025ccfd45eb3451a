-------------------------- MODULE MemorySSA_proofs --------------------------
(***************************************************************************)
(* What memory SSA is made from: the chains of objects, and the regions    *)
(* the accesses of a program are partitioned into.                         *)
(***************************************************************************)
EXTENDS PtsChain, MemPartition, Iteration_proofs, SequenceTheorems

(***************************************************************************)
(* The chains CollectPtsChain caches: for every finite set of objects, all *)
(* that they point to and every order in which the recursion goes through  *)
(* the targets.                                                            *)
(***************************************************************************)

(* What one more round of the reference adds, as an operator and a function. *)
More(S) == S \cup UNION {Fields(Base[o]) : o \in UNION {pts[x] : x \in S}}
Mores == [S \in SUBSET Obj |-> More(S)]
Reaching(b) == CHOOSE it : it = [i \in Nat |-> IF i = 0 THEN Fields(b) ELSE More(it[i - 1])]

-----------------------------------------------------------------------------
(* The reference: Reach(b) is the least closed set with the fields of b. *)

LEMMA ChainFacts ==
  ASSUME ChainAssumption, pts \in Pointing
  PROVE  /\ IsFiniteSet(Obj) /\ pts \in [Obj -> SUBSET Obj]
         /\ \A o \in Obj : Base[o] \in Obj /\ Base[Base[o]] = Base[o]
         /\ Bases \subseteq Obj
         /\ \A b \in Bases : b \in Obj /\ Base[b] = b /\ b \in Fields(b)
         /\ \A b : Fields(b) \subseteq Obj /\ \A o \in Fields(b) : Base[o] = b
         /\ \A b : Targets(b) \subseteq Obj
<1>1. IsFiniteSet(Obj) /\ pts \in [Obj -> SUBSET Obj]
  BY DEF ChainAssumption
<1>2. \A o \in Obj : Base[o] \in Obj /\ Base[Base[o]] = Base[o]
  BY DEF ChainAssumption
<1>3. \A b \in Bases : b \in Obj /\ Base[b] = b /\ b \in Fields(b)
  BY <1>2 DEF Bases, Fields
<1>4. \A b : Fields(b) \subseteq Obj /\ \A o \in Fields(b) : Base[o] = b
  BY DEF Fields
<1>5. \A b : Targets(b) \subseteq Obj
  BY <1>1, <1>4 DEF Targets
<1> QED BY <1>1, <1>2, <1>3, <1>4, <1>5

LEMMA MoreFacts ==
  ASSUME ChainAssumption, pts \in Pointing, NEW S \in SUBSET Obj
  PROVE  /\ More(S) \in SUBSET Obj /\ S \subseteq More(S)
         /\ \A x \in S : \A o \in pts[x] : Fields(Base[o]) \subseteq More(S)
         /\ \A T \in SUBSET Obj : S \subseteq T /\ Closed(T) => More(S) \subseteq T
<1>1. \A b : Fields(b) \subseteq Obj
  BY ChainFacts
<1>2. \A y : y \in More(S) <=> y \in S \/ \E x \in S : \E o \in pts[x] : y \in Fields(Base[o])
  BY DEF More
<1> QED BY <1>1, <1>2 DEF Closed

LEMMA ReachingIterates ==
  ASSUME ChainAssumption, pts \in Pointing, NEW b
  PROVE  /\ Mores \in [SUBSET Obj -> SUBSET Obj]
         /\ Iterates(Reaching(b), Mores, Fields(b))
         /\ Reach(b) = Reaching(b)[Cardinality(Obj)]
<1> DEFINE Rec(it) == it = [i \in Nat |-> IF i = 0 THEN Fields(b) ELSE More(it[i - 1])]
<1>1. Mores \in [SUBSET Obj -> SUBSET Obj] /\ Fields(b) \in SUBSET Obj
  BY MoreFacts, ChainFacts DEF Mores
<1>2. PICK s : Iterates(s, Mores, Fields(b))
  BY <1>1, IterationExists
<1>3. Rec(s)
  <2>1. \A i \in Nat : s[i] \in SUBSET Obj
    BY <1>1, <1>2, IterationSteps
  <2>2. \A i \in Nat : i # 0 => i - 1 \in Nat /\ Mores[s[i - 1]] = More(s[i - 1])
    BY <2>1 DEF Mores
  <2> QED BY <1>2, <2>2 DEF Iterates
<1>4. Rec(Reaching(b))
  <2>1. \E it : Rec(it)
    BY <1>3
  <2>2. Reaching(b) = CHOOSE it : Rec(it)
    BY DEF Reaching
  <2> HIDE DEF Rec
  <2> QED BY <2>1, <2>2
<1> DEFINE it == Reaching(b)
           S == {i \in Nat : it[i] \in SUBSET Obj}
<1>5. 0 \in S
  BY <1>1, <1>4
<1>6. ASSUME NEW i \in Nat, i \in S PROVE i + 1 \in S
  <2>1. it[i + 1] = More(it[i])
    BY <1>4
  <2> QED BY <1>6, <2>1, MoreFacts
<1>7. Nat \subseteq S
  <2> HIDE DEF S
  <2> QED BY <1>5, <1>6, NatWithSuccessors
<1>8. \A i \in Nat : i # 0 => i - 1 \in Nat /\ Mores[it[i - 1]] = More(it[i - 1])
  BY <1>7 DEF Mores
<1>9. Iterates(it, Mores, Fields(b))
  BY <1>4, <1>8 DEF Iterates
<1>10. Reach(b) = it[Cardinality(Obj)]
  BY DEF Reach, Reaching, More
<1> QED BY <1>1, <1>9, <1>10

LEMMA ReachFacts ==
  ASSUME ChainAssumption, pts \in Pointing, NEW b
  PROVE  /\ Reach(b) \in SUBSET Obj /\ Fields(b) \subseteq Reach(b) /\ Closed(Reach(b))
         /\ \A S \in SUBSET Obj : Fields(b) \subseteq S /\ Closed(S) => Reach(b) \subseteq S
<1>1. IsFiniteSet(Obj) /\ Fields(b) \in SUBSET Obj
  BY ChainFacts
<1>2. \A S \in SUBSET Obj : Mores[S] = More(S) /\ S \subseteq Mores[S]
  BY MoreFacts DEF Mores
<1>3. /\ Reach(b) \in SUBSET Obj /\ Fields(b) \subseteq Reach(b) /\ Mores[Reach(b)] = Reach(b)
      /\ \A T \in SUBSET Obj :
           Fields(b) \subseteq T /\ (\A S \in SUBSET Obj : S \subseteq T => Mores[S] \subseteq T)
           => Reach(b) \subseteq T
  <2>1. Mores \in [SUBSET Obj -> SUBSET Obj] /\ Iterates(Reaching(b), Mores, Fields(b))
        /\ Reach(b) = Reaching(b)[Cardinality(Obj)]
    BY ReachingIterates
  <2>2. PICK a : a = Fields(b)
    OBVIOUS
  <2>3. PICK F : F = Mores
    OBVIOUS
  <2>4. PICK it : it = Reaching(b)
    OBVIOUS
  <2>5. LeastClosed(it[Cardinality(Obj)], Obj, F, a)
    <3>1. F \in [SUBSET Obj -> SUBSET Obj] /\ \A S \in SUBSET Obj : S \subseteq F[S]
      BY <1>2, <2>1, <2>3
    <3>2. a \in SUBSET Obj /\ Iterates(it, F, a)
      BY <1>1, <2>1, <2>2, <2>3, <2>4
    <3> QED BY <1>1, <3>1, <3>2, GrowthCloses
  <2> QED BY <2>1, <2>2, <2>3, <2>4, <2>5 DEF LeastClosed
<1>4. Closed(Reach(b))
  <2>1. More(Reach(b)) = Reach(b)
    BY <1>2, <1>3
  <2> QED BY <1>3, <2>1, MoreFacts DEF Closed
<1>5. ASSUME NEW T \in SUBSET Obj, Fields(b) \subseteq T, Closed(T)
      PROVE  Reach(b) \subseteq T
  <2>1. \A S \in SUBSET Obj : S \subseteq T => Mores[S] \subseteq T
    BY <1>2, <1>5, MoreFacts
  <2> QED BY <1>3, <1>5, <2>1
<1> QED BY <1>3, <1>4, <1>5

-----------------------------------------------------------------------------
(***************************************************************************)
(* The invariant of the recursion.                                         *)
(***************************************************************************)
Frame == [base : Bases, todo : SUBSET Obj]

Types ==
  /\ pts \in Pointing /\ stack \in Seq(Frame)
  /\ DOMAIN cache \subseteq Bases /\ \A b \in DOMAIN cache : cache[b] \subseteq Obj
  /\ queries \subseteq [obj : Obj, chain : SUBSET Obj]

(* An entry holds the fields at least. *)
Entered == \A b \in DOMAIN cache : Fields(b) \subseteq cache[b]

(* Each base has one frame at most; a frame waits for the one it has entered. *)
Framed ==
  /\ \A i \in DOMAIN stack :
       stack[i].base \in DOMAIN cache /\ stack[i].todo \subseteq Targets(stack[i].base)
  /\ \A i, j \in DOMAIN stack : stack[i].base = stack[j].base => i = j
  /\ \A i \in DOMAIN stack : i + 1 \in DOMAIN stack =>
       \E o \in stack[i].todo : Base[o] = stack[i + 1].base

(* The bases of inner frames can be reached from those of outer ones. *)
Nested == \A i, j \in DOMAIN stack : i <= j => Fields(stack[j].base) \subseteq Reach(stack[i].base)

(* Without circles a frame has the whole chains of the targets it has seen. *)
Collected ==
  Acyclic => \A i \in DOMAIN stack : \A o \in Targets(stack[i].base) \ stack[i].todo :
    Base[o] # stack[i].base => Reach(Base[o]) \subseteq cache[stack[i].base]

(* With circles, during the first call from outside, the fields of every base
   that was entered are in the entry of a frame, or in one that a frame is
   still to take; *)
HeldAt(b, i) ==
  \/ Fields(b) \subseteq cache[stack[i].base]
  \/ \E o \in stack[i].todo : Base[o] \in DOMAIN cache /\ Fields(b) \subseteq cache[Base[o]]
Absorbed == queries = {} => \A b \in DOMAIN cache : \E i \in DOMAIN stack : HeldAt(b, i)

(* and every target was entered, or is still to be. *)
Followed ==
  queries = {} => \A b \in DOMAIN cache : \A o \in Targets(b) :
    Base[o] \in DOMAIN cache \/ \E i \in DOMAIN stack : stack[i].base = b /\ o \in stack[i].todo

First == queries # {} => \E q \in queries : q.chain = Reach(Base[q.obj])

Inv ==
  /\ Types /\ Entered /\ Framed /\ Nested /\ ChainSound /\ Collected /\ ChainComplete
  /\ Absorbed /\ Followed /\ First

(* Nothing that is about the objects alone changes. *)
LEMMA PtsStay ==
  ASSUME pts' = pts
  PROVE  /\ \A b : Reach(b)' = Reach(b) /\ Targets(b)' = Targets(b)
         /\ \A S : Closed(S)' = Closed(S)
         /\ Acyclic' = Acyclic
<1>1. \A b : Reach(b)' = Reach(b)
  BY DEF Reach
<1>2. \A b : Targets(b)' = Targets(b)
  BY DEF Targets
<1>3. \A S : Closed(S)' = Closed(S)
  BY DEF Closed
<1>4. Acyclic' = Acyclic
  BY <1>1 DEF Acyclic
<1> QED BY <1>1, <1>2, <1>3, <1>4

LEMMA InitInv ==
  ASSUME ChainAssumption, ChainInit
  PROVE  Inv
<1>1. DOMAIN cache = {} /\ stack = <<>> /\ DOMAIN stack = {} /\ queries = {} /\ pts \in Pointing
  BY DEF ChainInit
<1>2. Types
  BY <1>1 DEF Types
<1>3. Entered /\ Framed /\ Nested /\ ChainSound /\ Collected /\ ChainComplete /\ Absorbed
      /\ Followed /\ First
  BY <1>1 DEF Entered, Framed, Nested, ChainSound, Collected, ChainComplete, Absorbed, Followed, First
<1> QED BY <1>2, <1>3 DEF Inv

(* The stack, and its innermost frame. *)
LEMMA StackFacts ==
  ASSUME Types
  PROVE  /\ Len(stack) \in Nat /\ DOMAIN stack = 1..Len(stack)
         /\ \A i \in DOMAIN stack : stack[i] \in Frame /\ stack[i].base \in Bases /\ stack[i].todo \subseteq Obj
         /\ stack # <<>> => Len(stack) \in DOMAIN stack /\ Len(stack) > 0
<1>1. stack \in Seq(Frame)
  BY DEF Types
<1>2. Len(stack) \in Nat /\ DOMAIN stack = 1..Len(stack) /\ \A i \in DOMAIN stack : stack[i] \in Frame
  BY <1>1
<1>3. \A f \in Frame : f.base \in Bases /\ f.todo \subseteq Obj
  BY DEF Frame
<1>4. stack # <<>> => Len(stack) > 0
  <2> HIDE DEF Frame
  <2> QED BY <1>1, EmptySeq
<1> QED BY <1>2, <1>3, <1>4

(* A frame is added. *)
LEMMA FrameAdded ==
  ASSUME Types, NEW f \in Frame, NEW s, s = Append(stack, f)
  PROVE  /\ s \in Seq(Frame) /\ DOMAIN s = 1..(Len(stack) + 1) /\ s[Len(stack) + 1] = f
         /\ \A i \in DOMAIN stack : i \in DOMAIN s /\ s[i] = stack[i]
         /\ \A i \in DOMAIN s : i \in DOMAIN stack \/ i = Len(stack) + 1
<1>1. stack \in Seq(Frame)
  BY DEF Types
<1> HIDE DEF Frame
<1>2. s \in Seq(Frame) /\ Len(s) = Len(stack) + 1 /\ s[Len(stack) + 1] = f
      /\ \A i \in 1..Len(stack) : s[i] = stack[i]
  BY <1>1, AppendProperties
<1>3. Len(stack) \in Nat /\ DOMAIN stack = 1..Len(stack) /\ DOMAIN s = 1..Len(s)
  BY <1>1, <1>2
<1> QED BY <1>2, <1>3

-----------------------------------------------------------------------------
(* A base gets an entry and a frame, of the first call or of one from the top
   frame. *)
LEMMA EnterKeeps ==
  ASSUME ChainAssumption, Inv, NEW b \in Bases, b \notin DOMAIN cache, Enter(b),
         pts' = pts, queries' = queries,
         stack = <<>> \/ \E o \in Top.todo : Base[o] = b
  PROVE  Inv'
<1> DEFINE n == Len(stack)
<1>0. Types /\ pts \in Pointing
  BY DEF Inv, Types
<1>1. /\ n \in Nat /\ DOMAIN stack = 1..n
      /\ \A i \in DOMAIN stack : stack[i].base \in Bases /\ stack[i].todo \subseteq Obj
      /\ stack # <<>> => n \in DOMAIN stack
  BY <1>0, StackFacts
<1>2. /\ DOMAIN cache' = DOMAIN cache \cup {b} /\ cache'[b] = Fields(b)
      /\ \A x \in DOMAIN cache : cache'[x] = cache[x] /\ x # b
  BY DEF Enter, Extended
<1>3. /\ stack' \in Seq(Frame) /\ DOMAIN stack' = 1..(n + 1)
      /\ stack'[n + 1].base = b /\ stack'[n + 1].todo = Targets(b)
      /\ \A i \in DOMAIN stack : i \in DOMAIN stack' /\ stack'[i] = stack[i]
      /\ \A i \in DOMAIN stack' : i \in DOMAIN stack \/ i = n + 1
  <2> DEFINE f == [base |-> b, todo |-> Targets(b)]
  <2>1. f \in Frame
    BY <1>0, ChainFacts DEF Frame
  <2>2. stack' = Append(stack, f)
    BY DEF Enter
  <2>3. f.base = b /\ f.todo = Targets(b)
    OBVIOUS
  <2> HIDE DEF f
  <2>4. PICK g : g = f
    OBVIOUS
  <2>5. PICK s : s = stack'
    OBVIOUS
  <2>6. /\ s \in Seq(Frame) /\ DOMAIN s = 1..(Len(stack) + 1) /\ s[Len(stack) + 1] = g
        /\ \A i \in DOMAIN stack : i \in DOMAIN s /\ s[i] = stack[i]
        /\ \A i \in DOMAIN s : i \in DOMAIN stack \/ i = Len(stack) + 1
    <3>1. g \in Frame /\ s = Append(stack, g)
      BY <2>1, <2>2, <2>4, <2>5
    <3> QED BY ONLY <1>0, <3>1, FrameAdded
  <2> QED BY <2>3, <2>4, <2>5, <2>6
<1> HIDE DEF n
<1>4. \A i \in DOMAIN stack : stack[i].base \in DOMAIN cache /\ stack[i].base # b
                              /\ stack[i].todo \subseteq Targets(stack[i].base)
  BY DEF Inv, Framed
<1>5. /\ \A x : Reach(x)' = Reach(x) /\ Targets(x)' = Targets(x)
      /\ \A S : Closed(S)' = Closed(S)
      /\ Acyclic' = Acyclic
  BY PtsStay
<1>6. n + 1 \notin DOMAIN stack /\ n + 1 \in DOMAIN stack'
  BY <1>1, <1>3
<1>7. Types'
  BY <1>0, <1>2, <1>3, ChainFacts DEF Types
<1>8. Entered'
  BY <1>2 DEF Inv, Entered
<1>9. Framed'
  <2>1. \A i \in DOMAIN stack' : stack'[i].base \in DOMAIN cache'
                                 /\ stack'[i].todo \subseteq Targets(stack'[i].base)
    BY <1>2, <1>3, <1>4
  <2>2. \A i, j \in DOMAIN stack' : stack'[i].base = stack'[j].base => i = j
    BY <1>3, <1>4 DEF Inv, Framed
  <2>3. ASSUME NEW i \in DOMAIN stack', i + 1 \in DOMAIN stack'
        PROVE  \E o \in stack'[i].todo : Base[o] = stack'[i + 1].base
    <3>1. i \in DOMAIN stack
      BY <1>1, <1>3, <2>3
    <3>2. CASE i + 1 \in DOMAIN stack
      BY <1>3, <3>1, <3>2 DEF Inv, Framed
    <3>3. CASE i + 1 \notin DOMAIN stack
      <4>1. i = n /\ i + 1 = n + 1
        BY <1>1, <3>1, <3>3
      <4>2. \E o \in stack[n].todo : Base[o] = b
        BY <1>1, <3>1 DEF Top, n
      <4> QED BY <1>3, <3>1, <4>1, <4>2
    <3> QED BY <3>2, <3>3
  <2> QED BY <1>5, <2>1, <2>2, <2>3 DEF Framed
<1>10. Nested'
  <2>1. ASSUME NEW i \in DOMAIN stack', NEW j \in DOMAIN stack', i <= j
        PROVE  Fields(stack'[j].base) \subseteq Reach(stack'[i].base)
    <3>1. CASE j \in DOMAIN stack
      <4>1. i \in DOMAIN stack
        BY <1>1, <1>3, <2>1, <3>1
      <4> QED BY <1>3, <2>1, <3>1, <4>1 DEF Inv, Nested
    <3>2. CASE j = n + 1 /\ i = n + 1
      BY <1>0, <1>3, <3>2, ReachFacts
    <3>3. CASE j = n + 1 /\ i \in DOMAIN stack
      <4>1. stack # <<>> /\ n \in DOMAIN stack /\ i <= n
        BY <1>1, <3>3
      <4>2. PICK o \in stack[n].todo : Base[o] = b
        BY <4>1 DEF Top, n
      <4>3. PICK x \in Fields(stack[n].base) : o \in pts[x]
        BY <1>4, <4>1, <4>2 DEF Targets
      <4>4. x \in Reach(stack[i].base) /\ Closed(Reach(stack[i].base))
        BY <1>0, <3>3, <4>1, <4>3, ReachFacts DEF Inv, Nested
      <4>5. Fields(b) \subseteq Reach(stack[i].base)
        BY <4>2, <4>3, <4>4 DEF Closed
      <4> QED BY <1>3, <3>3, <4>5
    <3> QED BY <1>3, <3>1, <3>2, <3>3
  <2> QED BY <1>5, <2>1 DEF Nested
<1>11. ChainSound'
  <2>1. \A S \in SUBSET Obj : Closed(S) => \A x \in DOMAIN cache' : Fields(x) \subseteq S => cache'[x] \subseteq S
    BY <1>2 DEF Inv, ChainSound
  <2> QED BY <1>5, <2>1 DEF ChainSound
<1>12. Collected'
  <2>1. ASSUME Acyclic, NEW i \in DOMAIN stack', NEW o \in Targets(stack'[i].base) \ stack'[i].todo,
               Base[o] # stack'[i].base
        PROVE  Reach(Base[o]) \subseteq cache'[stack'[i].base]
    <3>1. i \in DOMAIN stack
      BY <1>3, <2>1
    <3>2. Reach(Base[o]) \subseteq cache[stack[i].base]
      BY <1>3, <2>1, <3>1 DEF Inv, Collected
    <3> QED BY <1>2, <1>3, <1>4, <3>1, <3>2
  <2> QED BY <1>5, <2>1 DEF Collected
<1>13. ChainComplete'
  <2>1. ASSUME Acyclic, NEW x \in DOMAIN cache', \A i \in DOMAIN stack' : stack'[i].base # x
        PROVE  cache'[x] = Reach(x)
    <3>1. x # b
      BY <1>3, <1>6, <2>1
    <3>2. x \in DOMAIN cache /\ \A i \in DOMAIN stack : stack[i].base # x
      BY <1>2, <1>3, <2>1, <3>1
    <3> QED BY <1>2, <2>1, <3>2 DEF Inv, ChainComplete
  <2> QED BY <1>5, <2>1 DEF ChainComplete
<1>14. Absorbed'
  <2>1. ASSUME queries = {}, NEW x \in DOMAIN cache'
        PROVE  \E i \in DOMAIN stack' : HeldAt(x, i)'
    <3>1. CASE x = b
      <4>1. Fields(x) \subseteq cache'[stack'[n + 1].base]
        BY <1>2, <1>3, <3>1
      <4> QED BY <1>6, <4>1 DEF HeldAt
    <3>2. CASE x # b
      <4>1. x \in DOMAIN cache
        BY <1>2, <3>2
      <4>2. PICK i \in DOMAIN stack : HeldAt(x, i)
        BY <2>1, <4>1 DEF Inv, Absorbed
      <4>3. i \in DOMAIN stack' /\ stack'[i] = stack[i] /\ stack[i].base \in DOMAIN cache
        BY <1>3, <1>4
      <4>4. HeldAt(x, i)'
        BY <1>2, <4>2, <4>3 DEF HeldAt
      <4> QED BY <4>3, <4>4
    <3> QED BY <3>1, <3>2
  <2> QED BY <2>1 DEF Absorbed
<1>15. Followed'
  <2>1. ASSUME queries = {}, NEW x \in DOMAIN cache', NEW o \in Targets(x)
        PROVE  Base[o] \in DOMAIN cache' \/ \E i \in DOMAIN stack' : stack'[i].base = x /\ o \in stack'[i].todo
    <3>1. CASE x = b
      BY <1>3, <1>6, <3>1
    <3>2. CASE x # b
      <4>1. x \in DOMAIN cache
        BY <1>2, <3>2
      <4>2. Base[o] \in DOMAIN cache \/ \E i \in DOMAIN stack : stack[i].base = x /\ o \in stack[i].todo
        BY <2>1, <4>1 DEF Inv, Followed
      <4> QED BY <1>2, <1>3, <4>2
    <3> QED BY <3>1, <3>2
  <2> QED BY <1>5, <2>1 DEF Followed
<1>16. First'
  <2>1. queries # {} => \E q \in queries : q.chain = Reach(Base[q.obj])
    BY DEF Inv, First
  <2> QED BY <1>5, <2>1 DEF First
<1> QED BY <1>7, <1>8, <1>9, <1>10, <1>11, <1>12, <1>13, <1>14, <1>15, <1>16 DEF Inv

(* The top frame takes the entry of a target's base. *)
LEMMA MergeKeeps ==
  ASSUME ChainAssumption, Inv, stack # <<>>, NEW o \in Top.todo, Base[o] \in DOMAIN cache,
         cache' = Merged(o), stack' = [stack EXCEPT ![Len(stack)].todo = Rest(o)],
         pts' = pts, queries' = queries
  PROVE  Inv'
<1> DEFINE n == Len(stack)
           t == stack[n].base
           b == Base[o]
<1>0. Types /\ pts \in Pointing
  BY DEF Inv, Types
<1>1. /\ n \in Nat /\ n \in DOMAIN stack /\ DOMAIN stack = 1..n
      /\ \A i \in DOMAIN stack : stack[i] \in Frame /\ stack[i].base \in Bases /\ stack[i].todo \subseteq Obj
  BY <1>0, StackFacts
<1>2. \A i \in DOMAIN stack : stack[i].base \in DOMAIN cache /\ stack[i].todo \subseteq Targets(stack[i].base)
                              /\ (stack[i].base = t => i = n)
  BY <1>1 DEF Inv, Framed
<1>3. /\ DOMAIN cache' = DOMAIN cache /\ cache'[t] = cache[t] \cup cache[b]
      /\ \A x \in DOMAIN cache : cache[x] \subseteq cache'[x] /\ (x # t => cache'[x] = cache[x])
  <2>1. t \in DOMAIN cache
    BY <1>1, <1>2
  <2>2. cache' = [cache EXCEPT ![t] = @ \cup cache[b]]
    BY DEF Merged, BaseOf, Top
  <2> HIDE DEF t, b
  <2> QED BY <2>1, <2>2
<1>4. o \in stack[n].todo
  BY DEF Top
<1>5. /\ stack' \in Seq(Frame) /\ DOMAIN stack' = DOMAIN stack
      /\ \A i \in DOMAIN stack : stack'[i].base = stack[i].base
      /\ \A i \in DOMAIN stack : i # n => stack'[i].todo = stack[i].todo
      /\ stack'[n].todo = stack[n].todo \ {o}
  <2> DEFINE f == [stack[n] EXCEPT !.todo = @ \ {o}]
  <2>1. f \in Frame /\ f.base = stack[n].base /\ f.todo = stack[n].todo \ {o}
    BY <1>1 DEF Frame
  <2>2. stack' = [stack EXCEPT ![n] = f]
    BY <1>1 DEF Rest, Top
  <2>3. stack \in Seq(Frame)
    BY <1>0 DEF Types
  <2> HIDE DEF f, n
  <2>4. stack' \in Seq(Frame) /\ DOMAIN stack' = DOMAIN stack
    BY <1>1, <2>1, <2>2, <2>3
  <2>5. \A i \in DOMAIN stack : stack'[i] = IF i = n THEN f ELSE stack[i]
    BY <2>2
  <2> QED BY <1>1, <2>1, <2>4, <2>5
<1>6. /\ \A x : Reach(x)' = Reach(x) /\ Targets(x)' = Targets(x)
      /\ \A S : Closed(S)' = Closed(S)
      /\ Acyclic' = Acyclic
  BY PtsStay
<1>7. t \in DOMAIN cache /\ t \in Bases /\ o \in Targets(t) /\ b \in DOMAIN cache
  BY <1>1, <1>2, <1>4
<1>8. PICK x0 \in Fields(t) : o \in pts[x0]
  BY <1>7 DEF Targets
<1> HIDE DEF n, t, b
<1>9. \A i \in DOMAIN stack : stack'[i].todo \subseteq stack[i].todo
  BY <1>5
<1>10. Types'
  <2>1. \A x \in DOMAIN cache' : cache'[x] \subseteq Obj
    BY <1>0, <1>3, <1>7 DEF Types
  <2> QED BY <1>0, <1>3, <1>5, <2>1 DEF Types
<1>11. Entered'
  BY <1>3 DEF Inv, Entered
<1>12. Framed'
  <2>1. \A i \in DOMAIN stack' : stack'[i].base \in DOMAIN cache'
                                 /\ stack'[i].todo \subseteq Targets(stack'[i].base)
    BY <1>2, <1>3, <1>5, <1>9
  <2>2. \A i, j \in DOMAIN stack' : stack'[i].base = stack'[j].base => i = j
    BY <1>5 DEF Inv, Framed
  <2>3. ASSUME NEW i \in DOMAIN stack', i + 1 \in DOMAIN stack'
        PROVE  \E k \in stack'[i].todo : Base[k] = stack'[i + 1].base
    <3>1. i # n
      BY <1>1, <1>5, <2>3
    <3> QED BY <1>5, <2>3, <3>1 DEF Inv, Framed
  <2> QED BY <1>6, <2>1, <2>2, <2>3 DEF Framed
<1>13. Nested'
  <2>1. DOMAIN stack' = DOMAIN stack /\ \A i \in DOMAIN stack : stack'[i].base = stack[i].base
    BY <1>5
  <2>2. ASSUME NEW i \in DOMAIN stack, NEW j \in DOMAIN stack, i <= j
        PROVE  (Fields(stack[j].base) \subseteq Reach(stack[i].base))'
    <3>1. Fields(stack[j].base) \subseteq Reach(stack[i].base)
      BY <2>2 DEF Inv, Nested
    <3>2. PICK x : x = stack[i].base
      OBVIOUS
    <3>3. PICK y : y = stack[j].base
      OBVIOUS
    <3>4. stack'[i].base = x /\ stack'[j].base = y
      BY <2>1, <3>2, <3>3
    <3>5. Fields(y) \subseteq Reach(x)
      BY <3>1, <3>2, <3>3
    <3>6. Fields(y) \subseteq Reach(x)'
      BY <1>6, <3>5
    <3> QED BY <3>4, <3>6
  <2> QED BY <2>1, <2>2 DEF Nested
<1>14. ChainSound'
  <2>1. ASSUME NEW S \in SUBSET Obj, Closed(S), NEW x \in DOMAIN cache', Fields(x) \subseteq S
        PROVE  cache'[x] \subseteq S
    <3>1. \A y \in DOMAIN cache : Fields(y) \subseteq S => cache[y] \subseteq S
      BY <2>1 DEF Inv, ChainSound
    <3>2. CASE x # t
      BY <1>3, <2>1, <3>1, <3>2
    <3>3. CASE x = t
      <4>1. Fields(b) \subseteq S
        BY <1>8, <2>1, <3>3 DEF Closed, b
      <4> QED BY <1>3, <1>7, <2>1, <3>1, <3>3, <4>1
    <3> QED BY <3>2, <3>3
  <2> QED BY <1>6, <2>1 DEF ChainSound
<1>15. Collected'
  <2>1. ASSUME Acyclic, NEW i \in DOMAIN stack', NEW k \in Targets(stack'[i].base) \ stack'[i].todo,
               Base[k] # stack'[i].base
        PROVE  Reach(Base[k]) \subseteq cache'[stack'[i].base]
    <3>1. CASE k \notin stack[i].todo
      BY <1>2, <1>3, <1>5, <2>1, <3>1 DEF Inv, Collected
    <3>2. CASE k \in stack[i].todo
      <4>1. i = n /\ k = o /\ stack'[i].base = t
        BY <1>5, <2>1, <3>2 DEF t
      <4>2. CASE \A j \in DOMAIN stack : stack[j].base # b
        <5>1. cache[b] = Reach(b)
          BY <1>7, <2>1, <4>2 DEF Inv, ChainComplete
        <5> QED BY <1>3, <4>1, <5>1 DEF b
      <4>3. CASE \E j \in DOMAIN stack : stack[j].base = b
        <5>1. PICK j \in DOMAIN stack : stack[j].base = b
          BY <4>3
        <5>2. t \in Reach(b)
          <6>1. Fields(t) \subseteq Reach(b)
            BY <1>1, <5>1 DEF Inv, Nested, t
          <6> QED BY <1>0, <1>7, <6>1, ChainFacts
        <5> QED BY <1>7, <1>8, <2>1, <4>1, <5>2 DEF Acyclic, b
      <4> QED BY <4>2, <4>3
    <3> QED BY <3>1, <3>2
  <2> QED BY <1>6, <2>1 DEF Collected
<1>16. ChainComplete'
  <2>1. ASSUME Acyclic, NEW x \in DOMAIN cache', \A i \in DOMAIN stack' : stack'[i].base # x
        PROVE  cache'[x] = Reach(x)
    <3>1. x # t /\ x \in DOMAIN cache /\ \A i \in DOMAIN stack : stack[i].base # x
      BY <1>1, <1>3, <1>5, <2>1 DEF t
    <3> QED BY <1>3, <2>1, <3>1 DEF Inv, ChainComplete
  <2> QED BY <1>6, <2>1 DEF ChainComplete
<1>17. Absorbed'
  <2>1. ASSUME queries = {}, NEW x \in DOMAIN cache
        PROVE  \E i \in DOMAIN stack' : HeldAt(x, i)'
    <3>1. PICK i \in DOMAIN stack : HeldAt(x, i)
      BY <2>1 DEF Inv, Absorbed
    <3>2. CASE Fields(x) \subseteq cache[stack[i].base]
      <4>1. Fields(x) \subseteq cache'[stack'[i].base]
        BY <1>2, <1>3, <1>5, <3>2
      <4> QED BY <1>5, <4>1 DEF HeldAt
    <3>3. CASE \E k \in stack[i].todo : Base[k] \in DOMAIN cache /\ Fields(x) \subseteq cache[Base[k]]
      <4>1. PICK k \in stack[i].todo : Base[k] \in DOMAIN cache /\ Fields(x) \subseteq cache[Base[k]]
        BY <3>3
      <4>2. CASE i = n /\ k = o
        <5>1. Fields(x) \subseteq cache'[stack'[i].base]
          BY <1>3, <1>5, <4>1, <4>2 DEF t, b
        <5> QED BY <1>5, <5>1 DEF HeldAt
      <4>3. CASE ~ (i = n /\ k = o)
        <5>1. k \in stack'[i].todo
          BY <1>5, <4>1, <4>3
        <5>2. Base[k] \in DOMAIN cache' /\ Fields(x) \subseteq cache'[Base[k]]
          BY <1>3, <4>1
        <5> QED BY <1>5, <5>1, <5>2 DEF HeldAt
      <4> QED BY <4>2, <4>3
    <3> QED BY <3>1, <3>2, <3>3 DEF HeldAt
  <2> QED BY <1>3, <2>1 DEF Absorbed
<1>18. Followed'
  <2>1. ASSUME queries = {}, NEW x \in DOMAIN cache, NEW k \in Targets(x), Base[k] \notin DOMAIN cache
        PROVE  \E i \in DOMAIN stack' : stack'[i].base = x /\ k \in stack'[i].todo
    <3>1. PICK i \in DOMAIN stack : stack[i].base = x /\ k \in stack[i].todo
      BY <2>1 DEF Inv, Followed
    <3>2. k # o
      BY <1>7, <2>1 DEF b
    <3> QED BY <1>5, <3>1, <3>2
  <2> QED BY <1>3, <1>6, <2>1 DEF Followed
<1>19. First'
  <2>1. queries # {} => \E q \in queries : q.chain = Reach(Base[q.obj])
    BY DEF Inv, First
  <2> QED BY <1>6, <2>1 DEF First
<1> QED BY <1>10, <1>11, <1>12, <1>13, <1>14, <1>15, <1>16, <1>17, <1>18, <1>19 DEF Inv

(* A chain is never more than can be reached. *)
LEMMA WithinReach ==
  ASSUME ChainAssumption, Inv, NEW b \in DOMAIN cache
  PROVE  cache[b] \subseteq Reach(b)
BY ReachFacts DEF Inv, Types, ChainSound

(* A frame that has gone through its targets returns. *)
LEMMA ReturnKeeps ==
  ASSUME ChainAssumption, Inv, Return
  PROVE  Inv'
<1> DEFINE n == Len(stack)
           t == stack[n].base
<1>0. Types /\ pts \in Pointing /\ stack # <<>> /\ pts' = pts /\ cache' = cache
  BY DEF Inv, Types, Return
<1>1. /\ n \in Nat /\ n > 0 /\ n \in DOMAIN stack /\ DOMAIN stack = 1..n
      /\ \A i \in DOMAIN stack : stack[i] \in Frame /\ stack[i].base \in Bases /\ stack[i].todo \subseteq Obj
  BY <1>0, StackFacts
<1>2. \A i \in DOMAIN stack : stack[i].base \in DOMAIN cache /\ stack[i].todo \subseteq Targets(stack[i].base)
                              /\ (stack[i].base = t => i = n)
  BY <1>1 DEF Inv, Framed
<1>3. stack[n].todo = {}
  BY DEF Return, Top
<1>4. /\ stack' \in Seq(Frame) /\ DOMAIN stack' = 1..(n - 1)
      /\ \A i \in DOMAIN stack' : i \in DOMAIN stack /\ i # n /\ stack'[i] = stack[i]
      /\ \A i \in DOMAIN stack : i \in DOMAIN stack' \/ i = n
  <2>1. stack' = SubSeq(stack, 1, n - 1)
    BY DEF Return
  <2> HIDE DEF n, Frame
  <2>2. n - 1 \in Nat
    BY <1>1
  <2>3. \A i \in 1..(n - 1) : stack[i] \in Frame
    BY <1>1
  <2>4. PICK s : s = stack
    OBVIOUS
  <2>5. PICK m \in Nat : m = n - 1
    BY <2>2
  <2>6. SubSeq(s, 1, m) \in Seq(Frame) /\ Len(SubSeq(s, 1, m)) = m
        /\ \A i \in 1..m : SubSeq(s, 1, m)[i] = s[i]
    <3>1. \A i \in 1..m : s[i] \in Frame
      BY <2>3, <2>4, <2>5
    <3>2. /\ SubSeq(s, 1, m) \in Seq(Frame)
          /\ Len(SubSeq(s, 1, m)) = IF 1 <= m THEN m - 1 + 1 ELSE 0
          /\ \A i \in 1 .. m - 1 + 1 : SubSeq(s, 1, m)[i] = s[1 + i - 1]
      BY <3>1, SubSeqProperties
    <3> QED BY <3>2
  <2>7. stack' \in Seq(Frame) /\ DOMAIN stack' = 1..(n - 1)
        /\ \A i \in 1..(n - 1) : stack'[i] = stack[i]
    BY <2>1, <2>4, <2>5, <2>6
  <2> QED BY <1>1, <2>7
<1>5. /\ \A x : Reach(x)' = Reach(x) /\ Targets(x)' = Targets(x)
      /\ \A S : Closed(S)' = Closed(S)
      /\ Acyclic' = Acyclic
  BY <1>0, PtsStay
<1>6. t \in DOMAIN cache /\ t \in Bases
  BY <1>1, <1>2
<1>7. queries \subseteq queries' /\ (n # 1 => queries' = queries)
      /\ (n = 1 => queries' = queries \cup {[obj |-> t, chain |-> cache[t]]})
  BY DEF Return, Top
<1> HIDE DEF n, t
<1>8. Types'
  <2>1. [obj |-> t, chain |-> cache[t]] \in [obj : Obj, chain : SUBSET Obj]
    BY <1>0, <1>6, ChainFacts DEF Types
  <2>2. queries' \subseteq [obj : Obj, chain : SUBSET Obj]
    BY <1>0, <1>7, <2>1 DEF Types
  <2> QED BY <1>0, <1>4, <2>2 DEF Types
<1>9. Entered'
  BY <1>0 DEF Inv, Entered
<1>10. Framed'
  <2>1. \A i \in DOMAIN stack' : stack'[i].base \in DOMAIN cache'
                                 /\ stack'[i].todo \subseteq Targets(stack'[i].base)
    BY <1>0, <1>2, <1>4
  <2>2. \A i, j \in DOMAIN stack' : stack'[i].base = stack'[j].base => i = j
    BY <1>4 DEF Inv, Framed
  <2>3. ASSUME NEW i \in DOMAIN stack', i + 1 \in DOMAIN stack'
        PROVE  \E k \in stack'[i].todo : Base[k] = stack'[i + 1].base
    BY <1>4, <2>3 DEF Inv, Framed
  <2> QED BY <1>5, <2>1, <2>2, <2>3 DEF Framed
<1>11. Nested'
  BY <1>4, <1>5 DEF Inv, Nested
<1>12. ChainSound'
  BY <1>0, <1>5 DEF Inv, ChainSound
<1>13. Collected'
  BY <1>0, <1>4, <1>5 DEF Inv, Collected
<1>14. ChainComplete'
  <2>1. ASSUME Acyclic PROVE Reach(t) \subseteq cache[t]
    <3> DEFINE W == Fields(t) \cup UNION {Reach(Base[o]) : o \in {k \in Targets(t) : Base[k] # t}}
    <3>1. W \in SUBSET Obj /\ Fields(t) \subseteq W
      BY <1>0, ReachFacts, ChainFacts
    <3>2. ASSUME NEW x \in W, NEW o \in pts[x] PROVE Fields(Base[o]) \subseteq W
      <4>1. CASE x \in Fields(t) /\ Base[o] = t
        BY <4>1
      <4>2. CASE x \in Fields(t) /\ Base[o] # t
        <5>1. o \in Targets(t)
          BY <4>2 DEF Targets
        <5>2. Fields(Base[o]) \subseteq Reach(Base[o])
          BY <1>0, ReachFacts
        <5> QED BY <4>2, <5>1, <5>2
      <4>3. CASE x \notin Fields(t)
        <5>1. PICK k \in Targets(t) : Base[k] # t /\ x \in Reach(Base[k])
          BY <4>3
        <5>2. Fields(Base[o]) \subseteq Reach(Base[k])
          BY <1>0, <5>1, ReachFacts DEF Closed
        <5> QED BY <5>1, <5>2
      <4> QED BY <4>1, <4>2, <4>3
    <3>3. W \subseteq cache[t]
      <4>1. Fields(t) \subseteq cache[t]
        BY <1>6 DEF Inv, Entered
      <4>2. \A o \in Targets(t) : Base[o] # t => Reach(Base[o]) \subseteq cache[t]
        BY <1>1, <1>3, <2>1 DEF Inv, Collected, t
      <4> QED BY <4>1, <4>2
    <3> HIDE DEF W
    <3>4. Reach(t) \subseteq W
      BY <1>0, <3>1, <3>2, ReachFacts DEF Closed
    <3> QED BY <3>3, <3>4
  <2>2. cache[t] \subseteq Reach(t)
    BY <1>6, WithinReach
  <2>3. ASSUME Acyclic, NEW x \in DOMAIN cache, \A i \in DOMAIN stack' : stack'[i].base # x
        PROVE  cache[x] = Reach(x)
    <3>1. CASE x = t
      BY <2>1, <2>2, <2>3, <3>1
    <3>2. CASE x # t
      <4>1. \A i \in DOMAIN stack : stack[i].base # x
        BY <1>4, <2>3, <3>2 DEF t
      <4> QED BY <2>3, <4>1 DEF Inv, ChainComplete
    <3> QED BY <3>1, <3>2
  <2> QED BY <1>0, <1>5, <2>3 DEF ChainComplete
<1>15. Absorbed'
  <2>1. ASSUME queries' = {}, NEW x \in DOMAIN cache
        PROVE  \E i \in DOMAIN stack' : HeldAt(x, i)'
    <3>1. queries = {} /\ n # 1
      BY <1>7, <2>1
    <3>2. PICK i \in DOMAIN stack : HeldAt(x, i)
      BY <3>1 DEF Inv, Absorbed
    <3>3. CASE i # n
      <4>1. i \in DOMAIN stack' /\ stack'[i] = stack[i]
        BY <1>4, <3>3
      <4> QED BY <1>0, <3>2, <4>1 DEF HeldAt
    <3>4. CASE i = n
      <4>1. Fields(x) \subseteq cache[t]
        BY <1>3, <3>2, <3>4 DEF HeldAt, t
      <4>2. PICK m \in DOMAIN stack : m + 1 = n /\ m \in DOMAIN stack' /\ stack'[m] = stack[m]
        <5>1. n - 1 \in DOMAIN stack' /\ (n - 1) + 1 = n
          BY <1>1, <1>4, <3>1
        <5> QED BY <1>4, <5>1
      <4>3. PICK o \in stack[m].todo : Base[o] = t
        BY <1>1, <4>2 DEF Inv, Framed, t
      <4>4. HeldAt(x, m)'
        BY <1>0, <1>4, <1>6, <4>1, <4>2, <4>3 DEF HeldAt
      <4> QED BY <4>2, <4>4
    <3> QED BY <3>3, <3>4
  <2> QED BY <1>0, <2>1 DEF Absorbed
<1>16. Followed'
  <2>1. ASSUME queries' = {}, NEW x \in DOMAIN cache, NEW k \in Targets(x), Base[k] \notin DOMAIN cache
        PROVE  \E i \in DOMAIN stack' : stack'[i].base = x /\ k \in stack'[i].todo
    <3>1. queries = {}
      BY <1>7, <2>1
    <3>2. PICK i \in DOMAIN stack : stack[i].base = x /\ k \in stack[i].todo
      BY <2>1, <3>1 DEF Inv, Followed
    <3>3. i # n
      BY <1>3, <3>2
    <3> QED BY <1>4, <3>2, <3>3
  <2> QED BY <1>0, <1>5, <2>1 DEF Followed
<1>17. First'
  <2>1. CASE queries # {}
    <3>1. \E q \in queries : q.chain = Reach(Base[q.obj])
      BY <2>1 DEF Inv, First
    <3> QED BY <1>5, <1>7, <3>1 DEF First
  <2>2. CASE n # 1
    <3>1. queries # {} => \E q \in queries : q.chain = Reach(Base[q.obj])
      BY DEF Inv, First
    <3> QED BY <1>5, <1>7, <2>2, <3>1 DEF First
  <2>3. CASE queries = {} /\ n = 1
    <3> DEFINE W == UNION {Fields(x) : x \in DOMAIN cache}
    <3>1. W \in SUBSET Obj /\ Fields(t) \subseteq W
      BY <1>0, <1>6, ChainFacts
    <3>2. \A i \in DOMAIN stack : i = n
      BY <1>1, <2>3
    <3>3. \A x \in DOMAIN cache : Fields(x) \subseteq cache[t]
      <4>1. TAKE x \in DOMAIN cache
      <4>2. HeldAt(x, n)
        BY <2>3, <3>2 DEF Inv, Absorbed
      <4> QED BY <1>3, <4>2 DEF HeldAt, t
    <3>4. ASSUME NEW x \in W, NEW o \in pts[x] PROVE Fields(Base[o]) \subseteq W
      <4>1. PICK y \in DOMAIN cache : x \in Fields(y)
        OBVIOUS
      <4>2. o \in Targets(y)
        BY <4>1 DEF Targets
      <4>3. Base[o] \in DOMAIN cache
        BY <1>3, <2>3, <3>2, <4>1, <4>2 DEF Inv, Followed
      <4> QED BY <4>3
    <3>5. W \subseteq cache[t]
      BY <3>3
    <3> HIDE DEF W
    <3>6. Reach(t) \subseteq W
      BY <1>0, <3>1, <3>4, ReachFacts DEF Closed
    <3>7. cache[t] = Reach(t)
      BY <1>6, <3>5, <3>6, WithinReach
    <3>8. [obj |-> t, chain |-> cache[t]] \in queries' /\ Base[t] = t
      BY <1>0, <1>6, <1>7, <2>3, ChainFacts
    <3>9. \E q \in queries' : q.chain = Reach(Base[q.obj])
      <4> DEFINE q == [obj |-> t, chain |-> cache[t]]
      <4>1. q \in queries' /\ q.chain = Reach(Base[q.obj])
        BY <3>7, <3>8
      <4> HIDE DEF q
      <4> QED BY <4>1
    <3> QED BY <1>5, <3>9 DEF First
  <2> QED BY <2>1, <2>2, <2>3
<1> QED BY <1>8, <1>9, <1>10, <1>11, <1>12, <1>13, <1>14, <1>15, <1>16, <1>17 DEF Inv

-----------------------------------------------------------------------------
(* A call from outside: it is answered or enters the first frame. *)
LEMMA QueryKeeps ==
  ASSUME ChainAssumption, Inv, NEW o \in Obj, Query(o)
  PROVE  Inv'
<1>0. Types /\ pts \in Pointing /\ stack = <<>> /\ pts' = pts
  BY DEF Inv, Types, Query
<1>1. BaseOf(o) = Base[o] /\ Base[o] \in Bases
  BY <1>0 DEF BaseOf, Bases
<1>2. CASE Base[o] \notin DOMAIN cache
  <2>1. Enter(Base[o]) /\ queries' = queries
    BY <1>1, <1>2 DEF Query
  <2> QED BY <1>0, <1>1, <1>2, <2>1, EnterKeeps
<1>3. CASE Base[o] \in DOMAIN cache
  <2> DEFINE q == [obj |-> o, chain |-> cache[Base[o]]]
  <2>1. queries' = queries \cup {q} /\ cache' = cache /\ stack' = stack
    BY <1>1, <1>3 DEF Query
  <2>2. q \in [obj : Obj, chain : SUBSET Obj]
    BY <1>0, <1>3 DEF Types
  <2> HIDE DEF q
  <2>3. queries' # {}
    BY <2>1
  <2>4. /\ \A x : Reach(x)' = Reach(x) /\ Targets(x)' = Targets(x)
        /\ \A S : Closed(S)' = Closed(S)
        /\ Acyclic' = Acyclic
    BY <1>0, PtsStay
  <2>5. queries # {}
    <3>1. DOMAIN stack = {}
      BY <1>0
    <3> QED BY <1>3, <3>1 DEF Inv, Absorbed
  <2>6. Types'
    <3>1. queries' \subseteq [obj : Obj, chain : SUBSET Obj]
      BY <1>0, <2>1, <2>2 DEF Types
    <3> QED BY <1>0, <2>1, <3>1 DEF Types
  <2>7. Entered' /\ Framed' /\ Nested' /\ ChainSound'
    <3>1. Entered'
      BY <2>1 DEF Inv, Entered
    <3>2. Framed'
      BY <2>1, <2>4 DEF Inv, Framed
    <3>3. Nested'
      BY <2>1, <2>4 DEF Inv, Nested
    <3>4. ChainSound'
      BY <2>1, <2>4 DEF Inv, ChainSound
    <3> QED BY <3>1, <3>2, <3>3, <3>4
  <2>8. Collected' /\ ChainComplete'
    <3>1. Collected'
      BY <2>1, <2>4 DEF Inv, Collected
    <3>2. ChainComplete'
      BY <2>1, <2>4 DEF Inv, ChainComplete
    <3> QED BY <3>1, <3>2
  <2>9. Absorbed' /\ Followed'
    BY <2>3 DEF Absorbed, Followed
  <2>10. First'
    <3>1. \E k \in queries : k.chain = Reach(Base[k.obj])
      BY <2>5 DEF Inv, First
    <3> QED BY <2>1, <2>4, <3>1 DEF First
  <2> QED BY <2>6, <2>7, <2>8, <2>9, <2>10 DEF Inv
<1> QED BY <1>2, <1>3

(* An inner call. *)
LEMMA CollectKeeps ==
  ASSUME ChainAssumption, Inv, NEW o \in Obj, Collect(o)
  PROVE  Inv'
<1>1. stack # <<>> /\ o \in Top.todo /\ pts' = pts /\ queries' = queries
      /\ BaseOf(o) = Base[o] /\ Base[o] \in Bases
  BY DEF Collect, BaseOf, Bases
<1>2. CASE Base[o] \notin DOMAIN cache
  <2>1. Enter(Base[o])
    BY <1>1, <1>2 DEF Collect
  <2> QED BY <1>1, <1>2, <2>1, EnterKeeps
<1>3. CASE Base[o] \in DOMAIN cache
  <2>1. cache' = Merged(o) /\ stack' = [stack EXCEPT ![Len(stack)].todo = Rest(o)]
    BY <1>1, <1>3 DEF Collect
  <2> QED BY <1>1, <1>3, <2>1, MergeKeeps
<1> QED BY <1>2, <1>3

LEMMA StutterKeeps ==
  ASSUME Inv, UNCHANGED chainVars
  PROVE  Inv'
<1>1. pts' = pts /\ cache' = cache /\ stack' = stack /\ queries' = queries
  BY DEF chainVars
<1>2. /\ \A x : Reach(x)' = Reach(x) /\ Targets(x)' = Targets(x)
      /\ \A S : Closed(S)' = Closed(S)
      /\ Acyclic' = Acyclic
  BY <1>1, PtsStay
<1>3. Types' /\ Entered'
  BY <1>1 DEF Inv, Types, Entered
<1>4. Framed'
  BY <1>1, <1>2 DEF Inv, Framed
<1>5. Nested' /\ ChainSound'
  BY <1>1, <1>2 DEF Inv, Nested, ChainSound
<1>6. Collected'
  BY <1>1, <1>2 DEF Inv, Collected
<1>7. ChainComplete'
  BY <1>1, <1>2 DEF Inv, ChainComplete
<1>8. Absorbed'
  BY <1>1 DEF Inv, Absorbed, HeldAt
<1>9. Followed' /\ First'
  BY <1>1, <1>2 DEF Inv, Followed, First
<1> QED BY <1>3, <1>4, <1>5, <1>6, <1>7, <1>8, <1>9 DEF Inv

LEMMA InvHolds ==
  ASSUME ChainAssumption
  PROVE  ChainSpec => []Inv
<1>1. ChainInit => Inv
  BY InitInv
<1>2. Inv /\ [ChainNext]_chainVars => Inv'
  BY QueryKeeps, CollectKeeps, ReturnKeeps, StutterKeeps DEF ChainNext, ChainStep
<1> QED BY <1>1, <1>2, PTL DEF ChainSpec

(* ChainsCorrect: an entry of the cache never holds an object that the fields *)
(* of its base do not lead to; where the objects do not point to one another  *)
(* in a circle every entry whose call has returned is complete, although      *)
(* CollectPtsChain puts it together from entries of others; and the first     *)
(* call from outside gets the whole chain, whatever the circles.              *)
THEOREM ChainsAreCorrect ==
  ASSUME ChainAssumption
  PROVE  ChainSpec => []ChainsCorrect
<1>1. ASSUME Inv PROVE ChainsCorrect
  <2>1. ChainTypeOK
    BY <1>1 DEF Inv, Types, ChainTypeOK, Frame
  <2>2. FirstComplete
    <3>1. ASSUME Cardinality(queries) = 1 PROVE \A q \in queries : q.chain = Reach(Base[q.obj])
      <4>1. PICK x : queries = {x}
        <5>1. IsFiniteSet(queries)
          <6>1. IsFiniteSet(Obj)
            BY DEF ChainAssumption
          <6>2. IsFiniteSet(Obj \X SUBSET Obj)
            BY <6>1, FS_SUBSET, FS_Product
          <6> DEFINE f == [p \in Obj \X SUBSET Obj |-> [obj |-> p[1], chain |-> p[2]]]
          <6>3. f \in Surjection(Obj \X SUBSET Obj, [obj : Obj, chain : SUBSET Obj])
            <7>1. \A r \in [obj : Obj, chain : SUBSET Obj] : f[<<r.obj, r.chain>>] = r
              OBVIOUS
            <7> QED BY <7>1 DEF Surjection
          <6>4. IsFiniteSet([obj : Obj, chain : SUBSET Obj])
            <7> HIDE DEF f
            <7> QED BY <6>2, <6>3, FS_Surjection
          <6> QED BY <1>1, <6>4, FS_Subset DEF Inv, Types
        <5>2. \A S : IsFiniteSet(S) => (Cardinality(S) = 1 <=> \E x : S = {x})
          BY FS_Singleton
        <5> QED BY <3>1, <5>1, <5>2
      <4>2. \E q \in queries : q.chain = Reach(Base[q.obj])
        BY <1>1, <4>1 DEF Inv, First
      <4> QED BY <4>1, <4>2
    <3> QED BY <3>1 DEF FirstComplete
  <2> QED BY <1>1, <2>1, <2>2 DEF Inv, ChainsCorrect
<1> QED BY <1>1, InvHolds, PTL

-----------------------------------------------------------------------------
(***************************************************************************)
(* The regions: the loop that cuts the list of regions by one set after    *)
(* another keeps them unions, or the classes, of the sets that were cut.   *)
(***************************************************************************)
(* What a list of regions is to the sets S that were cut so far: every set is
   a union of regions (all that the whole-program list promises), or the
   regions are the classes of objects that no set of S tells apart. *)
Made(list, S) == \A d \in S : UNION {i \in list : i \subseteq d} = d
SameSets(S, o, p) == \A d \in S : o \in d <=> p \in d
Sharp(list, S) ==
  /\ Disjoint(list) /\ UNION list = UNION S
  /\ \A o, p \in UNION S : SameSets(S, o, p) <=> \E r \in list : o \in r /\ p \in r

(* A list of regions after it was cut by the set c. *)
Refined(list, c) == ({i \cap c : i \in list} \cup {i \ c : i \in list} \cup {c \ UNION list}) \ {{}}

(* The loop l that holds the set c against the list. *)
Loop == [rest : SUBSET Region, copy : SUBSET ObjId, del : SUBSET Region, new : SUBSET Region]
Result(l, list) == ((list \ l.del) \cup l.new) \cup ({l.copy} \ {{}})

SharpLoop(l, list, c) ==
  /\ l.rest \subseteq list
  /\ l.copy = c \ UNION (list \ l.rest)
  /\ l.del = {i \in list \ l.rest : i \cap c # {} /\ ~(i \subseteq c)}
  /\ l.new = {i \cap c : i \in l.del} \cup {i \ c : i \in l.del}

Remade(l) == \A i \in l.del : i = UNION {n \in l.new : n \subseteq i}
MadeLoop(l, list, c) ==
  /\ l.rest \subseteq list /\ l.del \subseteq list \ l.rest /\ l.copy \subseteq c
  /\ Remade(l)
  /\ \A o \in c \ l.copy : \E i \in ((list \ l.del) \ l.rest) \cup l.new : o \in i /\ i \subseteq c

HeldBy(l, i) == [rest |-> l.rest \ {i},
               copy |-> l.copy \ i,
               del  |-> l.del \cup (IF i \subseteq l.copy THEN {} ELSE {i}),
               new  |-> l.new \cup (IF i \subseteq l.copy THEN {} ELSE Parts(i, l.copy))]
Passed(l, i) == IF i \cap l.copy = {} THEN [l EXCEPT !.rest = @ \ {i}] ELSE HeldBy(l, i)

-----------------------------------------------------------------------------
(* Classes. *)

LEMMA SharpIsMade ==
  ASSUME NEW list, NEW S, Sharp(list, S)
  PROVE  Made(list, S)
<1> SUFFICES ASSUME NEW d \in S PROVE UNION {i \in list : i \subseteq d} = d
  BY DEF Made
<1>1. ASSUME NEW o \in d PROVE \E i \in list : i \subseteq d /\ o \in i
  <2>1. PICK r \in list : o \in r
    BY DEF Sharp
  <2>2. ASSUME NEW p \in r PROVE p \in d
    <3>1. o \in UNION S /\ p \in UNION S
      BY <2>1 DEF Sharp
    <3>2. SameSets(S, o, p)
      BY <2>1, <3>1 DEF Sharp
    <3> QED BY <3>2 DEF SameSets
  <2> QED BY <2>1, <2>2
<1> QED BY <1>1

LEMMA RefinedMembers ==
  ASSUME NEW list, NEW c, NEW r
  PROVE  r \in Refined(list, c) <=>
           r # {} /\ (r = c \ UNION list \/ \E i \in list : r = i \cap c \/ r = i \ c)
BY DEF Refined

(* Cutting by one more set keeps the regions the classes. *)
LEMMA RefinedSharp ==
  ASSUME NEW list, NEW S, NEW c, Sharp(list, S)
  PROVE  Sharp(Refined(list, c), S \cup {c})
<1> DEFINE R == Refined(list, c)
           U == UNION (S \cup {c})
<1>1. \A r : r \in R <=> r # {} /\ (r = c \ UNION list \/ \E i \in list : r = i \cap c \/ r = i \ c)
  BY RefinedMembers
<1> HIDE DEF R
<1>2. Disjoint(list) /\ UNION list = UNION S
  BY DEF Sharp
<1>3. \A o : o \in U <=> o \in UNION list \/ o \in c
  BY <1>2
<1>4. Disjoint(R)
  <2> SUFFICES ASSUME NEW r \in R, NEW q \in R, NEW o, o \in r, o \in q PROVE r = q
    BY DEF Disjoint
  <2>1. CASE o \in UNION list
    <3>1. PICK i \in list : o \in i
      BY <2>1
    <3>2. \A j \in list : o \in j => j = i
      BY <1>2, <3>1 DEF Disjoint
    <3>3. (r = i \cap c \/ r = i \ c) /\ (q = i \cap c \/ q = i \ c)
      BY <1>1, <2>1, <3>2
    <3> QED BY <3>3
  <2>2. CASE o \notin UNION list
    <3>1. r = c \ UNION list /\ q = c \ UNION list
      BY <1>1, <2>2
    <3> QED BY <3>1
  <2> QED BY <2>1, <2>2
<1>5. \A o \in U : \E r \in R : o \in r
  <2> SUFFICES ASSUME NEW o \in U PROVE \E r \in R : o \in r
    OBVIOUS
  <2>1. CASE o \in UNION list
    <3>1. PICK i \in list : o \in i
      BY <2>1
    <3>2. CASE o \in c
      <4>1. i \cap c \in R
        BY <1>1, <3>1, <3>2
      <4> QED BY <3>1, <3>2, <4>1
    <3>3. CASE o \notin c
      <4>1. i \ c \in R
        BY <1>1, <3>1, <3>3
      <4> QED BY <3>1, <3>3, <4>1
    <3> QED BY <3>2, <3>3
  <2>2. CASE o \notin UNION list
    <3>1. o \in c \ UNION list
      BY <1>3, <2>2
    <3>2. c \ UNION list \in R
      BY <1>1, <3>1
    <3> QED BY <3>1, <3>2
  <2> QED BY <2>1, <2>2
<1>6. \A r \in R : \A o \in r : o \in U
  BY <1>1, <1>3
<1>7. UNION R = U
  BY <1>5, <1>6
<1>8. ASSUME NEW o \in U, NEW p \in U, SameSets(S \cup {c}, o, p)
      PROVE  \E r \in R : o \in r /\ p \in r
  <2>1. SameSets(S, o, p) /\ (o \in c <=> p \in c)
    BY <1>8 DEF SameSets
  <2>2. o \in UNION S <=> p \in UNION S
    BY <2>1 DEF SameSets
  <2>3. CASE o \in UNION S
    <3>1. PICK i \in list : o \in i /\ p \in i
      BY <2>1, <2>2, <2>3 DEF Sharp
    <3>2. CASE o \in c
      <4>1. i \cap c \in R
        BY <1>1, <3>1, <3>2
      <4> QED BY <2>1, <3>1, <3>2, <4>1
    <3>3. CASE o \notin c
      <4>1. i \ c \in R
        BY <1>1, <3>1, <3>3
      <4> QED BY <2>1, <3>1, <3>3, <4>1
    <3> QED BY <3>2, <3>3
  <2>4. CASE o \notin UNION S
    <3>1. o \in c \ UNION list /\ p \in c \ UNION list
      BY <1>2, <2>2, <2>4
    <3>2. c \ UNION list \in R
      BY <1>1, <3>1
    <3> QED BY <3>1, <3>2
  <2> QED BY <2>3, <2>4
<1>9. ASSUME NEW o \in U, NEW p \in U, NEW r \in R, o \in r, p \in r
      PROVE  SameSets(S \cup {c}, o, p)
  <2>1. CASE r = c \ UNION list
    <3>1. \A d \in S : o \notin d /\ p \notin d
      BY <1>2, <1>9, <2>1
    <3> QED BY <1>9, <2>1, <3>1 DEF SameSets
  <2>2. CASE \E i \in list : r = i \cap c \/ r = i \ c
    <3>1. PICK i \in list : r = i \cap c \/ r = i \ c
      BY <2>2
    <3>2. o \in UNION S /\ p \in UNION S /\ o \in i /\ p \in i
      BY <1>2, <1>9, <3>1
    <3>3. SameSets(S, o, p)
      BY <3>2 DEF Sharp
    <3> QED BY <1>9, <3>1, <3>3 DEF SameSets
  <2> QED BY <1>1, <2>1, <2>2
<1>10. Sharp(R, S \cup {c})
  BY ONLY <1>4, <1>7, <1>8, <1>9 DEF Sharp
<1> QED BY <1>10 DEF R

(* A set of the list need not be cut again. *)
LEMMA SkippedSharp ==
  ASSUME NEW list, NEW S, NEW c \in list, Sharp(list, S)
  PROVE  Sharp(list, S \cup {c})
<1>1. UNION (S \cup {c}) = UNION S
  BY DEF Sharp
<1>2. ASSUME NEW o \in UNION S, NEW p \in UNION S
      PROVE  SameSets(S \cup {c}, o, p) <=> \E r \in list : o \in r /\ p \in r
  <2>1. SameSets(S, o, p) <=> \E r \in list : o \in r /\ p \in r
    BY DEF Sharp
  <2>2. (\E r \in list : o \in r /\ p \in r) => (o \in c <=> p \in c)
    BY DEF Sharp, Disjoint
  <2> QED BY <2>1, <2>2 DEF SameSets
<1> QED BY <1>1, <1>2 DEF Sharp

(* A single object is added as it is when all sets before it were single
   objects. *)
LEMMA SingleSharp ==
  ASSUME NEW list, NEW S, NEW c, Sharp(list, S), {} \notin list, c \notin list,
         NEW x, c = {x}, \A d \in S : \E y : d = {y}
  PROVE  Sharp(list \cup {c}, S \cup {c})
<1>1. ASSUME NEW i \in list, x \in i PROVE FALSE
  <2>1. PICK d \in S : x \in d
    BY <1>1 DEF Sharp
  <2>2. d = {x}
    BY <2>1
  <2>3. i \subseteq d
    <3> SUFFICES ASSUME NEW p \in i PROVE p \in d
      OBVIOUS
    <3>1. x \in UNION S /\ p \in UNION S
      BY <1>1 DEF Sharp
    <3>2. SameSets(S, x, p)
      BY <1>1, <3>1 DEF Sharp
    <3> QED BY <2>1, <3>2 DEF SameSets
  <2> QED BY <1>1, <2>2, <2>3
<1>2. \A i \in list : i \cap c = {} /\ i \ c = i /\ i # {}
  BY <1>1
<1>3. c \ UNION list = c /\ c # {}
  BY <1>1
<1>4. ASSUME NEW r PROVE r \in Refined(list, c) <=> r \in list \cup {c}
  <2>1. r \in Refined(list, c) <=>
          r # {} /\ (r = c \/ \E i \in list : r = i \cap c \/ r = i \ c)
    BY <1>3, RefinedMembers
  <2> QED BY <1>2, <1>3, <2>1
<1>5. Refined(list, c) = list \cup {c}
  BY <1>4
<1>6. Sharp(Refined(list, c), S \cup {c})
  BY RefinedSharp
<1> QED BY <1>5, <1>6

(* The loop over the list: what it leaves is the list cut by the set. *)
LEMMA SharpLoopStarts ==
  ASSUME NEW list, NEW c
  PROVE  SharpLoop([rest |-> list, copy |-> c, del |-> {}, new |-> {}], list, c)
BY DEF SharpLoop

LEMMA SharpLoopStep ==
  ASSUME NEW list, NEW c, NEW l \in Loop, Disjoint(list), SharpLoop(l, list, c), NEW i \in l.rest
  PROVE  SharpLoop(Passed(l, i), list, c)
<1> DEFINE done == list \ l.rest
           rest == l.rest \ {i}
<1>1. i \in list /\ list \ rest = done \cup {i}
  BY DEF SharpLoop
<1>2. \A o \in i : o \in l.copy <=> o \in c
  BY <1>1 DEF SharpLoop, Disjoint
<1>3. i \cap l.copy = i \cap c /\ i \ l.copy = i \ c /\ (i \subseteq l.copy <=> i \subseteq c)
  BY <1>2
<1>4. l.copy \ i = c \ UNION (list \ rest)
  BY <1>1 DEF SharpLoop
<1>5. l.del = {j \in done : j \cap c # {} /\ ~(j \subseteq c)}
  BY DEF SharpLoop
<1>6. CASE i \cap l.copy = {}
  <2>1. Passed(l, i) = [rest |-> rest, copy |-> l.copy, del |-> l.del, new |-> l.new]
    BY <1>6 DEF Passed, Loop
  <2>2. l.copy = l.copy \ i
    BY <1>6
  <2>3. l.del = {j \in list \ rest : j \cap c # {} /\ ~(j \subseteq c)}
    BY <1>1, <1>3, <1>5, <1>6
  <2>4. rest \subseteq list /\ l.new = {j \cap c : j \in l.del} \cup {j \ c : j \in l.del}
    BY DEF SharpLoop
  <2> QED BY <1>4, <2>1, <2>2, <2>3, <2>4 DEF SharpLoop
<1>7. CASE i \cap l.copy # {} /\ i \subseteq l.copy
  <2>1. Passed(l, i) = [rest |-> rest, copy |-> l.copy \ i, del |-> l.del, new |-> l.new]
    BY <1>7 DEF Passed, HeldBy, Loop
  <2>2. l.del = {j \in list \ rest : j \cap c # {} /\ ~(j \subseteq c)}
    BY <1>1, <1>3, <1>5, <1>7
  <2> QED BY <1>4, <2>1, <2>2 DEF SharpLoop
<1>8. CASE i \cap l.copy # {} /\ ~(i \subseteq l.copy)
  <2>1. Parts(i, l.copy) = {i \cap c, i \ c}
    BY <1>3, <1>8 DEF Parts
  <2>2. Passed(l, i) = [rest |-> rest, copy |-> l.copy \ i, del |-> l.del \cup {i},
                        new |-> l.new \cup {i \cap c, i \ c}]
    BY <1>8, <2>1 DEF Passed, HeldBy, Loop
  <2>3. l.del \cup {i} = {j \in list \ rest : j \cap c # {} /\ ~(j \subseteq c)}
    BY <1>1, <1>3, <1>5, <1>8
  <2>4. l.new \cup {i \cap c, i \ c} = {j \cap c : j \in l.del \cup {i}} \cup {j \ c : j \in l.del \cup {i}}
    BY DEF SharpLoop
  <2>5. rest \subseteq list
    BY <1>1 DEF SharpLoop
  <2> DEFINE k == Passed(l, i)
  <2>6. /\ k.rest = rest /\ k.copy = l.copy \ i /\ k.del = l.del \cup {i}
        /\ k.new = l.new \cup {i \cap c, i \ c}
    BY <2>2
  <2>7. k.new = {j \cap c : j \in k.del} \cup {j \ c : j \in k.del}
    BY ONLY <2>4, <2>6
  <2>8. k.del = {j \in list \ k.rest : j \cap c # {} /\ ~(j \subseteq c)}
    BY ONLY <2>3, <2>6
  <2>9. k.rest \subseteq list /\ k.copy = c \ UNION (list \ k.rest)
    BY ONLY <1>4, <2>5, <2>6
  <2> HIDE DEF k
  <2>10. SharpLoop(k, list, c)
    BY ONLY <2>7, <2>8, <2>9 DEF SharpLoop
  <2> QED BY <2>10 DEF k
<1> QED BY <1>6, <1>7, <1>8

LEMMA SharpLoopEnds ==
  ASSUME NEW list, NEW c, NEW l \in Loop, Disjoint(list), {} \notin list, SharpLoop(l, list, c),
         l.rest = {} \/ l.copy = {}
  PROVE  Result(l, list) = Refined(list, c)
<1>1. l.copy = c \ UNION list
  BY DEF SharpLoop
<1>2. ASSUME NEW i \in list PROVE i \in l.del <=> i \cap c # {} /\ ~(i \subseteq c)
  <2>1. CASE i \notin l.rest
    BY <2>1 DEF SharpLoop
  <2>2. CASE i \in l.rest
    <3>1. \A o \in c : \E j \in list \ l.rest : o \in j
      BY <2>2 DEF SharpLoop
    <3>2. i \cap c = {}
      BY <2>2, <3>1 DEF Disjoint
    <3> QED BY <2>2, <3>2 DEF SharpLoop
  <2> QED BY <2>1, <2>2
<1>3. l.del \subseteq list /\ \A r : r \in l.new <=> \E i \in l.del : r = i \cap c \/ r = i \ c
  BY DEF SharpLoop
<1>4. \A i \in list : i # {}
  OBVIOUS
<1>5. ASSUME NEW r PROVE r \in Result(l, list) <=> r \in Refined(list, c)
  <2>1. r \in Result(l, list) <=> (r \in list /\ r \notin l.del) \/ r \in l.new \/ (r = l.copy /\ r # {})
    BY DEF Result
  <2>2. ASSUME r \in list, r \notin l.del PROVE r \in Refined(list, c)
    <3>1. r = r \cap c \/ r = r \ c
      BY <1>2, <2>2
    <3> QED BY <1>4, <2>2, <3>1, RefinedMembers
  <2>3. ASSUME r \in l.new PROVE r \in Refined(list, c)
    <3>1. PICK i \in l.del : r = i \cap c \/ r = i \ c
      BY <1>3, <2>3
    <3>2. i \in list /\ i \cap c # {} /\ ~(i \subseteq c)
      BY <1>2, <1>3, <3>1
    <3>3. r # {}
      BY <3>1, <3>2
    <3> QED BY <3>1, <3>2, <3>3, RefinedMembers
  <2>4. ASSUME r = l.copy, r # {} PROVE r \in Refined(list, c)
    BY <1>1, <2>4, RefinedMembers
  <2>5. ASSUME r \in Refined(list, c) PROVE r \in Result(l, list)
    <3>1. r # {}
      BY <2>5, RefinedMembers
    <3>2. CASE r = c \ UNION list
      BY <1>1, <2>1, <3>1, <3>2
    <3>3. ASSUME NEW i \in list, r = i \cap c \/ r = i \ c PROVE r \in Result(l, list)
      <4>1. CASE i \in l.del
        BY <1>3, <2>1, <3>3, <4>1
      <4>2. CASE i \notin l.del
        <5>1. i \cap c = {} \/ i \subseteq c
          BY <1>2, <4>2
        <5>2. r = i
          BY <3>1, <3>3, <5>1
        <5> QED BY <2>1, <4>2, <5>2
      <4> QED BY <4>1, <4>2
    <3> QED BY <2>5, <3>2, <3>3, RefinedMembers
  <2> QED BY <2>1, <2>2, <2>3, <2>4, <2>5
<1> QED BY <1>5

-----------------------------------------------------------------------------
(* Unions of regions. *)

LEMMA MadeMembers ==
  ASSUME NEW list, NEW S
  PROVE  Made(list, S) <=> \A d \in S : \A o \in d : \E i \in list : o \in i /\ i \subseteq d
<1>1. ASSUME NEW d
      PROVE  UNION {i \in list : i \subseteq d} = d <=> \A o \in d : \E i \in list : o \in i /\ i \subseteq d
  <2>1. UNION {i \in list : i \subseteq d} \subseteq d
    OBVIOUS
  <2>2. ASSUME UNION {i \in list : i \subseteq d} = d, NEW o \in d
        PROVE  \E i \in list : o \in i /\ i \subseteq d
    <3>1. o \in UNION {i \in list : i \subseteq d}
      BY <2>2
    <3> QED BY <3>1
  <2>3. ASSUME \A o \in d : \E i \in list : o \in i /\ i \subseteq d
        PROVE  d \subseteq UNION {i \in list : i \subseteq d}
    BY <2>3
  <2> QED BY <2>1, <2>2, <2>3
<1> QED BY <1>1 DEF Made

LEMMA MadeLoopStarts ==
  ASSUME NEW list, NEW c
  PROVE  MadeLoop([rest |-> list, copy |-> c, del |-> {}, new |-> {}], list, c)
BY DEF MadeLoop, Remade

LEMMA MadeLoopStep ==
  ASSUME NEW list, NEW c, NEW l \in Loop, MadeLoop(l, list, c), NEW i \in l.rest
  PROVE  MadeLoop(Passed(l, i), list, c)
<1> DEFINE rest == l.rest \ {i}
<1>1. i \in list /\ i \notin l.del /\ l.rest \subseteq list /\ l.del \subseteq list \ l.rest /\ l.copy \subseteq c
  BY DEF MadeLoop
<1>2. \A o \in c \ l.copy : \E j \in ((list \ l.del) \ l.rest) \cup l.new : o \in j /\ j \subseteq c
  BY DEF MadeLoop
<1>3. CASE i \cap l.copy = {}
  <2>1. Passed(l, i) = [rest |-> rest, copy |-> l.copy, del |-> l.del, new |-> l.new]
    BY <1>3 DEF Passed, Loop
  <2>2. ((list \ l.del) \ l.rest) \cup l.new \subseteq ((list \ l.del) \ rest) \cup l.new
    OBVIOUS
  <2> QED BY <1>1, <1>2, <2>1, <2>2 DEF MadeLoop, Remade
<1>4. CASE i \cap l.copy # {} /\ i \subseteq l.copy
  <2>1. Passed(l, i) = [rest |-> rest, copy |-> l.copy \ i, del |-> l.del, new |-> l.new]
    BY <1>4 DEF Passed, HeldBy, Loop
  <2>2. ASSUME NEW o \in c \ (l.copy \ i)
        PROVE  \E j \in ((list \ l.del) \ rest) \cup l.new : o \in j /\ j \subseteq c
    <3>1. CASE o \in i
      BY <1>1, <1>4, <3>1
    <3>2. CASE o \notin i
      BY <1>2, <3>2
    <3> QED BY <3>1, <3>2
  <2>3. rest \subseteq list /\ l.del \subseteq list \ rest /\ l.copy \ i \subseteq c /\ Remade(l)
    BY <1>1 DEF MadeLoop
  <2> QED BY <2>1, <2>2, <2>3 DEF MadeLoop, Remade
<1>5. CASE i \cap l.copy # {} /\ ~(i \subseteq l.copy)
  <2> DEFINE del == l.del \cup {i}
             new == l.new \cup {i \cap l.copy, i \ l.copy}
  <2>1. Parts(i, l.copy) = {i \cap l.copy, i \ l.copy}
    BY <1>5 DEF Parts
  <2>2. Passed(l, i) = [rest |-> rest, copy |-> l.copy \ i, del |-> del, new |-> new]
    BY <1>5, <2>1 DEF Passed, HeldBy, Loop
  <2>3. ASSUME NEW o \in c \ (l.copy \ i)
        PROVE  \E j \in ((list \ del) \ rest) \cup new : o \in j /\ j \subseteq c
    <3>1. CASE o \in l.copy
      BY <1>1, <2>3, <3>1
    <3>2. CASE o \notin l.copy
      <4>1. PICK j \in ((list \ l.del) \ l.rest) \cup l.new : o \in j /\ j \subseteq c
        BY <1>2, <3>2
      <4>2. j \in ((list \ del) \ rest) \cup new
        BY <4>1
      <4> QED BY <4>1, <4>2
    <3> QED BY <3>1, <3>2
  <2>4. ASSUME NEW j \in del PROVE j = UNION {n \in new : n \subseteq j}
    <3>1. CASE j \in l.del
      <4>1. j = UNION {n \in l.new : n \subseteq j}
        BY <3>1 DEF MadeLoop, Remade
      <4>2. \A o \in j : \E n \in new : n \subseteq j /\ o \in n
        BY <4>1
      <4> QED BY <4>2
    <3>2. CASE j = i
      <4>1. \A o \in j : \E n \in new : n \subseteq j /\ o \in n
        BY <3>2
      <4> QED BY <4>1
    <3> QED BY <3>1, <3>2
  <2>5. rest \subseteq list /\ del \subseteq list \ rest /\ l.copy \ i \subseteq c
    BY <1>1
  <2> HIDE DEF del, new, rest
  <2> QED BY <2>2, <2>3, <2>4, <2>5 DEF MadeLoop, Remade
<1> QED BY <1>3, <1>4, <1>5

(* At any point the loop may end: no union is lost, and the set held is one. *)
LEMMA MadeLoopEnds ==
  ASSUME NEW list, NEW c, NEW l \in Loop, MadeLoop(l, list, c)
  PROVE  /\ Made(Result(l, list), {c})
         /\ \A S : Made(list, S) => Made(Result(l, list), S)
<1> DEFINE R == Result(l, list)
<1>1. \A r : r \in R <=> (r \in list /\ r \notin l.del) \/ r \in l.new \/ (r = l.copy /\ r # {})
  BY DEF Result
<1> HIDE DEF R
<1>2. ASSUME NEW o \in c PROVE \E i \in R : o \in i /\ i \subseteq c
  <2>1. CASE o \in l.copy
    BY <1>1, <2>1 DEF MadeLoop
  <2>2. CASE o \notin l.copy
    <3>1. PICK i \in ((list \ l.del) \ l.rest) \cup l.new : o \in i /\ i \subseteq c
      BY <2>2 DEF MadeLoop
    <3> QED BY <1>1, <3>1
  <2> QED BY <2>1, <2>2
<1>3. ASSUME NEW S, Made(list, S), NEW d \in S, NEW o \in d
      PROVE  \E i \in R : o \in i /\ i \subseteq d
  <2>1. PICK i \in list : o \in i /\ i \subseteq d
    BY <1>3, MadeMembers
  <2>2. CASE i \notin l.del
    BY <1>1, <2>1, <2>2
  <2>3. CASE i \in l.del
    <3>1. i = UNION {n \in l.new : n \subseteq i}
      BY <2>3 DEF MadeLoop, Remade
    <3>2. PICK n \in l.new : n \subseteq i /\ o \in n
      BY <2>1, <3>1
    <3> QED BY <1>1, <2>1, <3>2
  <2> QED BY <2>2, <2>3
<1>4. Made(R, {c})
  BY <1>2, MadeMembers
<1>5. ASSUME NEW S, Made(list, S) PROVE Made(R, S)
  <2>1. \A d \in S : \A o \in d : \E i \in R : o \in i /\ i \subseteq d
    BY <1>3, <1>5
  <2> QED BY <2>1, MadeMembers
<1> QED BY <1>4, <1>5 DEF R

LEMMA MadeMore ==
  ASSUME NEW list, NEW S, NEW c, Made(list, S)
  PROVE  /\ Made(list \cup {c}, S \cup {c})
         /\ \A T : Made(list, T) => Made(list \cup {c}, T)
         /\ c \in list => Made(list, S \cup {c})
<1>1. ASSUME NEW T, Made(list, T) PROVE Made(list \cup {c}, T)
  <2>1. \A d \in T : \A o \in d : \E i \in list : o \in i /\ i \subseteq d
    BY <1>1, MadeMembers
  <2>2. \A d \in T : \A o \in d : \E i \in list \cup {c} : o \in i /\ i \subseteq d
    BY <2>1
  <2> QED BY <2>2, MadeMembers
<1>2. \A d \in S : \A o \in d : \E i \in list : o \in i /\ i \subseteq d
  BY MadeMembers
<1>3. \A d \in S \cup {c} : \A o \in d : \E i \in list \cup {c} : o \in i /\ i \subseteq d
  BY <1>2
<1>4. Made(list \cup {c}, S \cup {c})
  BY <1>3, MadeMembers
<1>5. ASSUME c \in list PROVE Made(list, S \cup {c})
  <2>1. \A d \in S \cup {c} : \A o \in d : \E i \in list : o \in i /\ i \subseteq d
    BY <1>2, <1>5
  <2> QED BY <2>1, MadeMembers
<1> QED BY <1>1, <1>4, <1>5

-----------------------------------------------------------------------------
(* The inductive invariant. The loop that cuts is described with the set it
   holds, one of those already taken from todo. *)
Kinds == {"distinct", "intra", "inter"}
PartitionTypes ==
  /\ strategy \in Kinds /\ sets \in [Fun -> SUBSET Region] /\ loop \in Loop
  /\ PartitionTypeOK

Phases ==
  /\ fun # None => phase = "cut" /\ strategy # "distinct" /\ fun \notin left
  /\ loop # NoLoop => fun # None
  /\ phase = "create" => strategy = "inter"
  /\ phase \in {"alias", "done"} => left = {}

SmallFirst ==
  fun # None => \A c \in todo, d \in sets[fun] \ todo : Cardinality(d) <= Cardinality(c)

Taken == sets[fun] \ todo
SharpCut ==
  \/ loop = NoLoop /\ Sharp(inters[fun], Taken)
  \/ \E c \in Taken : Sharp(inters[fun], Taken \ {c}) /\ SharpLoop(loop, inters[fun], c)
MadeCut ==
  \/ loop = NoLoop /\ Made(inters[None], Taken)
  \/ \E c \in Taken : Made(inters[None], Taken \ {c}) /\ MadeLoop(loop, inters[None], c)

IntraKept ==
  strategy = "intra" => \A f \in Fun :
    /\ f \in left => inters[f] = {} /\ funToMRs[f] = {}
    /\ f = fun => funToMRs[f] = {} /\ SharpCut
    /\ f \notin left /\ f # fun => Sharp(inters[f], sets[f]) /\ funToMRs[f] = inters[f]

InterKept ==
  strategy = "inter" =>
    /\ \A f \in Fun : f # fun /\ ~(phase = "cut" /\ f \in left) => Made(inters[None], sets[f])
    /\ fun # None => MadeCut
    /\ \A f \in Fun : funToMRs[f] = IF phase = "cut" \/ f \in left THEN {} ELSE Contained(f)

DistinctKept ==
  strategy = "distinct" => \A f \in Fun :
    funToMRs[f] = IF f \in left THEN {} ELSE {{o} : o \in UNION sets[f]}

Answered ==
  phase = "done" =>
    /\ stores = [f \in Fun |-> [c \in sets[f] |-> AliasMRs(f, c)]]
    /\ loads = [f \in Fun |-> [c \in sets[f] |-> MRsForLoad(f, c)]]

PartitionInv ==
  /\ PartitionTypes /\ Phases /\ SmallFirst /\ IntraKept /\ InterKept /\ DistinctKept /\ Answered

LEMMA PartitionCases ==
  ASSUME [PartitionNext]_partitionVars
  PROVE  \/ \E f \in Fun : Begin(f)
         \/ \E f \in Fun : Create(f)
         \/ \E f \in Fun : CreateDistinct(f)
         \/ \E c \in todo : Take(c)
         \/ \E i \in loop.rest : Against(i)
         \/ Settle \/ End \/ CutDone \/ UpdateAliasMRs
         \/ UNCHANGED partitionVars
BY DEF PartitionNext, TakeAny, AgainstAny

(* What Take and Settle do to the list, and Against to the loop. *)
LEMMA ListActions ==
  ASSUME PartitionTypes
  PROVE  /\ ListOf(fun) = (IF strategy = "inter" THEN None ELSE fun)
         /\ \A i : Against(i) => loop' = Passed(loop, i)
         /\ Settle => inters' = [inters EXCEPT ![ListOf(fun)] = Result(loop, @)]
<1>1. ASSUME NEW i, Against(i) PROVE loop' = Passed(loop, i)
  <2>1. CASE i \cap loop.copy = {}
    BY <1>1, <2>1 DEF Against, Passed
  <2>2. CASE i \cap loop.copy # {}
    BY <1>1, <2>2 DEF Against, Passed, HeldBy, Held
  <2> QED BY <2>1, <2>2
<1>2. \A list : Cut(list) = Result(loop, list)
  BY DEF Cut, Result
<1>3. Settle => inters' = [inters EXCEPT ![ListOf(fun)] = Result(loop, @)]
  BY <1>2 DEF Settle
<1> QED BY <1>1, <1>3 DEF ListOf

LEMMA PassedType ==
  ASSUME NEW l \in Loop, NEW i \in l.rest
  PROVE  Passed(l, i) \in Loop
<1>1. l.rest \subseteq Region /\ l.copy \subseteq ObjId /\ l.del \subseteq Region /\ l.new \subseteq Region
  BY DEF Loop
<1>2. i \subseteq ObjId /\ i \in Region
  BY <1>1 DEF Region
<1>3. Parts(i, l.copy) \subseteq Region
  BY <1>2 DEF Parts, Region
<1>4. CASE i \cap l.copy = {}
  <2>1. Passed(l, i) = [rest |-> l.rest \ {i}, copy |-> l.copy, del |-> l.del, new |-> l.new]
    BY <1>4 DEF Passed, Loop
  <2> QED BY <1>1, <2>1 DEF Loop
<1>5. CASE i \cap l.copy # {}
  <2>1. Passed(l, i) = HeldBy(l, i)
    BY <1>5 DEF Passed
  <2>2. l.copy \ i \subseteq ObjId /\ l.rest \ {i} \subseteq Region
    BY <1>1
  <2>3. l.del \cup (IF i \subseteq l.copy THEN {} ELSE {i}) \subseteq Region
    BY <1>1, <1>2
  <2>4. l.new \cup (IF i \subseteq l.copy THEN {} ELSE Parts(i, l.copy)) \subseteq Region
    BY <1>1, <1>3
  <2> QED BY <2>1, <2>2, <2>3, <2>4 DEF HeldBy, Loop
<1> QED BY <1>4, <1>5

LEMMA PartitionTypesStep ==
  ASSUME PartitionAssumption, PartitionTypes, [PartitionNext]_partitionVars
  PROVE  PartitionTypes'
<1> DEFINE Lists == /\ phase \in {"cut", "create", "alias", "done"} /\ left \subseteq Fun /\ fun \in Fun \cup {None}
                    /\ todo \subseteq Region /\ (fun # None => todo \subseteq sets[fun])
           Regions == memRegSet \subseteq Region /\ funToMRs \in [Fun -> SUBSET memRegSet]
           Kept == \A f \in Fun : \A c \in DOMAIN stores[f] : stores[f][c] \subseteq memRegSet
           Others == /\ strategy \in Kinds /\ sets \in [Fun -> SUBSET Region] /\ loop \in Loop
                     /\ inters \in [Fun \cup {None} -> SUBSET Region]
<1>1. PartitionTypes <=> Lists /\ Regions /\ Kept /\ Others
  BY DEF PartitionTypes, PartitionTypeOK, Loop
<1>2. PartitionTypes' <=> Lists' /\ Regions' /\ Kept' /\ Others'
  BY DEF PartitionTypes, PartitionTypeOK, Loop
<1>3. Lists /\ Regions /\ Kept /\ Others
  BY <1>1
<1>4. ASSUME NEW f \in Fun, NEW S \in SUBSET Region, CreateMRs(f, S)
      PROVE  Regions' /\ (UNCHANGED stores => Kept')
  <2>1. memRegSet' \subseteq Region /\ memRegSet \subseteq memRegSet'
    BY <1>3, <1>4 DEF CreateMRs
  <2>2. funToMRs' \in [Fun -> SUBSET memRegSet']
    <3>1. funToMRs' = [funToMRs EXCEPT ![f] = @ \cup S] /\ memRegSet' = memRegSet \cup S
      BY <1>4 DEF CreateMRs
    <3>2. \A g \in Fun : funToMRs[g] \subseteq memRegSet
      BY <1>3
    <3> QED BY <1>3, <3>1, <3>2
  <2>3. ASSUME UNCHANGED stores PROVE Kept'
    BY <1>3, <2>1, <2>3
  <2> QED BY <2>1, <2>2, <2>3
<1>5. CASE \E f \in Fun : Begin(f)
  <2>1. PICK f \in Fun : Begin(f)
    BY <1>5
  <2>2. Lists'
    BY <1>3, <2>1 DEF Begin
  <2>3. Regions' /\ Kept' /\ Others'
    BY <1>3, <2>1 DEF Begin
  <2> QED BY <1>2, <2>2, <2>3
<1>6. CASE \E f \in Fun : Create(f)
  <2>1. PICK f \in Fun : Create(f)
    BY <1>6
  <2>2. Contained(f) \in SUBSET Region
    BY <1>3 DEF Contained
  <2>3. Regions' /\ Kept'
    BY <1>4, <2>1, <2>2 DEF Create
  <2>4. Lists' /\ Others'
    BY <1>3, <2>1 DEF Create
  <2> QED BY <1>2, <2>3, <2>4
<1>7. CASE \E f \in Fun : CreateDistinct(f)
  <2>1. PICK f \in Fun : CreateDistinct(f)
    BY <1>7
  <2>2. {{o} : o \in UNION sets[f]} \in SUBSET Region
    BY <1>3 DEF Region
  <2>3. Regions' /\ Kept'
    BY <1>4, <2>1, <2>2 DEF CreateDistinct
  <2>4. Lists' /\ Others'
    BY <1>3, <2>1 DEF CreateDistinct
  <2> QED BY <1>2, <2>3, <2>4
<1>8. CASE \E c \in todo : Take(c)
  <2>1. PICK c \in todo : Take(c)
    BY <1>8
  <2>2. c \in Region /\ ListOf(fun) \in Fun \cup {None} /\ inters[ListOf(fun)] \subseteq Region
    BY <1>3 DEF ListOf
  <2>3. [rest |-> inters[ListOf(fun)], copy |-> c, del |-> {}, new |-> {}] \in Loop
    BY <2>2 DEF Loop, Region
  <2>4. loop' \in Loop /\ inters' \in [Fun \cup {None} -> SUBSET Region]
    <3>1. CASE UNCHANGED <<inters, loop>>
      BY <1>3, <3>1
    <3>2. CASE inters' = [inters EXCEPT ![ListOf(fun)] = @ \cup {c}] /\ UNCHANGED loop
      BY <1>3, <2>2, <3>2
    <3>3. CASE loop' = [rest |-> inters[ListOf(fun)], copy |-> c, del |-> {}, new |-> {}] /\ UNCHANGED inters
      BY <1>3, <2>3, <3>3
    <3> QED BY <2>1, <3>1, <3>2, <3>3 DEF Take
  <2>5. Lists' /\ Regions' /\ Kept'
    BY <1>3, <2>1 DEF Take
  <2>6. Others'
    BY <1>3, <2>1, <2>4 DEF Take
  <2> QED BY <1>2, <2>5, <2>6
<1>9. CASE \E i \in loop.rest : Against(i)
  <2>1. PICK i \in loop.rest : Against(i)
    BY <1>9
  <2>2. loop' = Passed(loop, i)
    BY <2>1, ListActions
  <2>3. Passed(loop, i) \in Loop
    BY <1>3, PassedType
  <2>4. Lists' /\ Regions' /\ Kept'
    BY <1>3, <2>1 DEF Against
  <2>5. Others'
    BY <1>3, <2>1, <2>2, <2>3 DEF Against
  <2> QED BY <1>2, <2>4, <2>5
<1>10. CASE Settle
  <2>1. ListOf(fun) \in Fun \cup {None} /\ inters[ListOf(fun)] \subseteq Region
    BY <1>3 DEF ListOf
  <2>2. Cut(inters[ListOf(fun)]) \subseteq Region
    BY <1>3, <2>1 DEF Cut, Region, Loop
  <2>3. inters' \in [Fun \cup {None} -> SUBSET Region]
    BY <1>3, <1>10, <2>1, <2>2 DEF Settle
  <2>4. loop' \in Loop
    BY <1>10 DEF Settle, NoLoop, Loop
  <2>5. Lists' /\ Regions' /\ Kept'
    BY <1>3, <1>10 DEF Settle
  <2>6. Others'
    BY <1>3, <1>10, <2>3, <2>4 DEF Settle
  <2> QED BY <1>2, <2>5, <2>6
<1>11. CASE End
  <2>1. Regions' /\ Kept'
    <3>1. CASE strategy = "intra"
      <4>1. fun \in Fun /\ inters[fun] \in SUBSET Region /\ CreateMRs(fun, inters[fun]) /\ UNCHANGED stores
        BY <1>3, <1>11, <3>1 DEF End
      <4> QED BY <1>4, <4>1
    <3>2. CASE strategy # "intra"
      BY <1>3, <1>11, <3>2 DEF End
    <3> QED BY <3>1, <3>2
  <2>2. Lists' /\ Others'
    BY <1>3, <1>11 DEF End
  <2> QED BY <1>2, <2>1, <2>2
<1>12. CASE CutDone
  <2>1. Lists'
    BY <1>3, <1>12 DEF CutDone
  <2>2. Regions' /\ Kept' /\ Others'
    BY <1>3, <1>12 DEF CutDone
  <2> QED BY <1>2, <2>1, <2>2
<1>13. CASE UpdateAliasMRs
  <2>1. Lists' /\ Regions' /\ Others'
    BY <1>3, <1>13 DEF UpdateAliasMRs
  <2>2. stores' = [f \in Fun |-> [c \in sets[f] |-> AliasMRs(f, c)]] /\ memRegSet' = memRegSet
    BY <1>13 DEF UpdateAliasMRs
  <2>3. \A f \in Fun : \A c : AliasMRs(f, c) \subseteq memRegSet
    BY <1>3 DEF AliasMRs
  <2>4. Kept'
    BY <2>2, <2>3
  <2> QED BY <1>2, <2>1, <2>4
<1>14. CASE UNCHANGED partitionVars
  <2>1. Lists' /\ Others'
    BY <1>3, <1>14 DEF partitionVars
  <2>2. Regions' /\ Kept'
    BY <1>3, <1>14 DEF partitionVars
  <2> QED BY <1>2, <2>1, <2>2
<1> QED BY <1>5, <1>6, <1>7, <1>8, <1>9, <1>10, <1>11, <1>12, <1>13, <1>14, PartitionCases

LEMMA PhasesStep ==
  ASSUME PartitionAssumption, PartitionTypes, Phases, [PartitionNext]_partitionVars
  PROVE  Phases'
<1>1. ASSUME NEW f \in Fun, Begin(f) PROVE Phases'
  BY <1>1 DEF Begin, Phases, PartitionAssumption
<1>2. ASSUME NEW f \in Fun, Create(f) PROVE Phases'
  BY <1>2 DEF Create, Phases
<1>3. ASSUME NEW f \in Fun, CreateDistinct(f) PROVE Phases'
  BY <1>3 DEF CreateDistinct, Phases
<1>4. ASSUME NEW c \in todo, Take(c) PROVE Phases'
  BY <1>4 DEF Take, Phases
<1>5. ASSUME NEW i \in loop.rest, Against(i) PROVE Phases'
  <2>1. loop # NoLoop
    BY DEF NoLoop
  <2> QED BY <1>5, <2>1 DEF Against, Phases
<1>6. CASE Settle
  BY <1>6 DEF Settle, Phases
<1>7. CASE End
  BY <1>7 DEF End, Phases
<1>8. CASE CutDone
  BY <1>8 DEF CutDone, Phases
<1>9. CASE UpdateAliasMRs
  BY <1>9 DEF UpdateAliasMRs, Phases
<1>10. CASE UNCHANGED partitionVars
  BY <1>10 DEF partitionVars, Phases
<1> QED BY <1>1, <1>2, <1>3, <1>4, <1>5, <1>6, <1>7, <1>8, <1>9, <1>10, PartitionCases

LEMMA RegionSize ==
  ASSUME PartitionAssumption, NEW r \in Region
  PROVE  /\ IsFiniteSet(r) /\ Cardinality(r) \in Nat /\ Cardinality(r) # 0
         /\ Cardinality(r) = 1 <=> \E x : r = {x}
<1>1. IsFiniteSet(r) /\ r # {}
  BY FS_Subset DEF PartitionAssumption, Region
<1> QED BY <1>1, FS_CardinalityType, FS_EmptySet, FS_Singleton

LEMMA SmallFirstStep ==
  ASSUME PartitionAssumption, PartitionTypes, SmallFirst, [PartitionNext]_partitionVars
  PROVE  SmallFirst'
<1>1. ASSUME NEW f \in Fun, Begin(f) PROVE SmallFirst'
  BY <1>1 DEF Begin, SmallFirst
<1>2. ASSUME NEW f \in Fun, Create(f) PROVE SmallFirst'
  BY <1>2 DEF Create, SmallFirst
<1>3. ASSUME NEW f \in Fun, CreateDistinct(f) PROVE SmallFirst'
  BY <1>3 DEF CreateDistinct, SmallFirst
<1>4. ASSUME NEW c \in todo, Take(c) PROVE SmallFirst'
  <2>1. /\ fun # None /\ todo' = todo \ {c} /\ sets' = sets /\ fun' = fun
        /\ \A T \in todo : ~Before(T, c)
    BY <1>4 DEF Take, IsFirst
  <2>2. ASSUME NEW T \in todo PROVE Cardinality(c) <= Cardinality(T)
    <3>1. ~(Cardinality(T) < Cardinality(c))
      BY <2>1 DEF Before
    <3>2. T \in Region /\ c \in Region
      BY DEF PartitionTypes, PartitionTypeOK
    <3> QED BY <3>1, <3>2, RegionSize
  <2>3. \A T \in todo, d \in sets[fun] \ todo : Cardinality(d) <= Cardinality(T)
    BY <2>1 DEF SmallFirst
  <2> QED BY <2>1, <2>2, <2>3 DEF SmallFirst
<1>5. ASSUME NEW i \in loop.rest, Against(i) PROVE SmallFirst'
  BY <1>5 DEF Against, SmallFirst
<1>6. CASE Settle
  BY <1>6 DEF Settle, SmallFirst
<1>7. CASE End
  BY <1>7 DEF End, SmallFirst
<1>8. CASE CutDone
  BY <1>8 DEF CutDone, SmallFirst
<1>9. CASE UpdateAliasMRs
  BY <1>9 DEF UpdateAliasMRs, SmallFirst
<1>10. CASE UNCHANGED partitionVars
  BY <1>10 DEF partitionVars, SmallFirst
<1> QED BY <1>1, <1>2, <1>3, <1>4, <1>5, <1>6, <1>7, <1>8, <1>9, <1>10, PartitionCases

LEMMA SettingsKept ==
  ASSUME [PartitionNext]_partitionVars
  PROVE  strategy' = strategy /\ sets' = sets
BY PartitionCases DEF Begin, Create, CreateDistinct, Take, Against, Settle, End, CutDone,
   UpdateAliasMRs, partitionVars

(* A loop that has ended leaves the classes of the sets taken. *)
LEMMA SharpSettles ==
  ASSUME PartitionAssumption, PartitionTypes, fun \in Fun, SharpCut, loop.rest = {} \/ loop.copy = {}
  PROVE  /\ Sharp(Result(loop, inters[fun]), Taken)
         /\ loop = NoLoop => Sharp(inters[fun], Taken)
<1>1. loop = NoLoop => Result(loop, inters[fun]) = inters[fun]
  BY DEF Result, NoLoop
<1>2. inters[fun] \subseteq Region /\ loop \in Loop
  BY DEF PartitionTypes, PartitionTypeOK
<1>3. {} \notin inters[fun]
  BY <1>2 DEF Region
<1>4. CASE \E c \in Taken : Sharp(inters[fun], Taken \ {c}) /\ SharpLoop(loop, inters[fun], c)
  <2>1. PICK c \in Taken : Sharp(inters[fun], Taken \ {c}) /\ SharpLoop(loop, inters[fun], c)
    BY <1>4
  <2>2. PICK list, S, l : list = inters[fun] /\ S = Taken \ {c} /\ l = loop
    OBVIOUS
  <2>3. Sharp(list, S) /\ SharpLoop(l, list, c) /\ l \in Loop /\ {} \notin list /\ (l.rest = {} \/ l.copy = {})
    BY <1>2, <1>3, <2>1, <2>2
  <2>4. Disjoint(list)
    BY <2>3 DEF Sharp
  <2>5. Result(l, list) = Refined(list, c)
    BY ONLY <2>3, <2>4, SharpLoopEnds
  <2>6. Sharp(Refined(list, c), S \cup {c})
    BY ONLY <2>3, RefinedSharp
  <2>7. S \cup {c} = Taken
    BY <2>1, <2>2
  <2>8. Sharp(Result(loop, inters[fun]), Taken)
    BY <2>2, <2>5, <2>6, <2>7
  <2> QED BY <1>1, <2>8
<1> QED BY <1>1, <1>4 DEF SharpCut

LEMMA IntraFrame ==
  ASSUME PartitionTypes, strategy = "intra", IntraKept, fun \in Fun, fun \notin left,
         UNCHANGED <<strategy, sets, left, fun, funToMRs>>,
         \A g \in Fun \ {fun} : inters'[g] = inters[g], SharpCut'
  PROVE  IntraKept'
<1>1. ASSUME NEW g \in Fun
      PROVE  /\ g \in left' => inters'[g] = {} /\ funToMRs'[g] = {}
             /\ g = fun' => funToMRs'[g] = {} /\ SharpCut'
             /\ g \notin left' /\ g # fun' => Sharp(inters'[g], sets'[g]) /\ funToMRs'[g] = inters'[g]
  <2>1. CASE g = fun
    BY <2>1 DEF IntraKept
  <2>2. CASE g # fun
    BY <2>2 DEF IntraKept
  <2> QED BY <2>1, <2>2
<1> QED BY <1>1 DEF IntraKept

LEMMA IntraStep ==
  ASSUME PartitionAssumption, PartitionTypes, Phases, SmallFirst, IntraKept,
         [PartitionNext]_partitionVars
  PROVE  IntraKept'
<1> SUFFICES ASSUME strategy = "intra" PROVE IntraKept'
  BY SettingsKept DEF IntraKept
<1>0. /\ \A f \in Fun :
           /\ f \in left => inters[f] = {} /\ funToMRs[f] = {}
           /\ f = fun => funToMRs[f] = {} /\ SharpCut
           /\ f \notin left /\ f # fun => Sharp(inters[f], sets[f]) /\ funToMRs[f] = inters[f]
      /\ None \notin Fun /\ fun \in Fun \cup {None} /\ ListOf(fun) = fun
      /\ fun # None => fun \notin left
      /\ inters \in [Fun \cup {None} -> SUBSET Region] /\ loop \in Loop
      /\ sets \in [Fun -> SUBSET Region] /\ todo \subseteq Region /\ (fun # None => todo \subseteq sets[fun])
      /\ funToMRs \in [Fun -> SUBSET memRegSet]
  BY DEF IntraKept, PartitionAssumption, PartitionTypes, PartitionTypeOK, ListOf, Phases
<1>1. ASSUME NEW f \in Fun, Begin(f) PROVE IntraKept'
  <2>1. /\ fun = None /\ f \in left /\ fun' = f /\ left' = left \ {f} /\ todo' = sets[f]
        /\ strategy' = strategy /\ sets' = sets /\ inters' = inters /\ loop' = loop /\ funToMRs' = funToMRs
    BY <1>1 DEF Begin
  <2>2. loop = NoLoop
    BY <2>1 DEF Phases
  <2>3. Taken' = {}
    BY <2>1 DEF Taken
  <2>4. Sharp({}, {})
    BY DEF Sharp, Disjoint
  <2>5. SharpCut'
    BY <1>0, <2>1, <2>2, <2>3, <2>4 DEF SharpCut, NoLoop
  <2>6. ASSUME NEW g \in Fun
        PROVE  /\ g \in left' => inters'[g] = {} /\ funToMRs'[g] = {}
               /\ g = fun' => funToMRs'[g] = {}
               /\ g \notin left' /\ g # fun' => Sharp(inters'[g], sets'[g]) /\ funToMRs'[g] = inters'[g]
    <3>1. g # fun
      BY <1>0, <2>1
    <3>2. g \notin left' /\ g # fun' => g \notin left
      BY <2>1
    <3> QED BY <1>0, <2>1, <3>1, <3>2
  <2> QED BY <2>5, <2>6 DEF IntraKept
<1>2. ASSUME NEW f \in Fun, Create(f) PROVE IntraKept'
  BY <1>2 DEF Create, Phases
<1>3. ASSUME NEW f \in Fun, CreateDistinct(f) PROVE IntraKept'
  BY <1>3 DEF CreateDistinct
<1>4. ASSUME NEW c \in todo, Take(c) PROVE IntraKept'
  <2>1. /\ fun # None /\ loop = NoLoop /\ todo' = todo \ {c}
        /\ strategy' = strategy /\ sets' = sets /\ left' = left /\ fun' = fun /\ funToMRs' = funToMRs
        /\ \A T \in todo : ~Before(T, c)
    BY <1>4 DEF Take, IsFirst
  <2>2. fun \in Fun /\ fun \notin left /\ SharpCut
    BY <1>0, <2>1
  <2>3. loop.rest = {}
    BY <2>1 DEF NoLoop
  <2>4. Sharp(inters[fun], Taken)
    BY <2>1, <2>2, <2>3, SharpSettles
  <2>5. Taken' = Taken \cup {c} /\ c \notin Taken /\ c \in sets[fun]
    BY <1>0, <2>1 DEF Taken
  <2>6. PICK list, S : list = inters[fun] /\ S = Taken
    OBVIOUS
  <2>7. Sharp(list, S) /\ list \subseteq Region
    BY <1>0, <2>2, <2>4, <2>6
  <2>8. {} \notin list
    BY <2>7 DEF Region
  <2>9. CASE Skip(c, list)
    <3>1. inters' = inters /\ loop' = loop
      BY <1>0, <1>4, <2>6, <2>9 DEF Take
    <3>2. Sharp(list, S \cup {c})
      BY ONLY <2>7, <2>9, SkippedSharp DEF Skip
    <3>3. loop' = NoLoop' /\ Sharp(inters'[fun'], Taken')
      BY <2>1, <2>5, <2>6, <3>1, <3>2 DEF NoLoop
    <3>4. SharpCut'
      BY <3>3 DEF SharpCut
    <3> QED BY <2>1, <2>2, <3>1, <3>4, IntraFrame
  <2>10. CASE ~Skip(c, list) /\ Single(c)
    <3>1. inters' = [inters EXCEPT ![fun] = @ \cup {c}] /\ loop' = loop
      BY <1>0, <1>4, <2>6, <2>10 DEF Take
    <3>2. c \in Region /\ S \subseteq Region
      BY <1>0, <2>2, <2>6 DEF Taken
    <3>3. PICK x : c = {x}
      BY <2>10, <3>2, RegionSize DEF Single
    <3>4. ASSUME NEW d \in S PROVE \E y : d = {y}
      <4>1. Cardinality(d) <= Cardinality(c) /\ Cardinality(c) = 1
        BY <2>1, <2>6, <2>10 DEF SmallFirst, Single, Taken
      <4>2. d \in Region
        BY <3>2
      <4>3. Cardinality(d) = 1
        BY <4>1, <4>2, RegionSize
      <4> QED BY <4>2, <4>3, RegionSize
    <3>5. c \notin list
      BY <2>10 DEF Skip
    <3>6. Sharp(list \cup {c}, S \cup {c})
      BY ONLY <2>7, <2>8, <3>3, <3>4, <3>5, SingleSharp
    <3>7. inters'[fun'] = list \cup {c}
      BY <1>0, <2>1, <2>6, <3>1
    <3>8. loop' = NoLoop' /\ Sharp(inters'[fun'], Taken')
      BY <2>1, <2>5, <2>6, <3>1, <3>6, <3>7 DEF NoLoop
    <3>9. SharpCut'
      BY <3>8 DEF SharpCut
    <3>10. \A g \in Fun \ {fun} : inters'[g] = inters[g]
      BY <1>0, <3>1
    <3> QED BY <2>1, <2>2, <3>9, <3>10, IntraFrame
  <2>11. CASE ~Skip(c, list) /\ ~Single(c)
    <3>1. inters' = inters /\ loop' = [rest |-> list, copy |-> c, del |-> {}, new |-> {}]
      BY <1>0, <1>4, <2>6, <2>11 DEF Take
    <3>2. SharpLoop(loop', inters'[fun'], c)
      BY <2>1, <2>6, <3>1, SharpLoopStarts
    <3>3. c \in Taken' /\ Sharp(inters'[fun'], Taken' \ {c})
      <4>1. Taken' \ {c} = Taken
        BY <2>5
      <4> QED BY <2>1, <2>4, <2>5, <3>1, <4>1
    <3>4. SharpCut'
      BY <3>2, <3>3 DEF SharpCut
    <3> QED BY <2>1, <2>2, <3>1, <3>4, IntraFrame
  <2> QED BY <2>9, <2>10, <2>11
<1>5. ASSUME NEW i \in loop.rest, Against(i) PROVE IntraKept'
  <2>1. /\ strategy' = strategy /\ sets' = sets /\ left' = left /\ fun' = fun /\ funToMRs' = funToMRs
        /\ inters' = inters /\ todo' = todo
    BY <1>5 DEF Against
  <2>2. loop' = Passed(loop, i)
    BY <1>5, ListActions
  <2>3. fun \in Fun /\ fun \notin left /\ loop # NoLoop
    BY <1>0 DEF Phases, NoLoop
  <2>4. PICK c \in Taken : Sharp(inters[fun], Taken \ {c}) /\ SharpLoop(loop, inters[fun], c)
    BY <1>0, <2>3 DEF SharpCut
  <2>5. PICK list, l : list = inters[fun] /\ l = loop
    OBVIOUS
  <2>6. SharpLoop(l, list, c) /\ l \in Loop /\ Disjoint(list) /\ i \in l.rest
    BY <1>0, <2>4, <2>5 DEF Sharp
  <2>7. SharpLoop(Passed(l, i), list, c)
    BY ONLY <2>6, SharpLoopStep
  <2>8. Taken' = Taken
    BY <2>1 DEF Taken
  <2>9. SharpCut'
    BY <2>1, <2>2, <2>4, <2>5, <2>7, <2>8 DEF SharpCut
  <2> QED BY <2>1, <2>3, <2>9, IntraFrame
<1>6. CASE Settle
  <2>1. /\ strategy' = strategy /\ sets' = sets /\ left' = left /\ fun' = fun /\ funToMRs' = funToMRs
        /\ todo' = todo /\ loop' = NoLoop /\ (loop.rest = {} \/ loop.copy = {}) /\ fun # None
    BY <1>6 DEF Settle
  <2>2. fun \in Fun /\ fun \notin left /\ SharpCut
    BY <1>0, <2>1
  <2>3. inters' = [inters EXCEPT ![fun] = Result(loop, @)]
    BY <1>0, <1>6, ListActions
  <2>4. Sharp(Result(loop, inters[fun]), Taken)
    BY <2>1, <2>2, SharpSettles
  <2>5. inters'[fun'] = Result(loop, inters[fun]) /\ Taken' = Taken /\ loop' = NoLoop'
    BY <1>0, <2>1, <2>2, <2>3 DEF Taken, NoLoop
  <2>6. SharpCut'
    BY <2>4, <2>5 DEF SharpCut
  <2>7. \A g \in Fun \ {fun} : inters'[g] = inters[g]
    BY <1>0, <2>3
  <2> QED BY <2>1, <2>2, <2>6, <2>7, IntraFrame
<1>7. CASE End
  <2>1. /\ strategy' = strategy /\ sets' = sets /\ left' = left /\ fun' = None /\ inters' = inters
        /\ fun # None /\ todo = {} /\ loop = NoLoop
        /\ funToMRs' = [funToMRs EXCEPT ![fun] = @ \cup inters[fun]]
    BY <1>7 DEF End, CreateMRs
  <2>2. fun \in Fun /\ fun \notin left /\ SharpCut /\ funToMRs[fun] = {} /\ loop.rest = {}
    BY <1>0, <2>1 DEF NoLoop
  <2>3. Sharp(inters[fun], sets[fun])
    <3>1. Taken = sets[fun]
      BY <2>1 DEF Taken
    <3> QED BY <2>1, <2>2, <3>1, SharpSettles
  <2>4. funToMRs'[fun] = inters[fun] /\ \A g \in Fun \ {fun} : funToMRs'[g] = funToMRs[g]
    BY <1>0, <2>1, <2>2
  <2>5. ASSUME NEW g \in Fun
        PROVE  /\ g \in left' => inters'[g] = {} /\ funToMRs'[g] = {}
               /\ g # fun'
               /\ g \notin left' /\ g # fun' => Sharp(inters'[g], sets'[g]) /\ funToMRs'[g] = inters'[g]
    <3>1. CASE g = fun
      BY <1>0, <2>1, <2>2, <2>3, <2>4, <3>1
    <3>2. CASE g # fun
      BY <1>0, <2>1, <2>4, <3>2
    <3> QED BY <3>1, <3>2
  <2> QED BY <2>5 DEF IntraKept
<1>8. CASE CutDone
  <2>1. /\ strategy' = strategy /\ sets' = sets /\ left' = left /\ fun' = fun /\ inters' = inters
        /\ funToMRs' = funToMRs /\ fun = None
    BY <1>8 DEF CutDone
  <2> QED BY <1>0, <2>1 DEF IntraKept
<1>9. CASE UpdateAliasMRs
  <2>1. /\ strategy' = strategy /\ sets' = sets /\ left' = left /\ fun' = fun /\ inters' = inters
        /\ funToMRs' = funToMRs /\ todo' = todo /\ loop' = loop
    BY <1>9 DEF UpdateAliasMRs
  <2>2. SharpCut' <=> SharpCut
    BY <2>1 DEF SharpCut, Taken, NoLoop
  <2> QED BY <1>0, <2>1, <2>2 DEF IntraKept
<1>10. CASE UNCHANGED partitionVars
  <2>1. /\ strategy' = strategy /\ sets' = sets /\ left' = left /\ fun' = fun /\ inters' = inters
        /\ funToMRs' = funToMRs /\ todo' = todo /\ loop' = loop
    BY <1>10 DEF partitionVars
  <2>2. SharpCut' <=> SharpCut
    BY <2>1 DEF SharpCut, Taken, NoLoop
  <2> QED BY <1>0, <2>1, <2>2 DEF IntraKept
<1> QED BY <1>1, <1>2, <1>3, <1>4, <1>5, <1>6, <1>7, <1>8, <1>9, <1>10, PartitionCases

LEMMA MadeSettles ==
  ASSUME PartitionAssumption, PartitionTypes, fun # None, MadeCut
  PROVE  /\ Made(Result(loop, inters[None]), Taken)
         /\ loop = NoLoop => Made(inters[None], Taken)
<1>1. loop = NoLoop => Result(loop, inters[None]) = inters[None]
  BY DEF Result, NoLoop
<1>2. CASE \E c \in Taken : Made(inters[None], Taken \ {c}) /\ MadeLoop(loop, inters[None], c)
  <2>1. PICK c \in Taken : Made(inters[None], Taken \ {c}) /\ MadeLoop(loop, inters[None], c)
    BY <1>2
  <2>2. PICK list, S, l, R : list = inters[None] /\ S = Taken \ {c} /\ l = loop /\ R = Result(loop, inters[None])
    OBVIOUS
  <2>3. Made(list, S) /\ MadeLoop(l, list, c) /\ l \in Loop
    BY <2>1, <2>2 DEF PartitionTypes
  <2>4. Made(Result(l, list), {c}) /\ \A T : Made(list, T) => Made(Result(l, list), T)
    BY ONLY <2>3, MadeLoopEnds
  <2>5. R = Result(l, list)
    BY <2>2
  <2>6. Made(R, {c}) /\ Made(R, S)
    BY ONLY <2>3, <2>4, <2>5
  <2>7. Taken = S \cup {c}
    BY <2>1, <2>2
  <2>8. Made(R, Taken)
    BY <2>6, <2>7 DEF Made
  <2> QED BY <1>1, <2>2, <2>8
<1> QED BY <1>1, <1>2 DEF MadeCut

(* The list of the whole program changes but loses none of the unions. *)
LEMMA InterFrame ==
  ASSUME PartitionTypes, strategy = "inter", InterKept, fun # None, phase = "cut",
         UNCHANGED <<strategy, sets, phase, left, fun, funToMRs>>,
         \A S : Made(inters[None], S) => Made(inters'[None], S), MadeCut'
  PROVE  InterKept'
<1>1. /\ \A f \in Fun : f # fun /\ ~(phase = "cut" /\ f \in left) => Made(inters[None], sets[f])
      /\ \A f \in Fun : funToMRs[f] = {}
  BY DEF InterKept
<1>2. \A f \in Fun : f # fun' /\ ~(phase' = "cut" /\ f \in left') => Made(inters'[None], sets'[f])
  BY <1>1
<1>3. \A f \in Fun : funToMRs'[f] = IF phase' = "cut" \/ f \in left' THEN {} ELSE Contained(f)'
  BY <1>1
<1> QED BY <1>2, <1>3 DEF InterKept

LEMMA InterStep ==
  ASSUME PartitionAssumption, PartitionTypes, Phases, InterKept, [PartitionNext]_partitionVars
  PROVE  InterKept'
<1> SUFFICES ASSUME strategy = "inter" PROVE InterKept'
  BY SettingsKept DEF InterKept
<1>0. /\ \A f \in Fun : f # fun /\ ~(phase = "cut" /\ f \in left) => Made(inters[None], sets[f])
      /\ fun # None => MadeCut
      /\ \A f \in Fun : funToMRs[f] = IF phase = "cut" \/ f \in left THEN {} ELSE Contained(f)
      /\ None \notin Fun /\ fun \in Fun \cup {None} /\ ListOf(fun) = None
      /\ fun # None => phase = "cut"
      /\ inters \in [Fun \cup {None} -> SUBSET Region] /\ loop \in Loop
      /\ todo \subseteq Region /\ (fun # None => todo \subseteq sets[fun])
      /\ funToMRs \in [Fun -> SUBSET memRegSet] /\ left \subseteq Fun
  BY DEF InterKept, PartitionAssumption, PartitionTypes, PartitionTypeOK, ListOf, Phases
<1>1. ASSUME NEW f \in Fun, Begin(f) PROVE InterKept'
  <2>1. /\ fun = None /\ f \in left /\ fun' = f /\ left' = left \ {f} /\ todo' = sets[f] /\ phase = "cut"
        /\ strategy' = strategy /\ sets' = sets /\ inters' = inters /\ loop' = loop /\ funToMRs' = funToMRs
        /\ phase' = phase
    BY <1>1 DEF Begin
  <2>2. loop' = NoLoop' /\ Taken' = {}
    BY <2>1 DEF Phases, Taken, NoLoop
  <2>3. MadeCut'
    BY <2>2 DEF MadeCut, Made
  <2>4. \A g \in Fun : g # fun' /\ ~(phase' = "cut" /\ g \in left') => Made(inters'[None], sets'[g])
    BY <1>0, <2>1
  <2>5. \A g \in Fun : funToMRs'[g] = IF phase' = "cut" \/ g \in left' THEN {} ELSE Contained(g)'
    BY <1>0, <2>1
  <2> QED BY <2>3, <2>4, <2>5 DEF InterKept
<1>2. ASSUME NEW f \in Fun, Create(f) PROVE InterKept'
  <2>1. /\ phase = "create" /\ f \in left /\ left' = left \ {f} /\ fun' = fun
        /\ strategy' = strategy /\ sets' = sets /\ inters' = inters
        /\ funToMRs' = [funToMRs EXCEPT ![f] = @ \cup Contained(f)]
        /\ phase' \in {"create", "alias"} /\ fun = None
    BY <1>0, <1>2 DEF Create, CreateMRs
  <2>2. \A g \in Fun : Contained(g)' = Contained(g)
    BY <2>1 DEF Contained
  <2>3. funToMRs[f] = {}
    BY <1>0, <2>1
  <2>4. ASSUME NEW g \in Fun
        PROVE  funToMRs'[g] = IF phase' = "cut" \/ g \in left' THEN {} ELSE Contained(g)'
    <3>1. CASE g = f
      BY <1>0, <2>1, <2>2, <2>3, <3>1
    <3>2. CASE g # f
      BY <1>0, <2>1, <2>2, <3>2
    <3> QED BY <3>1, <3>2
  <2>5. \A g \in Fun : g # fun' /\ ~(phase' = "cut" /\ g \in left') => Made(inters'[None], sets'[g])
    BY <1>0, <2>1
  <2>6. fun' = None
    BY <2>1
  <2> QED BY <2>4, <2>5, <2>6 DEF InterKept
<1>3. ASSUME NEW f \in Fun, CreateDistinct(f) PROVE InterKept'
  BY <1>3 DEF CreateDistinct
<1>4. ASSUME NEW c \in todo, Take(c) PROVE InterKept'
  <2>1. /\ fun # None /\ loop = NoLoop /\ todo' = todo \ {c} /\ phase' = phase
        /\ strategy' = strategy /\ sets' = sets /\ left' = left /\ fun' = fun /\ funToMRs' = funToMRs
    BY <1>4 DEF Take
  <2>2. phase = "cut" /\ MadeCut
    BY <1>0, <2>1
  <2>3. Made(inters[None], Taken)
    BY <2>1, <2>2, MadeSettles
  <2>4. Taken' = Taken \cup {c} /\ c \notin Taken
    BY <1>0, <2>1 DEF Taken
  <2>5. PICK list, S : list = inters[None] /\ S = Taken
    OBVIOUS
  <2>6. Made(list, S)
    BY <2>3, <2>5
  <2>7. /\ Made(list \cup {c}, S \cup {c})
        /\ \A T : Made(list, T) => Made(list \cup {c}, T)
        /\ c \in list => Made(list, S \cup {c})
    BY ONLY <2>6, MadeMore
  <2>8. CASE Skip(c, list)
    <3>1. inters' = inters /\ loop' = loop
      BY <1>0, <1>4, <2>5, <2>8 DEF Take
    <3>2. loop' = NoLoop' /\ Made(inters'[None], Taken')
      BY <2>1, <2>4, <2>5, <2>7, <2>8, <3>1 DEF NoLoop, Skip
    <3>3. MadeCut'
      BY <3>2 DEF MadeCut
    <3> QED BY <2>1, <2>2, <3>1, <3>3, InterFrame
  <2>9. CASE ~Skip(c, list) /\ Single(c)
    <3>1. inters' = [inters EXCEPT ![None] = @ \cup {c}] /\ loop' = loop
      BY <1>0, <1>4, <2>5, <2>9 DEF Take
    <3>2. inters'[None] = list \cup {c}
      BY <1>0, <2>5, <3>1
    <3>3. loop' = NoLoop' /\ Made(inters'[None], Taken')
      BY <2>1, <2>4, <2>5, <2>7, <3>1, <3>2 DEF NoLoop
    <3>4. MadeCut'
      BY <3>3 DEF MadeCut
    <3>5. \A T : Made(inters[None], T) => Made(inters'[None], T)
      BY <2>5, <2>7, <3>2
    <3> QED BY <2>1, <2>2, <3>4, <3>5, InterFrame
  <2>10. CASE ~Skip(c, list) /\ ~Single(c)
    <3>1. inters' = inters /\ loop' = [rest |-> list, copy |-> c, del |-> {}, new |-> {}]
      BY <1>0, <1>4, <2>5, <2>10 DEF Take
    <3>2. MadeLoop(loop', inters'[None], c)
      BY <2>5, <3>1, MadeLoopStarts
    <3>3. c \in Taken' /\ Made(inters'[None], Taken' \ {c})
      <4>1. Taken' \ {c} = Taken
        BY <2>4
      <4> QED BY <2>3, <2>4, <3>1, <4>1
    <3>4. MadeCut'
      BY <3>2, <3>3 DEF MadeCut
    <3> QED BY <2>1, <2>2, <3>1, <3>4, InterFrame
  <2> QED BY <2>8, <2>9, <2>10
<1>5. ASSUME NEW i \in loop.rest, Against(i) PROVE InterKept'
  <2>1. /\ strategy' = strategy /\ sets' = sets /\ left' = left /\ fun' = fun /\ funToMRs' = funToMRs
        /\ inters' = inters /\ todo' = todo /\ phase' = phase
    BY <1>5 DEF Against
  <2>2. loop' = Passed(loop, i)
    BY <1>5, ListActions
  <2>3. fun # None /\ phase = "cut" /\ loop # NoLoop
    BY <1>0 DEF Phases, NoLoop
  <2>4. PICK c \in Taken : Made(inters[None], Taken \ {c}) /\ MadeLoop(loop, inters[None], c)
    BY <1>0, <2>3 DEF MadeCut
  <2>5. PICK list, l : list = inters[None] /\ l = loop
    OBVIOUS
  <2>6. MadeLoop(l, list, c) /\ l \in Loop /\ i \in l.rest
    BY <1>0, <2>4, <2>5
  <2>7. MadeLoop(Passed(l, i), list, c)
    BY ONLY <2>6, MadeLoopStep
  <2>8. Taken' = Taken
    BY <2>1 DEF Taken
  <2>9. MadeCut'
    BY <2>1, <2>2, <2>4, <2>5, <2>7, <2>8 DEF MadeCut
  <2> QED BY <2>1, <2>3, <2>9, InterFrame
<1>6. CASE Settle
  <2>1. /\ strategy' = strategy /\ sets' = sets /\ left' = left /\ fun' = fun /\ funToMRs' = funToMRs
        /\ todo' = todo /\ loop' = NoLoop /\ fun # None /\ loop # NoLoop /\ phase' = phase
    BY <1>6 DEF Settle
  <2>2. inters' = [inters EXCEPT ![None] = Result(loop, @)]
    BY <1>0, <1>6, ListActions
  <2>3. inters'[None] = Result(loop, inters[None]) /\ Taken' = Taken /\ loop' = NoLoop'
    BY <1>0, <2>1, <2>2 DEF Taken, NoLoop
  <2>4. MadeCut /\ phase = "cut"
    BY <1>0, <2>1
  <2>5. Made(Result(loop, inters[None]), Taken)
    BY <2>1, <2>4, MadeSettles
  <2>6. MadeCut'
    BY <2>3, <2>5 DEF MadeCut
  <2>7. ASSUME NEW S, Made(inters[None], S) PROVE Made(inters'[None], S)
    <3>1. PICK c \in Taken : MadeLoop(loop, inters[None], c)
      BY <2>1, <2>4 DEF MadeCut
    <3>2. PICK list, l : list = inters[None] /\ l = loop
      OBVIOUS
    <3>3. MadeLoop(l, list, c) /\ l \in Loop /\ Made(list, S)
      BY <1>0, <2>7, <3>1, <3>2
    <3>4. \A T : Made(list, T) => Made(Result(l, list), T)
      BY ONLY <3>3, MadeLoopEnds
    <3>5. Result(l, list) = inters'[None]
      BY <2>3, <3>2
    <3> QED BY <3>3, <3>4, <3>5
  <2> QED BY <2>1, <2>4, <2>6, <2>7, InterFrame
<1>7. CASE End
  <2>1. /\ strategy' = strategy /\ sets' = sets /\ left' = left /\ fun' = None /\ inters' = inters
        /\ fun # None /\ todo = {} /\ loop = NoLoop /\ funToMRs' = funToMRs /\ phase' = phase
    BY <1>7 DEF End
  <2>2. phase = "cut" /\ MadeCut
    BY <1>0, <2>1
  <2>3. Made(inters[None], sets[fun])
    <3>1. Taken = sets[fun]
      BY <2>1 DEF Taken
    <3> QED BY <2>1, <2>2, <3>1, MadeSettles
  <2>4. \A g \in Fun : g # fun' /\ ~(phase' = "cut" /\ g \in left') => Made(inters'[None], sets'[g])
    BY <1>0, <2>1, <2>3
  <2>5. \A g \in Fun : funToMRs'[g] = IF phase' = "cut" \/ g \in left' THEN {} ELSE Contained(g)'
    BY <1>0, <2>1, <2>2
  <2> QED BY <2>1, <2>4, <2>5 DEF InterKept
<1>8. CASE CutDone
  <2>1. /\ strategy' = strategy /\ sets' = sets /\ fun' = fun /\ inters' = inters
        /\ funToMRs' = funToMRs /\ fun = None /\ left = {} /\ phase = "cut" /\ phase' = "create" /\ left' = Fun
    BY <1>8 DEF CutDone
  <2>2. \A g \in Fun : g # fun' /\ ~(phase' = "cut" /\ g \in left') => Made(inters'[None], sets'[g])
    BY <1>0, <2>1
  <2>3. \A g \in Fun : funToMRs'[g] = IF phase' = "cut" \/ g \in left' THEN {} ELSE Contained(g)'
    BY <1>0, <2>1
  <2> QED BY <2>1, <2>2, <2>3 DEF InterKept
<1>9. CASE UpdateAliasMRs
  <2>1. /\ strategy' = strategy /\ sets' = sets /\ left' = left /\ fun' = fun /\ inters' = inters
        /\ funToMRs' = funToMRs /\ phase = "alias" /\ phase' = "done" /\ fun = None
    BY <1>0, <1>9 DEF UpdateAliasMRs
  <2>2. \A g \in Fun : Contained(g)' = Contained(g)
    BY <2>1 DEF Contained
  <2>3. \A g \in Fun : g # fun' /\ ~(phase' = "cut" /\ g \in left') => Made(inters'[None], sets'[g])
    BY <1>0, <2>1
  <2>4. \A g \in Fun : funToMRs'[g] = IF phase' = "cut" \/ g \in left' THEN {} ELSE Contained(g)'
    BY <1>0, <2>1, <2>2
  <2> QED BY <2>1, <2>3, <2>4 DEF InterKept
<1>10. CASE UNCHANGED partitionVars
  <2>1. /\ strategy' = strategy /\ sets' = sets /\ left' = left /\ fun' = fun /\ inters' = inters
        /\ funToMRs' = funToMRs /\ todo' = todo /\ loop' = loop /\ phase' = phase
    BY <1>10 DEF partitionVars
  <2>2. MadeCut' <=> MadeCut
    BY <2>1 DEF MadeCut, Taken, NoLoop
  <2>3. \A g \in Fun : Contained(g)' = Contained(g)
    BY <2>1 DEF Contained
  <2>4. \A g \in Fun : g # fun' /\ ~(phase' = "cut" /\ g \in left') => Made(inters'[None], sets'[g])
    BY <1>0, <2>1
  <2>5. \A g \in Fun : funToMRs'[g] = IF phase' = "cut" \/ g \in left' THEN {} ELSE Contained(g)'
    BY <1>0, <2>1, <2>3
  <2> QED BY <1>0, <2>1, <2>2, <2>4, <2>5 DEF InterKept
<1> QED BY <1>1, <1>2, <1>3, <1>4, <1>5, <1>6, <1>7, <1>8, <1>9, <1>10, PartitionCases

LEMMA DistinctStep ==
  ASSUME PartitionTypes, Phases, DistinctKept, [PartitionNext]_partitionVars
  PROVE  DistinctKept'
<1> SUFFICES ASSUME strategy = "distinct" PROVE DistinctKept'
  BY SettingsKept DEF DistinctKept
<1>0. /\ \A f \in Fun : funToMRs[f] = IF f \in left THEN {} ELSE {{o} : o \in UNION sets[f]}
      /\ fun = None /\ loop = NoLoop /\ phase # "create" /\ funToMRs \in [Fun -> SUBSET memRegSet]
  BY DEF DistinctKept, Phases, PartitionTypes, PartitionTypeOK
<1>1. ASSUME NEW f \in Fun, Begin(f) PROVE DistinctKept'
  BY <1>1 DEF Begin
<1>2. ASSUME NEW f \in Fun, Create(f) PROVE DistinctKept'
  BY <1>0, <1>2 DEF Create
<1>3. ASSUME NEW f \in Fun, CreateDistinct(f) PROVE DistinctKept'
  <2>1. /\ f \in left /\ left' = left \ {f} /\ sets' = sets
        /\ funToMRs' = [funToMRs EXCEPT ![f] = @ \cup {{o} : o \in UNION sets[f]}]
    BY <1>3 DEF CreateDistinct, CreateMRs
  <2>2. ASSUME NEW g \in Fun PROVE funToMRs'[g] = IF g \in left' THEN {} ELSE {{o} : o \in UNION sets'[g]}
    <3>1. CASE g = f
      BY <1>0, <2>1, <3>1
    <3>2. CASE g # f
      BY <1>0, <2>1, <3>2
    <3> QED BY <3>1, <3>2
  <2> QED BY <2>2 DEF DistinctKept
<1>4. ASSUME NEW c \in todo, Take(c) PROVE DistinctKept'
  BY <1>0, <1>4 DEF Take
<1>5. ASSUME NEW i \in loop.rest, Against(i) PROVE DistinctKept'
  BY <1>0, <1>5 DEF NoLoop
<1>6. CASE Settle
  BY <1>0, <1>6 DEF Settle
<1>7. CASE End
  BY <1>0, <1>7 DEF End
<1>8. CASE CutDone
  BY <1>0, <1>8 DEF CutDone
<1>9. CASE UpdateAliasMRs
  BY <1>0, <1>9 DEF UpdateAliasMRs, DistinctKept
<1>10. CASE UNCHANGED partitionVars
  BY <1>0, <1>10 DEF partitionVars, DistinctKept
<1> QED BY <1>1, <1>2, <1>3, <1>4, <1>5, <1>6, <1>7, <1>8, <1>9, <1>10, PartitionCases

LEMMA AnsweredStep ==
  ASSUME PartitionTypes, Phases, Answered, [PartitionNext]_partitionVars
  PROVE  Answered'
<1>0. \A f, c : /\ UNCHANGED funToMRs => AliasMRs(f, c)' = AliasMRs(f, c)
                /\ UNCHANGED <<strategy, inters>> => MRsForLoad(f, c)' = MRsForLoad(f, c)
  BY DEF AliasMRs, MRsForLoad, ListOf
<1>1. ASSUME NEW f \in Fun, Begin(f) PROVE Answered'
  BY <1>1 DEF Begin, Answered
<1>2. ASSUME NEW f \in Fun, Create(f) PROVE Answered'
  BY <1>2 DEF Create, Answered
<1>3. ASSUME NEW f \in Fun, CreateDistinct(f) PROVE Answered'
  BY <1>3 DEF CreateDistinct, Answered
<1>4. ASSUME NEW c \in todo, Take(c) PROVE Answered'
  BY <1>4 DEF Take, Phases, Answered
<1>5. ASSUME NEW i \in loop.rest, Against(i) PROVE Answered'
  <2>1. loop # NoLoop
    BY DEF NoLoop
  <2> QED BY <1>5, <2>1 DEF Against, Phases, Answered
<1>6. CASE Settle
  BY <1>6 DEF Settle, Phases, Answered
<1>7. CASE End
  BY <1>7 DEF End, Phases, Answered
<1>8. CASE CutDone
  BY <1>8 DEF CutDone, Answered
<1>9. CASE UpdateAliasMRs
  <2>1. /\ UNCHANGED <<strategy, sets, inters, funToMRs>>
        /\ stores' = [f \in Fun |-> [c \in sets[f] |-> AliasMRs(f, c)]]
        /\ loads' = [f \in Fun |-> [c \in sets[f] |-> MRsForLoad(f, c)]]
    BY <1>9 DEF UpdateAliasMRs
  <2> QED BY <1>0, <2>1 DEF Answered
<1>10. CASE UNCHANGED partitionVars
  <2>1. UNCHANGED <<strategy, sets, inters, funToMRs, stores, loads, phase>>
    BY <1>10 DEF partitionVars
  <2> QED BY <1>0, <2>1 DEF Answered
<1> QED BY <1>1, <1>2, <1>3, <1>4, <1>5, <1>6, <1>7, <1>8, <1>9, <1>10, PartitionCases

LEMMA PartitionInvInit ==
  ASSUME PartitionAssumption, PartitionInit
  PROVE  PartitionInv
<1>1. /\ strategy \in Kinds /\ sets \in [Fun -> SUBSET Region]
      /\ phase = "cut" /\ left = Fun /\ fun = None /\ todo = {} /\ loop = NoLoop
      /\ inters = [f \in Fun \cup {None} |-> {}] /\ memRegSet = {} /\ funToMRs = [f \in Fun |-> {}]
      /\ stores = [f \in Fun |-> [c \in {} |-> {}]] /\ None \notin Fun
  BY DEF PartitionInit, PartitionAssumption, Region, Kinds
<1>2. PartitionTypes
  BY <1>1 DEF PartitionTypes, PartitionTypeOK, NoLoop, Loop
<1>3. Phases /\ SmallFirst /\ Answered
  BY <1>1 DEF Phases, SmallFirst, Answered
<1>4. IntraKept /\ InterKept /\ DistinctKept
  BY <1>1 DEF IntraKept, InterKept, DistinctKept
<1> QED BY <1>2, <1>3, <1>4 DEF PartitionInv

(* Where the answers are right when they are given. *)
LEMMA LoadsAreExact ==
  ASSUME PartitionAssumption, PartitionInv, phase = "done", NEW f \in Fun, NEW c \in sets[f]
  PROVE  /\ loads[f][c] \subseteq memRegSet \cap funToMRs[f] /\ UNION loads[f][c] = c
         /\ stores[f][c] = AliasMRs(f, c)
<1>1. loads[f][c] = MRsForLoad(f, c) /\ stores[f][c] = AliasMRs(f, c)
  BY DEF PartitionInv, Answered
<1>2. fun = None /\ left = {} /\ funToMRs[f] \subseteq memRegSet /\ strategy \in Kinds /\ None \notin Fun
  BY DEF PartitionInv, Phases, PartitionTypes, PartitionTypeOK, PartitionAssumption
<1>3. CASE strategy = "distinct"
  <2>1. MRsForLoad(f, c) = {{o} : o \in c}
    BY <1>3 DEF MRsForLoad
  <2>2. funToMRs[f] = {{o} : o \in UNION sets[f]}
    BY <1>2, <1>3 DEF PartitionInv, DistinctKept
  <2> QED BY <1>1, <1>2, <2>1, <2>2
<1>4. CASE strategy = "intra"
  <2>1. MRsForLoad(f, c) = {i \in inters[f] : i \subseteq c}
    BY <1>4 DEF MRsForLoad, ListOf
  <2>2. funToMRs[f] = inters[f] /\ Sharp(inters[f], sets[f])
    BY <1>2, <1>4 DEF PartitionInv, IntraKept
  <2>3. Made(inters[f], sets[f])
    BY <2>2, SharpIsMade
  <2> QED BY <1>1, <1>2, <2>1, <2>2, <2>3 DEF Made
<1>5. CASE strategy = "inter"
  <2>1. MRsForLoad(f, c) = {i \in inters[None] : i \subseteq c}
    BY <1>5 DEF MRsForLoad, ListOf
  <2>2. funToMRs[f] = Contained(f) /\ Made(inters[None], sets[f])
    BY <1>2, <1>5 DEF PartitionInv, InterKept
  <2>3. MRsForLoad(f, c) \subseteq Contained(f)
    BY <2>1 DEF Contained
  <2> QED BY <1>1, <1>2, <2>1, <2>2, <2>3 DEF Made
<1> QED BY <1>2, <1>3, <1>4, <1>5 DEF Kinds

LEMMA PartitionInvImplies ==
  ASSUME PartitionAssumption, PartitionInv
  PROVE  RegionsCorrect
<1>1. PartitionTypeOK
  BY DEF PartitionInv, PartitionTypes
<1>2. DisjointInFunction
  <2> SUFFICES ASSUME strategy # "inter", NEW f \in Fun PROVE Disjoint(funToMRs[f])
    BY DEF DisjointInFunction
  <2>1. CASE strategy = "distinct"
    <3>1. funToMRs[f] = IF f \in left THEN {} ELSE {{o} : o \in UNION sets[f]}
      BY <2>1 DEF PartitionInv, DistinctKept
    <3> QED BY <3>1 DEF Disjoint
  <2>2. CASE strategy = "intra"
    <3>1. funToMRs[f] = {} \/ Disjoint(funToMRs[f])
      BY <2>2 DEF PartitionInv, IntraKept, Sharp
    <3> QED BY <3>1 DEF Disjoint
  <2> QED BY <2>1, <2>2 DEF PartitionInv, PartitionTypes, Kinds
<1>3. LoadsExact
  BY LoadsAreExact DEF LoadsExact
<1>4. StoresMeetLoads
  <2> SUFFICES ASSUME phase = "done", NEW f \in Fun, NEW c \in sets[f], NEW d \in sets[f], NEW o \in c \cap d
               PROVE  \E r \in stores[f][c] \cap loads[f][d] : o \in r
    BY DEF StoresMeetLoads
  <2>1. loads[f][d] \subseteq funToMRs[f] /\ UNION loads[f][d] = d /\ stores[f][c] = AliasMRs(f, c)
    BY LoadsAreExact
  <2>2. PICK r \in loads[f][d] : o \in r
    BY <2>1
  <2>3. r \in stores[f][c]
    BY <2>1, <2>2 DEF AliasMRs
  <2> QED BY <2>2, <2>3
<1>5. RegionsAreClasses
  <2> SUFFICES ASSUME strategy = "intra", phase = "done", NEW f \in Fun
               PROVE  /\ UNION funToMRs[f] = UNION sets[f]
                      /\ \A o, p \in UNION sets[f] :
                           Together(f, o, p) <=> \E r \in funToMRs[f] : {o, p} \subseteq r
    BY DEF RegionsAreClasses
  <2>1. fun = None /\ left = {} /\ None \notin Fun
    BY DEF PartitionInv, Phases, PartitionAssumption
  <2>2. funToMRs[f] = inters[f] /\ Sharp(inters[f], sets[f])
    BY <2>1 DEF PartitionInv, IntraKept
  <2>3. \A o, p : Together(f, o, p) <=> SameSets(sets[f], o, p)
    BY DEF Together, SameSets
  <2>4. UNION funToMRs[f] = UNION sets[f]
    BY <2>2 DEF Sharp
  <2>5. ASSUME NEW o \in UNION sets[f], NEW p \in UNION sets[f]
        PROVE  Together(f, o, p) <=> \E r \in funToMRs[f] : {o, p} \subseteq r
    <3>1. SameSets(sets[f], o, p) <=> \E r \in inters[f] : o \in r /\ p \in r
      BY <2>2 DEF Sharp
    <3>2. Together(f, o, p) <=> SameSets(sets[f], o, p)
      BY <2>3
    <3> QED BY <2>2, <3>1, <3>2
  <2> QED BY <2>4, <2>5
<1> QED BY <1>1, <1>2, <1>3, <1>4, <1>5 DEF RegionsCorrect

(* The regions of a function do not overlap unless they are those of the whole
   program, they make up the objects of each load, a store and a load of the
   same object meet in one, and cut per function they are the classes of the
   objects that no access tells apart: for every finite set of objects, every
   set of functions and accesses and each of the three strategies, whatever
   the order of the functions (MRGenerator, IntraDisjointMRG, InterDisjointMRG,
   DistinctMRG). *)
THEOREM RegionsAreCorrect ==
  ASSUME PartitionAssumption
  PROVE  PartitionSpec => []RegionsCorrect
<1>1. PartitionInit => PartitionInv
  BY PartitionInvInit
<1>2. PartitionInv /\ [PartitionNext]_partitionVars => PartitionInv'
  <2> SUFFICES ASSUME PartitionInv, [PartitionNext]_partitionVars PROVE PartitionInv'
    OBVIOUS
  <2>1. PartitionTypes' /\ Phases' /\ SmallFirst'
    BY PartitionTypesStep, PhasesStep, SmallFirstStep DEF PartitionInv
  <2>2. IntraKept'
    BY IntraStep DEF PartitionInv
  <2>3. InterKept'
    BY InterStep DEF PartitionInv
  <2>4. DistinctKept' /\ Answered'
    BY DistinctStep, AnsweredStep DEF PartitionInv
  <2> QED BY <2>1, <2>2, <2>3, <2>4 DEF PartitionInv
<1>3. PartitionInv => RegionsCorrect
  BY PartitionInvImplies
<1> QED BY <1>1, <1>2, <1>3, PTL DEF PartitionSpec
=============================================================================
