-------------------------- MODULE Increment_proofs --------------------------
(***************************************************************************)
(* What surrounds a round of the incremental analysis, for every program   *)
(* and any number of rounds: the call graph that follows the function      *)
(* pointers, the drivers that divide a program into rounds, and the way    *)
(* from a difference of sources to changed edges.                          *)
(***************************************************************************)
EXTENDS CallGraphInc, RoundDriver, ChangeSet, Iteration_proofs, SequenceTheorems

(***************************************************************************)
(* The call graph that follows the function pointers, for every program    *)
(* and any number of rounds: nothing goes beyond the exhaustive analysis,  *)
(* no impossible call and no parameter copy of one outlives deletion, and  *)
(* where no copy serves two calls, what is deleted and inserted again      *)
(* leaves what the exhaustive analysis computes.                           *)
(***************************************************************************)

(* Points-to sets of all nodes, the statements, and the facts <<node, object>>. *)
Assignment == [Node -> SUBSET Obj]
Statement == Addrs \cup Copies
Fact == Node \X Obj

(* p points to no more than q. *)
Below(p, q) == \A n \in Node : p[n] \subseteq q[n]

(* Nothing is left to propagate. *)
Closed(E, q) ==
  \A e \in E : IF e.kind = "Addr" THEN e.src \in q[e.dst] ELSE q[e.src] \subseteq q[e.dst]

-----------------------------------------------------------------------------
(* The closure of an assignment *)

(* Flow as a function on sets of facts. *)
Spread(E) == [F \in SUBSET Fact |-> Flow(E, F)]

(* What a statement is. *)
LEMMA StatementFacts ==
  ASSUME NEW e \in Statement
  PROVE  /\ e.dst \in Node /\ e.kind \in {"Addr", "Copy"}
         /\ e.kind = "Addr" => e.src \in Obj
         /\ e.kind # "Addr" => e.src \in Node /\ e.kind = "Copy"
BY DEF Statement, Addrs, Copies

(* The facts of an assignment, and the assignment of facts. *)
LEMMA FactsOf ==
  ASSUME NEW p \in Assignment
  PROVE  /\ Facts(p) \in SUBSET Fact
         /\ \A n \in Node : \A o : <<n, o>> \in Facts(p) <=> o \in p[n]
BY DEF Facts, Assignment, Fact

(* Assignments and sets of facts say the same. *)
LEMMA HoldingOf ==
  ASSUME NEW F \in SUBSET Fact
  PROVE  /\ Holding(F) \in Assignment
         /\ \A n \in Node : \A o : o \in Holding(F)[n] <=> <<n, o>> \in F
<1>1. \A x \in F : x[1] \in Node /\ x[2] \in Obj /\ x = <<x[1], x[2]>>
  BY DEF Fact
<1>2. \A n \in Node : Holding(F)[n] = {x[2] : x \in {y \in F : y[1] = n}}
  BY DEF Holding
<1>3. ASSUME NEW n \in Node, NEW o PROVE o \in Holding(F)[n] <=> <<n, o>> \in F
  BY <1>1, <1>2
<1>4. \A n \in Node : Holding(F)[n] \in SUBSET Obj
  BY <1>1, <1>2
<1>5. Holding(F) \in Assignment
  BY <1>4 DEF Holding, Assignment
<1> QED BY <1>3, <1>5

(* What one application of the statements adds. *)
LEMMA FlowFacts ==
  ASSUME NEW E \in SUBSET Statement, NEW F \in SUBSET Fact
  PROVE  /\ Flow(E, F) \in SUBSET Fact
         /\ \A n, o : <<n, o>> \in Flow(E, F) <=>
              \/ <<n, o>> \in F
              \/ \E e \in E : e.kind = "Addr" /\ e.dst = n /\ e.src = o
              \/ \E e \in E : e.kind = "Copy" /\ e.dst = n /\ <<e.src, o>> \in F
<1> DEFINE A == {<<e.dst, e.src>> : e \in {x \in E : x.kind = "Addr"}}
           C == {<<x[1].dst, x[2][2]>> : x \in {y \in E \X F : y[1].kind = "Copy" /\ y[1].src = y[2][1]}}
<1>1. \A x \in F : x[1] \in Node /\ x[2] \in Obj /\ x = <<x[1], x[2]>>
  BY DEF Fact
<1>2. ASSUME NEW n, NEW o
      PROVE  <<n, o>> \in C <=> \E e \in E : e.kind = "Copy" /\ e.dst = n /\ <<e.src, o>> \in F
  <2>1. ASSUME NEW x \in E \X F, x[1].kind = "Copy", x[1].src = x[2][1], <<n, o>> = <<x[1].dst, x[2][2]>>
        PROVE  \E e \in E : e.kind = "Copy" /\ e.dst = n /\ <<e.src, o>> \in F
    <3>1. x[1] \in E /\ x[2] \in F /\ x[2] = <<x[1].src, o>>
      BY <1>1, <2>1
    <3> QED BY <2>1, <3>1
  <2>2. ASSUME NEW e \in E, e.kind = "Copy", e.dst = n, <<e.src, o>> \in F
        PROVE  <<n, o>> \in C
    <3> DEFINE x == <<e, <<e.src, o>>>>
    <3>1. x \in {y \in E \X F : y[1].kind = "Copy" /\ y[1].src = y[2][1]}
      BY <2>2
    <3>2. <<n, o>> = <<x[1].dst, x[2][2]>>
      BY <2>2
    <3> QED BY <3>1, <3>2
  <2> QED BY <2>1, <2>2
<1>3. \A n, o : <<n, o>> \in A <=> \E e \in E : e.kind = "Addr" /\ e.dst = n /\ e.src = o
  OBVIOUS
<1>4. \A x \in E \X F : x[1] \in Statement /\ x[2][2] \in Obj
  BY <1>1
<1>5. Flow(E, F) \in SUBSET Fact
  BY <1>4, StatementFacts DEF Flow, Fact
<1>6. Flow(E, F) = (F \cup A) \cup C
  BY DEF Flow
<1> HIDE DEF A, C
<1>7. \A n, o : <<n, o>> \in Flow(E, F) <=> <<n, o>> \in F \/ <<n, o>> \in A \/ <<n, o>> \in C
  BY <1>6
<1>8. ASSUME NEW n, NEW o
      PROVE  <<n, o>> \in Flow(E, F) <=>
              \/ <<n, o>> \in F
              \/ \E e \in E : e.kind = "Addr" /\ e.dst = n /\ e.src = o
              \/ \E e \in E : e.kind = "Copy" /\ e.dst = n /\ <<e.src, o>> \in F
  <2>1. <<n, o>> \in C <=> \E e \in E : e.kind = "Copy" /\ e.dst = n /\ <<e.src, o>> \in F
    BY <1>2
  <2>2. <<n, o>> \in A <=> \E e \in E : e.kind = "Addr" /\ e.dst = n /\ e.src = o
    BY <1>3
  <2>3. <<n, o>> \in Flow(E, F) <=> <<n, o>> \in F \/ <<n, o>> \in A \/ <<n, o>> \in C
    BY <1>7
  <2> QED BY <2>1, <2>2, <2>3
<1> QED BY <1>5, <1>8

(* Flow adds facts, and more of them to more facts. *)
LEMMA SpreadGrows ==
  ASSUME NEW E \in SUBSET Statement
  PROVE  /\ Spread(E) \in [SUBSET Fact -> SUBSET Fact]
         /\ \A F \in SUBSET Fact : F \subseteq Spread(E)[F]
         /\ \A F, G \in SUBSET Fact : F \subseteq G => Spread(E)[F] \subseteq Spread(E)[G]
<1>1. Spread(E) \in [SUBSET Fact -> SUBSET Fact]
  BY FlowFacts DEF Spread
<1>2. \A F \in SUBSET Fact : Spread(E)[F] = Flow(E, F) /\ F \subseteq Flow(E, F)
  BY DEF Spread, Flow
<1>3. ASSUME NEW F \in SUBSET Fact, NEW G \in SUBSET Fact, F \subseteq G
      PROVE  Flow(E, F) \subseteq Flow(E, G)
  <2>1. ASSUME NEW n \in Node, NEW o \in Obj, <<n, o>> \in Flow(E, F) PROVE <<n, o>> \in Flow(E, G)
    <3>1. \/ <<n, o>> \in F
          \/ \E e \in E : e.kind = "Addr" /\ e.dst = n /\ e.src = o
          \/ \E e \in E : e.kind = "Copy" /\ e.dst = n /\ <<e.src, o>> \in F
      BY <2>1, FlowFacts
    <3>2. \/ <<n, o>> \in G
          \/ \E e \in E : e.kind = "Addr" /\ e.dst = n /\ e.src = o
          \/ \E e \in E : e.kind = "Copy" /\ e.dst = n /\ <<e.src, o>> \in G
      BY <1>3, <3>1
    <3> QED BY <3>2, FlowFacts
  <2>2. Flow(E, F) \in SUBSET Fact
    BY FlowFacts
  <2> QED BY <2>1, <2>2 DEF Fact
<1> QED BY <1>1, <1>2, <1>3

(* The recursion of Closure ends with the least closed set of facts. *)
LEMMA ClosureIs ==
  ASSUME IsFiniteSet(Fact), NEW E \in SUBSET Statement, NEW p \in Assignment
  PROVE  \E R : Closure(E, p) = Holding(R) /\ LeastClosed(R, Fact, Spread(E), Facts(p))
<1> DEFINE F == Spread(E)
           a == Facts(p)
           f == CHOOSE g : Recurses(g, Fact, F)
<1>1. /\ F \in [SUBSET Fact -> SUBSET Fact] /\ \A S \in SUBSET Fact : S \subseteq F[S]
      /\ \A S, T \in SUBSET Fact : S \subseteq T => F[S] \subseteq F[T]
  BY SpreadGrows
<1>2. a \in SUBSET Fact
  BY FactsOf
<1>3. Closure(E, p) = Holding(f[a])
  <2> DEFINE Step(g) == [S \in SUBSET Fact |-> IF F[S] = S THEN S ELSE g[F[S]]]
             step(g) == [S \in SUBSET (Node \X Obj) |-> LET next == Flow(E, S)
                                                       IN  IF next = S THEN S ELSE g[next]]
  <2>1. \A g : Step(g) = step(g)
    BY DEF Fact, Spread
  <2>2. Closure(E, p) = Holding((CHOOSE g : g = step(g))[a])
    BY DEF Closure
  <2>3. f = CHOOSE g : g = Step(g)
    BY DEF Recurses
  <2>4. (CHOOSE g : g = Step(g)) = (CHOOSE g : g = step(g))
    <3> HIDE DEF Step, step
    <3> QED BY <2>1
  <2> HIDE DEF Step, step, f, a
  <2> QED BY <2>2, <2>3, <2>4
<1> HIDE DEF F, a
<1>4. Recurses(f, Fact, F)
  <2>1. \E g : Recurses(g, Fact, F)
    BY <1>1, RecursionExists
  <2> QED BY <2>1
<1> HIDE DEF f
<1>5. LeastClosed(f[a], Fact, F, a)
  BY <1>1, <1>2, <1>4, RecursionCloses
<1> QED BY <1>3, <1>5 DEF F, a

(* The closure is an assignment above the one it is of, and below every one
   that is above it and closed. *)
LEMMA ClosureType ==
  ASSUME IsFiniteSet(Fact), NEW E \in SUBSET Statement, NEW p \in Assignment
  PROVE  Closure(E, p) \in Assignment /\ Below(p, Closure(E, p))
<1>1. PICK R : Closure(E, p) = Holding(R) /\ LeastClosed(R, Fact, Spread(E), Facts(p))
  BY ClosureIs
<1>2. R \in SUBSET Fact /\ Facts(p) \subseteq R
  BY <1>1 DEF LeastClosed
<1>3. \A n \in Node : p[n] \subseteq Closure(E, p)[n]
  BY <1>1, <1>2, FactsOf, HoldingOf
<1> QED BY <1>1, <1>2, <1>3, HoldingOf DEF Below

(* Closure adds to an assignment only what every closed assignment above it has. *)
LEMMA ClosureLeast ==
  ASSUME IsFiniteSet(Fact), NEW E \in SUBSET Statement, NEW p \in Assignment,
         NEW q \in Assignment, Below(p, q), Closed(E, q)
  PROVE  Below(Closure(E, p), q)
<1>1. Facts(p) \subseteq Facts(q) /\ Facts(q) \in SUBSET Fact
  <2>1. \A x \in Facts(p) : x[1] \in Node /\ x = <<x[1], x[2]>>
    BY FactsOf DEF Fact
  <2> QED BY <2>1, FactsOf DEF Below
<1>2. ASSUME NEW F \in SUBSET Fact, F \subseteq Facts(q) PROVE Spread(E)[F] \subseteq Facts(q)
  <2>1. Spread(E)[F] = Flow(E, F) /\ Flow(E, F) \in SUBSET Fact
    BY FlowFacts DEF Spread
  <2>2. ASSUME NEW n \in Node, NEW o \in Obj, <<n, o>> \in Flow(E, F) PROVE <<n, o>> \in Facts(q)
    <3>1. CASE <<n, o>> \in F
      BY <1>2, <3>1
    <3>2. CASE \E e \in E : e.kind = "Addr" /\ e.dst = n /\ e.src = o
      BY <3>2, FactsOf DEF Closed
    <3>3. CASE \E e \in E : e.kind = "Copy" /\ e.dst = n /\ <<e.src, o>> \in F
      <4>1. PICK e \in E : e.kind = "Copy" /\ e.dst = n /\ <<e.src, o>> \in F
        BY <3>3
      <4>2. e.src \in Node /\ o \in q[e.src]
        BY <1>2, <4>1, StatementFacts, FactsOf
      <4>3. o \in q[n]
        BY <4>1, <4>2 DEF Closed
      <4> QED BY <4>3, FactsOf
    <3>4. \/ <<n, o>> \in F
          \/ \E e \in E : e.kind = "Addr" /\ e.dst = n /\ e.src = o
          \/ \E e \in E : e.kind = "Copy" /\ e.dst = n /\ <<e.src, o>> \in F
      BY <2>2, FlowFacts
    <3> QED BY <3>1, <3>2, <3>3, <3>4
  <2>3. \A x \in Flow(E, F) : x \in Facts(q)
    BY <2>1, <2>2 DEF Fact
  <2> QED BY <2>1, <2>3
<1>3. PICK R : Closure(E, p) = Holding(R) /\ LeastClosed(R, Fact, Spread(E), Facts(p))
  BY ClosureIs
<1>4. R \subseteq Facts(q) /\ R \in SUBSET Fact
  BY <1>1, <1>2, <1>3 DEF LeastClosed
<1> QED BY <1>3, <1>4, FactsOf, HoldingOf DEF Below

(* It is closed itself. *)
LEMMA ClosureCloses ==
  ASSUME IsFiniteSet(Fact), NEW E \in SUBSET Statement, NEW p \in Assignment
  PROVE  Closed(E, Closure(E, p))
<1>1. PICK F : Closure(E, p) = Holding(F) /\ LeastClosed(F, Fact, Spread(E), Facts(p))
  BY ClosureIs
<1>2. F \in SUBSET Fact /\ Spread(E)[F] = F
  BY <1>1 DEF LeastClosed
<1>3. Flow(E, F) = F
  BY <1>2 DEF Spread
<1>4. ASSUME NEW e \in E, e.kind = "Addr" PROVE e.src \in Holding(F)[e.dst]
  <2>1. <<e.dst, e.src>> \in F
    BY <1>2, <1>3, <1>4, FlowFacts
  <2> QED BY <1>2, <1>4, <2>1, StatementFacts, HoldingOf
<1>5. ASSUME NEW e \in E, e.kind # "Addr" PROVE Holding(F)[e.src] \subseteq Holding(F)[e.dst]
  <2>1. e.kind = "Copy" /\ e.src \in Node /\ e.dst \in Node
    BY <1>5, StatementFacts
  <2>2. ASSUME NEW o \in Holding(F)[e.src] PROVE o \in Holding(F)[e.dst]
    <3>1. <<e.src, o>> \in F
      BY <1>2, <2>1, <2>2, HoldingOf
    <3>2. <<e.dst, o>> \in F
      BY <1>2, <1>3, <2>1, <3>1, FlowFacts
    <3> QED BY <1>2, <2>1, <3>2, HoldingOf
  <2> QED BY <2>2
<1> QED BY <1>1, <1>4, <1>5 DEF Closed

(* More statements imply more. *)
LEMMA ClosureMonotone ==
  ASSUME IsFiniteSet(Fact), NEW D \in SUBSET Statement, NEW E \in SUBSET D, NEW p \in Assignment
  PROVE  Below(Closure(E, p), Closure(D, p))
<1>1. E \in SUBSET Statement
  OBVIOUS
<1>2. Closure(D, p) \in Assignment /\ Below(p, Closure(D, p)) /\ Closed(D, Closure(D, p))
  BY ClosureType, ClosureCloses
<1>3. Closed(E, Closure(D, p))
  BY <1>2 DEF Closed
<1> QED BY <1>1, <1>2, <1>3, ClosureLeast

-----------------------------------------------------------------------------
(* The exhaustive analysis *)

(* The copies of the calls the statements D make possible. *)
Called(D) == UNION {Params[x] : x \in Possible(Closure(D, Nothing))}
(* One more round of calls, as a function on sets of statements. *)
Calling == [D \in SUBSET Statement |-> D \cup Called(D)]
(* What the constants are. *)
LEMMA ConstantFacts ==
  ASSUME CallGraphAssumption
  PROVE  /\ IsFiniteSet(Fact) /\ IsFiniteSet(Statement) /\ IsFiniteSet(Calls)
         /\ \A x \in Calls : /\ x[1] \in Indirect /\ x[2] \in Func /\ x = <<x[1], x[2]>>
                             /\ FunPtr[x[1]] \in Node /\ Params[x] \in SUBSET Statement
         /\ Nothing \in Assignment
         /\ \A B \in Programs : B \in SUBSET Statement
<1>1. IsFiniteSet(Calls)
  BY FS_Subset, FS_Product DEF CallGraphAssumption, Calls
<1>5. IsFiniteSet(Fact)
  BY FS_Product DEF CallGraphAssumption, Fact
<1>6. IsFiniteSet(Statement)
  <2>1. PICK P : P = {"Addr", "Copy"} \X ((Obj \cup Node) \X Node)
    OBVIOUS
  <2>2. IsFiniteSet({"Addr"}) /\ IsFiniteSet({"Copy"}) /\ IsFiniteSet({"Addr"} \cup {"Copy"})
    BY FS_Singleton, FS_Union
  <2>3. {"Addr", "Copy"} = {"Addr"} \cup {"Copy"}
    OBVIOUS
  <2>4. IsFiniteSet(P)
    BY <2>1, <2>2, <2>3, FS_Product, FS_Union DEF CallGraphAssumption
  <2> DEFINE made == [x \in P |-> [kind |-> x[1], src |-> x[2][1], dst |-> x[2][2]]]
             all == {made[x] : x \in P}
  <2>5. IsFiniteSet(all)
    <3>1. made \in Surjection(P, all)
      BY DEF Surjection
    <3> QED BY <2>4, <3>1, FS_Surjection
  <2>6. ASSUME NEW e \in Statement PROVE e \in all
    <3>1. e = [kind |-> e.kind, src |-> e.src, dst |-> e.dst] /\ <<e.kind, <<e.src, e.dst>>>> \in P
      BY <2>1 DEF Statement, Addrs, Copies
    <3>2. made[<<e.kind, <<e.src, e.dst>>>>] = e
      BY <3>1
    <3> QED BY <3>1, <3>2
  <2> HIDE DEF all
  <2> QED BY <2>5, <2>6, FS_Subset
<1>2. Nothing \in Assignment
  BY DEF Nothing, Assignment
<1>3. ASSUME NEW x \in Calls
      PROVE  /\ x[1] \in Indirect /\ x[2] \in Func /\ x = <<x[1], x[2]>>
             /\ FunPtr[x[1]] \in Node /\ Params[x] \in SUBSET Statement
  <2>1. x[1] \in Indirect /\ x[2] \in Func /\ x = <<x[1], x[2]>>
    BY DEF Calls
  <2>2. FunPtr[x[1]] \in Node
    BY <2>1 DEF CallGraphAssumption
  <2>3. Params[x] \in SUBSET Statement
    BY DEF CallGraphAssumption, Statement
  <2> QED BY <2>1, <2>2, <2>3
<1>4. \A B \in Programs : B \in SUBSET Statement
  BY DEF CallGraphAssumption, Statement
<1> QED BY <1>1, <1>2, <1>3, <1>4, <1>5, <1>6

(* More facts make more calls possible. *)
LEMMA PossibleMonotone ==
  ASSUME CallGraphAssumption, NEW p \in Assignment, NEW q \in Assignment, Below(p, q)
  PROVE  /\ Possible(p) \subseteq Calls
         /\ Possible(p) \subseteq Possible(q)
<1>1. \A x \in Calls : FunPtr[x[1]] \in Node
  BY ConstantFacts
<1> QED BY <1>1 DEF Possible, Below

(* One pass of updateCallGraph adds copies of statements' type only. *)
LEMMA CalledType ==
  ASSUME CallGraphAssumption, NEW D \in SUBSET Statement
  PROVE  /\ Closure(D, Nothing) \in Assignment
         /\ Possible(Closure(D, Nothing)) \subseteq Calls
         /\ Called(D) \in SUBSET Statement
         /\ D \cup Called(D) \in SUBSET Statement
<1>1. Closure(D, Nothing) \in Assignment
  BY ConstantFacts, ClosureType
<1>2. Possible(Closure(D, Nothing)) \subseteq Calls
  BY DEF Possible
<1>3. Called(D) \in SUBSET Statement
  BY <1>2, ConstantFacts DEF Called
<1> QED BY <1>1, <1>2, <1>3

(* A round of calls adds copies, and more of them to more statements. *)
LEMMA CallingGrows ==
  ASSUME CallGraphAssumption
  PROVE  /\ Calling \in [SUBSET Statement -> SUBSET Statement]
         /\ \A D \in SUBSET Statement : D \subseteq Calling[D]
         /\ \A D, E \in SUBSET Statement : D \subseteq E => Calling[D] \subseteq Calling[E]
<1>1. \A D \in SUBSET Statement : Calling[D] = D \cup Called(D)
  BY DEF Calling
<1>2. ASSUME NEW E \in SUBSET Statement, NEW D \in SUBSET E
      PROVE  Called(D) \subseteq Called(E)
  <2>1. D \in SUBSET Statement /\ Nothing \in Assignment
    BY ConstantFacts
  <2>2. Below(Closure(D, Nothing), Closure(E, Nothing))
    BY <2>1, ConstantFacts, ClosureMonotone
  <2>3. Closure(D, Nothing) \in Assignment /\ Closure(E, Nothing) \in Assignment
    BY <2>1, CalledType
  <2>4. Possible(Closure(D, Nothing)) \subseteq Possible(Closure(E, Nothing))
    BY <2>2, <2>3, PossibleMonotone
  <2> QED BY <2>4 DEF Called
<1>3. Calling \in [SUBSET Statement -> SUBSET Statement]
  BY CalledType DEF Calling
<1>4. ASSUME NEW D \in SUBSET Statement, NEW E \in SUBSET Statement, D \subseteq E
      PROVE  Calling[D] \subseteq Calling[E]
  BY <1>1, <1>2, <1>4
<1> QED BY <1>1, <1>3, <1>4

(* The recursion of Exhaustive ends with the least set that connects all its
   calls. *)
LEMMA ExhaustiveIs ==
  ASSUME CallGraphAssumption, NEW E \in SUBSET Statement
  PROVE  LeastClosed(Exhaustive(E), Statement, Calling, E)
<1> DEFINE f == CHOOSE g : Recurses(g, Statement, Calling)
<1>1. /\ Calling \in [SUBSET Statement -> SUBSET Statement]
      /\ \A S \in SUBSET Statement : S \subseteq Calling[S]
      /\ \A S, T \in SUBSET Statement : S \subseteq T => Calling[S] \subseteq Calling[T]
  BY CallingGrows
<1>2. IsFiniteSet(Statement)
  BY ConstantFacts
<1>3. Exhaustive(E) = f[E]
  <2> DEFINE Step(g) == [S \in SUBSET Statement |-> IF Calling[S] = S THEN S ELSE g[Calling[S]]]
             step(g) == [S \in SUBSET (Addrs \cup Copies) |->
                           LET next == S \cup UNION {Params[x] : x \in Possible(Closure(S, Nothing))}
                           IN  IF next = S THEN S ELSE g[next]]
  <2>1. \A g : Step(g) = step(g)
    BY DEF Statement, Calling, Called
  <2>2. Exhaustive(E) = (CHOOSE g : g = step(g))[E]
    BY DEF Exhaustive
  <2>3. f = CHOOSE g : g = Step(g)
    BY DEF Recurses
  <2>4. (CHOOSE g : g = Step(g)) = (CHOOSE g : g = step(g))
    <3> HIDE DEF Step, step
    <3> QED BY <2>1
  <2> HIDE DEF Step, step, f
  <2> QED BY <2>2, <2>3, <2>4
<1>4. PICK U, F : U = Statement /\ F = Calling
  OBVIOUS
<1>5. Recurses(f, U, F)
  <2>1. \E g : Recurses(g, U, F)
    BY <1>1, <1>2, <1>4, RecursionExists
  <2> QED BY <1>4, <2>1
<1> HIDE DEF f
<1>6. LeastClosed(f[E], U, F, E)
  BY <1>1, <1>2, <1>4, <1>5, RecursionCloses
<1> QED BY <1>3, <1>4, <1>6

(* It holds the statements, and is a set of statements. *)
LEMMA ExhaustiveType ==
  ASSUME CallGraphAssumption, NEW E \in SUBSET Statement
  PROVE  /\ Exhaustive(E) \in SUBSET Statement /\ E \subseteq Exhaustive(E)
         /\ ExhaustivePts(E) \in Assignment
         /\ Closed(Exhaustive(E), ExhaustivePts(E))
<1>1. Exhaustive(E) \in SUBSET Statement /\ E \subseteq Exhaustive(E)
  BY ExhaustiveIs DEF LeastClosed
<1> QED BY <1>1, ConstantFacts, ClosureType, ClosureCloses DEF ExhaustivePts

(* Every set of statements that holds the parameter copies of the calls its
   assignment makes possible goes beyond it. *)
LEMMA ExhaustiveLeast ==
  ASSUME CallGraphAssumption, NEW E \in SUBSET Statement,
         NEW D \in SUBSET Statement, NEW q \in Assignment, E \subseteq D, Closed(D, q),
         \A x \in Possible(q) : Params[x] \subseteq D
  PROVE  Exhaustive(E) \subseteq D /\ Below(ExhaustivePts(E), q)
<1>1. ASSUME NEW G \in SUBSET D PROVE Below(Closure(G, Nothing), q) /\ Closure(G, Nothing) \in Assignment
  <2>1. G \in SUBSET Statement /\ Closed(G, q)
    BY DEF Closed
  <2>2. Nothing \in Assignment /\ Below(Nothing, q)
    BY ConstantFacts DEF Nothing, Below
  <2> QED BY <2>1, <2>2, ConstantFacts, ClosureLeast, ClosureType
<1>2. ASSUME NEW G \in SUBSET Statement, G \subseteq D PROVE Calling[G] \subseteq D
  <2>1. Possible(Closure(G, Nothing)) \subseteq Possible(q)
    BY <1>1, <1>2, PossibleMonotone
  <2>2. Called(G) \subseteq D
    BY <2>1 DEF Called
  <2> QED BY <1>2, <2>2 DEF Calling
<1>3. Exhaustive(E) \subseteq D
  BY <1>2, ExhaustiveIs DEF LeastClosed
<1> QED BY <1>1, <1>3 DEF ExhaustivePts

(* It has stopped: there is no call left to connect. *)
LEMMA ExhaustiveCloses ==
  ASSUME CallGraphAssumption, NEW E \in SUBSET Statement
  PROVE  \A x \in Possible(ExhaustivePts(E)) : Params[x] \subseteq Exhaustive(E)
<1>1. Exhaustive(E) \in SUBSET Statement /\ Calling[Exhaustive(E)] = Exhaustive(E)
  BY ExhaustiveIs DEF LeastClosed
<1>2. Called(Exhaustive(E)) \subseteq Exhaustive(E)
  BY <1>1 DEF Calling
<1> QED BY <1>2 DEF Called, ExhaustivePts

-----------------------------------------------------------------------------
(* Types *)

(* SetToSeq lists every element of a finite set once. *)
LEMMA SetListed ==
  ASSUME NEW S, IsFiniteSet(S)
  PROVE  /\ SetToSeq(S) \in Seq(S) /\ Len(SetToSeq(S)) = Cardinality(S)
         /\ Cardinality(S) \in Nat /\ DOMAIN SetToSeq(S) = 1..Cardinality(S)
         /\ \A i, j \in DOMAIN SetToSeq(S) : SetToSeq(S)[i] = SetToSeq(S)[j] => i = j
         /\ \A x \in S : \E i \in DOMAIN SetToSeq(S) : SetToSeq(S)[i] = x
<1> DEFINE n == Cardinality(S)
           good(f) == f \in [1..n -> S] /\ IsInjective(f)
<1>1. n \in Nat /\ ExistsBijection(1..n, S)
  BY FS_CardinalityType
<1>2. PICK b : good(b)
  BY <1>1 DEF ExistsBijection, Bijection, Injection
<1>3. PICK f : f = SetToSeq(S)
  OBVIOUS
<1>4. f \in [1..n -> S] /\ IsInjective(f)
  BY <1>2, <1>3 DEF SetToSeq
<1>5. f \in Injection(1..n, S) /\ Cardinality(1..n) = n
  BY <1>1, <1>4, FS_Interval DEF Injection
<1>6. f \in Surjection(1..n, S)
  <2> HIDE DEF n
  <2>1. Cardinality(1..n) = Cardinality(S)
    BY <1>5 DEF n
  <2> QED BY <1>5, <2>1, FS_Injection
<1>7. \A x \in S : \E i \in 1..n : f[i] = x
  BY <1>6 DEF Surjection
<1>8. f \in Seq(S) /\ Len(f) = n
  <2> HIDE DEF n
  <2> QED BY <1>1, <1>4
<1>9. \A i, j \in 1..n : f[i] = f[j] => i = j
  BY <1>4 DEF IsInjective
<1>10. DOMAIN f = 1..n
  BY <1>4
<1> QED BY <1>1, <1>3, <1>7, <1>8, <1>9, <1>10

(* Every edge of the call graph has a call site id. *)
HaveIds == \A y \in callEdges : \E i \in DOMAIN callSites : callSites[i] = y

(* The type invariant proved inductive. *)
Types == TypeOK /\ HaveIds

(* The edge removed for a call is an edge of the graph between its functions. *)
LEMMA GraphEdgeExists ==
  ASSUME Types, NEW x \in callEdges
  PROVE  /\ GraphEdge(x) \in callEdges /\ GraphEdge(x) \in Site \X Func
         /\ GraphEdge(x) \in SameEnds(x)
<1> DEFINE Ids == {IdOf(y) : y \in SameEnds(x)}
<1>1. SameEnds(x) \subseteq callEdges /\ x \in SameEnds(x)
  BY DEF SameEnds
<1>2. \A y \in callEdges : IdOf(y) \in Nat
  BY DEF Types, HaveIds, TypeOK, IdOf
<1>3. Ids \in SUBSET Nat /\ Ids # {}
  BY <1>1, <1>2
<1>4. PICK n \in Ids : \A m \in Ids : n <= m
  <2> HIDE DEF Ids
  <2> QED BY <1>3, LeastNumber
<1>5. \E y \in SameEnds(x) : \A z \in SameEnds(x) : IdOf(y) <= IdOf(z)
  BY <1>4
<1>6. GraphEdge(x) \in SameEnds(x)
  BY <1>5 DEF GraphEdge
<1> QED BY <1>1, <1>6 DEF Types, TypeOK

(* q lists every element of S once. *)
Lists(q, S, U) ==
  /\ q \in Seq(U)
  /\ \A i, j \in DOMAIN q : q[i] = q[j] => i = j
  /\ \A x \in S : \E i \in DOMAIN q : q[i] = x

(* Finite sets without a common element. *)
Apart(S, T, U) ==
  S \subseteq U /\ T \subseteq U /\ IsFiniteSet(S) /\ IsFiniteSet(T) /\ S \cap T = {}

(* Two disjoint sets listed one after the other. *)
LEMMA BothListed ==
  ASSUME NEW U, NEW S, NEW T, Apart(S, T, U)
  PROVE  Lists(SetToSeq(S) \o SetToSeq(T), S \cup T, U)
<1> USE DEF Apart
<1>0. PICK q : q = SetToSeq(S) \o SetToSeq(T)
  OBVIOUS
<1>1. PICK s, t, m, n : /\ s = SetToSeq(S) /\ t = SetToSeq(T)
                        /\ m = Cardinality(S) /\ n = Cardinality(T)
  OBVIOUS
<1>2. /\ s \in Seq(S) /\ Len(s) = m /\ m \in Nat /\ DOMAIN s = 1..m
      /\ \A i, j \in 1..m : s[i] = s[j] => i = j
      /\ \A x \in S : \E i \in 1..m : s[i] = x
  BY <1>1, SetListed
<1>3. /\ t \in Seq(T) /\ Len(t) = n /\ n \in Nat /\ DOMAIN t = 1..n
      /\ \A i, j \in 1..n : t[i] = t[j] => i = j
      /\ \A x \in T : \E i \in 1..n : t[i] = x
  BY <1>1, SetListed
<1>4. q = s \o t
  BY <1>0, <1>1
<1>5. s \in Seq(U) /\ t \in Seq(U)
  BY <1>2, <1>3
<1>6. q \in Seq(U) /\ Len(q) = m + n /\ DOMAIN q = 1..m + n
  <2>1. q \in Seq(U)
    BY <1>4, <1>5
  <2>2. Len(q) = Len(s) + Len(t)
    BY <1>4, <1>5
  <2>3. DOMAIN q = 1..Len(q)
    BY <2>1
  <2> QED BY <1>2, <1>3, <2>1, <2>2, <2>3
<1>7. \A i \in 1..m : q[i] = s[i] /\ q[i] \in S
  BY <1>2, <1>3, <1>4
<1>8. \A i \in m + 1..m + n : q[i] = t[i - m] /\ i - m \in 1..n /\ q[i] \in T
  BY <1>2, <1>3, <1>4
<1>9. ASSUME NEW i \in 1..m + n, NEW j \in 1..m + n, q[i] = q[j] PROVE i = j
  <2>1. CASE i \in 1..m /\ j \in 1..m
    BY <1>2, <1>7, <1>9, <2>1
  <2>2. CASE i \in m + 1..m + n /\ j \in m + 1..m + n
    <3>1. PICK a \in 1..n, b \in 1..n : a = i - m /\ b = j - m
      BY <1>8, <2>2
    <3>2. t[a] = t[b]
      BY <1>8, <1>9, <2>2, <3>1
    <3>3. a = b
      BY <1>3, <3>2
    <3> QED BY <1>2, <3>1, <3>3
  <2>3. CASE (i \in 1..m /\ j \in m + 1..m + n) \/ (j \in 1..m /\ i \in m + 1..m + n)
    BY <1>7, <1>8, <1>9, <2>3
  <2> QED BY <1>2, <1>3, <2>1, <2>2, <2>3
<1>10. ASSUME NEW x \in S \cup T PROVE \E i \in 1..m + n : q[i] = x
  <2>1. CASE x \in S
    <3>1. PICK i \in 1..m : s[i] = x
      BY <1>2, <2>1
    <3>2. i \in 1..m + n /\ q[i] = x
      <4>1. m \in Nat /\ n \in Nat
        BY <1>2, <1>3
      <4>2. i \in 1..m + n
        BY <4>1
      <4> QED BY <1>7, <3>1, <4>2
    <3> QED BY <3>2
  <2>2. CASE x \in T
    <3>1. PICK i \in 1..n : t[i] = x
      BY <1>3, <2>2
    <3>2. i + m \in m + 1..m + n /\ (i + m) - m = i /\ i + m \in 1..m + n
      BY <1>2, <1>3
    <3>3. q[i + m] = x
      BY <1>8, <3>1, <3>2
    <3> QED BY <3>2, <3>3
  <2> QED BY <2>1, <2>2
<1> QED BY <1>0, <1>6, <1>9, <1>10 DEF Lists

(* The calls of lost or gained objects are indirect calls. *)
LEMMA CallsOfType ==
  ASSUME CallGraphAssumption, NEW d, \A s \in Indirect : d[s] \in SUBSET Obj
  PROVE  /\ CallsOf(d) \subseteq Calls
         /\ \A x \in Calls : x \in CallsOf(d) <=> \E o \in d[x[1]] : x[2] \in Callee[x[1]][o]
<1>1. \A s \in Indirect : \A o \in d[s] : Callee[s][o] \in SUBSET Func
  BY DEF CallGraphAssumption
<1>2. CallsOf(d) \subseteq Calls
  BY <1>1 DEF CallsOf, Calls
<1>3. ASSUME NEW x \in Calls PROVE x \in CallsOf(d) <=> \E o \in d[x[1]] : x[2] \in Callee[x[1]][o]
  <2>1. x[1] \in Indirect /\ x = <<x[1], x[2]>>
    BY DEF Calls
  <2>2. ASSUME x \in CallsOf(d) PROVE \E o \in d[x[1]] : x[2] \in Callee[x[1]][o]
    <3>1. PICK s \in Indirect : x \in {s} \X UNION {Callee[s][o] : o \in d[s]}
      BY <2>2 DEF CallsOf
    <3>2. x[1] = s /\ x[2] \in UNION {Callee[s][o] : o \in d[s]}
      BY <3>1
    <3> QED BY <3>2
  <2>3. ASSUME NEW o \in d[x[1]], x[2] \in Callee[x[1]][o] PROVE x \in CallsOf(d)
    <3>1. x[2] \in UNION {Callee[x[1]][k] : k \in d[x[1]]}
      BY <2>3
    <3>2. x \in {x[1]} \X UNION {Callee[x[1]][k] : k \in d[x[1]]}
      BY <2>1, <3>1
    <3> QED BY <2>1, <3>2 DEF CallsOf
  <2> QED BY <2>2, <2>3
<1> QED BY <1>2, <1>3

(* The sets the passes compare. *)
LEMMA FunPtrTypes ==
  ASSUME CallGraphAssumption, NEW p \in Assignment, NEW q \in Assignment
  PROVE  /\ FunPtrPts(p) \in [Indirect -> SUBSET Obj]
         /\ \A s \in Indirect : FunPtr[s] \in Node /\ FunPtrPts(p)[s] = p[FunPtr[s]]
         /\ \A s \in Indirect : FunPtrPts(p)[s] \ q[FunPtr[s]] \in SUBSET Obj
         /\ \A s \in Indirect : q[FunPtr[s]] \ FunPtrPts(p)[s] \in SUBSET Obj
<1>1. \A s \in Indirect : FunPtr[s] \in Node
  BY DEF CallGraphAssumption
<1>2. \A s \in Indirect : p[FunPtr[s]] \in SUBSET Obj /\ q[FunPtr[s]] \in SUBSET Obj
  BY <1>1 DEF Assignment
<1> QED BY <1>1, <1>2 DEF FunPtrPts

(* The exhaustive analysis starts the rounds with values of the right types. *)
LEMMA TypesInit ==
  ASSUME CallGraphAssumption, Init
  PROVE  Types
<1>1. base \in SUBSET Statement /\ base \in Programs
  BY ConstantFacts DEF Init
<1>2. edges \in SUBSET Statement /\ pts \in Assignment
  BY <1>1, ExhaustiveType DEF Init, ExhaustivePts
<1> DEFINE calls == Possible(pts)
<1>3. IsFiniteSet(Direct) /\ IsFiniteSet(calls) /\ calls \subseteq Calls
  <2>1. IsFiniteSet(Site \X Func)
    BY FS_Product DEF CallGraphAssumption
  <2>2. Direct \subseteq Site \X Func /\ calls \subseteq Calls
    BY DEF CallGraphAssumption, Possible
  <2> QED BY <2>1, <2>2, ConstantFacts, FS_Subset
<1>4. Direct \cap calls = {} /\ Direct \subseteq Site \X Func /\ calls \subseteq Site \X Func
  BY <1>3 DEF CallGraphAssumption, Calls
<1>5. /\ callSites \in Seq(Site \X Func)
      /\ \A i, j \in DOMAIN callSites : callSites[i] = callSites[j] => i = j
      /\ \A x \in Direct \cup calls : \E i \in DOMAIN callSites : callSites[i] = x
  <2>1. Apart(Direct, calls, Site \X Func)
    BY <1>3, <1>4 DEF Apart
  <2>2. callSites = SetToSeq(Direct) \o SetToSeq(calls)
    BY DEF Init
  <2> HIDE DEF calls
  <2>3. Lists(callSites, Direct \cup calls, Site \X Func)
    BY <2>1, <2>2, BothListed
  <2> QED BY <2>3 DEF Lists
<1>6. callEdges = Direct \cup calls /\ instEdges = {<<x[1], x>> : x \in Direct \cup calls} /\ dangling = {}
  BY DEF Init
<1>7. callEdges \subseteq Site \X Func /\ instEdges \subseteq Site \X (Site \X Func)
  BY <1>4, <1>6
<1>8. indCallMap \in [Indirect -> SUBSET Func]
  <2>1. \A x \in calls : x[2] \in Func
    BY <1>3 DEF Calls
  <2>2. indCallMap = [s \in Indirect |-> {x[2] : x \in {y \in calls : y[1] = s}}]
    BY DEF Init
  <2> HIDE DEF calls
  <2> QED BY <2>1, <2>2
<1>9. numOfResolvedIndCallEdge \in Nat
  BY <1>3, FS_CardinalityType DEF Init
<1>10. nowPts \in [Indirect -> SUBSET Obj] /\ round \in 0..MaxRounds[base] /\ diff \subseteq base
  BY DEF Init, CallGraphAssumption
<1>11. work = {} /\ todo = {} /\ pc = "idle"
  BY DEF Init
<1>12. TypeOK
  BY <1>1, <1>2, <1>5, <1>6, <1>7, <1>8, <1>9, <1>10, <1>11 DEF TypeOK, Statement, Assignment
<1>13. HaveIds
  BY <1>5, <1>6 DEF HaveIds
<1> QED BY <1>12, <1>13 DEF Types

(* What a pass over the deletion vectors may keep is what there is. *)
LEMMA KeptFacts ==
  ASSUME Types, NEW E, NEW kept \in SUBSET SelfSupported(E)
  PROVE  /\ kept \in SUBSET Fact /\ Holding(kept) \in Assignment
         /\ Below(Holding(kept), pts)
<1>1. pts \in Assignment
  BY DEF Types, TypeOK, Assignment
<1>2. \A x \in Extra(E) : x[1] \in Node /\ x[2] \in pts[x[1]] /\ x = <<x[1], x[2]>>
  BY DEF Extra
<1>3. ASSUME NEW x \in kept PROVE x \in Fact /\ x[2] \in pts[x[1]]
  <2>1. x \in Extra(E)
    BY DEF SelfSupported
  <2>2. x[1] \in Node /\ x[2] \in pts[x[1]] /\ x = <<x[1], x[2]>>
    BY <1>2, <2>1
  <2>3. x[2] \in Obj
    BY <1>1, <2>2 DEF Assignment
  <2> QED BY <2>2, <2>3 DEF Fact
<1>4. ASSUME NEW n \in Node, NEW o \in Holding(kept)[n] PROVE o \in pts[n]
  <2>1. kept \in SUBSET Fact
    BY <1>3
  <2>2. <<n, o>> \in kept
    BY <2>1, HoldingOf
  <2> QED BY <1>3, <2>2
<1> QED BY <1>3, <1>4, HoldingOf DEF Below

(* The call graph's own variables keep their types, whatever a call does to
   them. *)
GraphTypes ==
  /\ indCallMap \in [Indirect -> SUBSET Func] /\ callEdges \subseteq Site \X Func
  /\ callSites \in Seq(Site \X Func)
  /\ \A i, j \in DOMAIN callSites : callSites[i] = callSites[j] => i = j
  /\ instEdges \subseteq Site \X (Site \X Func) /\ dangling \subseteq Site \X (Site \X Func)
  /\ numOfResolvedIndCallEdge \in Nat
  /\ HaveIds

(* The other variables do. *)
DataTypes ==
  /\ base \in Programs /\ diff \subseteq base
  /\ edges \in SUBSET Statement /\ pts \in Assignment
  /\ nowPts \in [Indirect -> SUBSET Obj]
  /\ work \in SUBSET Statement /\ todo \subseteq Calls
  /\ round \in 0..MaxRounds[base]
  /\ pc \in {"idle", "delete", "disconnect", "deleted", "insert", "connect"}

(* The two together are Types. *)
LEMMA TypesSplit == Types <=> DataTypes /\ GraphTypes
BY DEF Types, TypeOK, DataTypes, GraphTypes, Statement, Assignment

(* removeIndirectCallGraphEdge keeps the types of the call graph. *)
LEMMA RemoveCallTypes ==
  ASSUME CallGraphAssumption, Types, NEW s \in Indirect, NEW f \in Func, RemoveCall(s, f)
  PROVE  GraphTypes'
<1> DEFINE x == <<s, f>>
           e == GraphEdge(x)
<1>1. GraphTypes /\ s \in Site
  BY TypesSplit DEF CallGraphAssumption
<1>2. indCallMap' = [indCallMap EXCEPT ![s] = @ \ {f}] /\ UNCHANGED <<callSites, numOfResolvedIndCallEdge>>
  BY DEF RemoveCall
<1>3. indCallMap' \in [Indirect -> SUBSET Func]
  BY <1>1, <1>2 DEF GraphTypes
<1>4. CASE x \in callEdges
  <2>1. e \in callEdges /\ e \in Site \X Func /\ e[1] \in Site
    BY <1>4, GraphEdgeExists
  <2>2. /\ callEdges' = callEdges \ {e}
        /\ instEdges' = instEdges \ {<<s, e>>, <<e[1], e>>}
        /\ dangling' = IF e[1] = s THEN dangling ELSE dangling \cup {<<e[1], e>>}
    BY <1>4 DEF RemoveCall
  <2> HIDE DEF e
  <2>3. /\ callEdges' \subseteq Site \X Func /\ callEdges' \subseteq callEdges
        /\ instEdges' \subseteq Site \X (Site \X Func)
        /\ dangling' \subseteq Site \X (Site \X Func)
    BY <1>1, <2>1, <2>2 DEF GraphTypes
  <2> QED BY <1>1, <1>2, <1>3, <2>3 DEF GraphTypes, HaveIds
<1>5. CASE x \notin callEdges
  <2>1. UNCHANGED <<callEdges, instEdges, dangling>>
    BY <1>5 DEF RemoveCall
  <2> QED BY <1>1, <1>2, <1>3, <2>1 DEF GraphTypes, HaveIds
<1> QED BY <1>4, <1>5

(* addIndirectCallGraphEdge does, and never lowers the counter of calls. *)
LEMMA AddCallTypes ==
  ASSUME CallGraphAssumption, Types, NEW s \in Indirect, NEW f \in Func, AddCall(s, f),
         indCallMap' \in [Indirect -> SUBSET Func]
  PROVE  GraphTypes' /\ numOfResolvedIndCallEdge' >= numOfResolvedIndCallEdge
<1>1. PICK x : x = <<s, f>>
  OBVIOUS
<1>2. GraphTypes /\ x \in Site \X Func /\ s \in Site
  BY <1>1, TypesSplit DEF CallGraphAssumption
<1>3. /\ numOfResolvedIndCallEdge' = numOfResolvedIndCallEdge + 1
      /\ callSites' = IF \E i \in DOMAIN callSites : callSites[i] = x THEN callSites
                      ELSE Append(callSites, x)
      /\ callEdges' = callEdges \cup {x}
      /\ instEdges' = IF x \in callEdges THEN instEdges ELSE instEdges \cup {<<s, x>>}
      /\ UNCHANGED dangling
  BY <1>1 DEF AddCall
<1>4. /\ callEdges' \subseteq Site \X Func
      /\ instEdges' \subseteq Site \X (Site \X Func)
  BY <1>2, <1>3 DEF GraphTypes
<1>5. numOfResolvedIndCallEdge' \in Nat /\ numOfResolvedIndCallEdge' >= numOfResolvedIndCallEdge
  BY <1>2, <1>3 DEF GraphTypes
<1>6. CASE \E i \in DOMAIN callSites : callSites[i] = x
  <2>1. callSites' = callSites
    BY <1>3, <1>6
  <2>2. HaveIds'
    BY <1>2, <1>3, <1>6, <2>1 DEF GraphTypes, HaveIds
  <2> QED BY <1>2, <1>3, <1>4, <1>5, <2>1, <2>2 DEF GraphTypes
<1>7. CASE ~\E i \in DOMAIN callSites : callSites[i] = x
  <2>1. callSites' = Append(callSites, x)
    BY <1>3, <1>7
  <2>2. PICK q, U, n : q = callSites /\ U = Site \X Func /\ n = Len(q)
    OBVIOUS
  <2>3. q \in Seq(U) /\ x \in U /\ n \in Nat /\ DOMAIN q = 1..n
    BY <1>2, <2>2 DEF GraphTypes
  <2>4. Append(q, x) \in Seq(U) /\ DOMAIN Append(q, x) = 1..n + 1
    BY <2>2, <2>3
  <2>5. /\ \A i \in 1..n : Append(q, x)[i] = q[i]
        /\ Append(q, x)[n + 1] = x
    BY <2>2, <2>3
  <2>6. /\ \A i, j \in 1..n : q[i] = q[j] => i = j
        /\ \A i \in 1..n : q[i] # x
    BY <1>2, <1>7, <2>2, <2>3 DEF GraphTypes
  <2>7. \A i \in 1..n + 1 : i \in 1..n \/ i = n + 1
    BY <2>3
  <2>8. \A i, j \in 1..n + 1 : Append(q, x)[i] = Append(q, x)[j] => i = j
    BY <2>5, <2>6, <2>7
  <2>9. ASSUME NEW y \in callEdges' PROVE \E i \in 1..n + 1 : Append(q, x)[i] = y
    <3>1. CASE y = x
      <4>1. n + 1 \in 1..n + 1
        BY <2>3
      <4> QED BY <2>5, <3>1, <4>1
    <3>2. CASE y # x
      <4>1. PICK i \in 1..n : q[i] = y
        BY <1>2, <1>3, <2>2, <2>3, <2>9, <3>2 DEF GraphTypes, HaveIds
      <4>2. i \in 1..n + 1
        BY <2>3
      <4> QED BY <2>5, <4>1, <4>2
    <3> QED BY <3>1, <3>2
  <2>10. HaveIds'
    BY <2>1, <2>2, <2>4, <2>9 DEF HaveIds
  <2>11. /\ callSites' \in Seq(Site \X Func)
         /\ \A i, j \in DOMAIN callSites' : callSites'[i] = callSites'[j] => i = j
    BY <2>1, <2>2, <2>4, <2>8
  <2> QED BY <1>2, <1>3, <1>4, <1>5, <2>10, <2>11 DEF GraphTypes
<1> QED BY <1>5, <1>6, <1>7

(* A pass over the deletion vectors leaves a closed assignment below the one
   before, if that was closed. *)
LEMMA DeletePassFacts ==
  ASSUME CallGraphAssumption, Types, DeletePass
  PROVE  /\ edges' = edges \ work /\ edges' \in SUBSET Statement /\ pts' \in Assignment
         /\ Closed(edges', pts')
         /\ Closed(edges, pts) => Below(pts', pts)
<1>1. DataTypes /\ IsFiniteSet(Fact)
  BY TypesSplit, ConstantFacts
<1>2. edges' = edges \ work /\ edges' \in SUBSET Statement
  BY <1>1 DEF DeletePass, Deleted, DataTypes
<1>3. PICK kept \in SUBSET SelfSupported(edges') : pts' = Closure(edges', Holding(kept))
  BY DEF DeletePass
<1>4. Holding(kept) \in Assignment /\ Below(Holding(kept), pts)
  BY KeptFacts
<1>5. pts' \in Assignment /\ Closed(edges', pts')
  BY <1>1, <1>2, <1>3, <1>4, ClosureType, ClosureCloses
<1>6. ASSUME Closed(edges, pts) PROVE Below(pts', pts)
  <2>1. Closed(edges', pts) /\ pts \in Assignment
    BY <1>1, <1>2, <1>6 DEF Closed, DataTypes
  <2> QED BY <1>1, <1>2, <1>3, <1>4, <2>1, ClosureLeast
<1> QED BY <1>2, <1>5, <1>6

(* A pass over the insertion vectors leaves the least closed assignment above
   the one before. *)
LEMMA InsertPassFacts ==
  ASSUME CallGraphAssumption, Types, InsertPass
  PROVE  /\ edges' = edges \cup work /\ edges' \in SUBSET Statement /\ pts' \in Assignment
         /\ Closed(edges', pts') /\ Below(pts, pts')
         /\ \A q \in Assignment : Below(pts, q) /\ Closed(edges', q) => Below(pts', q)
<1>1. DataTypes /\ IsFiniteSet(Fact)
  BY TypesSplit, ConstantFacts
<1>2. edges' = edges \cup work /\ edges' \in SUBSET Statement /\ pts' = Closure(edges', pts)
  BY <1>1 DEF InsertPass, DataTypes
<1>3. pts \in Assignment
  BY <1>1 DEF DataTypes
<1> QED BY <1>1, <1>2, <1>3, ClosureType, ClosureCloses, ClosureLeast

(* Every step keeps the types. *)
LEMMA TypesStep ==
  ASSUME CallGraphAssumption, Types, [Next]_vars
  PROVE  Types'
<1>1. DataTypes /\ GraphTypes
  BY TypesSplit
<1>2. SUFFICES DataTypes' /\ GraphTypes'
  BY TypesSplit DEF Types, TypeOK, DataTypes, GraphTypes, Statement, Assignment
<1>3. ASSUME UNCHANGED cgVars PROVE GraphTypes'
  BY <1>1, <1>3 DEF cgVars, GraphTypes, HaveIds
<1>4. pts \in Assignment /\ nowPts \in [Indirect -> SUBSET Obj]
  BY <1>1 DEF DataTypes
<1>5. ASSUME NEW D \in SUBSET base, StartRound(D) PROVE DataTypes' /\ GraphTypes'
  <2>1. UNCHANGED cgVars
    BY <1>5 DEF StartRound
  <2>2. /\ diff' = D /\ work' = D /\ nowPts' = FunPtrPts(pts) /\ pc' = "delete"
        /\ round' = round + 1 /\ round < MaxRounds[base] /\ UNCHANGED <<base, edges, pts, todo>>
    BY <1>5 DEF StartRound
  <2>3. D \in SUBSET Statement
    BY <1>1, ConstantFacts DEF DataTypes
  <2>4. nowPts' \in [Indirect -> SUBSET Obj]
    BY <1>4, <2>2, FunPtrTypes
  <2>5. round' \in 0..MaxRounds[base]
    BY <1>1, <2>2 DEF DataTypes, CallGraphAssumption
  <2>6. DataTypes'
    BY <1>1, <2>2, <2>3, <2>4, <2>5 DEF DataTypes
  <2> QED BY <1>3, <2>1, <2>6
<1>6. CASE DeletePass
  <2>1. UNCHANGED cgVars
    BY <1>6 DEF DeletePass
  <2>2. edges' \in SUBSET Statement /\ pts' \in Assignment
    BY <1>6, DeletePassFacts
  <2>3. \A s \in Indirect : Lost(pts')[s] \in SUBSET Obj
    BY <1>4 DEF Lost
  <2>4. CallsOf(Lost(pts')) \subseteq Calls
    BY <2>3, CallsOfType
  <2>5. FunPtrPts(pts') \in [Indirect -> SUBSET Obj]
    BY <2>2, FunPtrTypes
  <2>6. DataTypes'
    BY <1>1, <1>6, <2>2, <2>4, <2>5 DEF DataTypes, DeletePass
  <2> QED BY <1>3, <2>1, <2>6
<1>7. CASE DeletePassDone \/ StartInsertion \/ InsertPassDone
  <2>1. UNCHANGED cgVars
    BY <1>7 DEF DeletePassDone, StartInsertion, InsertPassDone
  <2>2. diff \in SUBSET Statement
    BY <1>1, ConstantFacts DEF DataTypes
  <2>3. FunPtrPts(pts) \in [Indirect -> SUBSET Obj]
    BY <1>4, FunPtrTypes
  <2>4. DataTypes'
    BY <1>1, <1>7, <2>2, <2>3 DEF DataTypes, DeletePassDone, StartInsertion, InsertPassDone
  <2> QED BY <1>3, <2>1, <2>4
<1>8. CASE InsertPass
  <2>1. UNCHANGED cgVars
    BY <1>8 DEF InsertPass
  <2>2. edges' \in SUBSET Statement /\ pts' \in Assignment
    BY <1>8, InsertPassFacts
  <2>3. \A s \in Indirect : pts'[FunPtr[s]] \in SUBSET Obj
    BY <2>2 DEF CallGraphAssumption, Assignment
  <2>4. \A s \in Indirect : Gained(pts')[s] \in SUBSET Obj
    BY <2>3 DEF Gained
  <2>5. CallsOf(Gained(pts')) \subseteq Calls
    BY <2>4, CallsOfType
  <2>6. FunPtrPts(pts') \in [Indirect -> SUBSET Obj]
    BY <2>2, FunPtrTypes
  <2>7. DataTypes'
    BY <1>1, <1>8, <2>2, <2>5, <2>6 DEF DataTypes, InsertPass
  <2> QED BY <1>3, <2>1, <2>7
<1>9. ASSUME NEW x \in todo, Disconnect(x[1], x[2]) PROVE DataTypes' /\ GraphTypes'
  <2>1. x \in Calls /\ x[1] \in Indirect /\ x[2] \in Func /\ x = <<x[1], x[2]>> /\ Params[x] \in SUBSET Statement
    BY <1>1, ConstantFacts DEF DataTypes
  <2>2. work' \in SUBSET Statement
    BY <1>1, <1>9, <2>1 DEF Disconnect, ParamsDel, DataTypes
  <2>3. DataTypes'
    BY <1>1, <1>9, <2>2 DEF Disconnect, DataTypes
  <2>4. GraphTypes'
    BY <1>3, <1>9, <2>1, RemoveCallTypes DEF Disconnect
  <2> QED BY <2>3, <2>4
<1>10. ASSUME NEW x \in todo, Connect(x[1], x[2]) PROVE DataTypes' /\ GraphTypes'
  <2>1. x \in Calls /\ x[1] \in Indirect /\ x[2] \in Func /\ x = <<x[1], x[2]>> /\ Params[x] \in SUBSET Statement
    BY <1>1, ConstantFacts DEF DataTypes
  <2>2. work' \in SUBSET Statement
    BY <1>1, <1>10, <2>1 DEF Connect, ParamsIns, DataTypes
  <2>3. DataTypes'
    BY <1>1, <1>10, <2>2 DEF Connect, DataTypes
  <2>4. CASE UNCHANGED <<cgVars, work>>
    BY <1>3, <2>3, <2>4
  <2>5. CASE ~UNCHANGED <<cgVars, work>>
    <3>1. /\ AddCall(x[1], x[2])
          /\ indCallMap' = [indCallMap EXCEPT ![x[1]] = IF x[1] \in Virtual THEN @ \ {x[2]} ELSE @ \cup {x[2]}]
      BY <1>10, <2>5 DEF Connect
    <3>2. indCallMap' \in [Indirect -> SUBSET Func]
      BY <1>1, <2>1, <3>1 DEF GraphTypes
    <3> QED BY <2>1, <2>3, <3>1, <3>2, AddCallTypes
  <2> QED BY <2>4, <2>5
<1>11. CASE UNCHANGED vars
  BY <1>1, <1>3, <1>11 DEF vars, DataTypes
<1> QED BY <1>5, <1>6, <1>7, <1>8, <1>9, <1>10, <1>11 DEF Next, Update

(* The statements, assignments, calls and ids are what they should be, and no
   two calls share an id, whatever the rounds (PTACallGraph.cpp:203). *)
THEOREM CallTypes == ASSUME CallGraphAssumption PROVE Spec => []TypeOK
<1>1. Init => Types
  BY TypesInit
<1>2. Types /\ [Next]_vars => Types'
  BY TypesStep
<1>3. Types => TypeOK
  BY DEF Types
<1> QED BY <1>1, <1>2, <1>3, PTL DEF Spec

(***************************************************************************)
(* The inductive invariant. What a phase has left to do is in work, todo   *)
(* and diff: deletion lets edges go that are in work and calls that are in *)
(* todo, insertion brings them back from there.                            *)
(***************************************************************************)
Deleting == pc \in {"delete", "disconnect", "deleted"}

(* The calls about to be connected, and those about to be disconnected. *)
Waiting == IF pc = "connect" THEN todo ELSE {}
Leaving == IF pc = "disconnect" THEN todo ELSE {}

(* The calls in the map, and the copies of these and of virtual calls, which
   the map does not keep. *)
Listed == {x \in Calls : x[2] \in indCallMap[x[1]]}
Served == UNION {Params[x] : x \in {y \in Calls : y \in Listed \/ y[1] \in Virtual}}

(* The edges there are when the vectors have been worked through. *)
Settled == IF Deleting THEN edges \ work ELSE edges \cup work

(* Between the passes the last look at the pointers is up to date, and
   between the phases nothing is left to do. *)
Phases ==
  /\ pc # "idle" => nowPts = FunPtrPts(pts)
  /\ todo = Waiting \cup Leaving
  /\ pc \in {"idle", "deleted"} => work = {}
  /\ pc = "idle" => diff = {}

(* The calls the exhaustive analysis of the program makes possible. *)
Known == Possible(ExhaustivePts(base))

(* Nothing is held, connected or queued that the exhaustive analysis would not
   hold, and nothing is left to propagate. *)
Bounded ==
  /\ Listed \subseteq Known
  /\ Closed(edges, pts)
  /\ edges \subseteq Exhaustive(base) /\ Below(pts, ExhaustivePts(base))
  /\ ~Deleting => work \subseteq Exhaustive(base)
  /\ Waiting \subseteq Possible(pts)

(* indirectCallLimit is not reached, now or earlier: the counter only grows. *)
Budget == numOfResolvedIndCallEdge < Limit

(* Every call in the map is possible or about to be disconnected. *)
Current == Budget => \A x \in Listed : x[1] \in Virtual \/ x \in Possible(pts) \cup Leaving

(* Every edge is a statement, waiting to go, or a parameter copy of a call that
   is connected. *)
Accounted ==
  IF Deleting THEN edges \subseteq (base \ diff) \cup work \cup Served
  ELSE edges \cup work \subseteq base \cup Served

(* No statement, no possible call and no copy of one is lost on the way. *)
Complete ==
  /\ base \ diff \subseteq Settled
  /\ ~Deleting => base \subseteq Settled
  /\ Leaving \cap Possible(pts) = {}
  /\ \A x \in Possible(pts) \ Waiting : Params[x] \subseteq Settled /\ (x[1] \in Virtual \/ x \in Listed)
  /\ \A x \in Listed : Params[x] \subseteq Settled

(* All of it together is inductive. *)
CallInv ==
  Types /\ Phases /\ Bounded /\ Current /\ Accounted /\ (Unshared /\ Budget => Complete)

(* What the exhaustive analysis of the program is. *)
LEMMA Limits ==
  ASSUME CallGraphAssumption, Types
  PROVE  /\ base \in SUBSET Statement /\ base \subseteq Exhaustive(base)
         /\ Exhaustive(base) \in SUBSET Statement /\ ExhaustivePts(base) \in Assignment
         /\ Closed(Exhaustive(base), ExhaustivePts(base))
         /\ \A x \in Possible(ExhaustivePts(base)) : Params[x] \subseteq Exhaustive(base)
<1>1. base \in SUBSET Statement
  BY TypesSplit, ConstantFacts DEF DataTypes
<1> QED BY <1>1, ExhaustiveType, ExhaustiveCloses

(* NothingBeyond is part of it. *)
LEMMA BoundMeans ==
  NothingBeyond <=> edges \subseteq Exhaustive(base) /\ Below(pts, ExhaustivePts(base))
BY DEF NothingBeyond, Below, ExhaustivePts

(* A call is possible when an object its pointer has leads to the function. *)
LEMMA PossibleCalls ==
  ASSUME NEW p
  PROVE  /\ Possible(p) \subseteq Calls
         /\ \A x \in Calls : x \in Possible(p) <=> \E o \in p[FunPtr[x[1]]] : x[2] \in Callee[x[1]][o]
BY DEF Possible

(* After a pass over the deletion vectors, what is no longer possible is in
   todo, and a call in todo is no longer possible when no other object leads
   to its function. *)
LEMMA LostCalls ==
  ASSUME CallGraphAssumption, Types, Phases, Bounded, DeletePass
  PROVE  /\ todo' \subseteq Calls
         /\ Possible(pts') \subseteq Possible(pts)
         /\ \A x \in Possible(pts) : x \in Possible(pts') \/ x \in todo'
         /\ Unshared => todo' \cap Possible(pts') = {}
<1>1. /\ pts \in Assignment /\ pts' \in Assignment /\ Below(pts', pts)
      /\ nowPts = FunPtrPts(pts) /\ todo' = CallsOf(Lost(pts'))
  BY DeletePassFacts, TypesSplit DEF DataTypes, Bounded, Phases, DeletePass
<1>2. \A s \in Indirect : /\ Lost(pts')[s] = pts[FunPtr[s]] \ pts'[FunPtr[s]]
                          /\ Lost(pts')[s] \in SUBSET Obj
  BY <1>1, FunPtrTypes DEF Lost
<1>3. todo' \subseteq Calls
  BY <1>1, <1>2, CallsOfType
<1>4. \A x \in Calls : x \in todo' <=> \E o \in pts[FunPtr[x[1]]] \ pts'[FunPtr[x[1]]] : x[2] \in Callee[x[1]][o]
  <2>1. \A x \in Calls : x \in todo' <=> \E o \in Lost(pts')[x[1]] : x[2] \in Callee[x[1]][o]
    BY <1>1, <1>2, CallsOfType
  <2>2. \A x \in Calls : x[1] \in Indirect
    BY DEF Calls
  <2> QED BY <1>2, <2>1, <2>2
<1>5. \A x \in Possible(pts) : x \in Possible(pts') \/ x \in todo'
  BY <1>4, PossibleCalls
<1>6. ASSUME Unshared, NEW x \in todo', x \in Possible(pts') PROVE FALSE
  <2>1. x \in Calls /\ x[1] \in Indirect
    BY <1>3, <1>6 DEF Calls
  <2>2. PICK o \in pts[FunPtr[x[1]]] \ pts'[FunPtr[x[1]]] : x[2] \in Callee[x[1]][o]
    BY <1>4, <1>6, <2>1
  <2>3. PICK k \in pts'[FunPtr[x[1]]] : x[2] \in Callee[x[1]][k]
    BY <1>6, <2>1, PossibleCalls
  <2>4. FunPtr[x[1]] \in Node /\ o # k
    BY <2>1, <2>2, <2>3, ConstantFacts
  <2>5. o \in ExhaustivePts(base)[FunPtr[x[1]]] /\ k \in ExhaustivePts(base)[FunPtr[x[1]]]
    BY <1>1, <2>2, <2>3, <2>4 DEF Bounded, Below
  <2>6. Callee[x[1]][o] \cap Callee[x[1]][k] = {}
    BY <1>6, <2>1, <2>4, <2>5 DEF Unshared
  <2> QED BY <2>2, <2>3, <2>6
<1> QED BY <1>1, <1>3, <1>5, <1>6, PossibleMonotone

(* After a pass over the insertion vectors, what has become possible is in
   todo, and nothing else. *)
LEMMA GainedCalls ==
  ASSUME CallGraphAssumption, Types, Phases, InsertPass
  PROVE  /\ todo' \subseteq Possible(pts')
         /\ Possible(pts) \subseteq Possible(pts')
         /\ \A x \in Possible(pts') : x \in Possible(pts) \/ x \in todo'
<1>1. /\ pts \in Assignment /\ pts' \in Assignment /\ Below(pts, pts')
      /\ nowPts = FunPtrPts(pts) /\ todo' = CallsOf(Gained(pts'))
  BY InsertPassFacts, TypesSplit DEF DataTypes, Phases, InsertPass
<1>2. \A s \in Indirect : /\ Gained(pts')[s] = pts'[FunPtr[s]] \ pts[FunPtr[s]]
                          /\ Gained(pts')[s] \in SUBSET Obj
  BY <1>1, FunPtrTypes DEF Gained
<1>3. todo' \subseteq Calls
  BY <1>1, <1>2, CallsOfType
<1>4. \A x \in Calls : x \in todo' <=> \E o \in pts'[FunPtr[x[1]]] \ pts[FunPtr[x[1]]] : x[2] \in Callee[x[1]][o]
  <2>1. \A x \in Calls : x \in todo' <=> \E o \in Gained(pts')[x[1]] : x[2] \in Callee[x[1]][o]
    BY <1>1, <1>2, CallsOfType
  <2>2. \A x \in Calls : x[1] \in Indirect
    BY DEF Calls
  <2> QED BY <1>2, <2>1, <2>2
<1>5. \A x \in Possible(pts') : x \in Possible(pts) \/ x \in todo'
  BY <1>4, PossibleCalls
<1>6. todo' \subseteq Possible(pts')
  BY <1>3, <1>4, PossibleCalls
<1> QED BY <1>1, <1>5, <1>6, PossibleMonotone

(* The exhaustive analysis has the statements and the copies of the calls it
   makes possible, and no others. *)
LEMMA LimitsAccounted ==
  ASSUME CallGraphAssumption, Types
  PROVE  Exhaustive(base) \subseteq base \cup UNION {Params[x] : x \in Possible(ExhaustivePts(base))}
<1> DEFINE P == ExhaustivePts(base)
           D == base \cup UNION {Params[x] : x \in Possible(P)}
<1>1. D \subseteq Exhaustive(base) /\ Closed(Exhaustive(base), P) /\ P \in Assignment
  BY Limits
<1>2. D \in SUBSET Statement
  BY <1>1, Limits
<1>3. Closed(D, P)
  BY <1>1 DEF Closed
<1>4. base \subseteq D /\ \A x \in Possible(P) : Params[x] \subseteq D
  OBVIOUS
<1> HIDE DEF D
<1>5. Exhaustive(base) \subseteq D
  BY <1>1, <1>2, <1>3, <1>4, Limits, ExhaustiveLeast
<1> QED BY <1>5 DEF D

(* The state after the exhaustive analysis satisfies it. *)
LEMMA InvInit ==
  ASSUME CallGraphAssumption, Init
  PROVE  CallInv
<1>1. Types
  BY TypesInit
<1>2. /\ edges = Exhaustive(base) /\ pts = ExhaustivePts(base) /\ pc = "idle"
      /\ diff = {} /\ work = {} /\ todo = {}
  BY DEF Init, ExhaustivePts
<1>3. ~Deleting /\ Waiting = {} /\ Leaving = {} /\ Settled = edges
  BY <1>2 DEF Deleting, Waiting, Leaving, Settled
<1>4. Phases
  BY <1>2, <1>3 DEF Phases
<1>6. Listed = Possible(pts)
  <2>1. \A x \in Calls : x[1] \in Indirect /\ x = <<x[1], x[2]>>
    BY DEF Calls
  <2>2. PICK calls : calls = Possible(pts)
    OBVIOUS
  <2>3. indCallMap = [s \in Indirect |-> {x[2] : x \in {y \in calls : y[1] = s}}]
    BY <2>2 DEF Init
  <2>4. calls \subseteq Calls
    BY <2>2, PossibleCalls
  <2>5. \A x \in Calls : x[2] \in indCallMap[x[1]] <=> x \in calls
    BY <2>1, <2>3, <2>4
  <2> QED BY <2>2, <2>4, <2>5 DEF Listed
<1>5. Bounded
  BY <1>1, <1>2, <1>3, <1>6, Limits DEF Bounded, Below, Known
<1>7. Current
  BY <1>6 DEF Current
<1>8. Possible(ExhaustivePts(base)) \subseteq Calls
  BY PossibleCalls
<1>9. Accounted
  BY <1>1, <1>2, <1>3, <1>6, <1>8, LimitsAccounted DEF Accounted, Served
<1>10. Complete
  BY <1>1, <1>2, <1>3, <1>6, Limits DEF Complete
<1> QED BY <1>1, <1>4, <1>5, <1>7, <1>9, <1>10 DEF CallInv

(* The program itself never changes, and the number of resolved calls does not
   fall. *)
LEMMA SameProgram ==
  ASSUME CallGraphAssumption, Types, [Next]_vars
  PROVE  base' = base /\ (Budget' => Budget) /\ (Unshared' <=> Unshared)
<1>1. base' = base
  BY DEF Next, Update, StartRound, DeletePass, DeletePassDone, StartInsertion, InsertPass,
         InsertPassDone, Disconnect, Connect, vars
<1>2. numOfResolvedIndCallEdge \in Nat /\ Limit \in Nat
  BY DEF Types, TypeOK, CallGraphAssumption
<1>3. ASSUME NEW s, NEW f, Connect(s, f)
      PROVE  numOfResolvedIndCallEdge' \in {numOfResolvedIndCallEdge, numOfResolvedIndCallEdge + 1}
  BY <1>3 DEF Connect, AddCall, cgVars
<1>4. ASSUME NEW s, NEW f, Disconnect(s, f) PROVE numOfResolvedIndCallEdge' = numOfResolvedIndCallEdge
  BY <1>4 DEF Disconnect, RemoveCall, cgVars
<1>5. numOfResolvedIndCallEdge' \in {numOfResolvedIndCallEdge, numOfResolvedIndCallEdge + 1}
  BY <1>3, <1>4 DEF Next, Update, StartRound, DeletePass, DeletePassDone, StartInsertion, InsertPass,
         InsertPassDone, vars, cgVars
<1>6. Budget' => Budget
  BY <1>2, <1>5 DEF Budget
<1>7. Unshared' <=> Unshared
  <2>1. PICK all : all = ExhaustivePts(base)
    OBVIOUS
  <2>2. ExhaustivePts(base') = all
    BY <1>1, <2>1
  <2>3. PICK known : known = Possible(all)
    OBVIOUS
  <2> QED BY <1>1, <2>1, <2>2, <2>3 DEF Unshared
<1> QED BY <1>1, <1>6, <1>7

(* Every step leaves the vectors as its phase expects them. *)
LEMMA PhasesStep ==
  ASSUME CallGraphAssumption, Types, Phases, Bounded, [Next]_vars
  PROVE  Phases'
<1> USE DEF Phases, Waiting, Leaving
<1>1. ASSUME NEW D \in SUBSET base, StartRound(D) PROVE Phases'
  BY <1>1 DEF StartRound
<1>2. CASE DeletePass
  BY <1>2 DEF DeletePass
<1>3. CASE DeletePassDone
  BY <1>3 DEF DeletePassDone, NewWork
<1>4. CASE StartInsertion
  BY <1>4 DEF StartInsertion
<1>5. CASE InsertPass
  BY <1>5 DEF InsertPass
<1>6. CASE InsertPassDone
  BY <1>6 DEF InsertPassDone, NewWork
<1>7. ASSUME NEW x \in todo, Disconnect(x[1], x[2]) PROVE Phases'
  BY <1>7 DEF Disconnect
<1>8. ASSUME NEW x \in todo, Connect(x[1], x[2]) PROVE Phases'
  BY <1>8 DEF Connect
<1>9. CASE UNCHANGED vars
  BY <1>9 DEF vars
<1> QED BY <1>1, <1>2, <1>3, <1>4, <1>5, <1>6, <1>7, <1>8, <1>9 DEF Next, Update

(* What disconnecting or connecting a call does to the map and the vectors. *)
LEMMA DisconnectEffect ==
  ASSUME CallGraphAssumption, Types, NEW x \in todo, Disconnect(x[1], x[2])
  PROVE  /\ x \in Calls /\ pc = "disconnect" /\ pc' = pc /\ todo' = todo \ {x}
         /\ UNCHANGED <<base, diff, edges, pts, nowPts>>
         /\ IF InBudget(x[1]) /\ x \in Listed
            THEN Listed' = Listed \ {x} /\ work' = work \cup Params[x]
            ELSE Listed' = Listed /\ work' = work
<1>1. x \in Calls /\ x[1] \in Indirect /\ x = <<x[1], x[2]>> /\ indCallMap \in [Indirect -> SUBSET Func]
  BY ConstantFacts DEF Types, TypeOK
<1>2. /\ pc = "disconnect" /\ todo' = todo \ {x} /\ UNCHANGED <<base, diff, edges, pts, nowPts, pc>>
      /\ IF InBudget(x[1]) /\ x[2] \in indCallMap[x[1]]
         THEN RemoveCall(x[1], x[2]) /\ work' = work \cup Params[x]
         ELSE UNCHANGED <<cgVars, work>>
  BY <1>1 DEF Disconnect, ParamsDel
<1>3. x \in Listed <=> x[2] \in indCallMap[x[1]]
  BY <1>1 DEF Listed
<1>4. CASE InBudget(x[1]) /\ x \in Listed
  <2>1. indCallMap' = [indCallMap EXCEPT ![x[1]] = @ \ {x[2]}] /\ work' = work \cup Params[x]
    BY <1>2, <1>3, <1>4 DEF RemoveCall
  <2>2. \A y \in Calls : y[1] \in Indirect /\ y = <<y[1], y[2]>>
    BY DEF Calls
  <2>3. \A y \in Calls : y[2] \in indCallMap'[y[1]] <=> y[2] \in indCallMap[y[1]] /\ y # x
    BY <1>1, <2>1, <2>2
  <2>4. Listed' = Listed \ {x}
    BY <2>3 DEF Listed
  <2> QED BY <1>1, <1>2, <1>4, <2>1, <2>4
<1>5. CASE ~(InBudget(x[1]) /\ x \in Listed)
  <2>1. indCallMap' = indCallMap /\ work' = work
    BY <1>2, <1>3, <1>5 DEF cgVars
  <2>2. Listed' = Listed
    BY <2>1 DEF Listed
  <2> QED BY <1>1, <1>2, <1>5, <2>1, <2>2
<1> QED BY <1>4, <1>5

(* What connecting a call changes. *)
LEMMA ConnectEffect ==
  ASSUME CallGraphAssumption, Types, NEW x \in todo, Connect(x[1], x[2])
  PROVE  /\ x \in Calls /\ pc = "connect" /\ pc' = pc /\ todo' = todo \ {x}
         /\ UNCHANGED <<base, diff, edges, pts, nowPts>>
         /\ IF InBudget(x[1]) /\ x \notin Listed
            THEN /\ Listed' = IF x[1] \in Virtual THEN Listed ELSE Listed \cup {x}
                 /\ work' = work \cup Params[x]
            ELSE Listed' = Listed /\ work' = work
<1>1. x \in Calls /\ x[1] \in Indirect /\ x = <<x[1], x[2]>> /\ indCallMap \in [Indirect -> SUBSET Func]
  BY ConstantFacts DEF Types, TypeOK
<1>2. /\ pc = "connect" /\ todo' = todo \ {x} /\ UNCHANGED <<base, diff, edges, pts, nowPts, pc>>
      /\ IF InBudget(x[1]) /\ x[2] \notin indCallMap[x[1]]
         THEN /\ indCallMap' = [indCallMap EXCEPT ![x[1]] =
                   IF x[1] \in Virtual THEN @ \ {x[2]} ELSE @ \cup {x[2]}]
              /\ work' = work \cup Params[x]
         ELSE UNCHANGED <<cgVars, work>>
  BY <1>1 DEF Connect, ParamsIns
<1>3. x \in Listed <=> x[2] \in indCallMap[x[1]]
  BY <1>1 DEF Listed
<1>4. CASE InBudget(x[1]) /\ x \notin Listed
  <2>1. /\ indCallMap' = [indCallMap EXCEPT ![x[1]] =
             IF x[1] \in Virtual THEN @ \ {x[2]} ELSE @ \cup {x[2]}]
        /\ work' = work \cup Params[x]
    BY <1>2, <1>3, <1>4
  <2>2. \A y \in Calls : y[1] \in Indirect /\ y = <<y[1], y[2]>>
    BY DEF Calls
  <2>3. x[2] \notin indCallMap[x[1]]
    BY <1>3, <1>4
  <2>4. CASE x[1] \in Virtual
    <3>1. indCallMap' = [indCallMap EXCEPT ![x[1]] = @ \ {x[2]}]
      BY <2>1, <2>4
    <3>2. \A y \in Calls : y[2] \in indCallMap'[y[1]] <=> y[2] \in indCallMap[y[1]]
      BY <1>1, <2>2, <2>3, <3>1
    <3>3. Listed' = Listed
      BY <3>2 DEF Listed
    <3> QED BY <1>1, <1>2, <1>4, <2>1, <2>4, <3>3
  <2>5. CASE x[1] \notin Virtual
    <3>1. indCallMap' = [indCallMap EXCEPT ![x[1]] = @ \cup {x[2]}]
      BY <2>1, <2>5
    <3>2. \A y \in Calls : y[2] \in indCallMap'[y[1]] <=> y[2] \in indCallMap[y[1]] \/ y = x
      BY <1>1, <2>2, <3>1
    <3>3. Listed' = Listed \cup {x}
      BY <1>1, <3>2 DEF Listed
    <3> QED BY <1>1, <1>2, <1>4, <2>1, <2>5, <3>3
  <2> QED BY <2>4, <2>5
<1>5. CASE ~(InBudget(x[1]) /\ x \notin Listed)
  <2>1. indCallMap' = indCallMap /\ work' = work
    BY <1>2, <1>3, <1>5 DEF cgVars
  <2>2. Listed' = Listed
    BY <2>1 DEF Listed
  <2> QED BY <1>1, <1>2, <1>5, <2>1, <2>2
<1> QED BY <1>4, <1>5

(* The other steps leave the map alone. *)
LEMMA SameMap ==
  ASSUME UNCHANGED cgVars
  PROVE  Listed' = Listed /\ Served' = Served
BY DEF cgVars, Listed, Served

(* Every step stays within the exhaustive analysis: deletion only takes away,
   and insertion adds what that analysis adds. *)
LEMMA BoundedStep ==
  ASSUME CallGraphAssumption, Types, Phases, Bounded, [Next]_vars
  PROVE  Bounded'
<1> DEFINE X == Exhaustive(base)
           P == ExhaustivePts(base)
<1>1. /\ base' = base /\ DataTypes /\ P \in Assignment /\ Closed(X, P)
      /\ base \subseteq X /\ X \in SUBSET Statement
      /\ \A x \in Possible(P) : Params[x] \subseteq X
      /\ Exhaustive(base') = X /\ ExhaustivePts(base') = P /\ Known' = Known /\ Known = Possible(P)
  BY SameProgram, Limits, TypesSplit DEF Known
<1> HIDE DEF X, P
<1>0. Listed \subseteq Known
  BY DEF Bounded
<1>2. /\ Closed(edges, pts) /\ edges \subseteq X /\ Below(pts, P)
      /\ ~Deleting => work \subseteq X
      /\ Waiting \subseteq Possible(pts)
  BY DEF Bounded, X, P
<1>3. SUFFICES /\ Closed(edges', pts') /\ edges' \subseteq X /\ Below(pts', P)
               /\ ~Deleting' => work' \subseteq X
               /\ Waiting' \subseteq Possible(pts')
               /\ Listed' \subseteq Known
  BY <1>1 DEF Bounded
<1> USE DEF Deleting, Waiting
<1>4. ASSUME NEW D \in SUBSET base, StartRound(D) PROVE <1>3!1
  BY <1>0, <1>2, <1>4, SameMap DEF StartRound
<1>5. CASE DeletePass
  <2>1. edges' \subseteq edges /\ Closed(edges', pts') /\ Below(pts', pts)
    BY <1>2, <1>5, DeletePassFacts
  <2>2. Below(pts', P)
    BY <1>2, <2>1 DEF Below
  <2>3. Listed' \subseteq Known
    BY <1>0, <1>5, SameMap DEF DeletePass
  <2> QED BY <1>2, <1>5, <2>1, <2>2, <2>3 DEF DeletePass
<1>6. CASE DeletePassDone
  BY <1>0, <1>2, <1>6, SameMap DEF DeletePassDone, NewWork, Phases
<1>7. CASE StartInsertion
  <2>1. diff \subseteq X
    BY <1>1 DEF DataTypes
  <2> QED BY <1>0, <1>2, <1>7, <2>1, SameMap DEF StartInsertion
<1>8. CASE InsertPass
  <2>1. edges' = edges \cup work /\ Closed(edges', pts') /\ edges' \subseteq X
    BY <1>2, <1>8, InsertPassFacts DEF InsertPass
  <2>2. Closed(edges', P)
    BY <1>1, <2>1 DEF Closed
  <2>3. Below(pts', P)
    BY <1>1, <1>2, <1>8, <2>2, InsertPassFacts
  <2>4. todo' \subseteq Possible(pts') /\ work' = {} /\ pc' = "connect"
    BY <1>8, GainedCalls DEF InsertPass
  <2>5. Listed' \subseteq Known
    BY <1>0, <1>8, SameMap DEF InsertPass
  <2> QED BY <2>1, <2>3, <2>4, <2>5
<1>9. CASE InsertPassDone
  BY <1>0, <1>2, <1>9, SameMap DEF InsertPassDone
<1>10. ASSUME NEW x \in todo, Disconnect(x[1], x[2]) PROVE <1>3!1
  <2>1. Listed' \subseteq Listed
    BY <1>10, DisconnectEffect
  <2> QED BY <1>0, <1>2, <1>10, <2>1 DEF Disconnect
<1>11. ASSUME NEW x \in todo, Connect(x[1], x[2]) PROVE <1>3!1
  <2>1. /\ pc = "connect" /\ pc' = pc /\ edges' = edges /\ pts' = pts /\ todo' \subseteq todo
        /\ work' = work \/ work' = work \cup ParamsIns(<<x[1], x[2]>>)
    BY <1>11 DEF Connect
  <2>2. x \in Possible(pts) /\ x \in Calls /\ x = <<x[1], x[2]>>
    BY <1>2, <2>1, PossibleCalls, ConstantFacts
  <2>3. pts \in Assignment
    BY <1>1 DEF DataTypes
  <2>4. x \in Possible(P)
    BY <1>1, <1>2, <2>2, <2>3, PossibleMonotone
  <2>5. ParamsIns(<<x[1], x[2]>>) \subseteq X
    BY <1>1, <2>2, <2>4 DEF ParamsIns
  <2>6. Listed' \subseteq Listed \cup {x}
    BY <1>11, ConnectEffect
  <2> QED BY <1>0, <1>1, <1>2, <2>1, <2>4, <2>5, <2>6
<1>12. CASE UNCHANGED vars
  BY <1>0, <1>2, <1>12, SameMap DEF vars
<1> QED BY <1>4, <1>5, <1>6, <1>7, <1>8, <1>9, <1>10, <1>11, <1>12 DEF Next, Update

(* A call the pointers no longer allow is in todo until it is disconnected. *)
LEMMA CurrentStep ==
  ASSUME CallGraphAssumption, Types, Phases, Bounded, Current, [Next]_vars
  PROVE  Current'
<1>1. SUFFICES ASSUME Budget', NEW x \in Listed', x[1] \notin Virtual
               PROVE  x \in Possible(pts') \cup Leaving'
  BY DEF Current
<1>2. ASSUME x \in Listed PROVE x \in Possible(pts) \cup Leaving
  BY <1>1, <1>2, SameProgram DEF Current
<1> USE DEF Leaving
<1>3. CASE DeletePassDone \/ StartInsertion \/ InsertPassDone \/ UNCHANGED vars \/ \E D \in SUBSET base : StartRound(D)
  <2>1. /\ UNCHANGED cgVars /\ pts' = pts
        /\ UNCHANGED <<todo, pc>> \/ (pc' # "disconnect" /\ Leaving = {})
    BY <1>3 DEF DeletePassDone, StartInsertion, InsertPassDone, StartRound, vars
  <2> QED BY <1>1, <1>2, <2>1, SameMap
<1>4. CASE DeletePass
  <2>1. UNCHANGED cgVars /\ pc = "delete" /\ pc' = "disconnect"
    BY <1>4 DEF DeletePass
  <2>2. x \in Possible(pts)
    BY <1>1, <1>2, <2>1, SameMap
  <2> QED BY <1>4, <2>1, <2>2, LostCalls
<1>5. CASE InsertPass
  <2>1. UNCHANGED cgVars /\ pc = "insert"
    BY <1>5 DEF InsertPass
  <2>2. x \in Possible(pts)
    BY <1>1, <1>2, <2>1, SameMap
  <2> QED BY <1>5, <2>2, GainedCalls
<1>6. ASSUME NEW y \in todo, Disconnect(y[1], y[2]) PROVE x \in Possible(pts') \cup Leaving'
  <2>1. /\ pc = "disconnect" /\ pc' = pc /\ todo' = todo \ {y} /\ pts' = pts
        /\ IF InBudget(y[1]) /\ y \in Listed
           THEN Listed' = Listed \ {y} /\ work' = work \cup Params[y]
           ELSE Listed' = Listed /\ work' = work
    BY <1>6, DisconnectEffect
  <2>2. InBudget(x[1])
    BY <1>1, SameProgram DEF InBudget, Budget
  <2>3. x \in Listed /\ x # y
    BY <1>1, <2>1, <2>2
  <2> QED BY <1>2, <2>1, <2>3
<1>7. ASSUME NEW y \in todo, Connect(y[1], y[2]) PROVE x \in Possible(pts') \cup Leaving'
  <2>1. /\ pc = "connect" /\ pts' = pts
        /\ Listed' \subseteq Listed \cup {y}
    BY <1>7, ConnectEffect
  <2>2. y \in Possible(pts)
    BY <2>1 DEF Bounded, Waiting
  <2> QED BY <1>1, <1>2, <2>1, <2>2
<1> QED BY <1>3, <1>4, <1>5, <1>6, <1>7 DEF Next, Update

(* The copies of a call go with the call. *)
LEMMA AccountedStep ==
  ASSUME CallGraphAssumption, Types, Phases, Accounted, [Next]_vars
  PROVE  Accounted'
<1>1. base' = base /\ DataTypes
  BY SameProgram, TypesSplit
<1> USE DEF Deleting, Accounted
<1>2. ASSUME NEW D \in SUBSET base, StartRound(D) PROVE Accounted'
  <2>1. Served' = Served
    BY <1>2, SameMap DEF StartRound
  <2> QED BY <1>2, <2>1 DEF StartRound, Phases
<1>3. CASE DeletePass
  <2>1. Served' = Served /\ edges' = edges \ work
    BY <1>3, SameMap, DeletePassFacts DEF DeletePass
  <2> QED BY <1>3, <2>1 DEF DeletePass
<1>4. CASE DeletePassDone
  <2>1. Served' = Served
    BY <1>4, SameMap DEF DeletePassDone
  <2> QED BY <1>4, <2>1 DEF DeletePassDone
<1>5. CASE StartInsertion
  <2>1. Served' = Served
    BY <1>5, SameMap DEF StartInsertion
  <2>2. diff \subseteq base /\ work = {}
    BY <1>1, <1>5 DEF DataTypes, Phases, StartInsertion
  <2> QED BY <1>5, <2>1, <2>2 DEF StartInsertion
<1>6. CASE InsertPass
  <2>1. Served' = Served
    BY <1>6, SameMap DEF InsertPass
  <2> QED BY <1>6, <2>1 DEF InsertPass
<1>7. CASE InsertPassDone
  <2>1. Served' = Served
    BY <1>7, SameMap DEF InsertPassDone
  <2> QED BY <1>7, <2>1 DEF InsertPassDone
<1>8. ASSUME NEW x \in todo, Disconnect(x[1], x[2]) PROVE Accounted'
  <2>1. /\ x \in Calls /\ pc = "disconnect" /\ pc' = pc /\ UNCHANGED <<base, diff, edges>>
        /\ \/ Listed' = Listed \ {x} /\ work' = work \cup Params[x]
           \/ Listed' = Listed /\ work' = work
    BY <1>8, DisconnectEffect
  <2>2. Served \subseteq Served' \cup work'
    BY <2>1 DEF Served
  <2> QED BY <2>1, <2>2
<1>9. ASSUME NEW x \in todo, Connect(x[1], x[2]) PROVE Accounted'
  <2>1. /\ x \in Calls /\ pc = "connect" /\ pc' = pc /\ UNCHANGED <<base, diff, edges>>
        /\ \/ /\ Listed' = IF x[1] \in Virtual THEN Listed ELSE Listed \cup {x}
              /\ work' = work \cup Params[x]
           \/ Listed' = Listed /\ work' = work
    BY <1>9, ConnectEffect
  <2>2. Served \subseteq Served'
    BY <2>1 DEF Served
  <2>3. work' \subseteq work \cup Served'
    BY <2>1 DEF Served
  <2> QED BY <2>1, <2>2, <2>3
<1>10. CASE UNCHANGED vars
  BY <1>10, SameMap DEF vars
<1> QED BY <1>2, <1>3, <1>4, <1>5, <1>6, <1>7, <1>8, <1>9, <1>10 DEF Next, Update

(* Where copies are not shared, no step loses what some call needs. *)
LEMMA CompleteStep ==
  ASSUME CallGraphAssumption, Types, Phases, Bounded, Unshared, Budget, Complete, [Next]_vars
  PROVE  Complete'
<1>1. base' = base /\ DataTypes
  BY SameProgram, TypesSplit
<1>2. \A x \in Known : /\ Params[x] \cap base = {}
                       /\ \A y \in Known : x # y => Params[x] \cap Params[y] = {}
  BY DEF Unshared, Known
<1>3. Possible(pts) \subseteq Known /\ Listed \subseteq Known /\ Known \subseteq Calls
  <2>1. pts \in Assignment /\ ExhaustivePts(base) \in Assignment /\ Below(pts, ExhaustivePts(base))
    BY <1>1, Limits DEF DataTypes, Bounded
  <2>2. Possible(pts) \subseteq Known /\ Known \subseteq Calls
    BY <2>1, PossibleMonotone, PossibleCalls DEF Known
  <2> QED BY <2>2 DEF Bounded
<1> USE DEF Complete, Deleting, Waiting, Leaving
<1>4. ASSUME NEW D \in SUBSET base, StartRound(D) PROVE Complete'
  <2>1. /\ pc = "idle" /\ pc' = "delete" /\ work = {} /\ work' = D /\ diff' = D
        /\ edges' = edges /\ pts' = pts /\ Listed' = Listed
    BY <1>4, SameMap DEF StartRound, Phases
  <2>2. Settled = edges /\ Settled' = edges \ D
    BY <2>1 DEF Settled
  <2>3. \A x \in Known : Params[x] \subseteq Settled => Params[x] \subseteq Settled'
    BY <1>2, <2>2
  <2>4. base \ D \subseteq Settled'
    BY <2>1, <2>2
  <2>5. \A x \in Possible(pts) : Params[x] \subseteq Settled' /\ (x[1] \in Virtual \/ x \in Listed)
    BY <1>3, <2>1, <2>3
  <2>6. \A x \in Listed : Params[x] \subseteq Settled'
    BY <1>3, <2>3
  <2> QED BY <1>1, <2>1, <2>4, <2>5, <2>6
<1>5. CASE DeletePass
  <2>1. /\ pc = "delete" /\ pc' = "disconnect" /\ work' = {} /\ diff' = diff
        /\ edges' = edges \ work /\ Listed' = Listed
    BY <1>5, SameMap, DeletePassFacts DEF DeletePass
  <2>2. Settled' = Settled
    BY <2>1 DEF Settled
  <2>3. Possible(pts') \subseteq Possible(pts) /\ todo' \cap Possible(pts') = {}
    BY <1>5, LostCalls
  <2> QED BY <1>1, <2>1, <2>2, <2>3
<1>6. CASE DeletePassDone
  <2>1. /\ pc = "disconnect" /\ pc' \in {"delete", "deleted"} /\ todo = {} /\ todo' = {}
        /\ UNCHANGED <<work, diff, edges, pts>> /\ Listed' = Listed
    BY <1>6, SameMap DEF DeletePassDone
  <2>2. Settled' = Settled
    BY <2>1 DEF Settled
  <2> QED BY <1>1, <2>1, <2>2
<1>7. CASE StartInsertion
  <2>1. /\ pc = "deleted" /\ pc' = "insert" /\ work = {} /\ work' = diff
        /\ UNCHANGED <<diff, edges, pts>> /\ Listed' = Listed
    BY <1>7, SameMap DEF StartInsertion, Phases
  <2>2. Settled = edges /\ Settled' = edges \cup diff
    BY <2>1 DEF Settled
  <2>3. base \subseteq Settled'
    BY <2>1, <2>2
  <2> QED BY <1>1, <2>1, <2>2, <2>3
<1>8. CASE InsertPass
  <2>1. /\ pc = "insert" /\ pc' = "connect" /\ work' = {} /\ diff' = diff
        /\ edges' = edges \cup work /\ Listed' = Listed
    BY <1>8, SameMap DEF InsertPass
  <2>2. Settled' = Settled
    BY <2>1 DEF Settled
  <2>3. \A x \in Possible(pts') : x \in Possible(pts) \/ x \in todo'
    BY <1>8, GainedCalls
  <2> QED BY <1>1, <2>1, <2>2, <2>3
<1>9. CASE InsertPassDone
  <2>1. /\ pc = "connect" /\ pc' \in {"insert", "idle"} /\ todo = {} /\ todo' = {}
        /\ UNCHANGED <<work, edges, pts>> /\ Listed' = Listed
    BY <1>9, SameMap DEF InsertPassDone
  <2>2. Settled' = Settled
    BY <2>1 DEF Settled
  <2> QED BY <1>1, <2>1, <2>2
<1>10. ASSUME NEW y \in todo, Disconnect(y[1], y[2]) PROVE Complete'
  <2>1. /\ y \in Calls /\ pc = "disconnect" /\ pc' = pc /\ todo' = todo \ {y}
        /\ UNCHANGED <<diff, edges, pts>>
        /\ \/ y \in Listed /\ Listed' = Listed \ {y} /\ work' = work \cup Params[y]
           \/ Listed' = Listed /\ work' = work
    BY <1>10, DisconnectEffect
  <2>2. y \notin Possible(pts)
    BY <2>1
  <2>3. CASE y \in Listed /\ Listed' = Listed \ {y} /\ work' = work \cup Params[y]
    <3>0. y \in Known
      BY <1>3, <2>3
    <3>1. Settled' = Settled \ Params[y]
      BY <2>1, <2>3 DEF Settled
    <3>2. \A x \in Known : x # y /\ Params[x] \subseteq Settled => Params[x] \subseteq Settled'
      BY <1>2, <3>0, <3>1
    <3>3. base \ diff \subseteq Settled'
      BY <1>2, <2>1, <3>0, <3>1
    <3>4. \A x \in Possible(pts) : Params[x] \subseteq Settled' /\ (x[1] \in Virtual \/ x \in Listed')
      BY <1>3, <2>1, <2>2, <2>3, <3>2
    <3>5. \A x \in Listed' : Params[x] \subseteq Settled'
      BY <1>3, <2>3, <3>2
    <3> QED BY <1>1, <2>1, <3>3, <3>4, <3>5
  <2>4. CASE Listed' = Listed /\ work' = work
    <3>1. Settled' = Settled
      BY <2>1, <2>4 DEF Settled
    <3> QED BY <1>1, <2>1, <2>4, <3>1
  <2> QED BY <2>1, <2>3, <2>4
<1>11. ASSUME NEW y \in todo, Connect(y[1], y[2]) PROVE Complete'
  <2>1. /\ y \in Calls /\ pc = "connect" /\ pc' = pc /\ todo' = todo \ {y}
        /\ UNCHANGED <<diff, edges, pts>>
        /\ IF InBudget(y[1]) /\ y \notin Listed
           THEN /\ Listed' = IF y[1] \in Virtual THEN Listed ELSE Listed \cup {y}
                /\ work' = work \cup Params[y]
           ELSE Listed' = Listed /\ work' = work
    BY <1>11, ConnectEffect
  <2>2. InBudget(y[1])
    BY DEF InBudget, Budget
  <2>3. /\ Listed \subseteq Listed' /\ Listed' \subseteq Listed \cup {y} /\ work \subseteq work'
        /\ y[1] \in Virtual \/ y \in Listed'
        /\ y \notin Listed => Params[y] \subseteq work'
    BY <2>1, <2>2
  <2>4. Settled \subseteq Settled' /\ work' \subseteq Settled'
    BY <2>1, <2>3 DEF Settled
  <2>5. Params[y] \subseteq Settled'
    BY <2>3, <2>4
  <2>6. \A x \in Possible(pts) \ todo' : Params[x] \subseteq Settled' /\ (x[1] \in Virtual \/ x \in Listed')
    BY <2>1, <2>3, <2>4, <2>5
  <2>7. \A x \in Listed' : Params[x] \subseteq Settled'
    BY <2>3, <2>4, <2>5
  <2>8. base \ diff \subseteq Settled' /\ base \subseteq Settled'
    BY <2>1, <2>4
  <2> QED BY <1>1, <2>1, <2>6, <2>7, <2>8
<1>12. CASE UNCHANGED vars
  <2>1. UNCHANGED <<base, diff, edges, pts, work, todo, pc>> /\ Listed' = Listed
    BY <1>12, SameMap DEF vars
  <2>2. Settled' = Settled
    BY <2>1 DEF Settled
  <2> QED BY <2>1, <2>2
<1> QED BY <1>4, <1>5, <1>6, <1>7, <1>8, <1>9, <1>10, <1>11, <1>12 DEF Next, Update

(* The three facts that make it an invariant. *)
LEMMA CallInvariant == ASSUME CallGraphAssumption PROVE Spec => []CallInv
<1>1. Init => CallInv
  BY InvInit
<1>2. CallInv /\ [Next]_vars => CallInv'
  <2> SUFFICES ASSUME CallInv, [Next]_vars PROVE CallInv'
    OBVIOUS
  <2>1. Types /\ Phases /\ Bounded /\ Current /\ Accounted /\ (Unshared /\ Budget => Complete)
    BY DEF CallInv
  <2>2. Types' /\ Phases' /\ Bounded' /\ Current' /\ Accounted'
    BY <2>1, TypesStep, PhasesStep, BoundedStep, CurrentStep, AccountedStep
  <2>3. Unshared' /\ Budget' => Complete'
    BY <2>1, SameProgram, CompleteStep
  <2> QED BY <2>2, <2>3 DEF CallInv
<1> QED BY <1>1, <1>2, PTL DEF Spec

-----------------------------------------------------------------------------
(* What the invariant implies *)

(* Points-to sets and edges stay within those of the exhaustive analysis,
   whatever is shared, refused or left over (AndersenInc.cpp:3178). *)
THEOREM NothingTooMuch == ASSUME CallGraphAssumption PROVE Spec => []NothingBeyond
<1>1. CallInv => NothingBeyond
  BY BoundMeans DEF CallInv, Bounded
<1> QED BY <1>1, CallInvariant, PTL

(* Deletion disconnects every call whose function its pointer has lost, however
   many passes it takes, while the budget lasts (AndersenInc.cpp:2622). *)
THEOREM StaleCallsGo == ASSUME CallGraphAssumption PROVE Spec => []NoStaleCall
<1>1. CallInv => NoStaleCall
  <2> SUFFICES ASSUME CallInv, pc = "deleted", Budget,
                      NEW s \in Indirect \ Virtual, NEW f \in indCallMap[s]
               PROVE  <<s, f>> \in Possible(pts)
    BY DEF NoStaleCall, Budget
  <2>1. indCallMap[s] \subseteq Func
    BY DEF CallInv, Types, TypeOK
  <2>2. <<s, f>> \in Listed
    BY <2>1 DEF Listed, Calls
  <2> QED BY <2>2 DEF CallInv, Current, Leaving
<1> QED BY <1>1, CallInvariant, PTL

(* No parameter copy stays behind when its call has been disconnected, and
   none appears that no call asked for (AndersenInc.cpp:2971, 3696). *)
THEOREM ParamsGoWithCalls == ASSUME CallGraphAssumption PROVE Spec => []NoLeakedParams
<1>1. CallInv => NoLeakedParams
  <2> SUFFICES ASSUME CallInv, pc \in {"deleted", "idle"}, NEW e \in edges, e \notin base \ diff
               PROVE  \E x \in Calls : e \in Params[x] /\ (x[2] \in indCallMap[x[1]] \/ x[1] \in Virtual)
    BY DEF NoLeakedParams
  <2>1. work = {} /\ (pc = "idle" => diff = {})
    BY DEF CallInv, Phases
  <2>2. e \in Served
    BY <2>1 DEF CallInv, Accounted, Deleting
  <2> QED BY <2>2 DEF Served, Listed
<1> QED BY <1>1, CallInvariant, PTL

(* Where no copy serves two calls, deletion keeps whatever the remaining
   program implies, the parameters of its indirect calls included. *)
THEOREM RemainderKept == ASSUME CallGraphAssumption PROVE Spec => []DeletionSound
<1>1. CallInv => DeletionSound
  <2> SUFFICES ASSUME CallInv, pc = "deleted", Unshared, Budget
               PROVE  Below(ExhaustivePts(base \ diff), pts)
    BY DEF DeletionSound, Budget, Below
  <2>1. Types /\ Phases /\ Bounded /\ Complete
    BY DEF CallInv
  <2>2. work = {} /\ Settled = edges /\ Waiting = {}
    BY <2>1 DEF Phases, Settled, Deleting, Waiting
  <2>3. base \ diff \in SUBSET Statement /\ edges \in SUBSET Statement /\ pts \in Assignment
    BY <2>1, Limits, TypesSplit DEF DataTypes
  <2>4. base \ diff \subseteq edges /\ Closed(edges, pts) /\ \A x \in Possible(pts) : Params[x] \subseteq edges
    BY <2>1, <2>2 DEF Complete, Bounded
  <2> QED BY <2>3, <2>4, ExhaustiveLeast
<1> QED BY <1>1, CallInvariant, PTL

(* Where no copy serves two calls, a round leaves the points-to sets, the edges
   and the calls of the exhaustive analysis, while the budget lasts. *)
THEOREM RoundsRestore == ASSUME CallGraphAssumption PROVE Spec => []RoundRestores
<1>1. CallInv => RoundRestores
  <2> SUFFICES ASSUME CallInv, pc = "idle", Unshared, Budget
               PROVE  /\ pts = ExhaustivePts(base) /\ edges = Exhaustive(base)
                      /\ \A s \in Indirect \ Virtual : \A f \in Func :
                           f \in indCallMap[s] <=> <<s, f>> \in Possible(pts)
    BY DEF RoundRestores, Budget
  <2>1. Types /\ Phases /\ Bounded /\ Current /\ Complete
    BY DEF CallInv
  <2>2. work = {} /\ Settled = edges /\ Waiting = {} /\ Leaving = {} /\ ~Deleting
    BY <2>1 DEF Phases, Settled, Deleting, Waiting, Leaving
  <2>3. /\ base \in SUBSET Statement /\ edges \in SUBSET Statement /\ pts \in Assignment
        /\ ExhaustivePts(base) \in Assignment
    BY <2>1, Limits, TypesSplit DEF DataTypes
  <2>4. base \subseteq edges /\ Closed(edges, pts) /\ \A x \in Possible(pts) : Params[x] \subseteq edges
    BY <2>1, <2>2 DEF Complete, Bounded
  <2>5. Exhaustive(base) \subseteq edges /\ Below(ExhaustivePts(base), pts)
    BY <2>3, <2>4, ExhaustiveLeast
  <2>6. edges \subseteq Exhaustive(base) /\ Below(pts, ExhaustivePts(base))
    BY <2>1 DEF Bounded
  <2>7. \A n \in Node : pts[n] = ExhaustivePts(base)[n]
    BY <2>5, <2>6 DEF Below
  <2>8. pts = ExhaustivePts(base)
    BY <2>3, <2>7 DEF Assignment
  <2>9. ASSUME NEW s \in Indirect \ Virtual, NEW f \in Func
        PROVE  f \in indCallMap[s] <=> <<s, f>> \in Possible(pts)
    <3>1. <<s, f>> \in Calls /\ (<<s, f>> \in Listed <=> f \in indCallMap[s])
      BY DEF Calls, Listed
    <3>2. <<s, f>> \in Listed => <<s, f>> \in Possible(pts)
      BY <2>1, <2>2 DEF Current
    <3>3. <<s, f>> \in Possible(pts) => <<s, f>> \in Listed
      BY <2>1, <2>2 DEF Complete
    <3> QED BY <3>1, <3>2, <3>3
  <2> QED BY <2>5, <2>6, <2>8, <2>9
<1> QED BY <1>1, CallInvariant, PTL

-----------------------------------------------------------------------------
(* The edges of the call graph *)

(* The calls the exhaustive analysis knows. *)
Expected == Direct \cup Possible(ExhaustivePts(base))

(* EdgesFollowCalls with what makes it inductive: no other call has an edge. *)
GraphMatches ==
  /\ callEdges \subseteq Expected
  /\ \A x \in Direct : Alone(x, Expected) => x \in callEdges
  /\ \A x \in Calls : x[1] \notin Virtual /\ Alone(x, Expected) =>
       /\ x \in callEdges <=> x \in Listed
       /\ <<x[1], x>> \in instEdges <=> x \in callEdges
       /\ <<x[1], x>> \notin dangling

(* A direct call is not an indirect one. *)
LEMMA DirectApart ==
  ASSUME CallGraphAssumption
  PROVE  Direct \cap Calls = {}
BY DEF CallGraphAssumption, Calls

(* Of a call alone between its functions the edge found is its own. *)
LEMMA OwnEdge ==
  ASSUME Types, callEdges \subseteq Expected, NEW x \in callEdges, NEW y \in Expected,
         Alone(y, Expected), GraphEdge(x) = y \/ x = y
  PROVE  GraphEdge(x) = y /\ x = y
<1>1. GraphEdge(x) \in SameEnds(x) /\ GraphEdge(x) \in Expected /\ x \in Expected
  BY GraphEdgeExists
<1>2. PICK e : e = GraphEdge(x)
  OBVIOUS
<1>3. Caller[e[1]] = Caller[x[1]] /\ e[2] = x[2] /\ e \in Expected /\ (e = y \/ x = y)
  BY <1>1, <1>2 DEF SameEnds
<1>4. e = y /\ x = y
  BY <1>1, <1>3 DEF Alone
<1> QED BY <1>2, <1>4

(* The graph of the exhaustive analysis has every call. *)
LEMMA GraphInit ==
  ASSUME CallGraphAssumption, Init
  PROVE  GraphMatches
<1>1. PICK calls : calls = Possible(pts)
  OBVIOUS
<1>2. pts = ExhaustivePts(base) /\ calls \subseteq Calls
  BY <1>1, PossibleCalls DEF Init, ExhaustivePts
<1>3. /\ indCallMap = [s \in Indirect |-> {x[2] : x \in {y \in calls : y[1] = s}}]
      /\ callEdges = Direct \cup calls
      /\ instEdges = {<<x[1], x>> : x \in Direct \cup calls}
      /\ dangling = {}
  BY <1>1 DEF Init
<1>4. \A x \in Calls : x[1] \in Indirect /\ x = <<x[1], x[2]>>
  BY DEF Calls
<1>5. \A x \in Calls : x[2] \in indCallMap[x[1]] <=> x \in calls
  BY <1>2, <1>3, <1>4
<1>6. \A x \in Calls : x \in Listed <=> x \in calls
  BY <1>5 DEF Listed
<1>7. \A x \in Calls : x \in callEdges <=> x \in calls
  BY <1>3, DirectApart
<1>8. \A x \in Calls : <<x[1], x>> \in instEdges <=> x \in callEdges
  BY <1>3
<1>9. callEdges = Expected
  BY <1>1, <1>2, <1>3 DEF Expected
<1> QED BY <1>3, <1>6, <1>7, <1>8, <1>9 DEF GraphMatches

(* Disconnecting one call. *)
LEMMA GraphLoses ==
  ASSUME CallGraphAssumption, Types, GraphMatches, NEW c \in todo, Disconnect(c[1], c[2])
  PROVE  GraphMatches'
<1>1. /\ c \in Calls /\ c = <<c[1], c[2]>> /\ base' = base
      /\ IF InBudget(c[1]) /\ c \in Listed THEN Listed' = Listed \ {c} ELSE Listed' = Listed
  BY DisconnectEffect, ConstantFacts
<1>2. Expected' = Expected
  BY <1>1 DEF Expected
<1>3. c \in Listed <=> c[2] \in indCallMap[c[1]]
  BY <1>1 DEF Listed
<1>4. CASE ~(InBudget(c[1]) /\ c \in Listed)
  <2>1. UNCHANGED cgVars /\ Listed' = Listed
    BY <1>1, <1>3, <1>4 DEF Disconnect
  <2> QED BY <1>2, <2>1 DEF GraphMatches, cgVars
<1>5. CASE InBudget(c[1]) /\ c \in Listed /\ c \notin callEdges
  <2>1. UNCHANGED <<callEdges, instEdges, dangling>> /\ Listed' = Listed \ {c}
    BY <1>1, <1>3, <1>5 DEF Disconnect, RemoveCall
  <2> QED BY <1>2, <1>5, <2>1 DEF GraphMatches
<1>6. CASE InBudget(c[1]) /\ c \in Listed /\ c \in callEdges
  <2>1. PICK e : e = GraphEdge(c)
    OBVIOUS
  <2>2. /\ callEdges' = callEdges \ {e}
        /\ instEdges' = instEdges \ {<<c[1], e>>, <<e[1], e>>}
        /\ dangling' = IF e[1] = c[1] THEN dangling ELSE dangling \cup {<<e[1], e>>}
        /\ Listed' = Listed \ {c}
    BY <1>1, <1>3, <1>6, <2>1 DEF Disconnect, RemoveCall
  <2>3. callEdges \subseteq Expected /\ e \in callEdges
    BY <1>6, <2>1, GraphEdgeExists DEF GraphMatches
  <2>4. \A y \in Expected : Alone(y, Expected) /\ (e = y \/ c = y) => e = y /\ c = y
    BY <1>6, <2>1, <2>3, OwnEdge
  <2>5. ASSUME NEW x \in Direct, Alone(x, Expected) PROVE x \in callEdges'
    <3>1. x \in Expected /\ x # c /\ x \in callEdges
      BY <1>1, <2>5, DirectApart DEF Expected, GraphMatches
    <3> QED BY <2>2, <2>4, <2>5, <3>1
  <2>6. ASSUME NEW x \in Calls, x[1] \notin Virtual, Alone(x, Expected)
        PROVE  /\ x \in callEdges' <=> x \in Listed'
               /\ <<x[1], x>> \in instEdges' <=> x \in callEdges'
               /\ <<x[1], x>> \notin dangling'
    <3>1. /\ x \in callEdges <=> x \in Listed
          /\ <<x[1], x>> \in instEdges <=> x \in callEdges
          /\ <<x[1], x>> \notin dangling
      BY <2>6 DEF GraphMatches
    <3>2. CASE x = c
      <4>1. e = x
        BY <1>6, <2>3, <2>4, <2>6, <3>2
      <4> QED BY <2>2, <3>1, <3>2, <4>1
    <3>3. CASE x # c
      <4>1. e # x
        BY <2>3, <2>4, <2>6, <3>3
      <4> QED BY <2>2, <3>1, <3>3, <4>1
    <3> QED BY <3>2, <3>3
  <2> QED BY <1>2, <2>2, <2>3, <2>5, <2>6 DEF GraphMatches
<1> QED BY <1>4, <1>5, <1>6

(* Connecting one call. *)
LEMMA GraphGains ==
  ASSUME CallGraphAssumption, Types, Phases, Bounded, GraphMatches,
         NEW c \in todo, Connect(c[1], c[2])
  PROVE  GraphMatches'
<1>1. /\ c \in Calls /\ c = <<c[1], c[2]>> /\ base' = base /\ pc = "connect"
      /\ IF InBudget(c[1]) /\ c \notin Listed
         THEN Listed' = IF c[1] \in Virtual THEN Listed ELSE Listed \cup {c}
         ELSE Listed' = Listed
  BY ConnectEffect, ConstantFacts
<1>2. Expected' = Expected
  BY <1>1 DEF Expected
<1>3. c \in Listed <=> c[2] \in indCallMap[c[1]]
  BY <1>1 DEF Listed
<1>4. CASE ~(InBudget(c[1]) /\ c \notin Listed)
  <2>1. UNCHANGED cgVars /\ Listed' = Listed
    BY <1>1, <1>3, <1>4 DEF Connect
  <2> QED BY <1>2, <2>1 DEF GraphMatches, cgVars
<1>5. CASE InBudget(c[1]) /\ c \notin Listed
  <2>1. /\ callEdges' = callEdges \cup {c}
        /\ instEdges' = IF c \in callEdges THEN instEdges ELSE instEdges \cup {<<c[1], c>>}
        /\ dangling' = dangling
        /\ Listed' = IF c[1] \in Virtual THEN Listed ELSE Listed \cup {c}
    BY <1>1, <1>3, <1>5 DEF Connect, AddCall
  <2>2. c \in Expected
    <3>1. c \in Possible(pts) /\ Below(pts, ExhaustivePts(base))
      BY <1>1 DEF Bounded, Waiting
    <3>2. pts \in Assignment /\ ExhaustivePts(base) \in Assignment
      BY Limits, TypesSplit DEF DataTypes
    <3> QED BY <3>1, <3>2, PossibleMonotone DEF Expected
  <2>3. ASSUME NEW x \in Calls, x[1] \notin Virtual, Alone(x, Expected)
        PROVE  /\ x \in callEdges' <=> x \in Listed'
               /\ <<x[1], x>> \in instEdges' <=> x \in callEdges'
               /\ <<x[1], x>> \notin dangling'
    <3>1. /\ x \in callEdges <=> x \in Listed
          /\ <<x[1], x>> \in instEdges <=> x \in callEdges
          /\ <<x[1], x>> \notin dangling
      BY <2>3 DEF GraphMatches
    <3>2. CASE x = c
      BY <2>1, <2>3, <3>1, <3>2
    <3>3. CASE x # c
      BY <2>1, <3>1, <3>3
    <3> QED BY <3>2, <3>3
  <2>4. callEdges \subseteq Expected /\ \A x \in Direct : Alone(x, Expected) => x \in callEdges
    BY DEF GraphMatches
  <2> QED BY <1>2, <2>1, <2>2, <2>3, <2>4 DEF GraphMatches
<1> QED BY <1>4, <1>5

(* A call that no other call shares its two functions with keeps its edge as
   long as it is connected, and loses it with the connection
   (PTACallGraph.cpp:168, 221). *)
THEOREM EdgesGoWithCalls == ASSUME CallGraphAssumption PROVE Spec => []EdgesFollowCalls
<1>1. Init => GraphMatches
  BY GraphInit
<1>2. CallInv /\ GraphMatches /\ [Next]_vars => GraphMatches'
  <2> SUFFICES ASSUME CallInv, GraphMatches, [Next]_vars PROVE GraphMatches'
    OBVIOUS
  <2>1. Types /\ Phases /\ Bounded
    BY DEF CallInv
  <2>2. ASSUME UNCHANGED cgVars PROVE GraphMatches'
    <3>1. base' = base /\ Listed' = Listed
      BY <2>1, <2>2, SameProgram, SameMap
    <3> QED BY <2>2, <3>1 DEF GraphMatches, Expected, cgVars
  <2>3. ASSUME NEW x \in todo, Disconnect(x[1], x[2]) PROVE GraphMatches'
    BY <2>1, <2>3, GraphLoses
  <2>4. ASSUME NEW x \in todo, Connect(x[1], x[2]) PROVE GraphMatches'
    BY <2>1, <2>4, GraphGains
  <2>5. \/ UNCHANGED cgVars
        \/ \E x \in todo : Disconnect(x[1], x[2]) \/ Connect(x[1], x[2])
    BY DEF Next, Update, StartRound, DeletePass, DeletePassDone, StartInsertion, InsertPass,
           InsertPassDone, vars, cgVars
  <2> QED BY <2>2, <2>3, <2>4, <2>5
<1>3. GraphMatches => EdgesFollowCalls
  BY DEF GraphMatches, EdgesFollowCalls, Expected, Listed
<1> QED BY <1>1, <1>2, <1>3, CallInvariant, PTL DEF Spec

(* The call graph follows the function pointers: deletion retracts nothing that
   still holds and leaves no impossible call and no parameter copy, a round
   restores points-to sets, edges and calls, nothing goes beyond the exhaustive
   analysis, and a call alone between two functions keeps its edge, for every
   program, every change and any number of rounds (updateCallGraphDel,
   updateCallGraphIns, PTACallGraph). *)
THEOREM CallsAreCorrect == ASSUME CallGraphAssumption PROVE Spec => []CallsCorrect
<1>1. /\ TypeOK /\ DeletionSound /\ NoStaleCall /\ NoLeakedParams /\ RoundRestores
      /\ NothingBeyond /\ EdgesFollowCalls
      => CallsCorrect
  BY DEF CallsCorrect
<1> QED BY <1>1, CallTypes, RemainderKept, StaleCallsGo, ParamsGoWithCalls, RoundsRestore,
           NothingTooMuch, EdgesGoWithCalls, PTL

-----------------------------------------------------------------------------
(***************************************************************************)
(* Between rounds the constraint graph is that of the program; the step    *)
(* driver handles each statement once, in rounds of the size asked for, and *)
(* the slices of the proportion driver divide the statements.              *)
(***************************************************************************)

(* A statement the step driver is to handle. *)
Scheduled(i) == Enabled(i) /\ Wanted(i)

(* Every counted statement is handled. *)
NothingFiltered == \A i \in Items : Counted(i) => Wanted(i)

(* Where the edges of the program are, and what is in the vectors. *)
EdgesThere ==
  /\ delVec \subseteq insVec
  /\ graph \cup EdgesOf(IF drPc = "drive" THEN insVec \ delVec ELSE insVec) = Program
  /\ drPc \in {"insert", "done"} => delVec = {}
  /\ ~ choice.pseudo => insVec = delVec \/ drPc = "insert"
  /\ ~ choice.pseudo /\ drPc # "insert" => graph = Program

(* The step driver: each scheduled statement it has passed is in the vector of
   deletions or in one round. *)
StepRounds ==
  choice.driver = "step" =>
    /\ \A i \in insVec : i < pos
    /\ \A i \in delVec : Scheduled(i)
    /\ drPc \in {"drive", "done"} /\ stepCount = 0 => delVec = {}
    /\ drPc # "drive" => stepCount = 0
    /\ drPc = "done" => pos \notin Items
    /\ \A i \in Items : IsFiniteSet(RoundsOf(i)) /\ Cardinality(RoundsOf(i)) =
         IF Scheduled(i) /\ i < pos /\ i \notin delVec THEN 1 ELSE 0

(* And the counter is the size of that vector, if nothing is filtered out. *)
StepSizes ==
  choice.driver = "step" /\ NothingFiltered =>
    /\ \A r \in DOMAIN rounds : Cardinality(rounds[r]) \in 1..choice.step
    /\ drPc = "drive" => Cardinality(delVec) = stepCount /\ stepCount < choice.step
    /\ drPc = "delete" => Cardinality(delVec) \in 1..choice.step

(* The proportion driver: round r is slice r. *)
ProportionRounds ==
  choice.driver = "proportion" =>
    /\ incRound = (roundcount + choice.rounds) % Word /\ roundcount + choice.rounds <= Word
    /\ \A r \in DOMAIN rounds : rounds[r] = Sliced(r)
    /\ IF drPc = "delete" THEN delVec = Sliced(roundcount) /\ roundcount = Len(rounds) + 1
                          ELSE delVec = {} /\ roundcount = Len(rounds)

Inv ==
  /\ DriverTypeOK /\ rounds \in Seq(SUBSET Items)
  /\ EdgesThere /\ StepRounds /\ StepSizes /\ ProportionRounds
-----------------------------------------------------------------------------
(* What is assumed of a program and its options. *)
LEMMA ProgramFacts ==
  ASSUME DriverAssumption, choice \in Options
  PROVE  /\ Word \in Nat /\ Word > 0
         /\ Len(items) \in Nat /\ Items = 1..Len(items)
         /\ \A i \in Items : items[i].stmt \in Nat
         /\ \A i, j \in Items : items[i].stmt = items[j].stmt => items[i].kind = items[j].kind
         /\ choice.driver \in {"step", "proportion"} /\ choice.pseudo \in BOOLEAN
         /\ choice.driver = "step" => choice.step \in Nat /\ choice.step > 0
         /\ choice.driver = "proportion" =>
              choice.percent \in 0..100 /\ choice.rounds \in 1..(Word - 1)
<1> DEFINE R == [kind : DOMAIN Counters, stmt : Nat, edge : STRING]
<1>1. choice.items \in Seq(R)
  BY DEF DriverAssumption
<1>2. \A i \in DOMAIN choice.items : choice.items[i] \in R
  <2> HIDE DEF R
  <2> QED BY <1>1
<1>3. Len(choice.items) \in Nat /\ DOMAIN choice.items = 1..Len(choice.items)
  <2> HIDE DEF R
  <2> QED BY <1>1
<1>4. \A i \in DOMAIN choice.items : choice.items[i].stmt \in Nat
  BY <1>2
<1>5. \A i, j \in DOMAIN choice.items :
        choice.items[i].stmt = choice.items[j].stmt => choice.items[i].kind = choice.items[j].kind
  BY DEF DriverAssumption
<1> QED BY <1>3, <1>4, <1>5 DEF DriverAssumption, items, Items

(* Edges of statements of either of two sets, and of some of a set. *)
LEMMA EdgesTogether ==
  ASSUME NEW I, NEW J
  PROVE  /\ EdgesOf(I \cup J) = EdgesOf(I) \cup EdgesOf(J)
         /\ I \subseteq J => EdgesOf(I) \subseteq EdgesOf(J)
         /\ EdgesOf({}) = {}
BY DEF EdgesOf

(* Sets of items are finite. *)
LEMMA ItemsFinite ==
  ASSUME DriverAssumption, choice \in Options, NEW I \in SUBSET Items
  PROVE  IsFiniteSet(I) /\ Cardinality(I) \in Nat
<1>1. IsFiniteSet(Items)
  BY ProgramFacts, FS_Interval
<1> QED BY <1>1, FS_Subset, FS_CardinalityType

(* A slice holds items of the program. *)
LEMMA SlicedType == \A r : Sliced(r) \subseteq Items
BY DEF Sliced

LEMMA InitInv ==
  ASSUME DriverAssumption, DriverInit
  PROVE  Inv
<1>1. DriverTypeOK /\ rounds \in Seq(SUBSET Items)
  <2>1. pos \in 1..(Len(items) + 1)
    BY ProgramFacts DEF DriverInit
  <2>2. incRound \in 0..(Word - 1) /\ roundcount \in 0..(Word - 1)
    BY ProgramFacts DEF DriverInit
  <2> QED BY <2>1, <2>2 DEF DriverInit, DriverTypeOK
<1>2. EdgesThere
  <2>1. EdgesOf({}) = {}
    BY EdgesTogether
  <2> QED BY <2>1 DEF DriverInit, EdgesThere
<1>3. StepRounds
  <2>1. \A i \in Items : RoundsOf(i) = {}
    BY DEF DriverInit, RoundsOf
  <2>2. \A i \in Items : ~ (i < pos)
    BY ProgramFacts DEF DriverInit
  <2> QED BY <2>1, <2>2, FS_EmptySet DEF DriverInit, StepRounds
<1>4. StepSizes
  BY FS_EmptySet, ProgramFacts DEF DriverInit, StepSizes
<1>5. ProportionRounds
  <2>1. SUFFICES ASSUME choice.driver = "proportion" PROVE ProportionRounds
    BY DEF ProportionRounds
  <2>2. choice.rounds \in Nat /\ choice.rounds < Word /\ Word \in Nat /\ Word > 0
    BY <2>1, ProgramFacts DEF DriverInit
  <2>3. choice.rounds % Word = choice.rounds
    BY <2>2
  <2>4. incRound = choice.rounds /\ roundcount = 0 /\ rounds = <<>> /\ delVec = {} /\ drPc = "drive"
    BY <2>1 DEF DriverInit
  <2> QED BY <2>2, <2>3, <2>4 DEF ProportionRounds
<1> QED BY <1>1, <1>2, <1>3, <1>4, <1>5 DEF Inv

-----------------------------------------------------------------------------
(* The program and what is read off it stay. *)
LEMMA ProgramStays ==
  ASSUME choice' = choice
  PROVE  /\ items' = items /\ Items' = Items /\ Program' = Program
         /\ \A i : Enabled(i)' = Enabled(i) /\ Wanted(i)' = Wanted(i) /\ Counted(i)' = Counted(i)
         /\ \A i : Scheduled(i)' = Scheduled(i)
         /\ NothingFiltered' = NothingFiltered
<1>1. items' = items /\ Items' = Items
  BY DEF items, Items
<1>2. Program' = Program
  BY <1>1 DEF Program, EdgesOf
<1>3. \A i : Count(i)' = Count(i)
  BY <1>1 DEF Count
<1>4. \A i : Enabled(i)' = Enabled(i)
  BY <1>1 DEF Enabled
<1>5. \A i : Wanted(i)' = Wanted(i)
  BY <1>1, <1>3 DEF Wanted
<1>6. \A i : Counted(i)' = Counted(i)
  BY <1>1, <1>4, <1>5 DEF Counted
<1>7. NothingFiltered' = NothingFiltered
  BY <1>1, <1>5, <1>6 DEF NothingFiltered
<1> QED BY <1>1, <1>2, <1>4, <1>5, <1>6, <1>7 DEF Scheduled

LEMMA VisitKeeps ==
  ASSUME DriverAssumption, Inv, Visit
  PROVE  Inv'
<1> USE DEF Inv
<1>1. choice' = choice /\ choice \in Options /\ pos' = pos + 1 /\ pos \in Items
      /\ graph' = graph /\ roundcount' = roundcount /\ incRound' = incRound /\ rounds' = rounds
      /\ drPc = "drive" /\ choice.driver = "step"
  BY DEF Visit, DriverTypeOK
<1>2. /\ items' = items /\ Items' = Items /\ Program' = Program
      /\ \A i : Scheduled(i)' = Scheduled(i)
      /\ NothingFiltered' = NothingFiltered
  BY <1>1, ProgramStays
<1>3. Len(items) \in Nat /\ Items = 1..Len(items) /\ choice.step \in Nat /\ choice.step > 0
  BY <1>1, ProgramFacts
<1>4. pos \notin insVec /\ pos \notin delVec /\ pos \in Nat
  BY <1>1, <1>3 DEF StepRounds, EdgesThere
<1> DEFINE n == IF Counted(pos) THEN stepCount + 1 ELSE stepCount
           wanted == Enabled(pos) /\ Wanted(pos)
<1>5. /\ IF wanted THEN delVec' = delVec \cup {pos} /\ insVec' = insVec \cup {pos}
                   ELSE delVec' = delVec /\ insVec' = insVec
      /\ IF wanted /\ n = choice.step THEN stepCount' = 0 /\ drPc' = "delete"
                                       ELSE stepCount' = n /\ drPc' = drPc
  BY DEF Visit
<1>6. n \in Nat /\ n \in {stepCount, stepCount + 1} /\ stepCount \in Nat
  BY DEF DriverTypeOK
<1>7. wanted => n = stepCount + 1
  BY DEF Counted
<1>8. wanted <=> Scheduled(pos)
  BY DEF Scheduled
<1>12. NothingFiltered /\ ~ wanted => n = stepCount
  BY <1>1 DEF NothingFiltered, Counted
<1> HIDE DEF n, wanted
<1>9. /\ delVec' \subseteq delVec \cup {pos} /\ insVec' \subseteq insVec \cup {pos}
      /\ stepCount' \in Nat /\ drPc' \in {"drive", "delete"}
  BY <1>1, <1>5, <1>6
<1>10. DriverTypeOK' /\ (rounds \in Seq(SUBSET Items))'
  <2>1. pos + 1 \in 1..(Len(items) + 1)
    BY <1>1, <1>3
  <2> QED BY <1>1, <1>2, <1>9, <2>1 DEF DriverTypeOK
<1>11. EdgesThere'
  <2>1. delVec' \subseteq insVec'
    BY <1>5 DEF EdgesThere
  <2>2. drPc' = "drive" => insVec' \ delVec' = insVec \ delVec
    BY <1>4, <1>5
  <2>3. graph \cup EdgesOf(insVec \ delVec) = Program
    BY <1>1 DEF EdgesThere
  <2>4. graph \subseteq Program /\ delVec \subseteq Items /\ insVec \subseteq Items
    BY DEF DriverTypeOK
  <2>5. insVec \ delVec \subseteq insVec' /\ insVec' \subseteq Items
    BY <1>1, <1>4, <1>5, <2>4
  <2>6. graph \cup EdgesOf(insVec') = Program
    <3>1. EdgesOf(insVec \ delVec) \subseteq EdgesOf(insVec')
      BY <2>5, EdgesTogether
    <3>2. EdgesOf(insVec') \subseteq EdgesOf(Items)
      BY <2>5, EdgesTogether
    <3> QED BY <2>3, <2>4, <3>1, <3>2 DEF Program
  <2>7. \A I : EdgesOf(I)' = {items'[i].edge : i \in I'}
    BY DEF EdgesOf
  <2>8. (graph \cup EdgesOf(IF drPc = "drive" THEN insVec \ delVec ELSE insVec) = Program)'
    <3>1. CASE drPc' = "drive"
      <4>1. graph' \cup EdgesOf(insVec \ delVec) = Program'
        BY <1>1, <1>2, <2>3
      <4> QED BY <1>2, <2>2, <3>1, <4>1 DEF EdgesOf
    <3>2. CASE drPc' # "drive"
      <4>1. graph' \cup EdgesOf(insVec') = Program'
        BY <1>1, <1>2, <2>6
      <4> QED BY <1>2, <3>2, <4>1 DEF EdgesOf
    <3> QED BY <3>1, <3>2
  <2>9. ~ choice.pseudo => insVec' = delVec'
    BY <1>1, <1>5 DEF EdgesThere
  <2>10. ~ choice.pseudo => graph = Program
    BY <1>1 DEF EdgesThere
  <2> QED BY <1>1, <1>2, <1>9, <2>1, <2>8, <2>9, <2>10 DEF EdgesThere
<1>13. StepRounds'
  <2>1. \A i : RoundsOf(i)' = RoundsOf(i)
    BY <1>1 DEF RoundsOf
  <2>2. \A i \in insVec' : i < pos + 1
    <3>1. \A i \in insVec : i \in 1..Len(items) /\ i < pos
      BY <1>1, <1>3 DEF StepRounds, DriverTypeOK
    <3>2. pos \in 1..Len(items)
      BY <1>1, <1>3
    <3> QED BY <1>3, <1>9, <3>1, <3>2
  <2>3. \A i \in delVec' : Scheduled(i)
    BY <1>1, <1>5, <1>8 DEF StepRounds
  <2>4. drPc' = "drive" /\ stepCount' = 0 => delVec' = {}
    <3>1. SUFFICES ASSUME drPc' = "drive", stepCount' = 0 PROVE delVec' = {}
      OBVIOUS
    <3>2. ~ wanted /\ stepCount = 0
      BY <1>1, <1>5, <1>6, <1>7, <3>1
    <3> QED BY <1>1, <1>5, <3>2 DEF StepRounds
  <2>5. drPc' # "drive" => stepCount' = 0
    BY <1>1, <1>5
  <2>6. ASSUME NEW i \in Items
        PROVE  IsFiniteSet(RoundsOf(i)) /\ Cardinality(RoundsOf(i)) =
                 IF Scheduled(i) /\ i < pos + 1 /\ i \notin delVec' THEN 1 ELSE 0
    <3>1. IsFiniteSet(RoundsOf(i)) /\ Cardinality(RoundsOf(i)) =
                 IF Scheduled(i) /\ i < pos /\ i \notin delVec THEN 1 ELSE 0
      BY <1>1, <2>6 DEF StepRounds
    <3>2. CASE i = pos
      BY <1>3, <1>4, <1>5, <1>8, <3>1, <3>2
    <3>3. CASE i # pos
      <4>1. i < pos + 1 <=> i < pos
        BY <1>3, <1>4, <3>3
      <4>2. i \in delVec' <=> i \in delVec
        BY <1>5, <3>3
      <4> QED BY <3>1, <4>1, <4>2
    <3> QED BY <3>2, <3>3
  <2>7. drPc' # "done"
    BY <1>9
  <2> QED BY <1>1, <1>2, <1>9, <2>1, <2>2, <2>3, <2>4, <2>5, <2>6, <2>7 DEF StepRounds
<1>14. StepSizes'
  <2>1. SUFFICES ASSUME NothingFiltered PROVE StepSizes'
    BY <1>2 DEF StepSizes
  <2>2. /\ \A r \in DOMAIN rounds : Cardinality(rounds[r]) \in 1..choice.step
        /\ Cardinality(delVec) = stepCount /\ stepCount < choice.step
    BY <1>1, <2>1 DEF StepSizes
  <2>3. IsFiniteSet(delVec)
    BY <1>1, ItemsFinite DEF DriverTypeOK
  <2>4. Cardinality(delVec \cup {pos}) = stepCount + 1
    BY <1>4, <2>2, <2>3, FS_AddElement
  <2>5. CASE wanted
    <3>1. delVec' = delVec \cup {pos} /\ n = stepCount + 1
      BY <1>5, <1>7, <2>5
    <3>2. CASE n = choice.step
      <4>1. stepCount' = 0 /\ drPc' = "delete" /\ Cardinality(delVec') = choice.step
        BY <1>5, <2>4, <2>5, <3>1, <3>2
      <4>2. Cardinality(delVec') \in 1..choice.step
        BY <1>3, <4>1
      <4> QED BY <1>1, <2>2, <4>1, <4>2 DEF StepSizes
    <3>3. CASE n # choice.step
      <4>1. stepCount' = n /\ drPc' = "drive" /\ Cardinality(delVec') = n /\ n < choice.step
        BY <1>1, <1>3, <1>5, <1>6, <2>2, <2>4, <2>5, <3>1, <3>3
      <4> QED BY <1>1, <2>2, <4>1 DEF StepSizes
    <3> QED BY <3>2, <3>3
  <2>6. CASE ~ wanted
    <3>1. delVec' = delVec /\ stepCount' = stepCount /\ drPc' = "drive"
      BY <1>1, <1>5, <1>12, <2>1, <2>6
    <3> QED BY <1>1, <2>2, <3>1 DEF StepSizes
  <2> QED BY <2>5, <2>6
<1>15. ProportionRounds'
  BY <1>1 DEF ProportionRounds
<1> QED BY <1>10, <1>11, <1>13, <1>14, <1>15

LEMMA StepDoneKeeps ==
  ASSUME DriverAssumption, Inv, StepDone
  PROVE  Inv'
<1> USE DEF Inv
<1>1. choice' = choice /\ choice \in Options /\ pos' = pos /\ pos \notin Items
      /\ delVec' = delVec /\ insVec' = insVec /\ stepCount' = 0
      /\ graph' = graph /\ roundcount' = roundcount /\ incRound' = incRound /\ rounds' = rounds
      /\ drPc = "drive" /\ choice.driver = "step"
      /\ drPc' = (IF stepCount # 0 THEN "delete" ELSE "done")
  BY DEF StepDone, LastRound, DriverTypeOK
<1>2. /\ items' = items /\ Items' = Items /\ Program' = Program
      /\ \A i : Scheduled(i)' = Scheduled(i)
      /\ NothingFiltered' = NothingFiltered
  BY <1>1, ProgramStays
<1>3. stepCount \in Nat /\ choice.step \in Nat
  BY <1>1, ProgramFacts DEF DriverTypeOK
<1>4. drPc' = "done" => delVec = {}
  BY <1>1 DEF StepRounds
<1>5. DriverTypeOK' /\ (rounds \in Seq(SUBSET Items))'
  BY <1>1, <1>2 DEF DriverTypeOK
<1>6. EdgesThere'
  <2>1. graph \cup EdgesOf(insVec \ delVec) = Program /\ delVec \subseteq insVec
        /\ (~ choice.pseudo => insVec = delVec /\ graph = Program)
    BY <1>1 DEF EdgesThere
  <2>2. graph \cup EdgesOf(insVec) = Program
    <3>1. EdgesOf(insVec \ delVec) \subseteq EdgesOf(insVec) /\ EdgesOf(insVec) \subseteq EdgesOf(Items)
      BY EdgesTogether DEF DriverTypeOK
    <3> QED BY <2>1, <3>1 DEF Program, DriverTypeOK
  <2>3. (graph \cup EdgesOf(insVec) = Program)'
    BY <1>1, <1>2, <2>2 DEF EdgesOf
  <2> QED BY <1>1, <1>2, <1>4, <2>1, <2>3 DEF EdgesThere
<1>7. StepRounds'
  <2>1. \A i : RoundsOf(i)' = RoundsOf(i)
    BY <1>1 DEF RoundsOf
  <2> QED BY <1>1, <1>2, <1>4, <2>1 DEF StepRounds
<1>8. StepSizes'
  BY <1>1, <1>2, <1>3 DEF StepSizes
<1>9. ProportionRounds'
  BY <1>1 DEF ProportionRounds
<1> QED BY <1>5, <1>6, <1>7, <1>8, <1>9

(* A number below the word is its own rest. *)
LEMMA SmallRest ==
  ASSUME NEW w \in Nat, w > 0, NEW x \in 0..(w - 1)
  PROVE  x % w = x
OBVIOUS

LEMMA ProportionRoundKeeps ==
  ASSUME DriverAssumption, Inv, ProportionRound
  PROVE  Inv'
<1> USE DEF Inv
<1>1. choice' = choice /\ choice \in Options /\ pos' = pos /\ stepCount' = stepCount
      /\ graph' = graph /\ rounds' = rounds
      /\ roundcount' = (roundcount + 1) % Word /\ incRound' = (incRound + 1) % Word
      /\ delVec' = delVec \cup Sliced(roundcount') /\ insVec' = insVec \cup Sliced(roundcount')
      /\ drPc = "drive" /\ choice.driver = "proportion" /\ roundcount < incRound
      /\ drPc' = "delete"
  BY DEF ProportionRound, DriverTypeOK
<1>2. /\ items' = items /\ Items' = Items /\ Program' = Program
  BY <1>1, ProgramStays
<1>3. /\ Word \in Nat /\ Word > 0 /\ choice.rounds \in 1..(Word - 1)
      /\ roundcount \in 0..(Word - 1) /\ incRound \in 0..(Word - 1)
  BY <1>1, ProgramFacts DEF DriverTypeOK
<1>4. /\ incRound = (roundcount + choice.rounds) % Word /\ roundcount + choice.rounds <= Word
      /\ delVec = {} /\ roundcount = Len(rounds)
      /\ \A r \in DOMAIN rounds : rounds[r] = Sliced(r)
  BY <1>1 DEF ProportionRounds
<1>5. roundcount + choice.rounds < Word
  <2>1. CASE roundcount + choice.rounds = Word
    <3>1. (roundcount + choice.rounds) % Word = 0
      BY <1>3, <2>1
    <3> QED BY <1>1, <1>3, <1>4, <3>1
  <2> QED BY <1>3, <1>4, <2>1
<1>6. incRound = roundcount + choice.rounds
  <2>1. roundcount + choice.rounds \in 0..(Word - 1)
    BY <1>3, <1>5
  <2> QED BY <1>3, <1>4, <2>1, SmallRest
<1>7. roundcount' = roundcount + 1
  BY <1>1, <1>3, <1>5
<1>8. incRound' = (roundcount' + choice.rounds) % Word /\ roundcount' + choice.rounds <= Word
  <2>1. incRound + 1 = (roundcount + 1) + choice.rounds
    BY <1>3, <1>6
  <2> QED BY <1>1, <1>3, <1>5, <1>7, <2>1
<1>9. \A r : Sliced(r)' = Sliced(r)
  BY <1>1, <1>2 DEF Sliced, StmtSets, Stmts, Slice, SliceStep, Number
<1>10. delVec' = Sliced(roundcount') /\ Sliced(roundcount') \subseteq Items
  BY <1>1, <1>4, SlicedType
<1>11. DriverTypeOK' /\ (rounds \in Seq(SUBSET Items))'
  <2>1. incRound' \in 0..(Word - 1) /\ roundcount' \in 0..(Word - 1)
    BY <1>1, <1>3
  <2> QED BY <1>1, <1>2, <1>10, <2>1 DEF DriverTypeOK
<1>12. EdgesThere'
  <2>1. graph \cup EdgesOf(insVec) = Program /\ (~ choice.pseudo => insVec = {} /\ graph = Program)
    <3>1. insVec \ delVec = insVec
      BY <1>4
    <3> QED BY <1>1, <1>4, <3>1 DEF EdgesThere
  <2>2. insVec \subseteq insVec' /\ insVec' \subseteq Items /\ graph \subseteq Program
    BY <1>1, <1>10 DEF DriverTypeOK
  <2>3. EdgesOf(insVec) \subseteq EdgesOf(insVec') /\ EdgesOf(insVec') \subseteq EdgesOf(Items)
    BY <2>2, EdgesTogether
  <2>4. graph \cup EdgesOf(insVec') = Program
    BY <2>1, <2>2, <2>3 DEF Program
  <2>5. (graph \cup EdgesOf(insVec) = Program)'
    BY <1>1, <1>2, <2>4 DEF EdgesOf
  <2>6. ~ choice.pseudo => insVec' = delVec'
    BY <1>1, <1>10, <2>1
  <2> QED BY <1>1, <1>2, <1>10, <2>1, <2>5, <2>6 DEF EdgesThere
<1>13. StepRounds' /\ StepSizes'
  BY <1>1 DEF StepRounds, StepSizes
<1>14. ProportionRounds'
  <2>1. delVec' = Sliced(roundcount)' /\ roundcount' = Len(rounds) + 1
    <3>1. Sliced(roundcount)' = Sliced(roundcount')
      BY <1>1, <1>2 DEF Sliced, StmtSets, Stmts, Slice, SliceStep, Number
    <3> QED BY <1>4, <1>7, <1>10, <3>1
  <2>2. \A r \in DOMAIN rounds' : rounds'[r] = Sliced(r)'
    BY <1>1, <1>4, <1>9
  <2> QED BY <1>1, <1>8, <2>1, <2>2 DEF ProportionRounds
<1> QED BY <1>11, <1>12, <1>13, <1>14

LEMMA ProportionDoneKeeps ==
  ASSUME DriverAssumption, Inv, ProportionDone
  PROVE  Inv'
<1> USE DEF Inv
<1>1. choice' = choice /\ choice \in Options /\ pos' = pos /\ stepCount' = stepCount
      /\ delVec' = delVec /\ insVec' = insVec
      /\ graph' = graph /\ roundcount' = roundcount /\ incRound' = incRound /\ rounds' = rounds
      /\ drPc = "drive" /\ choice.driver = "proportion" /\ drPc' = "done"
  BY DEF ProportionDone, DriverTypeOK
<1>2. /\ items' = items /\ Items' = Items /\ Program' = Program
  BY <1>1, ProgramStays
<1>3. delVec = {}
  BY <1>1 DEF ProportionRounds
<1>4. DriverTypeOK' /\ (rounds \in Seq(SUBSET Items))'
  BY <1>1, <1>2 DEF DriverTypeOK
<1>5. EdgesThere'
  <2>1. graph \cup EdgesOf(insVec) = Program /\ (~ choice.pseudo => insVec = {} /\ graph = Program)
    <3>1. insVec \ delVec = insVec
      BY <1>3
    <3> QED BY <1>1, <1>3, <3>1 DEF EdgesThere
  <2>2. (graph \cup EdgesOf(insVec) = Program)'
    BY <1>1, <1>2, <2>1 DEF EdgesOf
  <2> QED BY <1>1, <1>2, <1>3, <2>1, <2>2 DEF EdgesThere
<1>6. StepRounds' /\ StepSizes'
  BY <1>1 DEF StepRounds, StepSizes
<1>7. ProportionRounds'
  <2>1. \A r : Sliced(r)' = Sliced(r)
    BY <1>1, <1>2 DEF Sliced, StmtSets, Stmts, Slice, SliceStep, Number
  <2> QED BY <1>1, <2>1 DEF ProportionRounds
<1> QED BY <1>4, <1>5, <1>6, <1>7

(* A round: one more, in which the items deleted are. *)
LEMMA RoundAdded ==
  ASSUME NEW S, NEW s \in Seq(S), NEW x \in S
  PROVE  /\ Append(s, x) \in Seq(S) /\ Len(Append(s, x)) = Len(s) + 1
         /\ DOMAIN Append(s, x) = DOMAIN s \cup {Len(s) + 1} /\ Len(s) + 1 \notin DOMAIN s
         /\ \A r \in DOMAIN s : Append(s, x)[r] = s[r]
         /\ Append(s, x)[Len(s) + 1] = x
<1>1. Len(s) \in Nat /\ DOMAIN s = 1..Len(s)
  OBVIOUS
<1>2. Len(Append(s, x)) = Len(s) + 1 /\ Append(s, x) \in Seq(S)
  OBVIOUS
<1>3. DOMAIN Append(s, x) = 1..(Len(s) + 1)
  BY <1>2
<1> QED BY <1>1, <1>2, <1>3

LEMMA DeleteKeeps ==
  ASSUME DriverAssumption, Inv, Delete
  PROVE  Inv'
<1> USE DEF Inv
<1>1. choice' = choice /\ choice \in Options /\ pos' = pos /\ stepCount' = stepCount
      /\ insVec' = insVec /\ roundcount' = roundcount /\ incRound' = incRound
      /\ drPc = "delete" /\ drPc' = "insert"
      /\ graph' = graph \ EdgesOf(delVec) /\ rounds' = Append(rounds, delVec) /\ delVec' = {}
  BY DEF Delete, DriverTypeOK
<1>2. /\ items' = items /\ Items' = Items /\ Program' = Program
      /\ \A i : Scheduled(i)' = Scheduled(i)
      /\ NothingFiltered' = NothingFiltered
  BY <1>1, ProgramStays
<1> DEFINE last == Len(rounds) + 1
<1>3. delVec \in SUBSET Items /\ rounds \in Seq(SUBSET Items)
  BY DEF DriverTypeOK
<1>4. /\ rounds' \in Seq(SUBSET Items) /\ Len(rounds') = Len(rounds) + 1
      /\ DOMAIN rounds' = DOMAIN rounds \cup {last} /\ last \notin DOMAIN rounds
      /\ \A r \in DOMAIN rounds : rounds'[r] = rounds[r]
      /\ rounds'[last] = delVec
  BY <1>1, <1>3, RoundAdded
<1> HIDE DEF last
<1>5. DriverTypeOK' /\ (rounds \in Seq(SUBSET Items))'
  BY <1>1, <1>2, <1>3, <1>4 DEF DriverTypeOK
<1>6. EdgesThere'
  <2>1. graph \cup EdgesOf(insVec) = Program /\ delVec \subseteq insVec
    BY <1>1 DEF EdgesThere
  <2>2. EdgesOf(delVec) \subseteq EdgesOf(insVec)
    BY <2>1, EdgesTogether
  <2>3. (graph \ EdgesOf(delVec)) \cup EdgesOf(insVec) = Program
    BY <2>1, <2>2
  <2>4. (graph \cup EdgesOf(insVec) = Program)'
    BY <1>1, <1>2, <2>3 DEF EdgesOf
  <2> QED BY <1>1, <2>4 DEF EdgesThere
<1>7. StepRounds'
  <2>1. SUFFICES ASSUME choice.driver = "step" PROVE StepRounds'
    BY <1>1 DEF StepRounds
  <2>2. \A i : RoundsOf(i)' = IF i \in delVec THEN RoundsOf(i) \cup {last} ELSE RoundsOf(i)
    BY <1>1, <1>4 DEF RoundsOf
  <2>3. \A i : last \notin RoundsOf(i)
    BY <1>4 DEF RoundsOf
  <2>4. ASSUME NEW i \in Items
        PROVE  /\ IsFiniteSet(RoundsOf(i))'
               /\ Cardinality(RoundsOf(i))' = IF Scheduled(i) /\ i < pos THEN 1 ELSE 0
    <3>1. IsFiniteSet(RoundsOf(i)) /\ Cardinality(RoundsOf(i)) =
                 IF Scheduled(i) /\ i < pos /\ i \notin delVec THEN 1 ELSE 0
      BY <2>1 DEF StepRounds
    <3>2. CASE i \in delVec
      <4>1. Scheduled(i) /\ i < pos
        BY <2>1, <3>2 DEF StepRounds, EdgesThere
      <4>2. IsFiniteSet(RoundsOf(i) \cup {last}) /\ Cardinality(RoundsOf(i) \cup {last}) = 1
        BY <2>3, <3>1, <3>2, FS_AddElement
      <4> QED BY <2>2, <3>2, <4>1, <4>2
    <3>3. CASE i \notin delVec
      BY <2>2, <3>1, <3>3
    <3> QED BY <3>2, <3>3
  <2>5. stepCount = 0 /\ \A i \in insVec : i < pos
    BY <1>1, <2>1 DEF StepRounds
  <2> QED BY <1>1, <1>2, <2>1, <2>4, <2>5 DEF StepRounds
<1>8. StepSizes'
  <2>1. SUFFICES ASSUME choice.driver = "step", NothingFiltered
        PROVE  \A r \in DOMAIN rounds' : Cardinality(rounds'[r]) \in 1..choice.step
    BY <1>1, <1>2 DEF StepSizes
  <2> QED BY <1>1, <1>4, <2>1 DEF StepSizes
<1>9. ProportionRounds'
  <2>1. SUFFICES ASSUME choice.driver = "proportion" PROVE ProportionRounds'
    BY <1>1 DEF ProportionRounds
  <2>2. \A r : Sliced(r)' = Sliced(r)
    BY <1>1, <1>2 DEF Sliced, StmtSets, Stmts, Slice, SliceStep, Number
  <2>3. delVec = Sliced(roundcount) /\ roundcount = last
    BY <1>1, <2>1 DEF ProportionRounds, last
  <2>4. \A r \in DOMAIN rounds' : rounds'[r] = Sliced(r)
    BY <1>4, <2>1, <2>3 DEF ProportionRounds
  <2>5. \A r \in DOMAIN rounds' : rounds'[r] = Sliced(r)'
    BY <2>2, <2>4
  <2>6. roundcount' = Len(rounds')
    BY <1>1, <1>4, <2>3 DEF last
  <2> QED BY <1>1, <2>1, <2>5, <2>6 DEF ProportionRounds
<1> QED BY <1>5, <1>6, <1>7, <1>8, <1>9

LEMMA InsertKeeps ==
  ASSUME DriverAssumption, Inv, Insert
  PROVE  Inv'
<1> USE DEF Inv
<1>1. choice' = choice /\ choice \in Options /\ pos' = pos /\ stepCount' = stepCount
      /\ delVec' = delVec /\ roundcount' = roundcount /\ incRound' = incRound /\ rounds' = rounds
      /\ drPc = "insert" /\ drPc' = "drive"
      /\ graph' = graph \cup EdgesOf(Taken) /\ insVec' = insVec \ Taken
  BY DEF Insert, DriverTypeOK
<1>2. /\ items' = items /\ Items' = Items /\ Program' = Program
      /\ \A i : Scheduled(i)' = Scheduled(i)
      /\ NothingFiltered' = NothingFiltered
  BY <1>1, ProgramStays
<1>3. delVec = {} /\ graph \cup EdgesOf(insVec) = Program
  BY <1>1 DEF EdgesThere
<1>4. Taken \subseteq insVec /\ insVec \subseteq Items /\ (~ choice.pseudo => Taken = insVec)
  BY DEF Taken, DriverTypeOK
<1>5. EdgesOf(insVec) = EdgesOf(Taken) \cup EdgesOf(insVec \ Taken)
  <2>1. insVec = Taken \cup (insVec \ Taken)
    BY <1>4
  <2> QED BY <2>1, EdgesTogether
<1>6. DriverTypeOK' /\ (rounds \in Seq(SUBSET Items))'
  <2>1. graph' \subseteq Program
    BY <1>1, <1>3, <1>5
  <2> QED BY <1>1, <1>2, <1>4, <2>1 DEF DriverTypeOK
<1>7. EdgesThere'
  <2>1. insVec' \ delVec' = insVec'
    BY <1>1, <1>3
  <2>2. graph' \cup EdgesOf(insVec') = Program
    BY <1>1, <1>3, <1>5
  <2>3. (graph \cup EdgesOf(insVec \ delVec) = Program)'
    BY <1>1, <1>2, <2>1, <2>2 DEF EdgesOf
  <2>4. ~ choice.pseudo => insVec' = {} /\ graph' = Program
    <3>1. SUFFICES ASSUME ~ choice.pseudo PROVE insVec' = {} /\ graph' = Program
      OBVIOUS
    <3>2. insVec' = {}
      BY <1>1, <1>4, <3>1
    <3>3. EdgesOf(insVec') = {}
      BY <3>2, EdgesTogether
    <3> QED BY <2>2, <3>2, <3>3
  <2> QED BY <1>1, <1>2, <1>3, <2>3, <2>4 DEF EdgesThere
<1>8. StepRounds'
  <2>1. \A i : RoundsOf(i)' = RoundsOf(i)
    BY <1>1 DEF RoundsOf
  <2> QED BY <1>1, <1>2, <1>3, <2>1 DEF StepRounds
<1>9. StepSizes'
  <2>1. SUFFICES ASSUME choice.driver = "step", NothingFiltered
        PROVE  StepSizes'
    BY <1>1, <1>2 DEF StepSizes
  <2>2. stepCount = 0 /\ choice.step > 0 /\ choice.step \in Nat
    BY <1>1, <2>1, ProgramFacts DEF StepRounds
  <2>3. Cardinality(delVec) = 0
    BY <1>3, FS_EmptySet
  <2> QED BY <1>1, <1>2, <2>1, <2>2, <2>3 DEF StepSizes
<1>10. ProportionRounds'
  <2>1. \A r : Sliced(r)' = Sliced(r)
    BY <1>1, <1>2 DEF Sliced, StmtSets, Stmts, Slice, SliceStep, Number
  <2> QED BY <1>1, <2>1 DEF ProportionRounds
<1> QED BY <1>6, <1>7, <1>8, <1>9, <1>10

LEMMA InvHolds ==
  ASSUME DriverAssumption
  PROVE  DriverSpec => []Inv
<1>1. DriverInit => Inv
  BY InitInv
<1>2. Inv /\ [DriverNext]_driverVars => Inv'
  <2>1. SUFFICES ASSUME Inv, [DriverNext]_driverVars PROVE Inv'
    OBVIOUS
  <2>2. CASE Visit
    BY <2>1, <2>2, VisitKeeps
  <2>3. CASE StepDone
    BY <2>1, <2>3, StepDoneKeeps
  <2>4. CASE ProportionRound
    BY <2>1, <2>4, ProportionRoundKeeps
  <2>5. CASE ProportionDone
    BY <2>1, <2>5, ProportionDoneKeeps
  <2>6. CASE Delete
    BY <2>1, <2>6, DeleteKeeps
  <2>7. CASE Insert
    BY <2>1, <2>7, InsertKeeps
  <2>8. CASE UNCHANGED driverVars
    <3>1. choice' = choice /\ pos' = pos /\ stepCount' = stepCount /\ delVec' = delVec
          /\ insVec' = insVec /\ graph' = graph /\ roundcount' = roundcount
          /\ incRound' = incRound /\ rounds' = rounds /\ drPc' = drPc
      BY <2>8 DEF driverVars
    <3>2. /\ items' = items /\ Items' = Items /\ Program' = Program
          /\ \A i : Scheduled(i)' = Scheduled(i)
          /\ NothingFiltered' = NothingFiltered
      BY <3>1, ProgramStays
    <3>3. DriverTypeOK' /\ (rounds \in Seq(SUBSET Items))'
      BY <2>1, <3>1, <3>2 DEF Inv, DriverTypeOK
    <3>4. EdgesThere'
      BY <2>1, <3>1, <3>2 DEF Inv, EdgesThere, EdgesOf
    <3>5. StepRounds' /\ StepSizes'
      BY <2>1, <3>1, <3>2 DEF Inv, StepRounds, StepSizes, RoundsOf
    <3>6. \A r : Sliced(r)' = Sliced(r)
      BY <3>1, <3>2 DEF Sliced, StmtSets, Stmts, Slice, SliceStep, Number
    <3>7. Sliced(roundcount)' = Sliced(roundcount)
      BY <3>1, <3>2 DEF Sliced, StmtSets, Stmts, Slice, SliceStep, Number
    <3>8. ProportionRounds'
      BY <2>1, <3>1, <3>6, <3>7 DEF Inv, ProportionRounds
    <3> QED BY <3>3, <3>4, <3>5, <3>8 DEF Inv
  <2> QED BY <2>1, <2>2, <2>3, <2>4, <2>5, <2>6, <2>7, <2>8 DEF DriverNext, DriverStep
<1> QED BY <1>1, <1>2, PTL DEF DriverSpec
-----------------------------------------------------------------------------
(* What the properties follow from. *)
LEMMA ProgramKeptThen ==
  ASSUME Inv
  PROVE  ProgramKept
<1>1. SUFFICES ASSUME drPc \in {"drive", "done"}
      PROVE  graph \cup EdgesOf(insVec \ delVec) = Program /\ (choice.pseudo \/ graph = Program)
  BY DEF ProgramKept
<1>2. CASE drPc = "drive"
  BY <1>2 DEF Inv, EdgesThere
<1>3. CASE drPc = "done"
  <2>1. insVec \ delVec = insVec
    BY <1>3 DEF Inv, EdgesThere
  <2> QED BY <1>3, <2>1 DEF Inv, EdgesThere
<1> QED BY <1>1, <1>2, <1>3

LEMMA EachInOneRoundThen ==
  ASSUME DriverAssumption, Inv
  PROVE  EachInOneRound
<1>1. SUFFICES ASSUME drPc = "done", choice.driver = "step", NEW i \in Items
      PROVE  Cardinality(RoundsOf(i)) = IF Enabled(i) /\ Wanted(i) THEN 1 ELSE 0
  BY DEF EachInOneRound
<1>2. Items = 1..Len(items) /\ Len(items) \in Nat
  BY ProgramFacts DEF Inv, DriverTypeOK
<1>3. pos \in 1..(Len(items) + 1) /\ pos \notin Items
  BY <1>1 DEF Inv, DriverTypeOK, StepRounds
<1>4. i < pos
  BY <1>1, <1>2, <1>3
<1>5. delVec = {}
  BY <1>1 DEF Inv, EdgesThere
<1> QED BY <1>1, <1>4, <1>5 DEF Inv, StepRounds, Scheduled

LEMMA RoundSizeThen ==
  ASSUME Inv
  PROVE  RoundSize
BY DEF Inv, StepSizes, NothingFiltered, RoundSize

(* The operands of a phi are of one statement, and so in the same slices. *)
LEMMA OperandsTogetherThen ==
  ASSUME DriverAssumption, Inv
  PROVE  OperandsTogether
<1>1. SUFFICES ASSUME choice.driver = "proportion", NEW i \in Items, NEW j \in Items,
                      items[i].stmt = items[j].stmt
      PROVE  RoundsOf(i) = RoundsOf(j)
  BY DEF OperandsTogether
<1>2. items[i].kind = items[j].kind
  BY <1>1, ProgramFacts DEF Inv, DriverTypeOK
<1>3. \A r : i \in Sliced(r) <=> j \in Sliced(r)
  BY <1>1, <1>2 DEF Sliced
<1>4. \A r \in DOMAIN rounds : rounds[r] = Sliced(r)
  BY <1>1 DEF Inv, ProportionRounds
<1> QED BY <1>3, <1>4 DEF RoundsOf
-----------------------------------------------------------------------------
(***************************************************************************)
(* The slices. In each set the statements are numbered from 1 on, and slice *)
(* r has the numbers above (r - 1) * step up to r * step.                  *)
(***************************************************************************)
LEMMA Products ==
  ASSUME NEW a \in Nat, NEW b \in Nat, NEW c \in Nat, a <= b
  PROVE  a * c <= b * c /\ c * a <= c * b /\ a * c \in Nat /\ c * a \in Nat
<1>1. b - a \in Nat /\ (b - a) * c \in Nat /\ b * c = a * c + (b - a) * c
  OBVIOUS
<1>2. a * c \in Nat /\ b * c \in Nat /\ c * a = a * c /\ c * b = b * c
  OBVIOUS
<1> QED BY <1>1, <1>2

(* Steps are positive, and larger for larger sets. *)
LEMMA StepsGrow ==
  ASSUME choice.percent \in 0..100, NEW m \in Nat, NEW n \in Nat, m <= n
  PROVE  SliceStep(m) \in Nat /\ SliceStep(m) > 0 /\ SliceStep(m) <= SliceStep(n)
<1> DEFINE x == m * choice.percent
           y == n * choice.percent
<1>1. x \in Nat /\ y \in Nat /\ x <= y
  BY Products
<1> HIDE DEF x, y
<1>2. x \div 100 \in Nat /\ y \div 100 \in Nat /\ x \div 100 <= y \div 100
  BY <1>1
<1>3. x > 100 => x \div 100 > 0
  BY <1>1
<1>4. y > 100 => y \div 100 > 0
  BY <1>1
<1> QED BY <1>1, <1>2, <1>3, <1>4 DEF SliceStep, x, y

(* The sets the slices are of. *)
LEMMA SetsFinite ==
  ASSUME DriverAssumption, choice \in Options, NEW S \in StmtSets
  PROVE  S \subseteq Nat /\ IsFiniteSet(S) /\ Cardinality(S) \in Nat /\ Cardinality(S) <= Cardinality(Items)
         /\ Cardinality(Items) \in Nat
<1> DEFINE f == [i \in Items |-> items[i].stmt]
           T == {items[i].stmt : i \in Items}
<1>1. IsFiniteSet(Items) /\ Cardinality(Items) \in Nat
  BY ItemsFinite
<1>2. f \in Surjection(Items, T)
  BY DEF Surjection
<1>3. IsFiniteSet(T) /\ Cardinality(T) <= Cardinality(Items)
  <2> HIDE DEF f, T
  <2> QED BY <1>1, <1>2, FS_Surjection
<1>4. S \subseteq T
  BY DEF StmtSets, Stmts
<1>5. T \subseteq Nat
  BY ProgramFacts
<1> HIDE DEF T
<1>6. IsFiniteSet(S) /\ Cardinality(S) \in Nat /\ Cardinality(T) \in Nat /\ Cardinality(S) <= Cardinality(T)
  BY <1>3, <1>4, FS_Subset, FS_CardinalityType
<1> QED BY <1>1, <1>3, <1>4, <1>5, <1>6

LEMMA LargestIs ==
  ASSUME DriverAssumption, choice \in Options
  PROVE  Largest \in Nat /\ \A S \in StmtSets : Cardinality(S) <= Largest
<1> DEFINE C == {Cardinality(S) : S \in StmtSets}
<1>1. C \in SUBSET Nat /\ \A n \in C : n <= Cardinality(Items)
  BY SetsFinite
<1>2. C # {}
  BY DEF StmtSets
<1>3. Cardinality(Items) \in Nat
  BY ItemsFinite
<1>4. \E n \in C : \A m \in C : m <= n
  <2> HIDE DEF C
  <2> QED BY <1>1, <1>2, <1>3, GreatestNumber
<1>5. \E n \in {Cardinality(S) : S \in StmtSets} : \A S \in StmtSets : Cardinality(S) <= n
  BY <1>4
<1>6. Largest \in {Cardinality(S) : S \in StmtSets} /\ \A S \in StmtSets : Cardinality(S) <= Largest
  BY <1>5 DEF Largest
<1> QED BY <1>1, <1>6

(* A statement is in one of them only. *)
LEMMA OneSet ==
  ASSUME DriverAssumption, choice \in Options, NEW i \in Items,
         NEW S \in StmtSets, NEW T \in StmtSets, items[i].stmt \in S, items[i].stmt \in T
  PROVE  S = T
<1>1. \A k : items[i].stmt \in Stmts(k) => items[i].kind = k
  BY ProgramFacts DEF Stmts
<1> DEFINE K == {"Addr", "Copy", "Phi", "Select", "Call", "Ret", "Store", "Load"}
           Of(U) == \/ \E k \in K : U = Stmts(k) /\ items[i].kind = k
                    \/ U = Stmts("VGep") \cup Stmts("NGep") /\ items[i].kind \in {"VGep", "NGep"}
<1>2. \A U \in StmtSets : items[i].stmt \in U => Of(U)
  BY <1>1 DEF StmtSets
<1>3. Of(S) /\ Of(T)
  BY <1>2
<1> QED BY <1>3

(* The numbers of the statements of a set. *)
LEMMA Numbers ==
  ASSUME DriverAssumption, choice \in Options, NEW S \in StmtSets, NEW s \in S
  PROVE  Number(s, S) \in 1..Cardinality(S)
<1> DEFINE T == {t \in S : t <= s}
<1>1. IsFiniteSet(S) /\ Cardinality(S) \in Nat /\ s \in Nat
  BY SetsFinite
<1>2. T \subseteq S /\ s \in T
  BY <1>1
<1> HIDE DEF T
<1>3. IsFiniteSet(T) /\ Cardinality(T) \in Nat /\ Cardinality(T) <= Cardinality(S) /\ Cardinality(T) # 0
  BY <1>1, <1>2, FS_Subset, FS_CardinalityType, FS_EmptySet
<1> QED BY <1>1, <1>3 DEF Number, T

(* As long as no product exceeds the word. *)
LEMMA SliceIs ==
  ASSUME DriverAssumption, Inv, choice.driver = "proportion", NoWrap, NEW S \in StmtSets,
         NEW r \in Nat, 1 <= r, r <= roundcount
  PROVE  LET step == SliceStep(Cardinality(S))
         IN  Slice(r, S) = {s \in S : (r - 1) * step < Number(s, S) /\ Number(s, S) <= r * step}
<1> DEFINE step == SliceStep(Cardinality(S))
<1>1. choice \in Options /\ choice.percent \in 0..100 /\ Word \in Nat /\ Word > 0
      /\ roundcount \in Nat
  BY ProgramFacts DEF Inv, DriverTypeOK
<1>2. Cardinality(S) \in Nat /\ Largest \in Nat /\ Cardinality(S) <= Largest
  BY <1>1, SetsFinite, LargestIs
<1>3. step \in Nat /\ step > 0 /\ step <= SliceStep(Largest) /\ SliceStep(Largest) \in Nat
  BY <1>1, <1>2, StepsGrow
<1>4. roundcount * SliceStep(Largest) < Word
  BY DEF NoWrap
<1> HIDE DEF step
<1>5. r * step <= roundcount * step /\ roundcount * step <= roundcount * SliceStep(Largest)
      /\ r * step \in Nat /\ roundcount * step \in Nat /\ roundcount * SliceStep(Largest) \in Nat
  BY <1>1, <1>3, Products
<1>6. r - 1 \in Nat /\ (r - 1) * step \in Nat /\ r * step = (r - 1) * step + step
  BY <1>3
<1>7. (r * step) % Word = r * step
  <2>1. r * step \in 0..(Word - 1)
    BY <1>1, <1>4, <1>5
  <2> QED BY <1>1, <2>1, SmallRest
<1>8. ((r - 1) * step + 1) % Word = (r - 1) * step + 1
  <2>1. (r - 1) * step + 1 \in 0..(Word - 1)
    BY <1>1, <1>3, <1>4, <1>5, <1>6
  <2> QED BY <1>1, <2>1, SmallRest
<1>9. Slice(r, S) = {s \in S : Number(s, S) >= (r - 1) * step + 1 /\ Number(s, S) <= r * step}
  BY <1>7, <1>8 DEF Slice, step
<1>10. \A s \in S : Number(s, S) \in Nat
  BY <1>1, Numbers
<1>11. \A s \in S : Number(s, S) >= (r - 1) * step + 1 <=> (r - 1) * step < Number(s, S)
  BY <1>6, <1>10
<1> QED BY <1>9, <1>11 DEF step

(* The rounds there were are numbered from 1 to roundcount. *)
LEMMA RoundNumbers ==
  ASSUME DriverAssumption, Inv, choice.driver = "proportion"
  PROVE  /\ roundcount \in Nat
         /\ \A r \in DOMAIN rounds : r \in Nat /\ 1 <= r /\ r <= roundcount
         /\ \A r \in DOMAIN rounds : rounds[r] = Sliced(r)
         /\ drPc # "delete" => DOMAIN rounds = 1..roundcount
<1>1. PICK n \in Nat : n = Len(rounds) /\ DOMAIN rounds = 1..n
  <2>1. rounds \in Seq(SUBSET Items)
    BY DEF Inv
  <2> QED BY <2>1
<1>2. Word \in Nat /\ roundcount \in 0..(Word - 1)
  BY ProgramFacts DEF Inv, DriverTypeOK
<1>3. roundcount \in Nat
  BY <1>2
<1>4. /\ drPc = "delete" => roundcount = n + 1
      /\ drPc # "delete" => roundcount = n
  BY <1>1 DEF Inv, ProportionRounds
<1>5. \A r \in DOMAIN rounds : r \in Nat /\ 1 <= r /\ r <= roundcount
  <2>1. n <= roundcount
    BY <1>4, <1>3
  <2> QED BY <1>1, <1>3, <2>1
<1>6. \A r \in DOMAIN rounds : rounds[r] = Sliced(r)
  BY DEF Inv, ProportionRounds
<1> QED BY <1>1, <1>3, <1>4, <1>5, <1>6

(* What is in a slice of the round is in one of a set. *)
LEMMA InSliced ==
  ASSUME NEW r, NEW i \in Items
  PROVE  i \in Sliced(r) <=>
         items[i].kind # "NGep" /\ \E T \in StmtSets : items[i].stmt \in Slice(r, T)
BY DEF Sliced

LEMMA SlicesPartitionThen ==
  ASSUME DriverAssumption, Inv
  PROVE  SlicesPartition
<1>1. SUFFICES ASSUME choice.driver = "proportion", NoWrap, NEW i \in Items
      PROVE  /\ Cardinality(RoundsOf(i)) <= 1
             /\ \A S \in StmtSets :
                  /\ items[i].stmt \in S /\ items[i].kind # "NGep"
                  /\ drPc = "drive" /\ roundcount * SliceStep(Cardinality(S)) >= Cardinality(S)
                  => RoundsOf(i) # {}
  BY DEF SlicesPartition
<1>2. choice \in Options /\ choice.percent \in 0..100
  BY <1>1, ProgramFacts DEF Inv, DriverTypeOK
<1>3. /\ roundcount \in Nat
      /\ \A r \in DOMAIN rounds : r \in Nat /\ 1 <= r /\ r <= roundcount
      /\ \A r \in DOMAIN rounds : rounds[r] = Sliced(r)
      /\ drPc # "delete" => DOMAIN rounds = 1..roundcount
  BY <1>1, RoundNumbers
<1> DEFINE s == items[i].stmt
<1>4. ASSUME NEW S \in StmtSets, s \in S
      PROVE  /\ Number(s, S) \in Nat /\ 1 <= Number(s, S) /\ Number(s, S) <= Cardinality(S)
             /\ Cardinality(S) \in Nat
             /\ SliceStep(Cardinality(S)) \in Nat /\ SliceStep(Cardinality(S)) > 0
  BY <1>2, <1>4, Numbers, SetsFinite, StepsGrow
<1>5. ASSUME NEW S \in StmtSets, s \in S, NEW r \in DOMAIN rounds, i \in rounds[r]
      PROVE  LET step == SliceStep(Cardinality(S))
             IN  (r - 1) * step < Number(s, S) /\ Number(s, S) <= r * step
  <2>1. PICK T \in StmtSets : s \in Slice(r, T)
    <3>1. i \in Sliced(r)
      BY <1>3, <1>5
    <3> QED BY <3>1, InSliced
  <2>2. s \in T
    BY <2>1 DEF Slice
  <2>3. S = T
    BY <1>2, <1>5, <2>2, OneSet
  <2>4. r \in Nat /\ 1 <= r /\ r <= roundcount
    BY <1>3
  <2> QED BY <1>1, <2>1, <2>3, <2>4, SliceIs
<1>6. ASSUME NEW q \in RoundsOf(i), NEW r \in RoundsOf(i), q < r
      PROVE  FALSE
  <2>1. q \in DOMAIN rounds /\ r \in DOMAIN rounds /\ i \in rounds[q] /\ i \in rounds[r]
    BY DEF RoundsOf
  <2>2. PICK S \in StmtSets : s \in Slice(q, S)
    <3>1. i \in Sliced(q)
      BY <1>3, <2>1
    <3> QED BY <3>1, InSliced
  <2>3. s \in S
    BY <2>2 DEF Slice
  <2> DEFINE step == SliceStep(Cardinality(S))
  <2>4. (r - 1) * step < Number(s, S) /\ Number(s, S) <= q * step
    BY <1>5, <2>1, <2>3
  <2>5. q \in Nat /\ r - 1 \in Nat /\ q <= r - 1
    BY <1>3, <1>6, <2>1
  <2>6. step \in Nat /\ Number(s, S) \in Nat
    BY <1>4, <2>3
  <2> HIDE DEF step
  <2>7. q * step <= (r - 1) * step /\ q * step \in Nat /\ (r - 1) * step \in Nat
    BY <2>5, <2>6, Products
  <2> QED BY <2>4, <2>6, <2>7
<1>7. Cardinality(RoundsOf(i)) <= 1
  <2>1. \A r \in RoundsOf(i) : r \in Nat
    BY <1>3 DEF RoundsOf
  <2>2. \A q, r \in RoundsOf(i) : q = r
    <3>1. TAKE q, r \in RoundsOf(i)
    <3>2. ~ (q < r) /\ ~ (r < q)
      BY <1>6
    <3> QED BY <2>1, <3>2
  <2>3. CASE RoundsOf(i) = {}
    BY <2>3, FS_EmptySet
  <2>4. CASE RoundsOf(i) # {}
    <3>1. PICK r : RoundsOf(i) = {r}
      BY <2>2, <2>4
    <3>2. \A x : Cardinality({x}) = 1
      BY FS_Singleton
    <3>3. Cardinality(RoundsOf(i)) = 1
      BY <3>1, <3>2
    <3> QED BY <3>3
  <2> QED BY <2>3, <2>4
<1>8. ASSUME NEW S \in StmtSets, s \in S, items[i].kind # "NGep", drPc = "drive",
             roundcount * SliceStep(Cardinality(S)) >= Cardinality(S)
      PROVE  RoundsOf(i) # {}
  <2> DEFINE step == SliceStep(Cardinality(S))
             n == Number(s, S)
             R == {r \in Nat : n <= r * step}
  <2>1. n \in Nat /\ 1 <= n /\ n <= Cardinality(S) /\ Cardinality(S) \in Nat
        /\ step \in Nat /\ step > 0
    BY <1>4, <1>8
  <2>2. roundcount * step >= Cardinality(S) /\ roundcount * step \in Nat
    BY <1>3, <1>8, <2>1, Products
  <2> HIDE DEF step, n
  <2>3. roundcount \in R
    <3>1. n <= roundcount * step
      BY <2>1, <2>2
    <3> QED BY <1>3, <3>1
  <2>4. PICK r \in R : \A m \in R : r <= m
    <3>1. R \in SUBSET Nat /\ R # {}
      BY <2>3
    <3> HIDE DEF R
    <3> QED BY <3>1, LeastNumber
  <2>5. r \in Nat /\ n <= r * step /\ r <= roundcount
    BY <2>3, <2>4
  <2>6. r # 0
    BY <2>1, <2>5
  <2>7. r - 1 \in Nat /\ r - 1 \notin R
    BY <2>4, <2>5, <2>6
  <2>8. (r - 1) * step < n
    BY <2>1, <2>7
  <2>9. s \in Slice(r, S)
    <3>1. Slice(r, S) = {x \in S : (r - 1) * step < Number(x, S) /\ Number(x, S) <= r * step}
      BY <1>1, <2>5, <2>6, SliceIs DEF step
    <3> QED BY <1>8, <2>5, <2>8, <3>1 DEF n
  <2>10. i \in Sliced(r)
    BY <1>8, <2>9, InSliced
  <2>11. r \in DOMAIN rounds
    <3>1. drPc # "delete"
      BY <1>8
    <3> QED BY <1>3, <2>5, <2>6, <3>1
  <2> QED BY <1>3, <2>10, <2>11 DEF RoundsOf
<1> QED BY <1>7, <1>8

(* RoundsCorrect: the types; between rounds the graph is that of the program *)
(* (stepIncremental); each statement of the step driver is in one round, of  *)
(* the size asked for; and the slices of the proportion driver divide the    *)
(* statements, operands together, until a product exceeds the word.          *)
THEOREM RoundsAreCorrect ==
  ASSUME DriverAssumption
  PROVE  DriverSpec => []RoundsCorrect
<1>1. Inv => RoundsCorrect
  BY ProgramKeptThen, EachInOneRoundThen, RoundSizeThen, OperandsTogetherThen, SlicesPartitionThen
     DEF RoundsCorrect, Inv
<1> QED BY <1>1, InvHolds, PTL

-----------------------------------------------------------------------------
(***************************************************************************)
(* The change set (ChangeSet).                                             *)
(***************************************************************************)
(* Sequences put together: every line comes from one of them, and a line that
   is not the first of its sequence follows another of it. *)
Partial(u, n, A, s) ==
  /\ u \in [0..n -> Seq(A)] /\ u[0] = <<>>
  /\ \A i \in 1..n : u[i] = u[i - 1] \o s[i]

LEMMA PartialExists ==
  ASSUME NEW A, NEW s \in Seq(Seq(A))
  PROVE  \E u : Partial(u, Len(s), A, s)
<1> DEFINE S == {n \in Nat : n <= Len(s) => \E u : Partial(u, n, A, s)}
<1>1. 0 \in S
  <2>1. Partial([i \in 0..0 |-> <<>>], 0, A, s)
    <3>1. [i \in 0..0 |-> <<>>] \in [0..0 -> Seq(A)]
      BY EmptySeq
    <3>2. 1..0 = {}
      OBVIOUS
    <3> QED BY <3>1, <3>2 DEF Partial
  <2> QED BY <2>1
<1>2. ASSUME NEW n \in Nat, n \in S PROVE n + 1 \in S
  <2> SUFFICES ASSUME n + 1 <= Len(s) PROVE \E u : Partial(u, n + 1, A, s)
    OBVIOUS
  <2>1. PICK u : Partial(u, n, A, s)
    <3>1. Len(s) \in Nat
      OBVIOUS
    <3> QED BY <1>2, <3>1
  <2> DEFINE v == [i \in 0..n + 1 |-> IF i = n + 1 THEN u[n] \o s[n + 1] ELSE u[i]]
  <2>2. u[n] \in Seq(A) /\ s[n + 1] \in Seq(A)
    <3>1. n + 1 \in 1..Len(s)
      OBVIOUS
    <3> QED BY <2>1, <3>1 DEF Partial
  <2>3. u[n] \o s[n + 1] \in Seq(A)
    BY <2>2, ConcatProperties
  <2>4. v \in [0..n + 1 -> Seq(A)]
    <3>1. ASSUME NEW i \in 0..n + 1, i # n + 1 PROVE u[i] \in Seq(A)
      <4>1. i \in 0..n
        BY <3>1
      <4> QED BY <2>1, <4>1 DEF Partial
    <3> QED BY <2>3, <3>1
  <2>5. v[0] = <<>>
    BY <2>1 DEF Partial
  <2>6. ASSUME NEW i \in 1..n + 1 PROVE v[i] = v[i - 1] \o s[i]
    <3>1. i \in 0..n + 1 /\ i - 1 \in 0..n + 1 /\ i - 1 # n + 1
      OBVIOUS
    <3>2. v[i - 1] = u[i - 1]
      BY <3>1
    <3>3. CASE i = n + 1
      <4>0. n + 1 \in 0..n + 1 /\ i - 1 = n
        BY <3>3
      <4>1. v[i] = u[n] \o s[n + 1]
        BY <3>3, <4>0
      <4> QED BY <3>2, <3>3, <4>0, <4>1
    <3>4. CASE i # n + 1
      <4>1. i \in 1..n /\ v[i] = u[i]
        BY <3>1, <3>4
      <4> QED BY <2>1, <3>2, <4>1 DEF Partial
    <3> QED BY <3>3, <3>4
  <2> HIDE DEF v
  <2> QED BY <2>4, <2>5, <2>6 DEF Partial
<1>3. Nat \subseteq S
  <2> HIDE DEF S
  <2> QED BY <1>1, <1>2, NatWithSuccessors
<1> QED BY <1>3

LEMMA JoinedIs ==
  ASSUME NEW A, NEW s \in Seq(Seq(A))
  PROVE  \E u : Partial(u, Len(s), A, s) /\ Joined(s) = u[Len(s)]
<1> DEFINE Made(u) == u = [n \in 0..Len(s) |-> IF n = 0 THEN <<>> ELSE u[n - 1] \o s[n]]
           u == CHOOSE u : Made(u)
<1>1. PICK w : Partial(w, Len(s), A, s)
  BY PartialExists
<1>2. Made(w)
  <2>1. \A n \in 0..Len(s) : w[n] = IF n = 0 THEN <<>> ELSE w[n - 1] \o s[n]
    <3>1. \A n \in 0..Len(s) : n # 0 => n \in 1..Len(s)
      OBVIOUS
    <3> QED BY <1>1, <3>1 DEF Partial
  <2>2. w = [n \in 0..Len(s) |-> w[n]]
    BY <1>1 DEF Partial
  <2> QED BY <2>1, <2>2
<1>3. Made(u)
  BY <1>2
<1>4. Joined(s) = u[Len(s)]
  BY DEF Joined
<1> DEFINE v == u
<1> HIDE DEF u
<1>5. u[0] = <<>> /\ \A n \in 1..Len(s) : u[n] = u[n - 1] \o s[n]
  BY <1>3
<1>6. DOMAIN u = 0..Len(s) /\ u = [n \in 0..Len(s) |-> u[n]]
  BY <1>3
<1> HIDE DEF Made
<1> DEFINE T == {n \in Nat : n <= Len(s) => u[n] = w[n]}
<1>7. 0 \in T
  BY <1>1, <1>5 DEF Partial
<1>8. ASSUME NEW n \in Nat, n \in T PROVE n + 1 \in T
  <2>1. SUFFICES ASSUME n + 1 <= Len(s) PROVE u[n + 1] = w[n + 1]
    OBVIOUS
  <2>2. n + 1 \in 1..Len(s) /\ (n + 1) - 1 = n /\ n <= Len(s)
    BY <2>1
  <2>3. u[n] = w[n]
    BY <1>8, <2>2
  <2> QED BY <1>1, <1>5, <2>2, <2>3 DEF Partial
<1>9. Nat \subseteq T
  <2> HIDE DEF T
  <2> QED BY <1>7, <1>8, NatWithSuccessors
<1>10. u = w
  <2>1. \A n \in 0..Len(s) : u[n] = w[n]
    BY <1>9
  <2> QED BY <1>1, <1>6, <2>1 DEF Partial
<1> QED BY <1>1, <1>4, <1>10

(* The k-th line of L is line at[k] of sequence own[k]. *)
Owned(L, s, own, at) ==
  /\ \A k \in 1..Len(L) :
       /\ own[k] \in DOMAIN s /\ at[k] \in DOMAIN s[own[k]] /\ L[k] = s[own[k]][at[k]]
       /\ at[k] > 1 => k > 1 /\ own[k - 1] = own[k]
  /\ \A i \in DOMAIN s : \A p \in DOMAIN s[i] : \E k \in 1..Len(L) : own[k] = i /\ at[k] = p

LEMMA JoinedOwned ==
  ASSUME NEW A, NEW s \in Seq(Seq(A))
  PROVE  /\ Joined(s) \in Seq(A)
         /\ \E own, at : Owned(Joined(s), s, own, at)
<1>1. PICK u : Partial(u, Len(s), A, s) /\ Joined(s) = u[Len(s)]
  BY JoinedIs
<1> DEFINE Upto(n) == [i \in 1..n |-> s[i]]
           S == {n \in Nat : n <= Len(s) => \E own, at : Owned(u[n], Upto(n), own, at)}
<1>2. 0 \in S
  <2>1. u[0] = <<>> /\ DOMAIN Upto(0) = {} /\ 1..Len(<<>>) = {}
    BY <1>1 DEF Partial
  <2>2. Owned(u[0], Upto(0), <<>>, <<>>)
    <3> HIDE DEF Upto
    <3> QED BY <2>1 DEF Owned
  <2> HIDE DEF Upto
  <2> QED BY <2>2
<1>3. ASSUME NEW n \in Nat, n \in S PROVE n + 1 \in S
  <2> SUFFICES ASSUME n + 1 <= Len(s)
               PROVE  \E own, at : Owned(u[n + 1], Upto(n + 1), own, at)
    OBVIOUS
  <2>1. PICK own, at : Owned(u[n], Upto(n), own, at)
    <3>1. n <= Len(s)
      OBVIOUS
    <3> HIDE DEF Upto
    <3> QED BY <1>3, <3>1
  <2>2. n + 1 \in DOMAIN s /\ s[n + 1] \in Seq(A) /\ u[n] \in Seq(A) /\ u[n + 1] = u[n] \o s[n + 1]
    <3>1. n + 1 \in 1..Len(s) /\ n \in 0..Len(s) /\ (n + 1) - 1 = n
      OBVIOUS
    <3>2. u[n] \in Seq(A)
      BY <1>1, <3>1 DEF Partial
    <3>2a. s[n + 1] \in Seq(A) /\ n + 1 \in DOMAIN s
      BY <3>1
    <3>3. u[n + 1] = u[(n + 1) - 1] \o s[n + 1]
      BY <1>1, <3>1 DEF Partial
    <3> QED BY <3>1, <3>2, <3>2a, <3>3
  <2> DEFINE a == Len(u[n])
             b == Len(s[n + 1])
             own2 == [k \in 1..a + b |-> IF k <= a THEN own[k] ELSE n + 1]
             at2 == [k \in 1..a + b |-> IF k <= a THEN at[k] ELSE k - a]
  <2>3. a \in Nat /\ b \in Nat /\ Len(u[n + 1]) = a + b
    BY <2>2, ConcatProperties
  <2>4. /\ \A k \in 1..a : u[n + 1][k] = u[n][k]
        /\ \A k \in a + 1..a + b : u[n + 1][k] = s[n + 1][k - a]
    <3>1. PICK x \in Seq(A) : x = u[n]
      BY <2>2
    <3>2. PICK y \in Seq(A) : y = s[n + 1]
      BY <2>2
    <3>3. /\ \A k \in 1..Len(x) : (x \o y)[k] = x[k]
          /\ \A k \in Len(x) + 1..Len(x) + Len(y) : (x \o y)[k] = y[k - Len(x)]
      BY ConcatProperties
    <3> QED BY <2>2, <3>1, <3>2, <3>3
  <2>5. /\ DOMAIN Upto(n) = 1..n /\ DOMAIN Upto(n + 1) = 1..n + 1
        /\ \A i \in 1..n : Upto(n)[i] = s[i] /\ Upto(n + 1)[i] = s[i]
        /\ Upto(n + 1)[n + 1] = s[n + 1]
    OBVIOUS
  <2>6. /\ \A k \in 1..a : own2[k] = own[k] /\ at2[k] = at[k]
        /\ \A k \in a + 1..a + b : own2[k] = n + 1 /\ at2[k] = k - a
    <3> HIDE DEF a, b
    <3>1. \A k \in 1..a : k \in 1..a + b /\ k <= a
      BY <2>3
    <3>2. \A k \in a + 1..a + b : k \in 1..a + b /\ ~(k <= a)
      BY <2>3
    <3> QED BY <3>1, <3>2
  <2>7. DOMAIN s[n + 1] = 1..b
    BY <2>2
  <2> HIDE DEF a, b, own2, at2, Upto
  <2>8. ASSUME NEW k \in 1..a + b
        PROVE  /\ own2[k] \in 1..n + 1 /\ at2[k] \in DOMAIN Upto(n + 1)[own2[k]]
               /\ u[n + 1][k] = Upto(n + 1)[own2[k]][at2[k]]
               /\ at2[k] > 1 => k > 1 /\ own2[k - 1] = own2[k]
    <3>1. CASE k \in 1..a
      <4>1. /\ own[k] \in 1..n /\ at[k] \in DOMAIN Upto(n)[own[k]]
            /\ u[n][k] = Upto(n)[own[k]][at[k]]
            /\ at[k] > 1 => k > 1 /\ own[k - 1] = own[k]
        BY <2>1, <2>5, <3>1 DEF Owned, a
      <4>2. own[k] \in 1..n + 1 /\ Upto(n + 1)[own[k]] = Upto(n)[own[k]]
        <5>1. PICK i \in 1..n : i = own[k]
          BY <4>1
        <5>2. i \in 1..n + 1
          OBVIOUS
        <5>3. Upto(n + 1)[i] = Upto(n)[i]
          BY <2>5
        <5> QED BY <5>1, <5>2, <5>3
      <4>3. own2[k] = own[k] /\ at2[k] = at[k] /\ u[n + 1][k] = u[n][k]
        BY <2>4, <2>6, <3>1
      <4>4. at[k] > 1 => own2[k - 1] = own2[k]
        <5> SUFFICES ASSUME at[k] > 1 PROVE own2[k - 1] = own2[k]
          OBVIOUS
        <5>1. k - 1 \in 1..a
          BY <2>3, <3>1, <4>1
        <5>2. own2[k - 1] = own[k - 1]
          BY <2>6, <5>1
        <5> QED BY <4>1, <4>3, <5>2
      <4> QED BY <4>1, <4>2, <4>3, <4>4
    <3>2. CASE k \notin 1..a
      <4>1. k \in a + 1..a + b /\ k - a \in 1..b
        BY <2>3, <3>2
      <4>2. own2[k] = n + 1 /\ at2[k] = k - a /\ u[n + 1][k] = s[n + 1][k - a]
        BY <2>4, <2>6, <4>1
      <4>3. k - a > 1 => k > 1 /\ own2[k - 1] = n + 1
        <5> SUFFICES ASSUME k - a > 1 PROVE k > 1 /\ own2[k - 1] = n + 1
          OBVIOUS
        <5>1. k - 1 \in a + 1..a + b /\ k > 1
          BY <2>3, <4>1
        <5> QED BY <2>6, <5>1
      <4>4. n + 1 \in 1..n + 1
        OBVIOUS
      <4> QED BY <2>5, <2>7, <4>1, <4>2, <4>3, <4>4
    <3> QED BY <3>1, <3>2
  <2>9. ASSUME NEW i \in 1..n + 1, NEW p \in DOMAIN Upto(n + 1)[i]
        PROVE  \E k \in 1..a + b : own2[k] = i /\ at2[k] = p
    <3>1. CASE i = n + 1
      <4>1. p \in 1..b
        BY <2>5, <2>7, <3>1
      <4>2. a + p \in a + 1..a + b /\ a + p \in 1..a + b /\ (a + p) - a = p
        BY <2>3, <4>1
      <4>3. own2[a + p] = i /\ at2[a + p] = p
        BY <2>6, <3>1, <4>2
      <4> QED BY <4>2, <4>3
    <3>2. CASE i # n + 1
      <4>1. i \in 1..n
        BY <3>2
      <4>2. p \in DOMAIN Upto(n)[i]
        BY <2>5, <4>1
      <4>3. PICK k \in 1..a : own[k] = i /\ at[k] = p
        BY <2>1, <2>5, <4>1, <4>2 DEF Owned, a
      <4>4. k \in 1..a + b
        BY <2>3
      <4> QED BY <2>6, <4>3, <4>4
    <3> QED BY <3>1, <3>2
  <2>10. Owned(u[n + 1], Upto(n + 1), own2, at2)
    <3>1. Len(u[n + 1]) = a + b /\ DOMAIN Upto(n + 1) = 1..n + 1
      BY <2>3, <2>5
    <3>2. \A k \in 1..a + b : own2[k] \in DOMAIN Upto(n + 1)
      BY <2>8, <3>1
    <3>3. \A i \in DOMAIN Upto(n + 1) : \A p \in DOMAIN Upto(n + 1)[i] :
            \E k \in 1..a + b : own2[k] = i /\ at2[k] = p
      BY <2>9, <3>1
    <3> QED BY <2>8, <3>1, <3>2, <3>3 DEF Owned
  <2> QED BY <2>10
<1>4. Nat \subseteq S
  <2> HIDE DEF S
  <2> QED BY <1>2, <1>3, NatWithSuccessors
<1>5. Len(s) \in Nat /\ u[Len(s)] \in Seq(A)
  BY <1>1 DEF Partial
<1>6. Upto(Len(s)) = s
  OBVIOUS
<1>7. \E own, at : Owned(u[Len(s)], Upto(Len(s)), own, at)
  <2> HIDE DEF Upto
  <2> QED BY <1>4, <1>5
<1> HIDE DEF Upto
<1> QED BY <1>1, <1>5, <1>6, <1>7

-----------------------------------------------------------------------------
(* What diff prints: a binary file has a line of its own, another one a command
   and then lines of its hunks, among them that of each hunk. *)
Command1(f) == [tag |-> "command", before |-> f.name, after |-> f.name, source |-> f.source]
HunkLine(h) ==
  [tag |-> "hunk", op |-> IF Empty(h.del) THEN "a" ELSE IF Empty(h.ins) THEN "d" ELSE "c",
   del |-> h.del, ins |-> h.ins]
Text == [tag |-> "text"]
Note == [tag |-> "note"]
Binary == [tag |-> "binary"]

OfHunk(line, f) ==
  \/ line = Text
  \/ \E h \in DOMAIN f.hunks : line = HunkLine(f.hunks[h]) \/ (f.hunks[h].note /\ line = Note)

FileLines(f) ==
  {Binary, Command1(f), Text, Note} \cup {HunkLine(f.hunks[h]) : h \in DOMAIN f.hunks}

LEMMA HunkIs ==
  ASSUME NEW A, NEW h, HunkLine(h) \in A, Text \in A, Note \in A
  PROVE  /\ Hunk(h) \in Seq(A)
         /\ \A p \in DOMAIN Hunk(h) : Hunk(h)[p] \in {HunkLine(h), Text} \/ (h.note /\ Hunk(h)[p] = Note)
         /\ \E p \in DOMAIN Hunk(h) : Hunk(h)[p] = HunkLine(h)
         /\ h.note => \E p \in DOMAIN Hunk(h) : Hunk(h)[p] = Note
<1> DEFINE x == HunkLine(h)
           y == Text
           z == Note
<1>1. Hunk(h) = <<x, y>> \o IF h.note THEN <<z>> ELSE <<>>
  BY DEF Hunk, HunkLine, Text, Note
<1>2. x \in A /\ y \in A /\ z \in A
  OBVIOUS
<1> HIDE DEF x, y, z
<1>3. <<x, y>> \in Seq(A) /\ <<z>> \in Seq(A) /\ <<>> \in Seq(A)
  BY <1>2
<1>4. CASE h.note
  <2>1. Hunk(h) = <<x, y>> \o <<z>>
    BY <1>1, <1>4
  <2>1a. Len(<<x, y>>) = 2 /\ Len(<<z>>) = 1
    OBVIOUS
  <2>1b. /\ <<x, y>> \o <<z>> \in Seq(A) /\ Len(<<x, y>> \o <<z>>) = Len(<<x, y>>) + Len(<<z>>)
         /\ \A i \in 1..Len(<<x, y>>) + Len(<<z>>) :
              (<<x, y>> \o <<z>>)[i] = IF i <= Len(<<x, y>>) THEN <<x, y>>[i] ELSE <<z>>[i - Len(<<x, y>>)]
    BY <1>3, ConcatProperties
  <2>2. Hunk(h) \in Seq(A)
    BY <2>1, <2>1b
  <2>3. DOMAIN Hunk(h) = 1..3 /\ Hunk(h)[1] = x /\ Hunk(h)[2] = y /\ Hunk(h)[3] = z
    <3>1. Len(Hunk(h)) = 3
      BY <2>1, <2>1a, <2>1b
    <3>2. \A i \in 1..3 : Hunk(h)[i] = IF i <= 2 THEN <<x, y>>[i] ELSE <<z>>[i - 2]
      BY <2>1, <2>1a, <2>1b
    <3>3. DOMAIN Hunk(h) = 1..3
      BY <2>2, <3>1
    <3>4. 1 \in 1..3 /\ 2 \in 1..3 /\ 3 \in 1..3 /\ 3 - 2 = 1
      OBVIOUS
    <3>5. Hunk(h)[1] = <<x, y>>[1] /\ Hunk(h)[2] = <<x, y>>[2] /\ Hunk(h)[3] = <<z>>[3 - 2]
      BY <3>2, <3>4
    <3> QED BY <3>3, <3>5
  <2>4. \A p \in 1..3 : p = 1 \/ p = 2 \/ p = 3
    OBVIOUS
  <2>5. 1 \in 1..3 /\ 3 \in 1..3
    OBVIOUS
  <2> QED BY <1>4, <2>2, <2>3, <2>4, <2>5 DEF x, y, z
<1>5. CASE ~h.note
  <2>1. Hunk(h) = <<x, y>>
    BY <1>1, <1>2, <1>5
  <2>2. Hunk(h) \in Seq(A)
    BY <1>2, <2>1
  <2>3. DOMAIN Hunk(h) = 1..2 /\ Hunk(h)[1] = x /\ Hunk(h)[2] = y
    BY <2>1
  <2>4. \A p \in 1..2 : p = 1 \/ p = 2
    OBVIOUS
  <2>5. 1 \in 1..2
    OBVIOUS
  <2> QED BY <1>5, <2>2, <2>3, <2>4, <2>5 DEF x, y, z
<1> QED BY <1>4, <1>5

LEMMA FileIs ==
  ASSUME NEW f, \E N : f.hunks \in Seq(N)
  PROVE  /\ File(f) \in Seq(FileLines(f))
         /\ f.binary => \A p \in DOMAIN File(f) : File(f)[p] = Binary
         /\ ~f.binary =>
              /\ \A p \in DOMAIN File(f) : IF p = 1 THEN File(f)[p] = Command1(f)
                                                     ELSE p > 1 /\ OfHunk(File(f)[p], f)
              /\ \A h \in DOMAIN f.hunks :
                   /\ \E p \in DOMAIN File(f) : File(f)[p] = HunkLine(f.hunks[h])
                   /\ f.hunks[h].note => \E p \in DOMAIN File(f) : File(f)[p] = Note
<1> DEFINE A == FileLines(f)
           hunks == [n \in DOMAIN f.hunks |-> Hunk(f.hunks[n])]
<1>1. /\ Binary \in A /\ Command1(f) \in A /\ Text \in A /\ Note \in A
      /\ \A n \in DOMAIN f.hunks : HunkLine(f.hunks[n]) \in A
  BY DEF FileLines
<1>2. Len(f.hunks) \in Nat /\ DOMAIN f.hunks = 1..Len(f.hunks)
  OBVIOUS
<1> HIDE DEF A
<1>3. \A n \in DOMAIN f.hunks : Hunk(f.hunks[n]) \in Seq(A)
  BY <1>1, HunkIs
<1>4. hunks \in Seq(Seq(A)) /\ DOMAIN hunks = DOMAIN f.hunks
  <2>1. hunks \in [1..Len(f.hunks) -> Seq(A)]
    BY <1>2, <1>3
  <2> HIDE DEF hunks
  <2> QED BY <1>2, <2>1
<1>5. \A n \in DOMAIN f.hunks : hunks[n] = Hunk(f.hunks[n])
  OBVIOUS
<1>6. File(f) = IF f.binary THEN <<Binary>> ELSE <<Command1(f)>> \o Joined(hunks)
  BY DEF File, Binary, Command1
<1> HIDE DEF hunks
<1>7. Joined(hunks) \in Seq(A)
  BY <1>4, JoinedOwned
<1>8. PICK own, at : Owned(Joined(hunks), hunks, own, at)
  BY <1>4, JoinedOwned
<1>9. CASE f.binary
  <2>1. File(f) = <<Binary>>
    BY <1>6, <1>9
  <2> HIDE DEF Binary
  <2>2. File(f) \in Seq(A) /\ DOMAIN File(f) = 1..1 /\ File(f)[1] = Binary
    BY <1>1, <2>1
  <2> QED BY <1>9, <2>2 DEF A
<1>10. CASE ~f.binary
  <2> DEFINE J == Joined(hunks)
             c == Command1(f)
  <2>1. File(f) = <<c>> \o J
    BY <1>6, <1>10
  <2>2. J \in Seq(A) /\ c \in A /\ <<c>> \in Seq(A) /\ Len(<<c>>) = 1 /\ <<c>>[1] = c
    BY <1>1, <1>7
  <2>3. Len(J) \in Nat /\ DOMAIN J = 1..Len(J)
    BY <1>7
  <2>4. Owned(J, hunks, own, at)
    BY <1>8
  <2> HIDE DEF J, c
  <2>5. File(f) \in Seq(A) /\ Len(File(f)) = 1 + Len(J)
    BY <2>1, <2>2, ConcatProperties
  <2>6. \A i \in 1..1 + Len(J) : File(f)[i] = IF i <= 1 THEN <<c>>[i] ELSE J[i - 1]
    BY <2>1, <2>2, ConcatProperties
  <2>7. DOMAIN File(f) = 1..1 + Len(J)
    BY <2>5
  <2>8. ASSUME NEW p \in DOMAIN File(f)
        PROVE  IF p = 1 THEN File(f)[p] = c ELSE p > 1 /\ OfHunk(File(f)[p], f)
    <3>1. CASE p = 1
      BY <2>2, <2>6, <2>7, <3>1
    <3>2. CASE p # 1
      <4>1. p - 1 \in 1..Len(J) /\ p > 1 /\ ~(p <= 1)
        BY <2>3, <2>7, <3>2
      <4>2. File(f)[p] = J[p - 1]
        BY <2>6, <2>7, <4>1
      <4>3a. PICK n \in DOMAIN hunks : \E q \in DOMAIN hunks[n] : J[p - 1] = hunks[n][q]
        BY <2>4, <4>1 DEF Owned
      <4>3. PICK q \in DOMAIN hunks[n] : J[p - 1] = hunks[n][q]
        BY <4>3a
      <4>4. n \in DOMAIN f.hunks /\ hunks[n] = Hunk(f.hunks[n])
        BY <1>4, <1>5
      <4>5. \/ J[p - 1] \in {HunkLine(f.hunks[n]), Text}
            \/ f.hunks[n].note /\ J[p - 1] = Note
        BY <1>1, <4>3, <4>4, HunkIs
      <4> QED BY <3>2, <4>1, <4>2, <4>4, <4>5 DEF OfHunk
    <3> QED BY <3>1, <3>2
  <2>9. ASSUME NEW h \in DOMAIN f.hunks, NEW q \in DOMAIN Hunk(f.hunks[h])
        PROVE  \E p \in DOMAIN File(f) : File(f)[p] = Hunk(f.hunks[h])[q]
    <3>1. h \in DOMAIN hunks /\ hunks[h] = Hunk(f.hunks[h])
      BY <1>4, <1>5
    <3>2. PICK k \in 1..Len(J) : own[k] = h /\ at[k] = q
      BY <2>4, <3>1 DEF Owned
    <3>3. J[k] = hunks[own[k]][at[k]]
      BY <2>4 DEF Owned
    <3>4. J[k] = Hunk(f.hunks[h])[q]
      BY <3>1, <3>2, <3>3
    <3>5. k + 1 \in 1..1 + Len(J) /\ ~(k + 1 <= 1) /\ (k + 1) - 1 = k
      BY <2>3
    <3>6. File(f)[k + 1] = J[k]
      BY <2>6, <3>5
    <3> QED BY <2>7, <3>4, <3>5, <3>6
  <2>10. ASSUME NEW h \in DOMAIN f.hunks
         PROVE  /\ \E p \in DOMAIN File(f) : File(f)[p] = HunkLine(f.hunks[h])
                /\ f.hunks[h].note => \E p \in DOMAIN File(f) : File(f)[p] = Note
    <3>1. HunkLine(f.hunks[h]) \in A /\ Text \in A /\ Note \in A
      BY <1>1
    <3>2. /\ \E q \in DOMAIN Hunk(f.hunks[h]) : Hunk(f.hunks[h])[q] = HunkLine(f.hunks[h])
          /\ f.hunks[h].note => \E q \in DOMAIN Hunk(f.hunks[h]) : Hunk(f.hunks[h])[q] = Note
      BY <3>1, HunkIs
    <3> QED BY <2>9, <3>2
  <2> QED BY <1>10, <2>5, <2>8, <2>10 DEF A, c
<1> QED BY <1>9, <1>10

(* Line k of the output belongs to file own[k]. *)
Printed(files, own) ==
  LET L == Output(files)
  IN  /\ \A k \in 1..Len(L) :
           /\ own[k] \in DOMAIN files
           /\ files[own[k]].binary => L[k] = Binary
           /\ ~files[own[k]].binary =>
                \/ L[k] = Command1(files[own[k]])
                \/ k > 1 /\ own[k - 1] = own[k] /\ OfHunk(L[k], files[own[k]])
      /\ \A i \in DOMAIN files : ~files[i].binary => \A h \in DOMAIN files[i].hunks :
           /\ \E k \in 1..Len(L) : own[k] = i /\ L[k] = HunkLine(files[i].hunks[h])
           /\ files[i].hunks[h].note => \E k \in 1..Len(L) : own[k] = i /\ L[k] = Note

LEMMA OutputPrinted ==
  ASSUME NEW files \in Difference
  PROVE  /\ \E A : Output(files) \in Seq(A)
         /\ \E own : Printed(files, own)
<1> DEFINE A == UNION {FileLines(files[n]) : n \in DOMAIN files}
           pieces == [n \in DOMAIN files |-> File(files[n])]
<1>1. Len(files) \in Nat /\ DOMAIN files = 1..Len(files)
  BY DEF Difference
<1>2. ASSUME NEW n \in DOMAIN files PROVE \E N : files[n].hunks \in Seq(N)
  <2> DEFINE N == [del : LineRange, ins : LineRange, note : BOOLEAN]
             F == [name : STRING, source : BOOLEAN, binary : BOOLEAN, hunks : Seq(N)]
  <2>1. files[n] \in F
    <3>1. files \in Seq(F)
      BY DEF Difference
    <3> HIDE DEF F
    <3> QED BY <1>1, <3>1
  <2>2. files[n].hunks \in Seq(N)
    <3> HIDE DEF N
    <3> QED BY <2>1
  <2> QED BY <2>2
<1>3. ASSUME NEW n \in DOMAIN files PROVE File(files[n]) \in Seq(A)
  <2>1. File(files[n]) \in Seq(FileLines(files[n]))
    BY <1>2, FileIs
  <2>2. FileLines(files[n]) \subseteq A
    OBVIOUS
  <2> HIDE DEF A
  <2> QED BY <2>1, <2>2
<1> HIDE DEF A
<1>4. pieces \in Seq(Seq(A)) /\ DOMAIN pieces = DOMAIN files
  <2>1. pieces \in [1..Len(files) -> Seq(A)]
    BY <1>1, <1>3
  <2> HIDE DEF pieces
  <2> QED BY <1>1, <2>1
<1>5. \A n \in DOMAIN files : pieces[n] = File(files[n])
  OBVIOUS
<1>6. Output(files) = Joined(pieces)
  BY DEF Output
<1> HIDE DEF pieces
<1> DEFINE L == Output(files)
<1>7. L \in Seq(A) /\ \E own, at : Owned(L, pieces, own, at)
  BY <1>4, <1>6, JoinedOwned
<1>8. PICK own, at : Owned(L, pieces, own, at)
  BY <1>7
<1> HIDE DEF L
<1>9. ASSUME NEW k \in 1..Len(L)
      PROVE  /\ own[k] \in DOMAIN files
             /\ files[own[k]].binary => L[k] = Binary
             /\ ~files[own[k]].binary =>
                  \/ L[k] = Command1(files[own[k]])
                  \/ k > 1 /\ own[k - 1] = own[k] /\ OfHunk(L[k], files[own[k]])
  <2>1. /\ own[k] \in DOMAIN pieces /\ at[k] \in DOMAIN pieces[own[k]]
        /\ L[k] = pieces[own[k]][at[k]]
        /\ at[k] > 1 => k > 1 /\ own[k - 1] = own[k]
    BY <1>8 DEF Owned
  <2>2. PICK i \in DOMAIN files : i = own[k]
    BY <1>4, <2>1
  <2>3. at[k] \in DOMAIN File(files[i]) /\ L[k] = File(files[i])[at[k]]
    BY <1>5, <2>1, <2>2
  <2>4. files[i].binary => L[k] = Binary
    BY <1>2, <2>3, FileIs
  <2>5. ~files[i].binary => IF at[k] = 1 THEN L[k] = Command1(files[i])
                                         ELSE at[k] > 1 /\ OfHunk(L[k], files[i])
    BY <1>2, <2>3, FileIs
  <2> QED BY <2>1, <2>2, <2>4, <2>5
<1>10. ASSUME NEW i \in DOMAIN files, ~files[i].binary, NEW h \in DOMAIN files[i].hunks
       PROVE  /\ \E k \in 1..Len(L) : own[k] = i /\ L[k] = HunkLine(files[i].hunks[h])
              /\ files[i].hunks[h].note => \E k \in 1..Len(L) : own[k] = i /\ L[k] = Note
  <2>1. ASSUME NEW p \in DOMAIN File(files[i])
        PROVE  \E k \in 1..Len(L) : own[k] = i /\ L[k] = File(files[i])[p]
    <3>1. i \in DOMAIN pieces /\ p \in DOMAIN pieces[i] /\ pieces[i] = File(files[i])
      BY <1>4, <1>5
    <3>2. PICK k \in 1..Len(L) : own[k] = i /\ at[k] = p
      BY <1>8, <3>1 DEF Owned
    <3>3. L[k] = pieces[own[k]][at[k]]
      BY <1>8 DEF Owned
    <3> QED BY <3>1, <3>2, <3>3
  <2>2. /\ \E p \in DOMAIN File(files[i]) : File(files[i])[p] = HunkLine(files[i].hunks[h])
        /\ files[i].hunks[h].note => \E p \in DOMAIN File(files[i]) : File(files[i])[p] = Note
    BY <1>2, <1>10, FileIs
  <2> QED BY <2>1, <2>2
<1>11. Printed(files, own)
  BY <1>9, <1>10 DEF Printed, L
<1> QED BY <1>7, <1>11 DEF L

-----------------------------------------------------------------------------
(* Statements: what an instruction makes, and which of them share a key. *)
LEMMA VisitMakes ==
  ASSUME NEW i, NEW s \in VisitOf(i)
  PROVE  /\ s = Stmt(s.kind, s.src, s.dst, s.label)
         /\ s.kind \in {"Phi", "Select"} => i.kind \in Choosing /\ s.dst = i.res
         /\ i.kind = "Return" => s.kind = "Phi" /\ s.dst = i.res
<1>1. CASE s \in Intra(i)
  <2>1. CASE i.kind \in {"Addr", "Copy", "Load", "Gep", "Phi"}
    <3>1. PICK o : s = Stmt(i.kind, o, i.res, "")
      BY <1>1, <2>1 DEF Intra
    <3> QED BY <2>1, <3>1 DEF Stmt, Choosing
  <2>2. CASE i.kind = "Store"
    <3>1. s = Stmt("Store", i.ops[1], i.res, i.id)
      BY <1>1, <2>2 DEF Intra
    <3> QED BY <2>2, <3>1 DEF Stmt
  <2>3. CASE i.kind = "Select"
    <3>1. PICK o : s = Stmt("Select", o, i.res, "")
      BY <1>1, <2>3 DEF Intra
    <3> QED BY <2>3, <3>1 DEF Stmt, Choosing
  <2>4. CASE i.kind = "Return"
    <3>1. PICK o : s = Stmt("Phi", o, i.res, "")
      BY <1>1, <2>4 DEF Intra
    <3> QED BY <2>4, <3>1 DEF Stmt, Choosing
  <2>5. i.kind \in {"Addr", "Copy", "Load", "Gep", "Phi", "Store", "Select", "Return"}
    BY <1>1 DEF Intra
  <2> QED BY <2>1, <2>2, <2>3, <2>4, <2>5
<1>2. CASE s \in Unknown(i)
  <2>1. i.kind = "Vector" /\ s = Stmt("Addr", "blackhole", i.res, "")
    BY <1>2 DEF Unknown
  <2> QED BY <2>1 DEF Stmt
<1>3. CASE s \in CallStmts(i)
  <2>1. i.kind = "Call" /\ s \in handleDirectCall(i)
    BY <1>3 DEF CallStmts
  <2>2. PICK k \in {"Call", "Ret"} : \E a, b : s = Stmt(k, a, b, i.id)
    <3>1. CASE \E n : s = Stmt("Call", i.ops[n], Parameter(i.callee, n), i.id)
      BY <3>1
    <3>2. CASE s = Stmt("Ret", i.callee.ret, i.res, i.id)
      BY <3>2
    <3> QED BY <2>1, <3>1, <3>2 DEF handleDirectCall
  <2>3. PICK a, b : s = Stmt(k, a, b, i.id)
    BY <2>2
  <2>4. s.kind = k /\ s = Stmt(s.kind, s.src, s.dst, s.label)
    BY <2>3 DEF Stmt
  <2> QED BY <2>1, <2>4
<1> QED BY <1>1, <1>2, <1>3 DEF VisitOf

LEMMA BuildMakes ==
  ASSUME ChangeAssumption, input \in Cases,
         NEW s \in Globals \cup UNION {Build(i) : i \in input.insts}
  PROVE  /\ s = Stmt(s.kind, s.src, s.dst, s.label)
         /\ s.kind \in {"Phi", "Select"} => \E j \in input.insts : s \in Build(j)
<1>1. CASE s \in Globals
  <2>1. PICK k \in {"Addr", "Store"} : \E a, b : s = Stmt(k, a, b, "")
    BY <1>1 DEF Globals
  <2>2. PICK a, b : s = Stmt(k, a, b, "")
    BY <2>1
  <2>3. s.kind = k /\ s = Stmt(s.kind, s.src, s.dst, s.label)
    BY <2>2 DEF Stmt
  <2> QED BY <2>3
<1>2. CASE \E j \in input.insts : s \in Build(j)
  <2>1. PICK j \in input.insts : s \in Build(j)
    BY <1>2
  <2>2. s \in Constants(j) \cup handleExtCall(j) => s = Stmt(s.kind, s.src, s.dst, s.label)
    BY DEF ChangeAssumption
  <2> QED BY <2>1, <2>2, VisitMakes DEF Build
<1> QED BY <1>1, <1>2

LEMMA SameKey ==
  ASSUME NEW s, NEW t, s = Stmt(s.kind, s.src, s.dst, s.label), t = Stmt(t.kind, t.src, t.dst, t.label),
         Key(s) = Key(t)
  PROVE  s = t \/ (s.kind \in {"Phi", "Select"} /\ t.kind \in {"Phi", "Select"} /\ s.dst = t.dst)
<1>1. ASSUME NEW x, x = Stmt(x.kind, x.src, x.dst, x.label)
      PROVE  Key(x).kind = x.kind /\ Key(x).dst = x.dst
  <2>1. PICK k, a, b, l : x = Stmt(k, a, b, l)
    BY <1>1
  <2>2. CASE x.kind \in {"Phi", "Select"}
    <3>1. Key(x) = [x EXCEPT !.src = ""]
      BY <2>2 DEF Key
    <3> QED BY <2>1, <3>1 DEF Stmt
  <2>3. CASE x.kind \notin {"Phi", "Select"}
    BY <2>3 DEF Key
  <2> QED BY <2>2, <2>3
<1>2. Key(s).kind = s.kind /\ Key(s).dst = s.dst /\ Key(t).kind = t.kind /\ Key(t).dst = t.dst
  BY <1>1
<1>3. CASE s.kind \in {"Phi", "Select"}
  BY <1>2, <1>3
<1>4. CASE s.kind \notin {"Phi", "Select"}
  BY <1>2, <1>4 DEF Key
<1> QED BY <1>3, <1>4

-----------------------------------------------------------------------------
(* The getter. *)
GetterInv ==
  /\ built = Globals \cup UNION {Build(i) : i \in input.insts}
  /\ csPc = "handle" => marked = {} /\ left = {} /\ stmts = {}
  /\ marked \subseteq input.insts /\ left \subseteq marked
  /\ stmts = UNION {Find(i) : i \in marked \ left}
  /\ csPc = "done" => left = {} /\ changedEdges = EdgesFor({s \in built : Key(s) \in stmts})

(* A changed edge is that of a statement whose key a marked instruction uses. *)
LEMMA ChangedFrom ==
  ASSUME GetterInv, csPc = "done", NEW e \in changedEdges
  PROVE  \E s \in built : /\ isPTAEdge(s) /\ e = EdgeOf(s)
                          /\ \E i \in marked : \E t \in VisitOf(i) : Key(s) = Key(t)
<1>1. PICK s \in built : Key(s) \in stmts /\ isPTAEdge(s) /\ e = EdgeOf(s)
  BY DEF GetterInv, EdgesFor
<1>2. PICK i \in marked : Key(s) \in Find(i)
  BY <1>1 DEF GetterInv
<1>3. PICK t \in VisitOf(i) : Key(s) = Key(t)
  BY <1>2 DEF Find
<1> QED BY <1>1, <1>2, <1>3

LEMMA AllAreChanged ==
  ASSUME GetterInv
  PROVE  AllChanged
<1> SUFFICES ASSUME csPc = "done", NEW i \in marked, NEW e \in EdgesFor(VisitOf(i))
             PROVE  e \in changedEdges
  BY DEF AllChanged
<1>1. PICK s \in VisitOf(i) : isPTAEdge(s) /\ e = EdgeOf(s)
  BY DEF EdgesFor
<1>2. s \in built
  BY <1>1 DEF GetterInv, Build
<1>3. Key(s) \in Find(i)
  BY <1>1, <1>2 DEF Find
<1>4. Key(s) \in stmts
  BY <1>3 DEF GetterInv
<1> QED BY <1>1, <1>2, <1>4 DEF GetterInv, EdgesFor

LEMMA OnlyTheseAreChanged ==
  ASSUME ChangeAssumption, input \in Cases, GetterInv
  PROVE  OnlyChanged
<1> SUFFICES ASSUME csPc = "done", NEW e \in changedEdges
             PROVE  \E i \in marked :
                      \/ e \in EdgesFor(VisitOf(i))
                      \/ \E j \in input.insts : i.kind = "Return" /\ j.kind = "Return"
                                                /\ i.res = j.res /\ e \in EdgesFor(VisitOf(j))
  BY DEF OnlyChanged
<1>1. PICK s \in built : /\ isPTAEdge(s) /\ e = EdgeOf(s)
                         /\ \E i \in marked : \E t \in VisitOf(i) : Key(s) = Key(t)
  BY ChangedFrom
<1>2. PICK i \in marked : \E t \in VisitOf(i) : Key(s) = Key(t)
  BY <1>1
<1>3. PICK t \in VisitOf(i) : Key(s) = Key(t)
  BY <1>2
<1>4. s = Stmt(s.kind, s.src, s.dst, s.label)
      /\ (s.kind \in {"Phi", "Select"} => \E j \in input.insts : s \in Build(j))
  BY <1>1, BuildMakes DEF GetterInv
<1>5. t = Stmt(t.kind, t.src, t.dst, t.label)
      /\ (t.kind \in {"Phi", "Select"} => i.kind \in Choosing /\ t.dst = i.res)
  BY <1>3, VisitMakes
<1>6. i \in input.insts
  BY DEF GetterInv
<1>7. CASE s = t
  BY <1>1, <1>3, <1>7 DEF EdgesFor
<1>8. CASE s.kind \in {"Phi", "Select"} /\ t.kind \in {"Phi", "Select"} /\ s.dst = t.dst
  <2>1. PICK j \in input.insts : s \in Build(j)
    BY <1>4, <1>8
  <2>2. ChosenOnce(input.insts)
    BY DEF ChangeAssumption
  <2>3. s \in VisitOf(j) /\ (i = j \/ (i.kind = "Return" /\ j.kind = "Return"))
    BY <1>5, <1>6, <1>8, <2>1, <2>2 DEF ChosenOnce
  <2>4. e \in EdgesFor(VisitOf(j))
    BY <1>1, <2>3 DEF EdgesFor
  <2>5. CASE i = j
    BY <2>4, <2>5
  <2>6. CASE i.kind = "Return" /\ j.kind = "Return"
    <3>1. s.dst = j.res
      BY <2>3, <2>6, VisitMakes
    <3> QED BY <1>5, <1>8, <2>1, <2>4, <2>6, <3>1
  <2> QED BY <2>3, <2>5, <2>6
<1> QED BY <1>3, <1>4, <1>5, <1>7, <1>8, SameKey

LEMMA UnchangedIsKept ==
  ASSUME ChangeAssumption, input \in Cases, GetterInv
  PROVE  UnchangedKept
<1> SUFFICES ASSUME csPc = "done", NEW j \in input.insts \ marked,
                    NEW e \in EdgesFor(Build(j)) \cap changedEdges
             PROVE  \E i \in marked :
                      \/ e \in EdgesFor(VisitOf(i))
                      \/ i.kind = "Return" /\ j.kind = "Return" /\ i.res = j.res
  BY DEF UnchangedKept
<1>1. PICK i \in marked :
        \/ e \in EdgesFor(VisitOf(i))
        \/ \E k \in input.insts : i.kind = "Return" /\ k.kind = "Return"
                                  /\ i.res = k.res /\ e \in EdgesFor(VisitOf(k))
  BY OnlyTheseAreChanged DEF OnlyChanged
<1>2. CASE e \in EdgesFor(VisitOf(i))
  BY <1>2
<1>3. ASSUME NEW k \in input.insts, i.kind = "Return", k.kind = "Return", i.res = k.res,
             e \in EdgesFor(VisitOf(k))
      PROVE  j.kind = "Return" /\ i.res = j.res
  <2>1. PICK s \in VisitOf(k) : e = EdgeOf(s)
    BY <1>3 DEF EdgesFor
  <2>2. s.kind = "Phi" /\ s.dst = i.res
    BY <1>3, <2>1, VisitMakes
  <2>3. e.kind = "Copy" /\ e.dst = i.res
    BY <2>1, <2>2 DEF EdgeOf, EdgeKind
  <2>4. PICK u \in Build(j) : e = EdgeOf(u)
    BY DEF EdgesFor
  <2>5. u.kind \in {"Copy", "Phi", "Select", "Call", "Ret"} /\ u.dst = i.res
    BY <2>3, <2>4 DEF EdgeOf, EdgeKind
  <2>6. ChosenOnce(input.insts) /\ i \in input.insts
    BY DEF ChangeAssumption, GetterInv
  <2>7. u \in VisitOf(j) /\ (i = j \/ (i.kind = "Return" /\ j.kind = "Return"))
    BY <1>3, <2>4, <2>5, <2>6 DEF ChosenOnce, Choosing
  <2>8. i # j
    OBVIOUS
  <2>9. u.dst = j.res
    BY <2>7, <2>8, VisitMakes
  <2> QED BY <2>5, <2>7, <2>8, <2>9
<1> QED BY <1>1, <1>2, <1>3

-----------------------------------------------------------------------------
(* The reader. Line k of the output is read with the names and the flag of the
   file it belongs to. *)
Owner(files) == CHOOSE own : Printed(files, own)
FileOf(k) == input.files[Owner(input.files)[k]]
Read == Len(Output(input.files)) - Len(rest)

Adds(line, f, x) ==
  /\ ~f.binary /\ f.source
  /\ \/ line.tag = "hunk" /\ line.op \in {"a", "c"} /\ x = <<f.name, line.ins.lo, line.ins.hi>>
     \/ line.tag = "note" /\ x = <<f.name, 0, 0>>
Deletes(line, f, x) ==
  /\ ~f.binary /\ f.source
  /\ line.tag = "hunk" /\ line.op \in {"d", "c"} /\ x = <<f.name, line.del.lo, line.del.hi>>

ReaderInv ==
  /\ input \in Cases /\ csPc \in {"handle", "get", "done"}
  /\ csPc # "handle" => rest = <<>>
  /\ \E A : rest \in Seq(A)
  /\ Read \in 0..Len(Output(input.files))
  /\ \A k \in 1..Len(rest) : rest[k] = Output(input.files)[Read + k]
  /\ Read > 0 /\ ~FileOf(Read).binary =>
       before = FileOf(Read).name /\ after = FileOf(Read).name /\ flag = FileOf(Read).source
  /\ \A x : x \in addDiff <=> \E k \in 1..Read : Adds(Output(input.files)[k], FileOf(k), x)
  /\ \A x : x \in deleteDiff <=> \E k \in 1..Read : Deletes(Output(input.files)[k], FileOf(k), x)

LEMMA PrintedBy ==
  ASSUME ChangeAssumption, input \in Cases
  PROVE  /\ Printed(input.files, Owner(input.files))
         /\ Len(Output(input.files)) \in Nat /\ \E A : Output(input.files) \in Seq(A)
<1>1. input.files \in Difference
  BY DEF ChangeAssumption
<1>2. PICK A : Output(input.files) \in Seq(A)
  BY <1>1, OutputPrinted
<1> QED BY <1>1, <1>2, OutputPrinted DEF Owner

(* A line of the output, by what diff prints. *)
LEMMA LineOf ==
  ASSUME ChangeAssumption, input \in Cases, NEW k \in 1..Len(Output(input.files))
  PROVE  LET line == Output(input.files)[k]
         IN  /\ Owner(input.files)[k] \in DOMAIN input.files
             /\ FileOf(k).binary => line = Binary
             /\ ~FileOf(k).binary =>
                  \/ line = Command1(FileOf(k))
                  \/ k > 1 /\ FileOf(k - 1) = FileOf(k) /\ OfHunk(line, FileOf(k))
<1>1. Printed(input.files, Owner(input.files))
  BY PrintedBy
<1> QED BY <1>1 DEF Printed, FileOf

LEMMA Tags ==
  /\ Binary.tag = "binary" /\ Text.tag = "text" /\ Note.tag = "note"
  /\ \A f : /\ Command1(f).tag = "command" /\ Command1(f).before = f.name
            /\ Command1(f).after = f.name /\ Command1(f).source = f.source
  /\ \A h : /\ HunkLine(h).tag = "hunk" /\ HunkLine(h).del = h.del /\ HunkLine(h).ins = h.ins
            /\ HunkLine(h).op = IF Empty(h.del) THEN "a" ELSE IF Empty(h.ins) THEN "d" ELSE "c"
  BY DEF Binary, Text, Note, Command1, HunkLine

(* What handling the line does, in terms of the file it belongs to. *)
LEMMA LineHandled ==
  ASSUME ChangeAssumption, ReaderInv, HandleLine
  PROVE  LET k == Read + 1
             line == Output(input.files)[k]
         IN  /\ k \in 1..Len(Output(input.files)) /\ Head(rest) = line
             /\ ~FileOf(k).binary =>
                  before' = FileOf(k).name /\ after' = FileOf(k).name /\ flag' = FileOf(k).source
             /\ \A x : x \in addDiff' <=> x \in addDiff \/ Adds(line, FileOf(k), x)
             /\ \A x : x \in deleteDiff' <=> x \in deleteDiff \/ Deletes(line, FileOf(k), x)
<1> DEFINE L == Output(input.files)
           k == Read + 1
           line == L[k]
           f == FileOf(k)
<1>1. PICK A : rest \in Seq(A)
  BY DEF ReaderInv
<1>2. rest # <<>> /\ Len(rest) \in Nat /\ Len(rest) > 0
  BY <1>1 DEF HandleLine
<1>3. Len(L) \in Nat /\ Read = Len(L) - Len(rest)
  BY PrintedBy DEF ReaderInv, Read
<1>4. Read \in 0..Len(L)
  BY DEF ReaderInv
<1>5. k \in 1..Len(L)
  <2> HIDE DEF L
  <2> QED BY <1>2, <1>3, <1>4
<1>6. Head(rest) = line
  <2>1. 1 \in 1..Len(rest) /\ Head(rest) = rest[1]
    BY <1>1, <1>2
  <2> QED BY <2>1 DEF ReaderInv
<1>7. /\ f.binary => line = Binary
      /\ ~f.binary => line = Command1(f) \/ (k > 1 /\ FileOf(k - 1) = f /\ OfHunk(line, f))
  BY <1>5, LineOf DEF ReaderInv
<1>8. k - 1 = Read /\ (k > 1 => Read > 0)
  BY <1>4
<1>9. Read > 0 /\ ~FileOf(Read).binary =>
        before = FileOf(Read).name /\ after = FileOf(Read).name /\ flag = FileOf(Read).source
  BY DEF ReaderInv
<1>10. (CASE Line.tag = "command" -> Command
          [] Line.tag \in {"hunk", "note"} /\ flag ->
               parse(Line) /\ UNCHANGED <<before, after, flag>>
          [] OTHER -> UNCHANGED <<before, after, flag, addDiff, deleteDiff>>)
  BY DEF HandleLine
<1>11. Line = line
  BY <1>6 DEF Line
<1>12. f.source \in BOOLEAN /\ f.binary \in BOOLEAN
  <2>1. input.files \in Difference /\ Owner(input.files)[k] \in DOMAIN input.files
    BY <1>5, LineOf DEF ChangeAssumption, ReaderInv
  <2>2. f \in [name : STRING, source : BOOLEAN, binary : BOOLEAN,
               hunks : Seq([del : LineRange, ins : LineRange, note : BOOLEAN])]
    <3> DEFINE F == [name : STRING, source : BOOLEAN, binary : BOOLEAN,
                     hunks : Seq([del : LineRange, ins : LineRange, note : BOOLEAN])]
    <3>1. input.files \in Seq(F)
      BY <2>1 DEF Difference
    <3> HIDE DEF F
    <3>2. f \in F
      BY <2>1, <3>1 DEF FileOf
    <3> QED BY <3>2 DEF F
  <2> HIDE DEF f
  <2> QED BY <2>2
<1> HIDE DEF L, k, line, f
<1> DEFINE Goal == /\ ~f.binary => before' = f.name /\ after' = f.name /\ flag' = f.source
                   /\ \A x : x \in addDiff' <=> x \in addDiff \/ Adds(line, f, x)
                   /\ \A x : x \in deleteDiff' <=> x \in deleteDiff \/ Deletes(line, f, x)
<1> SUFFICES Goal
  BY <1>5, <1>6 DEF L, k, line, f
<1>13. CASE f.binary
  <2>1. line.tag = "binary"
    BY <1>7, <1>13, Tags
  <2>2. UNCHANGED <<addDiff, deleteDiff>>
    BY <1>10, <1>11, <2>1
  <2> QED BY <1>13, <2>2 DEF Adds, Deletes
<1>14. CASE ~f.binary /\ line = Command1(f)
  <2>1. line.tag = "command" /\ line.before = f.name /\ line.after = f.name /\ line.source = f.source
    BY <1>14, Tags
  <2>2. Command
    BY <1>10, <1>11, <2>1
  <2> QED BY <1>11, <1>14, <2>1, <2>2 DEF Adds, Deletes, Command
<1>15. CASE ~f.binary /\ k > 1 /\ FileOf(k - 1) = f /\ OfHunk(line, f)
  <2>1. before = f.name /\ after = f.name /\ flag = f.source
    BY <1>8, <1>9, <1>15
  <2>2. CASE line = Text
    <3>1. line.tag = "text"
      BY <2>2, Tags
    <3>2. UNCHANGED <<before, after, flag, addDiff, deleteDiff>>
      BY <1>10, <1>11, <3>1
    <3> QED BY <2>1, <3>1, <3>2 DEF Adds, Deletes
  <2>3. CASE line.tag \in {"hunk", "note"} /\ ~f.source
    <3>1. UNCHANGED <<before, after, flag, addDiff, deleteDiff>>
      BY <1>10, <1>11, <2>1, <2>3
    <3> QED BY <2>1, <2>3, <3>1 DEF Adds, Deletes
  <2>4. CASE line = Note /\ f.source
    <3>1. line.tag = "note"
      BY <2>4, Tags
    <3>2. parse(line) /\ UNCHANGED <<before, after, flag>>
      BY <1>10, <1>11, <2>1, <2>4, <3>1
    <3>3. addDiff' = addDiff \cup {<<f.name, 0, 0>>} /\ deleteDiff' = deleteDiff
      <4>1. AddedLines(NoNumber) /\ UNCHANGED deleteDiff
        BY <3>1, <3>2 DEF parse
      <4> QED BY <2>1, <4>1 DEF AddedLines, NoNumber
    <3> QED BY <1>15, <2>1, <2>4, <3>1, <3>2, <3>3 DEF Adds, Deletes
  <2>5. ASSUME NEW h \in DOMAIN f.hunks, line = HunkLine(f.hunks[h]), f.source
        PROVE  Goal
    <3>1. line.tag = "hunk" /\ line.op \in {"a", "d", "c"}
      BY <2>5, Tags
    <3>2. parse(line) /\ UNCHANGED <<before, after, flag>>
      BY <1>10, <1>11, <2>1, <2>5, <3>1
    <3>3. CASE line.op = "a"
      <4>1. AddedLines(line.ins) /\ UNCHANGED deleteDiff
        BY <3>1, <3>2, <3>3 DEF parse
      <4>2. addDiff' = addDiff \cup {<<f.name, line.ins.lo, line.ins.hi>>} /\ deleteDiff' = deleteDiff
        BY <2>1, <4>1 DEF AddedLines
      <4> QED BY <1>15, <2>1, <2>5, <3>1, <3>2, <3>3, <4>2 DEF Adds, Deletes
    <3>4. CASE line.op = "d"
      <4>1. DeletedLines(line.del) /\ UNCHANGED addDiff
        BY <3>1, <3>2, <3>4 DEF parse
      <4>2. deleteDiff' = deleteDiff \cup {<<f.name, line.del.lo, line.del.hi>>} /\ addDiff' = addDiff
        BY <2>1, <4>1 DEF DeletedLines
      <4> QED BY <1>15, <2>1, <2>5, <3>1, <3>2, <3>4, <4>2 DEF Adds, Deletes
    <3>5. CASE line.op = "c"
      <4>1. AddedLines(line.ins) /\ DeletedLines(line.del)
        BY <3>1, <3>2, <3>5 DEF parse
      <4>2. /\ addDiff' = addDiff \cup {<<f.name, line.ins.lo, line.ins.hi>>}
            /\ deleteDiff' = deleteDiff \cup {<<f.name, line.del.lo, line.del.hi>>}
        BY <2>1, <4>1 DEF AddedLines, DeletedLines
      <4> QED BY <1>15, <2>1, <2>5, <3>1, <3>2, <3>5, <4>2 DEF Adds, Deletes
    <3> QED BY <3>1, <3>3, <3>4, <3>5
  <2>6. line = Text \/ line = Note \/ \E h \in DOMAIN f.hunks : line = HunkLine(f.hunks[h])
    BY <1>15 DEF OfHunk
  <2>7. line = Text \/ line.tag \in {"hunk", "note"}
    BY <2>6, Tags
  <2> QED BY <1>12, <2>2, <2>3, <2>4, <2>5, <2>6, <2>7
<1> QED BY <1>7, <1>13, <1>14, <1>15

LEMMA LinesRead ==
  ASSUME ChangeAssumption, ReaderInv, HandleLine
  PROVE  ReaderInv'
<1> DEFINE L == Output(input.files)
           F(k) == FileOf(k)
<1>1. PICK A : rest \in Seq(A)
  BY DEF ReaderInv
<1>2. rest # <<>> /\ Len(rest) \in Nat /\ Len(rest) > 0 /\ rest' = Tail(rest) /\ csPc' = csPc
      /\ csPc = "handle" /\ input' = input /\ input \in Cases
  BY <1>1 DEF HandleLine, ReaderInv
<1>3. Len(L) \in Nat /\ Read = Len(L) - Len(rest) /\ Read \in 0..Len(L)
  BY PrintedBy DEF ReaderInv, Read
<1>4. rest' \in Seq(A) /\ Len(rest') = Len(rest) - 1
      /\ \A i \in 1..Len(rest') : rest'[i] = rest[i + 1]
  BY <1>1, <1>2
<1>6. Read' = Read + 1
  <2> HIDE DEF L
  <2>1. Read' = Len(L) - Len(rest')
    BY <1>2 DEF Read, L
  <2> QED BY <1>2, <1>3, <1>4, <2>1
<1>7. /\ Read + 1 \in 1..Len(L)
      /\ ~F(Read + 1).binary =>
           before' = F(Read + 1).name /\ after' = F(Read + 1).name /\ flag' = F(Read + 1).source
      /\ \A x : x \in addDiff' <=> x \in addDiff \/ Adds(L[Read + 1], F(Read + 1), x)
      /\ \A x : x \in deleteDiff' <=> x \in deleteDiff \/ Deletes(L[Read + 1], F(Read + 1), x)
  BY LineHandled
<1>8. /\ \A k \in 1..Len(rest) : rest[k] = L[Read + k]
      /\ \A x : x \in addDiff <=> \E k \in 1..Read : Adds(L[k], F(k), x)
      /\ \A x : x \in deleteDiff <=> \E k \in 1..Read : Deletes(L[k], F(k), x)
  BY DEF ReaderInv
<1> HIDE DEF L, F
<1>9. \A k : k \in 1..Read' <=> k \in 1..Read \/ k = Read + 1
  BY <1>3, <1>6
<1>10. \A k \in 1..Len(rest') : rest'[k] = L[Read' + k]
  <2> SUFFICES ASSUME NEW k \in 1..Len(rest') PROVE rest'[k] = L[Read' + k]
    OBVIOUS
  <2>1. k + 1 \in 1..Len(rest) /\ Read' + k = Read + (k + 1)
    BY <1>2, <1>3, <1>4, <1>6
  <2>2. rest'[k] = rest[k + 1]
    BY <1>4
  <2> QED BY <1>8, <2>1, <2>2
<1>11. Read' \in 0..Len(L) /\ Read' > 0
  BY <1>3, <1>6, <1>7
<1>12. \A x : x \in addDiff' <=> \E k \in 1..Read' : Adds(L[k], F(k), x)
  BY <1>7, <1>8, <1>9
<1>13. \A x : x \in deleteDiff' <=> \E k \in 1..Read' : Deletes(L[k], F(k), x)
  BY <1>7, <1>8, <1>9
<1>14. ~F(Read').binary =>
         before' = F(Read').name /\ after' = F(Read').name /\ flag' = F(Read').source
  BY <1>6, <1>7
<1>15. Output(input.files)' = L /\ \A k : input'.files[Owner(input'.files)[k]] = F(k)
  BY <1>2 DEF L, F, FileOf
<1>16. \E B : rest' \in Seq(B)
  BY <1>4
<1>17. ReaderInv' =
         /\ input' \in Cases /\ csPc' \in {"handle", "get", "done"}
         /\ csPc' # "handle" => rest' = <<>>
         /\ \E B : rest' \in Seq(B)
         /\ Read' \in 0..Len(L)
         /\ \A k \in 1..Len(rest') : rest'[k] = L[Read' + k]
         /\ Read' > 0 /\ ~F(Read').binary =>
              before' = F(Read').name /\ after' = F(Read').name /\ flag' = F(Read').source
         /\ \A x : x \in addDiff' <=> \E k \in 1..Read' : Adds(L[k], F(k), x)
         /\ \A x : x \in deleteDiff' <=> \E k \in 1..Read' : Deletes(L[k], F(k), x)
  BY <1>15 DEF ReaderInv, FileOf
<1> QED BY <1>2, <1>10, <1>11, <1>12, <1>13, <1>14, <1>16, <1>17

(* When all is read: what the difference says of the files. *)
LEMMA AllRead ==
  ASSUME ChangeAssumption, ReaderInv, rest = <<>>, NEW x
  PROVE  /\ x \in addDiff <=>
              \E n \in DOMAIN input.files : LET f == input.files[n] IN
                /\ ~f.binary /\ f.source
                /\ \E h \in DOMAIN f.hunks :
                     \/ ~Empty(f.hunks[h].ins) /\ x = <<f.name, f.hunks[h].ins.lo, f.hunks[h].ins.hi>>
                     \/ f.hunks[h].note /\ x = <<f.name, 0, 0>>
         /\ x \in deleteDiff <=>
              \E n \in DOMAIN input.files : LET f == input.files[n] IN
                /\ ~f.binary /\ f.source
                /\ \E h \in DOMAIN f.hunks :
                     ~Empty(f.hunks[h].del) /\ x = <<f.name, f.hunks[h].del.lo, f.hunks[h].del.hi>>
<1> DEFINE L == Output(input.files)
           own == Owner(input.files)
           files == input.files
<1>1. input \in Cases
  BY DEF ReaderInv
<1>2. Printed(files, own) /\ Len(L) \in Nat
  BY <1>1, PrintedBy
<1>3. Read = Len(L)
  BY <1>2 DEF Read
<1>4. /\ x \in addDiff <=> \E k \in 1..Len(L) : Adds(L[k], files[own[k]], x)
      /\ x \in deleteDiff <=> \E k \in 1..Len(L) : Deletes(L[k], files[own[k]], x)
  BY <1>3 DEF ReaderInv, FileOf
<1>5. /\ \A k \in 1..Len(L) :
           /\ own[k] \in DOMAIN files
           /\ ~files[own[k]].binary => L[k] = Command1(files[own[k]]) \/ OfHunk(L[k], files[own[k]])
      /\ \A i \in DOMAIN files : ~files[i].binary => \A h \in DOMAIN files[i].hunks :
           /\ \E k \in 1..Len(L) : own[k] = i /\ L[k] = HunkLine(files[i].hunks[h])
           /\ files[i].hunks[h].note => \E k \in 1..Len(L) : own[k] = i /\ L[k] = Note
  BY <1>2 DEF Printed
<1>6. \A n \in DOMAIN files : \A h \in DOMAIN files[n].hunks :
        ~(Empty(files[n].hunks[h].del) /\ Empty(files[n].hunks[h].ins))
  BY <1>1 DEF ChangeAssumption
<1> HIDE DEF L, own, files
<1>7. \A h : ~(Empty(h.del) /\ Empty(h.ins)) =>
        /\ HunkLine(h).tag = "hunk" /\ HunkLine(h).ins = h.ins /\ HunkLine(h).del = h.del
        /\ HunkLine(h).op \in {"a", "c"} <=> ~Empty(h.ins)
        /\ HunkLine(h).op \in {"d", "c"} <=> ~Empty(h.del)
  BY Tags
<1> DEFINE AddOf(f) == \E h \in DOMAIN f.hunks :
             \/ ~Empty(f.hunks[h].ins) /\ x = <<f.name, f.hunks[h].ins.lo, f.hunks[h].ins.hi>>
             \/ f.hunks[h].note /\ x = <<f.name, 0, 0>>
           DelOf(f) == \E h \in DOMAIN f.hunks :
             ~Empty(f.hunks[h].del) /\ x = <<f.name, f.hunks[h].del.lo, f.hunks[h].del.hi>>
<1>8. ASSUME NEW k \in 1..Len(L)
      PROVE  /\ Adds(L[k], files[own[k]], x) =>
                  \E n \in DOMAIN files : ~files[n].binary /\ files[n].source /\ AddOf(files[n])
             /\ Deletes(L[k], files[own[k]], x) =>
                  \E n \in DOMAIN files : ~files[n].binary /\ files[n].source /\ DelOf(files[n])
  <2>1. PICK n \in DOMAIN files : n = own[k]
    BY <1>5
  <2> DEFINE f == files[n]
  <2>2. ~f.binary => L[k] = Command1(f) \/ OfHunk(L[k], f)
    BY <1>5, <2>1
  <2>3. \A h \in DOMAIN f.hunks : ~(Empty(f.hunks[h].del) /\ Empty(f.hunks[h].ins))
    BY <1>6
  <2>4. Adds(L[k], f, x) => AddOf(f)
    <3> SUFFICES ASSUME Adds(L[k], f, x) PROVE AddOf(f)
      OBVIOUS
    <3> HIDE DEF f
    <3>1. ~f.binary /\ L[k].tag \in {"hunk", "note"}
      BY DEF Adds
    <3>2. PICK h \in DOMAIN f.hunks : L[k] = HunkLine(f.hunks[h]) \/ (f.hunks[h].note /\ L[k] = Note)
      BY <2>2, <3>1, Tags DEF OfHunk
    <3>3. CASE L[k] = HunkLine(f.hunks[h])
      <4>1. ~Empty(f.hunks[h].ins) /\ x = <<f.name, f.hunks[h].ins.lo, f.hunks[h].ins.hi>>
        BY <1>7, <2>3, <3>3 DEF Adds
      <4> QED BY <4>1
    <3>4. CASE f.hunks[h].note /\ L[k] = Note
      <4>1. x = <<f.name, 0, 0>>
        BY <3>4, Tags DEF Adds
      <4> QED BY <3>4, <4>1
    <3> QED BY <3>2, <3>3, <3>4
  <2>5. Deletes(L[k], f, x) => DelOf(f)
    <3> SUFFICES ASSUME Deletes(L[k], f, x) PROVE DelOf(f)
      OBVIOUS
    <3> HIDE DEF f
    <3>1. ~f.binary /\ L[k].tag = "hunk"
      BY DEF Deletes
    <3>2. PICK h \in DOMAIN f.hunks : L[k] = HunkLine(f.hunks[h])
      BY <2>2, <3>1, Tags DEF OfHunk
    <3>3. ~Empty(f.hunks[h].del) /\ x = <<f.name, f.hunks[h].del.lo, f.hunks[h].del.hi>>
      BY <1>7, <2>3, <3>2 DEF Deletes
    <3> QED BY <3>3
  <2>6. (Adds(L[k], f, x) \/ Deletes(L[k], f, x)) => ~f.binary /\ f.source
    BY DEF Adds, Deletes
  <2> HIDE DEF AddOf, DelOf
  <2> QED BY <2>1, <2>4, <2>5, <2>6
<1>9. ASSUME NEW n \in DOMAIN files, ~files[n].binary, files[n].source
      PROVE  /\ AddOf(files[n]) => \E k \in 1..Len(L) : Adds(L[k], files[own[k]], x)
             /\ DelOf(files[n]) => \E k \in 1..Len(L) : Deletes(L[k], files[own[k]], x)
  <2> DEFINE f == files[n]
  <2>1. /\ \A h \in DOMAIN f.hunks : ~(Empty(f.hunks[h].del) /\ Empty(f.hunks[h].ins))
        /\ \A h \in DOMAIN f.hunks :
             /\ \E k \in 1..Len(L) : own[k] = n /\ L[k] = HunkLine(f.hunks[h])
             /\ f.hunks[h].note => \E k \in 1..Len(L) : own[k] = n /\ L[k] = Note
    BY <1>5, <1>6, <1>9
  <2>2. ASSUME NEW h \in DOMAIN f.hunks, ~Empty(f.hunks[h].ins),
               x = <<f.name, f.hunks[h].ins.lo, f.hunks[h].ins.hi>>
        PROVE  \E k \in 1..Len(L) : Adds(L[k], files[own[k]], x)
    <3>1. PICK k \in 1..Len(L) : own[k] = n /\ L[k] = HunkLine(f.hunks[h])
      BY <2>1
    <3>2. L[k].tag = "hunk" /\ L[k].op \in {"a", "c"} /\ L[k].ins = f.hunks[h].ins
      BY <1>7, <2>1, <2>2, <3>1
    <3>3. Adds(L[k], f, x)
      BY <1>9, <2>2, <3>2 DEF Adds
    <3> QED BY <3>1, <3>3
  <2>3. ASSUME NEW h \in DOMAIN f.hunks, f.hunks[h].note, x = <<f.name, 0, 0>>
        PROVE  \E k \in 1..Len(L) : Adds(L[k], files[own[k]], x)
    <3>1. PICK k \in 1..Len(L) : own[k] = n /\ L[k] = Note
      BY <2>1, <2>3
    <3>2. Adds(L[k], f, x)
      BY <1>9, <2>3, <3>1, Tags DEF Adds
    <3> QED BY <3>1, <3>2
  <2>4. ASSUME NEW h \in DOMAIN f.hunks, ~Empty(f.hunks[h].del),
               x = <<f.name, f.hunks[h].del.lo, f.hunks[h].del.hi>>
        PROVE  \E k \in 1..Len(L) : Deletes(L[k], files[own[k]], x)
    <3>1. PICK k \in 1..Len(L) : own[k] = n /\ L[k] = HunkLine(f.hunks[h])
      BY <2>1
    <3>2. L[k].tag = "hunk" /\ L[k].op \in {"d", "c"} /\ L[k].del = f.hunks[h].del
      BY <1>7, <2>1, <2>4, <3>1
    <3>3. Deletes(L[k], f, x)
      BY <1>9, <2>4, <3>2 DEF Deletes
    <3> QED BY <3>1, <3>3
  <2> QED BY <2>2, <2>3, <2>4
<1>10. x \in addDiff <=> \E n \in DOMAIN files : ~files[n].binary /\ files[n].source /\ AddOf(files[n])
  <2> HIDE DEF AddOf
  <2> QED BY <1>4, <1>8, <1>9
<1>11. x \in deleteDiff <=> \E n \in DOMAIN files : ~files[n].binary /\ files[n].source /\ DelOf(files[n])
  <2> HIDE DEF DelOf
  <2> QED BY <1>4, <1>8, <1>9
<1> QED BY <1>10, <1>11 DEF files

(* An instruction is in a range iff its line was changed or stands for none. *)
LEMMA InRangeIs ==
  ASSUME ChangeAssumption, ReaderInv, rest = <<>>, NEW i \in input.insts
  PROVE  InRange(i) <=>
           /\ i.located
           /\ \E n \in DOMAIN input.files :
                /\ input.files[n].name = i.file
                /\ ChangedIn(input.files[n], i.line) \/ (i.line = 0 /\ Noted(input.files[n]))
<1>1. i.line \in Nat
  BY DEF ChangeAssumption, ReaderInv
<1> DEFINE line == i.line
           files == input.files
           Lies(r) == i.file = r[1] /\ r[2] <= line /\ line <= r[3]
           Said(n) == /\ files[n].name = i.file
                      /\ ChangedIn(files[n], line) \/ (line = 0 /\ Noted(files[n]))
<1>2. ASSUME NEW n \in DOMAIN files, NEW h \in DOMAIN files[n].hunks
      PROVE  files[n].hunks[h].ins \in LineRange /\ files[n].hunks[h].del \in LineRange
  <2> DEFINE N == [del : LineRange, ins : LineRange, note : BOOLEAN]
             F == [name : STRING, source : BOOLEAN, binary : BOOLEAN, hunks : Seq(N)]
  <2>1. files \in Seq(F)
    BY DEF ChangeAssumption, ReaderInv, Difference
  <2> HIDE DEF F, files
  <2>2. files[n] \in F
    BY <2>1
  <2> HIDE DEF N
  <2>3. files[n].hunks \in Seq(N)
    BY <2>2 DEF F
  <2>4. files[n].hunks[h] \in N
    BY <2>3
  <2> QED BY <2>4 DEF N
<1>3. ASSUME NEW r \in LineRange, NEW a
      PROVE  /\ <<a, r.lo, r.hi>>[1] = a /\ <<a, r.lo, r.hi>>[2] = r.lo /\ <<a, r.lo, r.hi>>[3] = r.hi
             /\ r.lo <= line /\ line <= r.hi => ~Empty(r)
  <2>1. r.lo \in Nat /\ r.hi \in Nat
    BY DEF LineRange
  <2> HIDE DEF line
  <2> QED BY <1>1, <2>1 DEF Empty, line
<1>4. (\E r \in sourceInfos : Lies(r)) <=> \E n \in DOMAIN files : Said(n)
  <2>1. CASE input.isNew
    <3>1. sourceInfos = addDiff
      BY <2>1 DEF sourceInfos
    <3>2. ASSUME NEW r \in addDiff, Lies(r) PROVE \E n \in DOMAIN files : Said(n)
      <4>1. PICK n \in DOMAIN files :
              LET f == files[n] IN
                /\ ~f.binary /\ f.source
                /\ \E h \in DOMAIN f.hunks :
                     \/ ~Empty(f.hunks[h].ins) /\ r = <<f.name, f.hunks[h].ins.lo, f.hunks[h].ins.hi>>
                     \/ f.hunks[h].note /\ r = <<f.name, 0, 0>>
        BY AllRead
      <4> DEFINE f == files[n]
      <4>2. PICK h \in DOMAIN f.hunks :
              \/ ~Empty(f.hunks[h].ins) /\ r = <<f.name, f.hunks[h].ins.lo, f.hunks[h].ins.hi>>
              \/ f.hunks[h].note /\ r = <<f.name, 0, 0>>
        BY <4>1
      <4>3. CASE ~Empty(f.hunks[h].ins) /\ r = <<f.name, f.hunks[h].ins.lo, f.hunks[h].ins.hi>>
        <5>1. i.file = f.name /\ f.hunks[h].ins.lo <= line /\ line <= f.hunks[h].ins.hi
          BY <1>2, <1>3, <3>2, <4>3
        <5>2. ChangedIn(f, line)
          BY <2>1, <4>1, <4>3, <5>1 DEF ChangedIn
        <5> QED BY <5>1, <5>2
      <4>4. CASE f.hunks[h].note /\ r = <<f.name, 0, 0>>
        <5>1. r[1] = f.name /\ r[2] = 0 /\ r[3] = 0
          BY <4>4
        <5>2. i.file = f.name /\ line = 0
          BY <1>1, <3>2, <5>1
        <5>3. Noted(f)
          BY <2>1, <4>1, <4>4 DEF Noted
        <5> QED BY <5>2, <5>3
      <4> QED BY <4>2, <4>3, <4>4
    <3>3. ASSUME NEW n \in DOMAIN files, Said(n) PROVE \E r \in addDiff : Lies(r)
      <4> DEFINE f == files[n]
      <4>1. ~f.binary /\ f.source
        BY <3>3 DEF ChangedIn, Noted
      <4>2. ASSUME NEW h \in DOMAIN f.hunks, ~Empty(f.hunks[h].ins),
                   f.hunks[h].ins.lo <= line, line <= f.hunks[h].ins.hi
            PROVE  \E r \in addDiff : Lies(r)
        <5>1. <<f.name, f.hunks[h].ins.lo, f.hunks[h].ins.hi>> \in addDiff
          BY <4>1, <4>2, AllRead
        <5>2. Lies(<<f.name, f.hunks[h].ins.lo, f.hunks[h].ins.hi>>)
          BY <1>2, <1>3, <3>3, <4>2
        <5> QED BY <5>1, <5>2
      <4>3. ASSUME NEW h \in DOMAIN f.hunks, f.hunks[h].note, line = 0
            PROVE  \E r \in addDiff : Lies(r)
        <5>1. <<f.name, 0, 0>> \in addDiff
          BY <4>1, <4>3, AllRead
        <5>2. Lies(<<f.name, 0, 0>>)
          BY <3>3, <4>3
        <5> QED BY <5>1, <5>2
      <4>4. CASE ChangedIn(f, line)
        <5>1. PICK h \in DOMAIN f.hunks : ~Empty(f.hunks[h].ins)
                 /\ f.hunks[h].ins.lo <= line /\ line <= f.hunks[h].ins.hi
          BY <2>1, <4>4 DEF ChangedIn
        <5> QED BY <4>2, <5>1
      <4>5. CASE line = 0 /\ Noted(f)
        <5>1. PICK h \in DOMAIN f.hunks : f.hunks[h].note
          BY <4>5 DEF Noted
        <5> QED BY <4>3, <4>5, <5>1
      <4> QED BY <3>3, <4>4, <4>5
    <3> QED BY <3>1, <3>2, <3>3
  <2>2. CASE ~input.isNew
    <3>1. sourceInfos = deleteDiff
      BY <2>2 DEF sourceInfos
    <3>2. ASSUME NEW r \in deleteDiff, Lies(r) PROVE \E n \in DOMAIN files : Said(n)
      <4>1. PICK n \in DOMAIN files :
              LET f == files[n] IN
                /\ ~f.binary /\ f.source
                /\ \E h \in DOMAIN f.hunks :
                     ~Empty(f.hunks[h].del) /\ r = <<f.name, f.hunks[h].del.lo, f.hunks[h].del.hi>>
        BY AllRead
      <4> DEFINE f == files[n]
      <4>2. PICK h \in DOMAIN f.hunks :
              ~Empty(f.hunks[h].del) /\ r = <<f.name, f.hunks[h].del.lo, f.hunks[h].del.hi>>
        BY <4>1
      <4>3. i.file = f.name /\ f.hunks[h].del.lo <= line /\ line <= f.hunks[h].del.hi
        BY <1>2, <1>3, <3>2, <4>2
      <4>4. ChangedIn(f, line)
        BY <2>2, <4>1, <4>2, <4>3 DEF ChangedIn
      <4> QED BY <4>3, <4>4
    <3>3. ASSUME NEW n \in DOMAIN files, Said(n) PROVE \E r \in deleteDiff : Lies(r)
      <4> DEFINE f == files[n]
      <4>1. ~f.binary /\ f.source /\ ChangedIn(f, line)
        BY <2>2, <3>3 DEF ChangedIn, Noted
      <4>2. PICK h \in DOMAIN f.hunks : ~Empty(f.hunks[h].del)
               /\ f.hunks[h].del.lo <= line /\ line <= f.hunks[h].del.hi
        BY <2>2, <4>1 DEF ChangedIn
      <4>3. <<f.name, f.hunks[h].del.lo, f.hunks[h].del.hi>> \in deleteDiff
        BY <4>1, <4>2, AllRead
      <4>4. Lies(<<f.name, f.hunks[h].del.lo, f.hunks[h].del.hi>>)
        BY <1>2, <1>3, <3>3, <4>2
      <4> QED BY <4>3, <4>4
    <3> QED BY <3>1, <3>2, <3>3
  <2> QED BY <2>1, <2>2
<1> QED BY <1>4 DEF InRange

-----------------------------------------------------------------------------
ChangeInv == ReaderInv /\ GetterInv /\ MarkedExact

LEMMA ChangeStarts ==
  ASSUME ChangeAssumption, ChangeInit
  PROVE  ChangeInv
<1>1. input \in Cases /\ rest = Output(input.files) /\ csPc = "handle"
      /\ addDiff = {} /\ deleteDiff = {}
  BY DEF ChangeInit
<1>2. Len(Output(input.files)) \in Nat /\ \E A : Output(input.files) \in Seq(A)
  BY <1>1, PrintedBy
<1>3. Read = 0
  BY <1>1, <1>2 DEF Read
<1>4. ReaderInv
  <2> DEFINE L == Output(input.files)
  <2>1. rest = L /\ Len(L) \in Nat
    BY <1>1, <1>2
  <2>2. \A k \in 1..Len(rest) : rest[k] = L[Read + k]
    <3> HIDE DEF L
    <3> SUFFICES ASSUME NEW k \in 1..Len(rest) PROVE rest[k] = L[Read + k]
      OBVIOUS
    <3>1. Read + k = k
      BY <1>3, <2>1
    <3> QED BY <2>1, <3>1
  <2>3. 1..Read = {} /\ Read \in 0..Len(L) /\ ~(Read > 0)
    <3> HIDE DEF L
    <3> QED BY <1>3, <2>1
  <2>4. \E A : rest \in Seq(A)
    BY <1>2, <2>1
  <2> QED BY <1>1, <2>2, <2>3, <2>4 DEF ReaderInv
<1>5. GetterInv
  BY DEF ChangeInit, GetterInv
<1>6. MarkedExact
  BY <1>1 DEF MarkedExact
<1> QED BY <1>4, <1>5, <1>6 DEF ChangeInv

(* The reader's part does not change when nothing it is about does. *)
LEMMA ReaderRests ==
  ASSUME ReaderInv, UNCHANGED <<input, rest, before, after, flag, addDiff, deleteDiff>>,
         csPc' \in {"handle", "get", "done"}, csPc' # "handle" => rest = <<>>
  PROVE  ReaderInv'
<1>1. Read' = Read /\ \A k : input'.files[Owner(input'.files)[k]] = FileOf(k)
  BY DEF Read, FileOf
<1> QED BY <1>1 DEF ReaderInv, FileOf

LEMMA ChangeSteps ==
  ASSUME ChangeAssumption, ChangeInv, [ChangeNext]_changeVars
  PROVE  ChangeInv'
<1>1. CASE HandleLine
  <2>1. ReaderInv'
    BY <1>1, LinesRead DEF ChangeInv
  <2>2. csPc' = "handle"
    BY <1>1 DEF HandleLine
  <2>3. GetterInv'
    <3>1. UNCHANGED <<input, built, marked, left, stmts, changedEdges, csPc>>
      BY <1>1 DEF HandleLine
    <3>2. \A j : Find(j)' = Find(j)
      BY <3>1 DEF Find
    <3>3. EdgesFor({s \in built : Key(s) \in stmts})' = EdgesFor({s \in built : Key(s) \in stmts})
      BY <3>1 DEF EdgesFor, isPTAEdge
    <3> QED BY <3>1, <3>2, <3>3 DEF ChangeInv, GetterInv, Globals
  <2> QED BY <2>1, <2>2, <2>3 DEF ChangeInv, MarkedExact
<1>2. CASE ParseModules
  <2>1. /\ csPc = "handle" /\ rest = <<>> /\ csPc' = "get"
        /\ marked' = {i \in input.insts : InRange(i)} /\ left' = marked'
        /\ UNCHANGED <<input, rest, before, after, flag, addDiff, deleteDiff, built, stmts, changedEdges>>
    BY <1>2 DEF ParseModules
  <2>2. ReaderInv'
    BY <2>1, ReaderRests DEF ChangeInv
  <2>3. GetterInv'
    BY <2>1 DEF ChangeInv, GetterInv, Globals
  <2>4. \A i \in input.insts : InRange(i) <=>
           /\ i.located
           /\ \E n \in DOMAIN input.files :
                /\ input.files[n].name = i.file
                /\ ChangedIn(input.files[n], i.line) \/ (i.line = 0 /\ Noted(input.files[n]))
    BY <2>1, InRangeIs DEF ChangeInv
  <2>5. MarkedExact'
    BY <2>1, <2>4 DEF MarkedExact, ChangedIn, Noted
  <2> QED BY <2>2, <2>3, <2>5 DEF ChangeInv
<1>3. CASE VisitInst
  <2>1. PICK i \in left :
          /\ csPc = "get" /\ left' = left \ {i} /\ stmts' = stmts \cup Find(i)
          /\ UNCHANGED <<input, rest, before, after, flag, addDiff, deleteDiff, built, marked, changedEdges, csPc>>
    BY <1>3 DEF VisitInst
  <2>2. ReaderInv'
    BY <2>1, ReaderRests DEF ChangeInv, ReaderInv
  <2>3. GetterInv'
    <3>1. left \subseteq marked /\ stmts = UNION {Find(j) : j \in marked \ left}
      BY DEF ChangeInv, GetterInv
    <3>2. marked \ left' = (marked \ left) \cup {i}
      BY <2>1, <3>1
    <3>3. \A j : Find(j)' = Find(j)
      BY <2>1 DEF Find
    <3>4. stmts' = UNION {Find(j) : j \in marked \ left'}
      BY <2>1, <3>1, <3>2
    <3>5. stmts' = UNION {Find(j)' : j \in marked \ left'}
      BY <3>3, <3>4
    <3> QED BY <2>1, <3>1, <3>5 DEF ChangeInv, GetterInv, Globals
  <2>4. MarkedExact'
    BY <2>1 DEF ChangeInv, MarkedExact, ChangedIn, Noted
  <2> QED BY <2>2, <2>3, <2>4 DEF ChangeInv
<1>4. CASE getDiffSDK
  <2>1. /\ csPc = "get" /\ left = {} /\ csPc' = "done"
        /\ changedEdges' = EdgesFor({s \in built : Key(s) \in stmts})
        /\ UNCHANGED <<input, rest, before, after, flag, addDiff, deleteDiff, built, marked, left, stmts>>
    BY <1>4 DEF getDiffSDK
  <2>2. ReaderInv'
    BY <2>1, ReaderRests DEF ChangeInv, ReaderInv
  <2>3. GetterInv'
    <3>1. changedEdges' = EdgesFor({s \in built : Key(s) \in stmts})'
      BY <2>1 DEF EdgesFor, isPTAEdge
    <3>2. \A j : Find(j)' = Find(j)
      BY <2>1 DEF Find
    <3> QED BY <2>1, <3>1, <3>2 DEF ChangeInv, GetterInv, Globals
  <2>4. MarkedExact'
    BY <2>1 DEF ChangeInv, MarkedExact, ChangedIn, Noted
  <2> QED BY <2>2, <2>3, <2>4 DEF ChangeInv
<1>5. CASE UNCHANGED changeVars
  <2>1. UNCHANGED <<input, rest, before, after, flag, addDiff, deleteDiff, built, marked, left,
                    stmts, changedEdges, csPc>>
    BY <1>5 DEF changeVars
  <2>2. ReaderInv'
    BY <2>1, ReaderRests DEF ChangeInv, ReaderInv
  <2>3. GetterInv'
    <3>1. EdgesFor({s \in built : Key(s) \in stmts})' = EdgesFor({s \in built : Key(s) \in stmts})
      BY <2>1 DEF EdgesFor, isPTAEdge
    <3>2. \A j : Find(j)' = Find(j)
      BY <2>1 DEF Find
    <3> QED BY <2>1, <3>1, <3>2 DEF ChangeInv, GetterInv, Globals
  <2>4. MarkedExact'
    BY <2>1 DEF ChangeInv, MarkedExact, ChangedIn, Noted
  <2> QED BY <2>2, <2>3, <2>4 DEF ChangeInv
<1> QED BY <1>1, <1>2, <1>3, <1>4, <1>5 DEF ChangeNext, ChangeStep

(* From the lines of a difference to the edges that a round retracts or inserts:
   the marked instructions are those of the changed lines, and with one
   exception for missing newlines no other; what they do to pointers is changed,
   and nothing else is. *)
THEOREM ChangesAreCorrect ==
  ASSUME ChangeAssumption
  PROVE  ChangeSpec => []ChangesCorrect
<1>1. ChangeInit => ChangeInv
  BY ChangeStarts
<1>2. ChangeInv /\ [ChangeNext]_changeVars => ChangeInv'
  BY ChangeSteps
<1>3. ChangeInv => ChangesCorrect
  <2> SUFFICES ASSUME ChangeInv PROVE ChangesCorrect
    OBVIOUS
  <2>1. input \in Cases /\ GetterInv /\ MarkedExact
    BY DEF ChangeInv, ReaderInv
  <2> QED BY <2>1, AllAreChanged, OnlyTheseAreChanged, UnchangedIsKept DEF ChangesCorrect
<1> QED BY <1>1, <1>2, <1>3, PTL DEF ChangeSpec
=============================================================================
