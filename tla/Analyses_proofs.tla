-------------------------- MODULE Analyses_proofs ---------------------------
(***************************************************************************)
(* Two of the exhaustive analyses: the solvers of context-free-language    *)
(* reachability, and the interval domain of the abstract execution.        *)
(***************************************************************************)
EXTENDS CFLSolver, Interval, Iteration_proofs, SequenceTheorems

(***************************************************************************)
(* The solvers of context-free-language reachability: for every finite     *)
(* graph, every grammar and all calls the plain one computes the closure,  *)
(* and what the variants with sets compute.                                *)
(***************************************************************************)

(* The edges on a list. *)
On(w) == {w[i] : i \in DOMAIN w}

-----------------------------------------------------------------------------
(* Pushing edges: they are listed, each list being one edge shorter. *)

First(S) == CHOOSE x \in S : TRUE
Lists(f, E) ==
  f = [S \in SUBSET E |-> IF S = {} THEN <<>> ELSE <<First(S)>> \o f[S \ {First(S)}]]
Lister(E) == CHOOSE f : Lists(f, E)

LEMMA OneLess ==
  ASSUME NEW E, IsFiniteSet(E), NEW S \in SUBSET E, S # {}
  PROVE  /\ First(S) \in S /\ S \ {First(S)} \in SUBSET E
         /\ Cardinality(S) \in Nat /\ Cardinality(S) > 0
         /\ Cardinality(S \ {First(S)}) = Cardinality(S) - 1
<1>1. First(S) \in S
  BY DEF First
<1>2. IsFiniteSet(S) /\ Cardinality(S) \in Nat
  BY FS_Subset, FS_CardinalityType
<1>3. Cardinality(S) # 0
  BY <1>2, FS_EmptySet
<1>4. Cardinality(S \ {First(S)}) = Cardinality(S) - 1
  BY <1>1, <1>2, FS_RemoveElement
<1> QED BY <1>1, <1>2, <1>3, <1>4

(* Such a function exists: it is what the recursion settles to. *)
LEMMA ListerExists ==
  ASSUME NEW E, IsFiniteSet(E)
  PROVE  Lists(Lister(E), E)
<1> DEFINE A == [SUBSET E -> Seq(E)]
           G(g) == [S \in SUBSET E |-> IF S = {} THEN <<>> ELSE <<First(S)>> \o g[S \ {First(S)}]]
           Lengthen == [g \in A |-> G(g)]
           a == [S \in SUBSET E |-> <<>>]
<1>1. a \in A
  OBVIOUS
<1>2. \A g \in A : G(g) \in A
  <2>1. TAKE g \in A
  <2>2. ASSUME NEW S \in SUBSET E, S # {} PROVE <<First(S)>> \o g[S \ {First(S)}] \in Seq(E)
    <3>1. First(S) \in E /\ S \ {First(S)} \in SUBSET E
      BY <2>2, OneLess
    <3>2. g[S \ {First(S)}] \in Seq(E)
      BY <3>1
    <3>3. <<First(S)>> \in Seq(E)
      BY <3>1
    <3> QED BY <3>2, <3>3, ConcatProperties
  <2>3. \A S \in SUBSET E : (IF S = {} THEN <<>> ELSE <<First(S)>> \o g[S \ {First(S)}]) \in Seq(E)
    BY <2>2, EmptySeq
  <2> QED BY <2>3
<1>3. Lengthen \in [A -> A]
  BY <1>2
<1>4. PICK it : Iterates(it, Lengthen, a)
  <2> HIDE DEF A, Lengthen, a
  <2> QED BY <1>1, <1>3, IterationExists
<1>5. it[0] = a /\ \A i \in Nat : it[i] \in A /\ it[i + 1] = Lengthen[it[i]]
  <2> HIDE DEF A, Lengthen, a
  <2> QED BY <1>1, <1>3, <1>4, IterationSteps
<1>6. \A i \in Nat : it[i + 1] = G(it[i])
  BY <1>5
<1> DEFINE T == {i \in Nat : \A S \in SUBSET E : Cardinality(S) <= i => it[i + 1][S] = it[i][S]}
<1> HIDE DEF A, Lengthen
<1>7. ASSUME NEW i \in Nat, NEW S \in SUBSET E
      PROVE  it[i + 1][S] = IF S = {} THEN <<>> ELSE <<First(S)>> \o it[i][S \ {First(S)}]
  <2>1. it[i + 1] = G(it[i])
    BY <1>6
  <2> QED BY <2>1
<1> HIDE DEF G
<1>8. 0 \in T
  <2>1. ASSUME NEW S \in SUBSET E, Cardinality(S) <= 0 PROVE S = {}
    <3>1. S # {} => Cardinality(S) \in Nat /\ Cardinality(S) > 0
      BY OneLess
    <3> QED BY <2>1, <3>1
  <2>2. it[0][{}] = <<>>
    BY <1>5
  <2>3. it[0 + 1][{}] = <<>>
    BY <1>7
  <2> QED BY <2>1, <2>2, <2>3
<1>9. ASSUME NEW i \in Nat, i \in T PROVE i + 1 \in T
  <2>1. ASSUME NEW S \in SUBSET E, Cardinality(S) <= i + 1
        PROVE  it[(i + 1) + 1][S] = it[i + 1][S]
    <3>1. CASE S = {}
      <4>1. (i + 1) + 1 \in Nat /\ i + 1 \in Nat
        OBVIOUS
      <4> QED BY <1>7, <3>1, <4>1
    <3>2. CASE S # {}
      <4>1. S \ {First(S)} \in SUBSET E /\ Cardinality(S \ {First(S)}) <= i
        BY <2>1, <3>2, OneLess
      <4>2. it[i + 1][S \ {First(S)}] = it[i][S \ {First(S)}]
        BY <1>9, <4>1
      <4>3. it[(i + 1) + 1][S] = <<First(S)>> \o it[i + 1][S \ {First(S)}]
        <5>1. i + 1 \in Nat
          OBVIOUS
        <5> QED BY <1>7, <3>2, <5>1
      <4>4. it[i + 1][S] = <<First(S)>> \o it[i][S \ {First(S)}]
        BY <1>7, <3>2
      <4> QED BY <4>2, <4>3, <4>4
    <3> QED BY <3>1, <3>2
  <2> QED BY <2>1
<1>10. Nat \subseteq T
  <2> HIDE DEF T
  <2> QED BY <1>8, <1>9, NatWithSuccessors
<1>11. PICK n \in Nat : n = Cardinality(E)
  BY FS_CardinalityType
<1>12. \A S \in SUBSET E : it[n + 1][S] = it[n][S]
  <2>1. \A S \in SUBSET E : Cardinality(S) <= n
    BY <1>11, FS_Subset
  <2> QED BY <1>10, <2>1
<1> USE DEF G
<1>13. it[n] = G(it[n])
  <2>1. it[n] \in [SUBSET E -> Seq(E)] /\ it[n + 1] = G(it[n])
    BY <1>5, <1>6 DEF A
  <2>2. \A S \in SUBSET E : it[n][S] = G(it[n])[S]
    BY <1>12, <2>1
  <2> HIDE DEF G
  <2>3. G(it[n]) \in [SUBSET E -> Seq(E)]
    BY <1>2, <2>1 DEF A
  <2> QED BY <2>1, <2>2, <2>3
<1>14. \E f : Lists(f, E)
  BY <1>13 DEF Lists
<1> QED BY <1>14 DEF Lister

LEMMA ListerHas ==
  ASSUME NEW E, IsFiniteSet(E), NEW S \in SUBSET E
  PROVE  Lister(E)[S] \in Seq(E) /\ On(Lister(E)[S]) = S
<1> DEFINE f == Lister(E)
           T == {i \in Nat : \A Q \in SUBSET E : Cardinality(Q) <= i => f[Q] \in Seq(E) /\ On(f[Q]) = Q}
<1>1. \A Q \in SUBSET E : f[Q] = IF Q = {} THEN <<>> ELSE <<First(Q)>> \o f[Q \ {First(Q)}]
  <2>1. Lists(f, E)
    BY ListerExists
  <2> HIDE DEF f
  <2> QED BY <2>1 DEF Lists
<1> HIDE DEF f
<1>2. f[{}] \in Seq(E) /\ On(f[{}]) = {}
  <2>1. f[{}] = <<>>
    BY <1>1
  <2> QED BY <2>1 DEF On
<1>3. 0 \in T
  <2>1. ASSUME NEW Q \in SUBSET E, Cardinality(Q) <= 0 PROVE Q = {}
    <3>1. Q # {} => Cardinality(Q) \in Nat /\ Cardinality(Q) > 0
      BY OneLess
    <3> QED BY <2>1, <3>1
  <2> QED BY <1>2, <2>1
<1>4. ASSUME NEW i \in Nat, i \in T PROVE i + 1 \in T
  <2>1. ASSUME NEW Q \in SUBSET E, Cardinality(Q) <= i + 1, Q # {}
        PROVE  f[Q] \in Seq(E) /\ On(f[Q]) = Q
    <3>1. First(Q) \in Q /\ Q \ {First(Q)} \in SUBSET E /\ Cardinality(Q \ {First(Q)}) <= i
      BY <2>1, OneLess
    <3>2. PICK s : s = f[Q \ {First(Q)}]
      OBVIOUS
    <3>3. s \in Seq(E) /\ On(s) = Q \ {First(Q)}
      BY <1>4, <3>1, <3>2
    <3>4. PICK x \in E : x = First(Q)
      BY <3>1
    <3>5. f[Q] = <<x>> \o s
      BY <1>1, <2>1, <3>2, <3>4
    <3>6. PICK t : t = <<x>> \o s
      OBVIOUS
    <3>7. t \in Seq(E) /\ On(t) = On(s) \cup {x}
      <4>1. <<x>> \in Seq(E) /\ Len(<<x>>) = 1 /\ <<x>>[1] = x
        OBVIOUS
      <4>2. t \in Seq(E) /\ Len(t) = 1 + Len(s)
            /\ \A j \in 1..(1 + Len(s)) : t[j] = IF j <= 1 THEN <<x>>[j] ELSE s[j - 1]
        BY <3>3, <3>6, <4>1, ConcatProperties
      <4>3. Len(s) \in Nat /\ DOMAIN s = 1..Len(s) /\ DOMAIN t = 1..(1 + Len(s))
        BY <3>3, <4>2
      <4>4. t[1] = x /\ 1 \in DOMAIN t
        BY <4>1, <4>2, <4>3
      <4>5. \A j \in DOMAIN s : j + 1 \in DOMAIN t /\ t[j + 1] = s[j]
        BY <4>2, <4>3
      <4>6. \A j \in DOMAIN t : j = 1 \/ (j - 1 \in DOMAIN s /\ t[j] = s[j - 1])
        BY <4>2, <4>3
      <4>7. On(t) \subseteq On(s) \cup {x}
        BY <4>4, <4>6 DEF On
      <4>8. On(s) \cup {x} \subseteq On(t)
        BY <4>4, <4>5 DEF On
      <4> QED BY <4>2, <4>7, <4>8
    <3> QED BY <3>1, <3>3, <3>4, <3>5, <3>6, <3>7
  <2>2. \A Q \in SUBSET E : Cardinality(Q) <= i + 1 => f[Q] \in Seq(E) /\ On(f[Q]) = Q
    BY <1>2, <2>1
  <2> QED BY <2>2
<1>5. Nat \subseteq T
  <2> HIDE DEF T
  <2> QED BY <1>3, <1>4, NatWithSuccessors
<1>6. Cardinality(S) \in Nat
  BY FS_Subset, FS_CardinalityType
<1> QED BY <1>5, <1>6 DEF f

(* What is on the list afterwards. *)
LEMMA PushedHas ==
  ASSUME NEW L, NEW w \in Seq(L), NEW E \in SUBSET L, IsFiniteSet(E)
  PROVE  Pushed(w, E) \in Seq(L) /\ On(Pushed(w, E)) = On(w) \cup E
<1> DEFINE S == E \ On(w)
<1>1. PICK s : s = Lister(E)[S]
  OBVIOUS
<1>2. s \in Seq(E) /\ On(s) = S
  BY <1>1, ListerHas
<1>3. Pushed(w, E) = w \o s
  BY <1>1 DEF Pushed, On, Lister, Lists, First
<1>4. s \in Seq(L)
  <2>1. \A i \in DOMAIN s : s[i] \in L
    BY <1>2
  <2> QED BY <1>2, <2>1
<1>5. PICK t : t = w \o s
  OBVIOUS
<1>6. t \in Seq(L) /\ Len(t) = Len(w) + Len(s)
      /\ \A j \in 1..(Len(w) + Len(s)) : t[j] = IF j <= Len(w) THEN w[j] ELSE s[j - Len(w)]
  BY <1>4, <1>5, ConcatProperties
<1>7. Len(w) \in Nat /\ Len(s) \in Nat /\ DOMAIN w = 1..Len(w) /\ DOMAIN s = 1..Len(s)
      /\ DOMAIN t = 1..(Len(w) + Len(s))
  BY <1>4, <1>6
<1>8. \A j \in DOMAIN w : j \in DOMAIN t /\ t[j] = w[j]
  BY <1>6, <1>7
<1>9. \A j \in DOMAIN s : Len(w) + j \in DOMAIN t /\ t[Len(w) + j] = s[j]
  BY <1>6, <1>7
<1>10. \A j \in DOMAIN t : (j \in DOMAIN w /\ t[j] = w[j]) \/ (j - Len(w) \in DOMAIN s /\ t[j] = s[j - Len(w)])
  BY <1>6, <1>7
<1>11. On(t) \subseteq On(w) \cup On(s)
  BY <1>10 DEF On
<1>12. On(w) \cup On(s) \subseteq On(t)
  BY <1>8, <1>9 DEF On
<1>13. On(w) \cup On(s) = On(w) \cup E
  BY <1>2
<1> QED BY <1>3, <1>5, <1>6, <1>11, <1>12, <1>13

-----------------------------------------------------------------------------
(***************************************************************************)
(* The closure: one step, the space it stays in, and what it comes to.     *)
(***************************************************************************)

(* What a production gives. *)
Epsilons(P, N) == {Link(i, p.lhs, i) : i \in N, p \in EpsilonProds(P)}
Singles(E, P) ==
  UNION {{Link(e.src, p.lhs, e.dst) : p \in {x \in SingleProds(P) : x.rhs[1] = e.sym}} : e \in E}
Meet(e, z, p) == p.rhs[1] = e.sym /\ p.rhs[2] = z.sym /\ e.dst = z.src
Pairs(E, P) ==
  UNION {UNION {{Link(e.src, p.lhs, z.dst) : e \in {x \in E : x.dst = z.src /\ x.sym = p.rhs[1]}} :
                  z \in {x \in E : x.sym = p.rhs[2]}} : p \in PairProds(P)}

LEMMA StepIs ==
  ASSUME NEW E, NEW P, NEW N, NEW C
  PROVE  ClosureStep(E, P, N, C) =
         UNION {E, Epsilons(P, N), Singles(E, P), Pairs(E, P), Copies(Resolved(E) \cap C)}
BY DEF ClosureStep, Epsilons, Singles, Pairs

LEMMA InEpsilons ==
  ASSUME NEW P, NEW N, NEW y
  PROVE  y \in Epsilons(P, N) <=> \E i \in N : \E p \in EpsilonProds(P) : y = Link(i, p.lhs, i)
BY DEF Epsilons

LEMMA InSingles ==
  ASSUME NEW E, NEW P, NEW y
  PROVE  y \in Singles(E, P) <=>
         \E e \in E : \E p \in SingleProds(P) : p.rhs[1] = e.sym /\ y = Link(e.src, p.lhs, e.dst)
BY DEF Singles

LEMMA InPairs ==
  ASSUME NEW E, NEW P, NEW y
  PROVE  y \in Pairs(E, P) <=>
         \E e \in E : \E z \in E : \E p \in PairProds(P) : Meet(e, z, p) /\ y = Link(e.src, p.lhs, z.dst)
<1> DEFINE Left(z, p) == {Link(e.src, p.lhs, z.dst) : e \in {x \in E : x.dst = z.src /\ x.sym = p.rhs[1]}}
<1>1. \A z, p : y \in Left(z, p) <=> \E e \in E : e.dst = z.src /\ p.rhs[1] = e.sym /\ y = Link(e.src, p.lhs, z.dst)
  OBVIOUS
<1>2. y \in Pairs(E, P) <=> \E p \in PairProds(P) : \E z \in {x \in E : x.sym = p.rhs[2]} : y \in Left(z, p)
  BY DEF Pairs
<1> HIDE DEF Left
<1> QED BY <1>1, <1>2 DEF Meet

(* Copies, and the calls that are resolved. *)
LEMMA CopiesFacts ==
  ASSUME NEW C, NEW D
  PROVE  /\ Copies(C \cup D) = Copies(C) \cup Copies(D)
         /\ C \subseteq D => Copies(C) \subseteq Copies(D)
         /\ Copies({}) = {}
<1> DEFINE K(A) == {[kind |-> "copy", src |-> x[1], dst |-> x[2], idx |-> 0] : x \in UNION {c.copies : c \in A}}
<1>1. K(C \cup D) = K(C) \cup K(D) /\ (C \subseteq D => K(C) \subseteq K(D)) /\ K({}) = {}
  <2> DEFINE U(A) == UNION {c.copies : c \in A}
  <2>1. U(C \cup D) = U(C) \cup U(D) /\ (C \subseteq D => U(C) \subseteq U(D)) /\ U({}) = {}
    OBVIOUS
  <2>2. \A A : K(A) = {[kind |-> "copy", src |-> x[1], dst |-> x[2], idx |-> 0] : x \in U(A)}
    OBVIOUS
  <2> HIDE DEF U, K
  <2> QED BY <2>1, <2>2
<1>2. \A A : Copies(A) = Bigraph(K(A))
  BY DEF Copies
<1>3. \A A, B : Bigraph(A \cup B) = Bigraph(A) \cup Bigraph(B) /\ (A \subseteq B => Bigraph(A) \subseteq Bigraph(B))
  BY DEF Bigraph
<1>4. Bigraph({}) = {}
  BY DEF Bigraph
<1> HIDE DEF K
<1> QED BY <1>1, <1>2, <1>3, <1>4

LEMMA ResolvedGrows ==
  ASSUME NEW E, NEW F2, E \subseteq F2
  PROVE  Resolved(E) \subseteq Resolved(F2) /\ Resolved(E) \subseteq problem.calls
<1>1. \A n : getCFLPts(n, E) \subseteq getCFLPts(n, F2)
  BY DEF getCFLPts
<1> QED BY <1>1 DEF Resolved

LEMMA StepGrows ==
  ASSUME NEW E, NEW D, E \subseteq D, NEW P, NEW N, NEW C
  PROVE  /\ ClosureStep(E, P, N, C) \subseteq ClosureStep(D, P, N, C)
         /\ E \subseteq ClosureStep(E, P, N, C)
<1>1. Singles(E, P) \subseteq Singles(D, P)
  BY InSingles
<1>2. Pairs(E, P) \subseteq Pairs(D, P)
  BY InPairs
<1>3. Copies(Resolved(E) \cap C) \subseteq Copies(Resolved(D) \cap C)
  <2>1. Resolved(E) \cap C \subseteq Resolved(D) \cap C
    BY ResolvedGrows
  <2> QED BY <2>1, CopiesFacts
<1> QED BY <1>1, <1>2, <1>3, StepIs

-----------------------------------------------------------------------------
(* What is finite: the filled grammar, the symbols, the edges between the nodes
   with symbols that are. *)
LEMMA GrammarFinite ==
  ASSUME NEW x \in Problems, CFLAssumption
  PROVE  IsFiniteSet(fillAttribute(x))
<1> DEFINE geps == {k \in x.constraints : k.kind = "gep"}
           idx == [c \in x.constraints |-> c.idx]
           attributes == {c.idx : c \in geps}
           sym(s, a) == <<s[1], IF s[3] = "" THEN s[2] ELSE a>>
           with(p, a) == [lhs |-> sym(p.lhs, a), rhs |-> [i \in DOMAIN p.rhs |-> sym(p.rhs[i], a)]]
           Q == x.productions \X (attributes \cup {0})
           f == [q \in Q |-> with(q[1], q[2])]
<1>1. IsFiniteSet(x.constraints) /\ IsFiniteSet(x.productions)
  BY DEF CFLAssumption
<1>2. IsFiniteSet(attributes)
  <2>1. IsFiniteSet({idx[c] : c \in x.constraints})
    <3> HIDE DEF idx
    <3> QED BY <1>1, ImageFinite
  <2>2. attributes \in SUBSET {idx[c] : c \in x.constraints}
    OBVIOUS
  <2> HIDE DEF attributes, idx
  <2> QED BY <2>1, <2>2, FS_Subset
<1>3. IsFiniteSet(Q)
  <2>1. IsFiniteSet(attributes \cup {0})
    <3> HIDE DEF attributes
    <3> QED BY <1>2, FS_AddElement
  <2> DEFINE B == attributes \cup {0}
  <2> HIDE DEF B
  <2>2. IsFiniteSet(x.productions \X B)
    BY <1>1, <2>1, FS_Product DEF B
  <2> QED BY <2>2 DEF B
<1>4. IsFiniteSet({f[q] : q \in Q})
  <2> HIDE DEF f, Q
  <2> QED BY <1>3, ImageFinite
<1>5. fillAttribute(x) \in SUBSET {f[q] : q \in Q}
  <2>1. ASSUME NEW p \in x.productions, NEW y \in Filled(p, attributes)
        PROVE  \E a \in attributes \cup {0} : y = with(p, a)
    <3> HIDE DEF attributes
    <3>1. y = with(p, 0) \/ \E a \in attributes : y = with(p, a)
      BY <2>1 DEF Filled
    <3> QED BY <3>1
  <2>2. ASSUME NEW p \in x.productions, NEW a \in attributes \cup {0}
        PROVE  with(p, a) \in {f[q] : q \in Q}
    <3> HIDE DEF attributes, with
    <3>1. <<p, a>> \in Q
      OBVIOUS
    <3>2. f[<<p, a>>] = with(p, a)
      BY <3>1
    <3> QED BY <3>1, <3>2
  <2>3. fillAttribute(x) = UNION {Filled(p, attributes) : p \in x.productions}
    BY DEF fillAttribute
  <2> HIDE DEF attributes, with, f, Q
  <2> QED BY <2>1, <2>2, <2>3
<1> HIDE DEF f, Q
<1> QED BY <1>4, <1>5, FS_Subset

(* The symbols of edges. *)
SymsOf(E) == {e.sym : e \in E}
Heads(P) == {p.lhs : p \in P}
CopySyms == {<<"copy", 0>>, <<Bar("copy"), 0>>}

LEMMA BigraphEdges ==
  ASSUME NEW C, NEW y
  PROVE  y \in Bigraph(C) <=> \E c \in C : \/ y = Link(c.src, <<c.kind, c.idx>>, c.dst)
                                           \/ y = Link(c.dst, <<Bar(c.kind), c.idx>>, c.src)
BY DEF Bigraph

LEMMA CopyEdges ==
  ASSUME NEW x \in Problems, CFLAssumption, NEW C \in SUBSET x.calls, NEW y \in Copies(C)
  PROVE  y \in [src : x.nodes, sym : CopySyms, dst : x.nodes]
<1> DEFINE cs == {[kind |-> "copy", src |-> d[1], dst |-> d[2], idx |-> 0] : d \in UNION {c.copies : c \in C}}
<1>1. PICK c \in cs : \/ y = Link(c.src, <<c.kind, c.idx>>, c.dst)
                      \/ y = Link(c.dst, <<Bar(c.kind), c.idx>>, c.src)
  <2>1. y \in Bigraph(cs)
    BY DEF Copies
  <2> HIDE DEF cs
  <2> QED BY <2>1, BigraphEdges
<1>2. PICK k \in C : \E d \in k.copies :
              c = [kind |-> "copy", src |-> d[1], dst |-> d[2], idx |-> 0]
  BY <1>1
<1>3. PICK d \in k.copies : c = [kind |-> "copy", src |-> d[1], dst |-> d[2], idx |-> 0]
  BY <1>2
<1>4. d \in x.nodes \X x.nodes
  <2>1. k.copies \subseteq x.nodes \X x.nodes
    BY DEF CFLAssumption
  <2> QED BY <1>2, <2>1
<1>5. d[1] \in x.nodes /\ d[2] \in x.nodes
  BY <1>4
<1>6. c.kind = "copy" /\ c.src = d[1] /\ c.dst = d[2] /\ c.idx = 0
  BY <1>3
<1> QED BY <1>1, <1>5, <1>6 DEF Link, CopySyms

LEMMA ConstraintEdges ==
  ASSUME NEW x \in Problems, CFLAssumption
  PROVE  /\ IsFiniteSet(SymsOf(Bigraph(x.constraints)))
         /\ \A y \in Bigraph(x.constraints) : /\ y = Link(y.src, y.sym, y.dst)
                                              /\ y.src \in x.nodes /\ y.dst \in x.nodes
<1>1. IsFiniteSet(x.constraints) /\ \A c \in x.constraints : c.src \in x.nodes /\ c.dst \in x.nodes
  BY DEF CFLAssumption
<1> DEFINE C == x.constraints
           f == [c \in C |-> <<c.kind, c.idx>>]
           g == [c \in C |-> <<Bar(c.kind), c.idx>>]
           A == {f[c] : c \in C}
           B == {g[c] : c \in C}
<1>2. IsFiniteSet(A) /\ IsFiniteSet(B)
  <2> HIDE DEF f, g
  <2> QED BY <1>1, ImageFinite
<1>3. IsFiniteSet(A \cup B)
  <2> HIDE DEF A, B
  <2> QED BY <1>2, FS_Union
<1>4. \A y \in Bigraph(C) : /\ y = Link(y.src, y.sym, y.dst) /\ y.src \in x.nodes /\ y.dst \in x.nodes
                            /\ y.sym \in A \cup B
  <2>1. TAKE y \in Bigraph(C)
  <2>2. PICK c \in C : \/ y = Link(c.src, <<c.kind, c.idx>>, c.dst)
                       \/ y = Link(c.dst, <<Bar(c.kind), c.idx>>, c.src)
    <3> HIDE DEF C
    <3> QED BY BigraphEdges
  <2>3. CASE y = Link(c.src, <<c.kind, c.idx>>, c.dst)
    <3>1. f[c] = <<c.kind, c.idx>> /\ f[c] \in A
      OBVIOUS
    <3> HIDE DEF f, A, g, B
    <3> QED BY <1>1, <2>3, <3>1 DEF Link
  <2>4. CASE y = Link(c.dst, <<Bar(c.kind), c.idx>>, c.src)
    <3>1. g[c] = <<Bar(c.kind), c.idx>> /\ g[c] \in B
      OBVIOUS
    <3> HIDE DEF f, A, g, B
    <3> QED BY <1>1, <2>4, <3>1 DEF Link
  <2> QED BY <2>2, <2>3, <2>4
<1>5. SymsOf(Bigraph(C)) \in SUBSET (A \cup B)
  <2> HIDE DEF A, B, C
  <2> QED BY <1>4 DEF SymsOf
<1>6. IsFiniteSet(SymsOf(Bigraph(C)))
  <2> HIDE DEF A, B, C
  <2> QED BY <1>3, <1>5, FS_Subset
<1> QED BY <1>4, <1>6

LEMMA SpaceFinite ==
  ASSUME NEW N, IsFiniteSet(N), NEW Y, IsFiniteSet(Y)
  PROVE  IsFiniteSet([src : N, sym : Y, dst : N])
<1> DEFINE Q == N \X (Y \X N)
           f == [q \in Q |-> [src |-> q[1], sym |-> q[2][1], dst |-> q[2][2]]]
<1>1. IsFiniteSet(Q)
  <2>1. IsFiniteSet(Y \X N)
    BY FS_Product
  <2> DEFINE B == Y \X N
  <2> HIDE DEF B
  <2>2. IsFiniteSet(N \X B)
    BY <2>1, FS_Product DEF B
  <2> QED BY <2>2 DEF B
<1>2. IsFiniteSet({f[q] : q \in Q})
  <2> HIDE DEF f, Q
  <2> QED BY <1>1, ImageFinite
<1>3. ASSUME NEW r \in [src : N, sym : Y, dst : N] PROVE r \in {f[q] : q \in Q}
  <2>1. <<r.src, <<r.sym, r.dst>>>> \in Q
    OBVIOUS
  <2>2. f[<<r.src, <<r.sym, r.dst>>>>] = [src |-> r.src, sym |-> r.sym, dst |-> r.dst]
    BY <2>1
  <2>3. r = [src |-> r.src, sym |-> r.sym, dst |-> r.dst]
    OBVIOUS
  <2> HIDE DEF f, Q
  <2> QED BY <2>1, <2>2, <2>3
<1>4. [src : N, sym : Y, dst : N] \in SUBSET {f[q] : q \in Q}
  BY <1>3
<1> HIDE DEF f, Q
<1> QED BY <1>2, <1>4, FS_Subset

-----------------------------------------------------------------------------
(***************************************************************************)
(* The closure is the least set with the edges of the constraints that the *)
(* step does not add to: the space is finite, and the step grows in it.    *)
(***************************************************************************)
Space(P) ==
  [src : problem.nodes, sym : Heads(P) \cup SymsOf(edges \cup Copies(problem.calls)), dst : problem.nodes]
Grower(P, N, C) == [S \in SUBSET Space(P) |-> ClosureStep(S, P, N, C)]

Grounded ==
  /\ problem \in Problems
  /\ Bigraph(problem.constraints) \subseteq edges
  /\ edges \subseteq [src : problem.nodes, sym : SymsOf(edges), dst : problem.nodes]
  /\ IsFiniteSet(SymsOf(edges))

LEMMA SpaceIsFinite ==
  ASSUME CFLAssumption, Grounded, NEW P, IsFiniteSet(P)
  PROVE  IsFiniteSet(Space(P))
<1>1. IsFiniteSet(problem.nodes) /\ problem \in Problems /\ IsFiniteSet(SymsOf(edges))
  BY DEF CFLAssumption, Grounded
<1>2. IsFiniteSet(Heads(P))
  <2> DEFINE f == [p \in P |-> p.lhs]
  <2>1. Heads(P) = {f[p] : p \in P}
    BY DEF Heads
  <2> HIDE DEF f
  <2> QED BY <2>1, ImageFinite
<1>3. IsFiniteSet(CopySyms)
  <2>1. CopySyms = {<<"copy", 0>>} \cup {<<Bar("copy"), 0>>}
    BY DEF CopySyms
  <2> QED BY <2>1, FS_Singleton, FS_Union
<1>4. SymsOf(edges \cup Copies(problem.calls)) \in SUBSET (SymsOf(edges) \cup CopySyms)
  <2>1. \A y \in Copies(problem.calls) : y \in [src : problem.nodes, sym : CopySyms, dst : problem.nodes]
    BY <1>1, CopyEdges
  <2> QED BY <2>1 DEF SymsOf
<1> DEFINE A == SymsOf(edges \cup Copies(problem.calls))
           B == SymsOf(edges) \cup CopySyms
<1>5. IsFiniteSet(B)
  BY <1>1, <1>3, FS_Union
<1>6. IsFiniteSet(A)
  <2> HIDE DEF A, B
  <2>1. A \in SUBSET B
    BY <1>4 DEF A, B
  <2> QED BY <1>5, <2>1, FS_Subset
<1> DEFINE Y == Heads(P) \cup A
           N == problem.nodes
<1>7. IsFiniteSet(Y)
  <2> HIDE DEF A
  <2> QED BY <1>2, <1>6, FS_Union
<1>8. Space(P) = [src : N, sym : Y, dst : N]
  BY DEF Space
<1>9. IsFiniteSet(N)
  BY <1>1
<1> HIDE DEF Y, N
<1> QED BY <1>7, <1>8, <1>9, SpaceFinite

LEMMA StepType ==
  ASSUME CFLAssumption, Grounded, NEW P, NEW N \in SUBSET problem.nodes, NEW C,
         NEW E \in SUBSET Space(P)
  PROVE  ClosureStep(E, P, N, C) \in SUBSET Space(P)
<1>1. \A i, j \in problem.nodes : \A p \in P : Link(i, p.lhs, j) \in Space(P)
  BY DEF Link, Space, Heads
<1>2. \A e \in E : e.src \in problem.nodes /\ e.dst \in problem.nodes
  BY DEF Space
<1>3. ASSUME NEW y \in Epsilons(P, N) PROVE y \in Space(P)
  <2>1. PICK i \in N, p \in EpsilonProds(P) : y = Link(i, p.lhs, i)
    BY InEpsilons
  <2> QED BY <1>1, <2>1 DEF EpsilonProds
<1>4. ASSUME NEW y \in Singles(E, P) PROVE y \in Space(P)
  <2>1. PICK e \in E, p \in SingleProds(P) : y = Link(e.src, p.lhs, e.dst)
    BY InSingles
  <2> QED BY <1>1, <1>2, <2>1 DEF SingleProds
<1>5. ASSUME NEW y \in Pairs(E, P) PROVE y \in Space(P)
  <2>1. PICK e \in E, z \in E, p \in PairProds(P) : y = Link(e.src, p.lhs, z.dst)
    BY InPairs
  <2> QED BY <1>1, <1>2, <2>1 DEF PairProds
<1>6. ASSUME NEW y \in Copies(Resolved(E) \cap C) PROVE y \in Space(P)
  <2>1. Resolved(E) \cap C \subseteq problem.calls
    BY DEF Resolved
  <2>2. y \in Copies(problem.calls)
    BY <1>6, <2>1, CopiesFacts
  <2>3. y \in [src : problem.nodes, sym : CopySyms, dst : problem.nodes]
    <3>1. problem \in Problems
      BY DEF Grounded
    <3> QED BY <2>2, <3>1, CopyEdges
  <2>4. y.sym \in SymsOf(edges \cup Copies(problem.calls))
    BY <2>2 DEF SymsOf
  <2> QED BY <2>3, <2>4 DEF Space
<1> QED BY <1>3, <1>4, <1>5, <1>6, StepIs

LEMMA ClosureIs ==
  ASSUME CFLAssumption, Grounded, NEW P, IsFiniteSet(P), NEW N \in SUBSET problem.nodes, NEW C
  PROVE  LeastClosed(Closure(P, N, C), Space(P), Grower(P, N, C), Bigraph(problem.constraints))
<1> DEFINE U == Space(P)
           G == Grower(P, N, C)
           a == Bigraph(problem.constraints)
           f == CHOOSE g : Recurses(g, U, G)
<1>1. IsFiniteSet(U)
  BY SpaceIsFinite
<1>2. G \in [SUBSET U -> SUBSET U] /\ \A S \in SUBSET U : G[S] = ClosureStep(S, P, N, C)
  BY StepType DEF Grower
<1>3. \A S \in SUBSET U : S \subseteq G[S]
  BY <1>2, StepGrows
<1>4. \A S, T \in SUBSET U : S \subseteq T => G[S] \subseteq G[T]
  BY <1>2, StepGrows
<1>5. a \in SUBSET U
  <2>1. edges \subseteq U
    BY DEF Grounded, Space, SymsOf
  <2> QED BY <2>1 DEF Grounded
<1>6. Closure(P, N, C) = f[a]
  <2> DEFINE Step(g) == [S \in SUBSET U |-> IF G[S] = S THEN S ELSE g[G[S]]]
             step(g) == [S \in SUBSET U |-> LET next == ClosureStep(S, P, N, C)
                                            IN  IF next = S THEN S ELSE g[next]]
  <2>1. \A g : Step(g) = step(g)
    <3> HIDE DEF U, G
    <3> QED BY <1>2
  <2>2. Closure(P, N, C) = (CHOOSE g : g = step(g))[a]
    BY DEF Closure, Space, Heads, SymsOf
  <2>3. f = CHOOSE g : g = Step(g)
    BY DEF Recurses
  <2>4. (CHOOSE g : g = Step(g)) = (CHOOSE g : g = step(g))
    <3> HIDE DEF Step, step
    <3> QED BY <2>1
  <2> HIDE DEF Step, step, f, a
  <2> QED BY <2>2, <2>3, <2>4
<1> HIDE DEF U, G, a
<1>7. Recurses(f, U, G)
  <2>1. \E g : Recurses(g, U, G)
    BY <1>1, <1>2, <1>3, <1>4, RecursionExists
  <2> QED BY <2>1
<1> HIDE DEF f
<1>8. LeastClosed(f[a], U, G, a)
  BY <1>1, <1>2, <1>3, <1>5, <1>7, RecursionCloses
<1> QED BY <1>6, <1>8 DEF U, G, a

(* What says that a set is closed, and what follows for the edges. *)
Closes(T, P, N, C) ==
  Bigraph(problem.constraints) \subseteq T /\ ClosureStep(T, P, N, C) \subseteq T

LEMMA ClosureCloses ==
  ASSUME CFLAssumption, Grounded, NEW P, IsFiniteSet(P), NEW N \in SUBSET problem.nodes, NEW C
  PROVE  Closes(Closure(P, N, C), P, N, C)
<1>1. PICK R : R = Closure(P, N, C)
  OBVIOUS
<1>2. LeastClosed(R, Space(P), Grower(P, N, C), Bigraph(problem.constraints))
  BY <1>1, ClosureIs
<1>3. R \in SUBSET Space(P) /\ Bigraph(problem.constraints) \subseteq R /\ Grower(P, N, C)[R] = R
  BY <1>2 DEF LeastClosed
<1>4. ClosureStep(R, P, N, C) = R
  BY <1>3 DEF Grower
<1> QED BY <1>1, <1>3, <1>4 DEF Closes

LEMMA ClosureExact ==
  ASSUME CFLAssumption, Grounded, NEW P, IsFiniteSet(P), NEW N \in SUBSET problem.nodes, NEW C,
         Closes(edges, P, N, C), \A T : Closes(T, P, N, C) => edges \subseteq T
  PROVE  edges = Closure(P, N, C)
<1>1. PICK R : R = Closure(P, N, C)
  OBVIOUS
<1>2. edges \subseteq R
  BY <1>1, ClosureCloses
<1>3. LeastClosed(R, Space(P), Grower(P, N, C), Bigraph(problem.constraints))
  BY <1>1, ClosureIs
<1>4. edges \in SUBSET Space(P)
  BY DEF Grounded, Space, SymsOf
<1>5. \A S \in SUBSET Space(P) : S \subseteq edges => Grower(P, N, C)[S] \subseteq edges
  <2>1. TAKE S \in SUBSET Space(P)
  <2>2. HAVE S \subseteq edges
  <2>3. ClosureStep(S, P, N, C) \subseteq ClosureStep(edges, P, N, C)
    BY <2>2, StepGrows
  <2>4. Grower(P, N, C)[S] = ClosureStep(S, P, N, C)
    BY DEF Grower
  <2> QED BY <2>3, <2>4 DEF Closes
<1>6. R \subseteq edges
  BY <1>3, <1>4, <1>5 DEF LeastClosed, Closes
<1> QED BY <1>1, <1>2, <1>6

-----------------------------------------------------------------------------
(***************************************************************************)
(* The inductive invariant.                                                *)
(***************************************************************************)

(* The productions a solver applies, where it applies those to epsilon, and
   the edges there can be. *)
Arcless == {p \in grammar : ~IsArc(p)}
Roots == IF POCR THEN Joined ELSE problem.nodes
Links == [src : problem.nodes,
          sym : Heads(grammar) \cup (SymsOf(Bigraph(problem.constraints)) \cup CopySyms),
          dst : problem.nodes]

Types ==
  /\ problem \in Problems /\ grammar = fillAttribute(problem)
  /\ cflPc \in {"init", "solve", "done"}
  /\ Bigraph(problem.constraints) \subseteq edges /\ edges \subseteq Links
  /\ data \subseteq edges /\ keys \subseteq problem.nodes
  /\ worklist \in Seq(edges) /\ connected \subseteq Resolved(edges)

(* Every edge is in every closed set; while no call is connected, in those
   closed under what the variants with sets apply. *)
AllClosed(T)  == Closes(T, grammar, problem.nodes, problem.calls)
SetsClosed(T) == Closes(T, Arcless, Joined, {})
Follows ==
  /\ \A T : AllClosed(T) => edges \subseteq T
  /\ POCR /\ connected = {} => \A T : SetsClosed(T) => edges \subseteq T

(* The nodes epsilon is applied at. *)
Placed == /\ ~POCR => keys = problem.nodes
          /\ POCR /\ connected = {} /\ cflPc = "init" => keys = Joined

(* The copies of the calls connected, and only they are missing from the sets. *)
Copied == /\ Copies(connected) \subseteq edges
          /\ POCR => edges \ data \subseteq Copies(connected)

(* What epsilon and the edges popped give is there. *)
Popped == edges \ On(worklist)
Processed ==
  (~POCR \/ connected = {}) /\ cflPc # "init" =>
    /\ Epsilons(grammar, Roots) \subseteq edges
    /\ Singles(Popped, grammar) \subseteq edges
    /\ Pairs(Popped, Arcless) \subseteq edges

Ended == Done => worklist = <<>> /\ connected = Resolved(edges)

Inv == Types /\ Follows /\ Placed /\ Copied /\ Processed /\ Ended

-----------------------------------------------------------------------------
(* The types: everything is finite. *)
LEMMA LinksFinite ==
  ASSUME CFLAssumption, Types
  PROVE  IsFiniteSet(grammar) /\ IsFiniteSet(Links) /\ \A E \in SUBSET Links : IsFiniteSet(E)
<1>1. IsFiniteSet(problem.nodes)
  BY DEF CFLAssumption, Types
<1>2. IsFiniteSet(grammar)
  BY GrammarFinite DEF Types
<1>3. IsFiniteSet(Heads(grammar))
  <2> DEFINE P == grammar
             f == [p \in P |-> p.lhs]
  <2>1. Heads(P) = {f[p] : p \in P}
    BY DEF Heads
  <2> HIDE DEF f
  <2> QED BY <1>2, <2>1, ImageFinite
<1>4. IsFiniteSet(CopySyms)
  <2>1. CopySyms = {<<"copy", 0>>} \cup {<<Bar("copy"), 0>>}
    BY DEF CopySyms
  <2> QED BY <2>1, FS_Singleton, FS_Union
<1>5. IsFiniteSet(SymsOf(Bigraph(problem.constraints)))
  BY ConstraintEdges DEF Types
<1> DEFINE A == SymsOf(Bigraph(problem.constraints))
           B == Heads(grammar)
           Y == B \cup (A \cup CopySyms)
<1>6. IsFiniteSet(Y)
  <2> HIDE DEF A, B
  <2>1. IsFiniteSet(A) /\ IsFiniteSet(B)
    BY <1>3, <1>5 DEF A, B
  <2>2. IsFiniteSet(A \cup CopySyms)
    BY <1>4, <2>1, FS_Union
  <2> QED BY <2>1, <2>2, FS_Union
<1>7. PICK N : N = problem.nodes
  OBVIOUS
<1>8. Links = [src : N, sym : Y, dst : N]
  BY <1>7 DEF Links
<1> HIDE DEF Y
<1>9. IsFiniteSet(Links)
  BY <1>1, <1>6, <1>7, <1>8, SpaceFinite
<1> QED BY <1>2, <1>9, FS_Subset

LEMMA TypesGround ==
  ASSUME CFLAssumption, Types
  PROVE  Grounded /\ Joined \in SUBSET problem.nodes /\ IsFiniteSet(Arcless)
<1>1. IsFiniteSet(grammar) /\ IsFiniteSet(edges)
  BY LinksFinite DEF Types
<1>2. IsFiniteSet(SymsOf(edges))
  <2> DEFINE f == [e \in edges |-> e.sym]
  <2>1. SymsOf(edges) = {f[e] : e \in edges}
    BY DEF SymsOf
  <2> HIDE DEF f
  <2> QED BY <1>1, <2>1, ImageFinite
<1>3. edges \subseteq [src : problem.nodes, sym : SymsOf(edges), dst : problem.nodes]
  BY DEF Types, Links, SymsOf
<1>4. Joined \in SUBSET problem.nodes
  BY DEF Types, CFLAssumption, Joined
<1>5. Arcless \in SUBSET grammar
  BY DEF Arcless
<1>6. IsFiniteSet(Arcless)
  BY <1>1, <1>5, FS_Subset
<1> QED BY <1>2, <1>3, <1>4, <1>6 DEF Grounded, Types

(* What the hybrid solver leaves out is one production of length two. *)
LEMMA ArclessFacts ==
  /\ \A N : Epsilons(Arcless, N) = Epsilons(grammar, N)
  /\ \A E : Singles(E, Arcless) = Singles(E, grammar) /\ Pairs(E, Arcless) \subseteq Pairs(E, grammar)
  /\ \A p : p \in PairProds(Arcless) <=> p \in PairProds(grammar) /\ ~IsArc(p)
  /\ ~POCR => Arcless = grammar
<1>1. \A p : IsArc(p) => Len(p.rhs) = 2
  <2>1. Len(<<F, F>>) = 2
    OBVIOUS
  <2> QED BY <2>1 DEF IsArc
<1>2. Len(EpsilonRHS) = 1
  BY DEF EpsilonRHS
<1>3. EpsilonProds(Arcless) = EpsilonProds(grammar)
  BY <1>1, <1>2 DEF EpsilonProds, Arcless
<1>4. SingleProds(Arcless) = SingleProds(grammar)
  BY <1>1 DEF SingleProds, Arcless
<1>5. \A p : p \in PairProds(Arcless) <=> p \in PairProds(grammar) /\ ~IsArc(p)
  BY DEF PairProds, Arcless
<1>6. \A E : Pairs(E, Arcless) \subseteq Pairs(E, grammar)
  BY <1>5, InPairs
<1>7. ~POCR => Arcless = grammar
  BY DEF POCR, Arcless, IsArc
<1> QED BY <1>3, <1>4, <1>5, <1>6, <1>7 DEF Epsilons, Singles

(* What a step does not change. *)
LEMMA Same ==
  ASSUME problem' = problem, grammar' = grammar
  PROVE  /\ POCR' = POCR /\ Links' = Links /\ Arcless' = Arcless /\ Joined' = Joined /\ Roots' = Roots
         /\ \A T : AllClosed(T)' <=> AllClosed(T)
         /\ \A T : SetsClosed(T)' <=> SetsClosed(T)
         /\ \A E : Resolved(E)' = Resolved(E)
<1>1. POCR' = POCR /\ Joined' = Joined
  BY DEF POCR, Joined
<1>2. Links' = Links
  BY DEF Links
<1>3. Arcless' = Arcless
  BY DEF Arcless, IsArc
<1>4. Roots' = Roots
  BY <1>1 DEF Roots
<1>5. \A E : Resolved(E)' = Resolved(E)
  BY DEF Resolved, getCFLPts
<1>6. \A T, P, N, C : ClosureStep(T, P, N, C)' = ClosureStep(T, P, N, C)
  <2> TAKE T, P, N, C
  <2>1. PICK R : R = Resolved(T)
    OBVIOUS
  <2>2. Copies(Resolved(T) \cap C)' = Copies(R \cap C)
    BY <1>5, <2>1
  <2>3. Copies(Resolved(T) \cap C) = Copies(R \cap C)
    BY <2>1
  <2> QED BY <2>2, <2>3 DEF ClosureStep
<1>7. \A T : AllClosed(T)' <=> AllClosed(T)
  <2> TAKE T
  <2>1. PICK P : P = grammar
    OBVIOUS
  <2>2. PICK N : N = problem.nodes
    OBVIOUS
  <2>3. PICK C : C = problem.calls
    OBVIOUS
  <2>4. ClosureStep(T, grammar, problem.nodes, problem.calls)' = ClosureStep(T, P, N, C)'
    BY <2>1, <2>2, <2>3
  <2> QED BY <1>6, <2>1, <2>2, <2>3, <2>4 DEF AllClosed, Closes
<1>8. \A T : SetsClosed(T)' <=> SetsClosed(T)
  <2> TAKE T
  <2>1. PICK P : P = Arcless
    OBVIOUS
  <2>2. PICK N : N = Joined
    OBVIOUS
  <2>4. ClosureStep(T, Arcless, Joined, {})' = ClosureStep(T, P, N, {})'
    BY <1>1, <1>3, <2>1, <2>2
  <2> QED BY <1>6, <2>1, <2>2, <2>4 DEF SetsClosed, Closes
<1> QED BY <1>1, <1>2, <1>3, <1>4, <1>5, <1>7, <1>8

(* What a closed set with the edges has. *)
LEMMA ClosedHas ==
  ASSUME NEW T, edges \subseteq T
  PROVE  /\ AllClosed(T) => /\ Epsilons(grammar, problem.nodes) \subseteq T /\ Singles(edges, grammar) \subseteq T
                            /\ Pairs(edges, grammar) \subseteq T /\ Copies(Resolved(edges)) \subseteq T
         /\ SetsClosed(T) => /\ Epsilons(grammar, Joined) \subseteq T /\ Singles(edges, grammar) \subseteq T
                             /\ Pairs(edges, Arcless) \subseteq T
<1>1. \A P, N, C : ClosureStep(edges, P, N, C) \subseteq ClosureStep(T, P, N, C)
  <2>1. PICK E : E = edges
    OBVIOUS
  <2> QED BY <2>1, StepGrows
<1>2. ASSUME AllClosed(T)
      PROVE  /\ Epsilons(grammar, problem.nodes) \subseteq T /\ Singles(edges, grammar) \subseteq T
             /\ Pairs(edges, grammar) \subseteq T /\ Copies(Resolved(edges)) \subseteq T
  <2>1. ClosureStep(edges, grammar, problem.nodes, problem.calls) \subseteq T
    BY <1>1, <1>2 DEF AllClosed, Closes
  <2>2. Resolved(edges) \cap problem.calls = Resolved(edges)
    BY DEF Resolved
  <2> QED BY <2>1, <2>2, StepIs
<1>3. ASSUME SetsClosed(T)
      PROVE  /\ Epsilons(grammar, Joined) \subseteq T /\ Singles(edges, grammar) \subseteq T
             /\ Pairs(edges, Arcless) \subseteq T
  <2>1. ClosureStep(edges, Arcless, Joined, {}) \subseteq T
    BY <1>1, <1>3 DEF SetsClosed, Closes
  <2> QED BY <2>1, StepIs, ArclessFacts
<1> QED BY <1>2, <1>3

(* Edges of productions are among the links. *)
LEMMA GivenLinks ==
  ASSUME Types
  PROVE  /\ Epsilons(grammar, problem.nodes) \subseteq Links
         /\ Singles(edges, grammar) \subseteq Links /\ Pairs(edges, grammar) \subseteq Links
<1>1. \A i, j \in problem.nodes : \A p \in grammar : Link(i, p.lhs, j) \in Links
  BY DEF Link, Links, Heads
<1>2. \A e \in edges : e.src \in problem.nodes /\ e.dst \in problem.nodes
  BY DEF Types, Links
<1>3. ASSUME NEW y \in Epsilons(grammar, problem.nodes) PROVE y \in Links
  <2>1. PICK i \in problem.nodes, p \in EpsilonProds(grammar) : y = Link(i, p.lhs, i)
    BY InEpsilons
  <2> QED BY <1>1, <2>1 DEF EpsilonProds
<1>4. ASSUME NEW y \in Singles(edges, grammar) PROVE y \in Links
  <2>1. PICK e \in edges, p \in SingleProds(grammar) : y = Link(e.src, p.lhs, e.dst)
    BY InSingles
  <2> QED BY <1>1, <1>2, <2>1 DEF SingleProds
<1>5. ASSUME NEW y \in Pairs(edges, grammar) PROVE y \in Links
  <2>1. PICK e \in edges, z \in edges, p \in PairProds(grammar) : y = Link(e.src, p.lhs, z.dst)
    BY InPairs
  <2> QED BY <1>1, <1>2, <2>1 DEF PairProds
<1> QED BY <1>3, <1>4, <1>5

(* The types after a step that adds the edges W. *)
LEMMA TypesKept ==
  ASSUME CFLAssumption, Types, problem' = problem, grammar' = grammar,
         NEW W \in SUBSET Links, edges' = edges \cup W,
         data' \subseteq edges', keys' \subseteq problem.nodes, worklist' \in Seq(edges'),
         cflPc' \in {"init", "solve", "done"}, connected' \subseteq Resolved(edges')
  PROVE  Types'
<1>1. PICK E : E = edges'
  OBVIOUS
<1>2. Resolved(edges)' = Resolved(E)
  <2>1. Resolved(edges)' = Resolved(E)'
    BY <1>1
  <2> QED BY <2>1, Same
<1>3. Links' = Links
  BY Same
<1>4. edges' \subseteq Links'
  BY <1>3 DEF Types
<1>5. connected' \subseteq Resolved(edges)'
  BY <1>1, <1>2
<1>6. Bigraph(problem'.constraints) \subseteq edges'
  BY DEF Types
<1> QED BY <1>4, <1>5, <1>6 DEF Types

(* Follows, if a closed set that has the edges has W. *)
LEMMA FollowsKept ==
  ASSUME Follows, problem' = problem, grammar' = grammar, NEW W, edges' = edges \cup W,
         \A T : AllClosed(T) /\ edges \subseteq T => W \subseteq T,
         POCR /\ connected' = {} =>
           connected = {} /\ \A T : SetsClosed(T) /\ edges \subseteq T => W \subseteq T
  PROVE  Follows'
<1>1. ASSUME NEW T, AllClosed(T)' PROVE edges' \subseteq T
  <2>1. AllClosed(T)
    BY <1>1, Same
  <2> QED BY <2>1 DEF Follows
<1>2. ASSUME POCR', connected' = {}, NEW T, SetsClosed(T)' PROVE edges' \subseteq T
  <2>1. SetsClosed(T) /\ POCR
    BY <1>2, Same
  <2> QED BY <1>2, <2>1 DEF Follows
<1> QED BY <1>1, <1>2 DEF Follows

-----------------------------------------------------------------------------
(* The start. *)
LEMMA InitHolds ==
  ASSUME CFLAssumption, CFLInit
  PROVE  Inv
<1> USE DEF CFLInit
<1>1. problem \in Problems
  OBVIOUS
<1>2. \A y \in edges : /\ y = Link(y.src, y.sym, y.dst) /\ y.src \in problem.nodes /\ y.dst \in problem.nodes
                       /\ y.sym \in SymsOf(edges)
  BY ConstraintEdges DEF SymsOf
<1>3. edges \subseteq Links
  BY <1>2 DEF Link, Links
<1>4. Copies(connected) = {}
  BY CopiesFacts
<1>5. {e.src : e \in edges} = Joined
  <2>1. \A y : y \in edges <=> \E c \in problem.constraints :
                 \/ y = Link(c.src, <<c.kind, c.idx>>, c.dst) \/ y = Link(c.dst, <<Bar(c.kind), c.idx>>, c.src)
    BY BigraphEdges
  <2>2. \A e \in edges : e.src \in Joined
    BY <2>1 DEF Link, Joined
  <2>3. ASSUME NEW c \in problem.constraints PROVE c.src \in {e.src : e \in edges} /\ c.dst \in {e.src : e \in edges}
    <3>1. Link(c.src, <<c.kind, c.idx>>, c.dst) \in edges /\ Link(c.dst, <<Bar(c.kind), c.idx>>, c.src) \in edges
      BY <2>1
    <3>2. Link(c.src, <<c.kind, c.idx>>, c.dst).src = c.src /\ Link(c.dst, <<Bar(c.kind), c.idx>>, c.src).src = c.dst
      BY DEF Link
    <3> QED BY <3>1, <3>2
  <2> QED BY <2>2, <2>3 DEF Joined
<1>6. keys \subseteq problem.nodes
  BY <1>2
<1>7. Types
  <2>1. worklist \in Seq(edges)
    OBVIOUS
  <2> QED BY <1>3, <1>6, <2>1 DEF Types
<1>8. Follows
  BY DEF Follows, AllClosed, SetsClosed, Closes
<1>9. Placed
  BY <1>5 DEF Placed
<1>10. Copied
  BY <1>4 DEF Copied
<1> QED BY <1>7, <1>8, <1>9, <1>10 DEF Inv, Processed, Ended, Done

-----------------------------------------------------------------------------
(* initialize: epsilon is applied, and every edge is to be popped. *)
LEMMA InitializeKeeps ==
  ASSUME CFLAssumption, Inv, initialize
  PROVE  Inv'
<1> USE DEF Inv
<1>1. problem' = problem /\ grammar' = grammar /\ keys' = keys /\ connected' = connected /\ cflPc = "init"
      /\ cflPc' = "solve"
  BY DEF initialize
<1>2. PICK W : W = EpsilonEdges
  OBVIOUS
<1>3. edges' = edges \cup W /\ worklist' = Pushed(Pushed(worklist, edges), W)
      /\ data' = IF POCR THEN data \cup W ELSE data
  BY <1>2 DEF initialize
<1>4. W \subseteq Epsilons(grammar, keys) /\ Epsilons(grammar, keys) \subseteq edges \cup W
  <2>1. W = Epsilons(grammar, keys) \ Known
    BY <1>2 DEF EpsilonEdges, Epsilons
  <2>2. Known \subseteq edges
    BY DEF Known, Types
  <2> QED BY <2>1, <2>2
<1>5. Epsilons(grammar, keys) \subseteq Epsilons(grammar, problem.nodes)
  BY InEpsilons DEF Types
<1>6. W \in SUBSET Links
  BY <1>4, <1>5, GivenLinks
<1>7. PICK E, D : E = edges /\ D = worklist
  OBVIOUS
<1>8. worklist' \in Seq(edges') /\ On(worklist') = edges'
  <2> DEFINE L == E \cup W
  <2>1. D \in Seq(L) /\ E \in SUBSET L /\ W \in SUBSET L /\ On(D) \subseteq E
    <3>1. D \in Seq(E)
      BY <1>7 DEF Types
    <3> QED BY <3>1 DEF On
  <2>2. IsFiniteSet(E) /\ IsFiniteSet(W)
    BY <1>6, <1>7, LinksFinite DEF Types
  <2> HIDE DEF L
  <2>3. Pushed(D, E) \in Seq(L) /\ On(Pushed(D, E)) = On(D) \cup E
    BY <2>1, <2>2, PushedHas
  <2>4. PICK v : v = Pushed(D, E)
    OBVIOUS
  <2>5. Pushed(v, W) \in Seq(L) /\ On(Pushed(v, W)) = On(v) \cup W
    BY <2>1, <2>2, <2>3, <2>4, PushedHas
  <2>6. worklist' = Pushed(v, W)
    BY <1>3, <1>7, <2>4
  <2>7. PICK u : u = worklist'
    OBVIOUS
  <2>8. u \in Seq(L) /\ On(u) = E \cup W
    BY <2>1, <2>3, <2>4, <2>5, <2>6, <2>7
  <2> QED BY <1>3, <1>7, <2>7, <2>8 DEF L
<1>9. Types'
  <2>1. data' \subseteq edges' /\ keys' \subseteq problem.nodes
    BY <1>1, <1>3 DEF Types
  <2>2. PICK V : V = edges'
    OBVIOUS
  <2>3. Resolved(E) \subseteq Resolved(V)
    BY <1>3, <1>7, <2>2, ResolvedGrows
  <2>4. connected' \subseteq Resolved(edges')
    BY <1>1, <1>7, <2>2, <2>3 DEF Types
  <2> QED BY <1>1, <1>3, <1>6, <1>8, <2>1, <2>4, TypesKept
<1>10. Follows'
  <2>1. ASSUME NEW T, AllClosed(T), edges \subseteq T PROVE W \subseteq T
    BY <1>4, <1>5, <2>1, ClosedHas
  <2>2. ASSUME POCR, connected' = {}
        PROVE  connected = {} /\ \A T : SetsClosed(T) /\ edges \subseteq T => W \subseteq T
    <3>1. keys = Joined
      BY <1>1, <2>2 DEF Placed
    <3> QED BY <1>1, <1>4, <2>2, <3>1, ClosedHas
  <2> QED BY <1>1, <1>3, <2>1, <2>2, FollowsKept
<1>11. Placed'
  BY <1>1, Same DEF Placed
<1>12. Copied'
  <2>1. Copies(connected)' = Copies(connected)
    BY <1>1
  <2>2. POCR' = POCR
    BY <1>1, Same
  <2>3. POCR => edges' \ data' \subseteq Copies(connected)
    BY <1>3 DEF Copied
  <2>4. Copies(connected) \subseteq edges'
    BY <1>3 DEF Copied
  <2> QED BY <2>1, <2>2, <2>3, <2>4 DEF Copied
<1>13. Processed'
  <2>1. Popped' = {}
    BY <1>8 DEF Popped
  <2>2. Singles(Popped, grammar)' = {}
    <3>1. PICK P : P = grammar'
      OBVIOUS
    <3>2. Singles({}, P) = {}
      BY InSingles
    <3> QED BY <2>1, <3>1, <3>2
  <2>3. Pairs(Popped, Arcless)' = {}
    <3>1. PICK P : P = Arcless'
      OBVIOUS
    <3>2. Pairs({}, P) = {}
      BY InPairs
    <3> QED BY <2>1, <3>1, <3>2
  <2>4. ASSUME ~POCR \/ connected = {} PROVE Epsilons(grammar, Roots)' \subseteq edges'
    <3>1. Roots = keys
      BY <1>1, <2>4 DEF Placed, Roots
    <3>2. Epsilons(grammar, Roots)' = Epsilons(grammar, Roots)
      <4>1. Roots' = Roots
        BY <1>1, Same
      <4> QED BY <1>1, <4>1
    <3> QED BY <1>3, <1>4, <3>1, <3>2
  <2>5. POCR' = POCR
    BY <1>1, Same
  <2> QED BY <1>1, <2>2, <2>3, <2>4, <2>5 DEF Processed
<1>14. Ended'
  BY <1>1 DEF Ended, Done
<1> QED BY <1>9, <1>10, <1>11, <1>12, <1>13, <1>14

-----------------------------------------------------------------------------
(* processCFLEdge: what the edge popped gives with those known. *)
LEMMA InFirst ==
  ASSUME NEW e, NEW y
  PROVE  y \in FromFirst(e) <=>
         \E z \in Known : \E p \in PairProds(Arcless) : Meet(e, z, p) /\ y = Link(e.src, p.lhs, z.dst)
<1> DEFINE Right(p) == {Link(e.src, p.lhs, z.dst) : z \in {x \in Known : x.src = e.dst /\ x.sym = p.rhs[2]}}
<1>1. y \in FromFirst(e) <=> \E p \in PairProds(grammar) : p.rhs[1] = e.sym /\ ~IsArc(p) /\ y \in Right(p)
  BY DEF FromFirst
<1>2. \A p : y \in Right(p) <=> \E z \in Known : z.src = e.dst /\ z.sym = p.rhs[2] /\ y = Link(e.src, p.lhs, z.dst)
  OBVIOUS
<1> HIDE DEF Right
<1>3. \A p : p \in PairProds(Arcless) <=> p \in PairProds(grammar) /\ ~IsArc(p)
  BY ArclessFacts
<1> QED BY <1>1, <1>2, <1>3 DEF Meet

LEMMA InSecond ==
  ASSUME NEW e, NEW y
  PROVE  y \in FromSecond(e) <=>
         \E z \in Known : \E p \in PairProds(Arcless) : Meet(z, e, p) /\ y = Link(z.src, p.lhs, e.dst)
<1> DEFINE Left(p) == {Link(z.src, p.lhs, e.dst) : z \in {x \in Known : x.dst = e.src /\ x.sym = p.rhs[1]}}
<1>1. y \in FromSecond(e) <=> \E p \in PairProds(grammar) : p.rhs[2] = e.sym /\ ~IsArc(p) /\ y \in Left(p)
  BY DEF FromSecond
<1>2. \A p : y \in Left(p) <=> \E z \in Known : z.dst = e.src /\ z.sym = p.rhs[1] /\ y = Link(z.src, p.lhs, e.dst)
  OBVIOUS
<1> HIDE DEF Left
<1>3. \A p : p \in PairProds(Arcless) <=> p \in PairProds(grammar) /\ ~IsArc(p)
  BY ArclessFacts
<1> QED BY <1>1, <1>2, <1>3 DEF Meet

LEMMA SingleIs ==
  ASSUME NEW e, NEW y
  PROVE  y \in FromSingle(e) <=>
         \E p \in SingleProds(grammar) : p.rhs[1] = e.sym /\ y = Link(e.src, p.lhs, e.dst)
BY DEF FromSingle

(* Popping: the head is an edge, and what was on the list is it and the rest. *)
LEMMA PopFacts ==
  ASSUME NEW E, NEW w \in Seq(E), w # <<>>
  PROVE  Head(w) \in E /\ Tail(w) \in Seq(E) /\ On(w) = {Head(w)} \cup On(Tail(w))
<1>1. Head(w) \in E /\ Tail(w) \in Seq(E) /\ Len(w) \in Nat /\ Len(w) > 0 /\ Head(w) = w[1]
  BY HeadTailProperties
<1>2. PICK n \in Nat : n = Len(w)
  BY <1>1
<1>3. PICK t : t = Tail(w)
  OBVIOUS
<1>4. t \in Seq(E) /\ Len(t) = n - 1 /\ \A i \in 1..(n - 1) : t[i] = w[i + 1]
  BY <1>1, <1>2, <1>3, HeadTailProperties
<1>5. DOMAIN w = 1..n /\ DOMAIN t = 1..(n - 1) /\ n > 0
  BY <1>1, <1>2, <1>4
<1>6. On(w) \subseteq {w[1]} \cup On(t)
  <2>1. \A i \in DOMAIN w : i = 1 \/ (i - 1 \in DOMAIN t /\ t[i - 1] = w[i])
    BY <1>4, <1>5
  <2> QED BY <2>1 DEF On
<1>7. {w[1]} \cup On(t) \subseteq On(w)
  <2>1. 1 \in DOMAIN w /\ \A i \in DOMAIN t : i + 1 \in DOMAIN w /\ t[i] = w[i + 1]
    BY <1>4, <1>5
  <2> QED BY <2>1 DEF On
<1> QED BY <1>1, <1>3, <1>6, <1>7

LEMMA ProcessKeeps ==
  ASSUME CFLAssumption, Inv, processCFLEdge
  PROVE  Inv'
<1> USE DEF Inv
<1>1. /\ problem' = problem /\ grammar' = grammar /\ connected' = connected
      /\ cflPc = "solve" /\ cflPc' = "solve" /\ worklist # <<>>
  BY DEF processCFLEdge
<1>2. PICK e : e = Head(worklist)
  OBVIOUS
<1> DEFINE All == FromSingle(e) \cup FromFirst(e) \cup FromSecond(e)
<1>3. PICK W : W = All \ Known
  OBVIOUS
<1>4. /\ edges' = edges \cup W /\ worklist' = Pushed(Tail(worklist), W)
      /\ data' = IF POCR THEN data \cup W ELSE data
      /\ keys' = keys \/ (POCR /\ keys' \subseteq (keys \cup {n.src : n \in W}) \cup {e.dst})
  BY <1>2, <1>3 DEF processCFLEdge
<1>5. e \in edges /\ Tail(worklist) \in Seq(edges) /\ On(worklist) = {e} \cup On(Tail(worklist))
  <2>1. PICK E, D : E = edges /\ D = worklist
    OBVIOUS
  <2>2. D \in Seq(E) /\ D # <<>>
    BY <1>1, <2>1 DEF Types
  <2> QED BY <1>2, <2>1, <2>2, PopFacts
<1>6. Known \subseteq edges
  BY DEF Known, Types
<1>7. All \subseteq edges \cup W
  BY <1>3, <1>6
<1>8. FromSingle(e) \subseteq Singles(edges, grammar)
  BY <1>5, SingleIs, InSingles
<1>9. FromFirst(e) \subseteq Pairs(edges, Arcless) /\ FromSecond(e) \subseteq Pairs(edges, Arcless)
  <2>1. FromFirst(e) \subseteq Pairs(edges, Arcless)
    BY <1>5, <1>6, InFirst, InPairs
  <2>2. FromSecond(e) \subseteq Pairs(edges, Arcless)
    BY <1>5, <1>6, InSecond, InPairs
  <2> QED BY <2>1, <2>2
<1>10. W \subseteq Singles(edges, grammar) \cup Pairs(edges, Arcless)
  BY <1>3, <1>8, <1>9
<1>11. W \in SUBSET Links
  BY <1>10, ArclessFacts, GivenLinks
<1>12. worklist' \in Seq(edges') /\ On(worklist') = On(Tail(worklist)) \cup W
  <2>1. PICK E, D : E = edges /\ D = Tail(worklist)
    OBVIOUS
  <2> DEFINE L == E \cup W
  <2>2. D \in Seq(L) /\ W \in SUBSET L
    BY <1>5, <2>1
  <2>3. IsFiniteSet(W)
    BY <1>11, LinksFinite
  <2> HIDE DEF L
  <2>4. Pushed(D, W) \in Seq(L) /\ On(Pushed(D, W)) = On(D) \cup W
    BY <2>2, <2>3, PushedHas
  <2>5. PICK u : u = Pushed(D, W)
    OBVIOUS
  <2>6. worklist' = u
    BY <1>4, <2>1, <2>5
  <2>7. On(worklist') = On(D) \cup W
    BY <2>4, <2>5, <2>6
  <2> QED BY <1>4, <2>1, <2>4, <2>5, <2>6, <2>7 DEF L
<1> HIDE DEF All
<1>13. Types'
  <2>1. data' \subseteq edges'
    BY <1>4 DEF Types
  <2>2. keys' \subseteq problem.nodes
    <3>1. \A n \in W \cup {e} : n.src \in problem.nodes /\ n.dst \in problem.nodes
      BY <1>5, <1>11 DEF Types, Links
    <3> QED BY <1>4, <3>1 DEF Types
  <2>3. PICK E, V : E = edges /\ V = edges'
    OBVIOUS
  <2>4. Resolved(E) \subseteq Resolved(V)
    BY <1>4, <2>3, ResolvedGrows
  <2>5. connected' \subseteq Resolved(edges')
    BY <1>1, <2>3, <2>4 DEF Types
  <2> QED BY <1>1, <1>4, <1>11, <1>12, <2>1, <2>2, <2>5, TypesKept
<1>14. Follows'
  <2>1. ASSUME NEW T, AllClosed(T), edges \subseteq T PROVE W \subseteq T
    <3>1. Singles(edges, grammar) \subseteq T /\ Pairs(edges, grammar) \subseteq T
      BY <2>1, ClosedHas
    <3> QED BY <1>10, <3>1, ArclessFacts
  <2>2. ASSUME NEW T, SetsClosed(T), edges \subseteq T PROVE W \subseteq T
    BY <1>10, <2>2, ClosedHas
  <2> QED BY <1>1, <1>4, <2>1, <2>2, FollowsKept
<1>15. Placed'
  <2>1. POCR' = POCR
    BY <1>1, Same
  <2> QED BY <1>1, <1>4, <2>1 DEF Placed
<1>16. Copied'
  <2>1. Copies(connected)' = Copies(connected)
    BY <1>1
  <2>2. POCR' = POCR
    BY <1>1, Same
  <2>3. POCR => edges' \ data' \subseteq Copies(connected)
    BY <1>4 DEF Copied
  <2>4. Copies(connected) \subseteq edges'
    BY <1>4 DEF Copied
  <2> QED BY <2>1, <2>2, <2>3, <2>4 DEF Copied
<1>17. Processed'
  <2>1. POCR' = POCR /\ Roots' = Roots /\ Arcless' = Arcless
    BY <1>1, Same
  <2> SUFFICES ASSUME ~POCR \/ connected = {}
               PROVE  /\ Epsilons(grammar, Roots)' \subseteq edges'
                      /\ Singles(Popped, grammar)' \subseteq edges'
                      /\ Pairs(Popped, Arcless)' \subseteq edges'
    BY <1>1, <2>1 DEF Processed
  <2>2. /\ Epsilons(grammar, Roots) \subseteq edges
        /\ Singles(Popped, grammar) \subseteq edges
        /\ Pairs(Popped, Arcless) \subseteq edges
    BY <1>1 DEF Processed
  <2>3. Known = edges
    <3>1. POCR => data = edges
      BY CopiesFacts DEF Copied, Types
    <3> QED BY <3>1 DEF Known
  <2>4. PICK G, A, R : G = grammar /\ A = Arcless /\ R = Roots
    OBVIOUS
  <2>5. PICK Q : Q = Popped'
    OBVIOUS
  <2>6. Q \subseteq Popped \cup {e} /\ Q \subseteq edges
    BY <1>4, <1>5, <1>12, <2>5 DEF Popped
  <2>7. Epsilons(grammar, Roots)' = Epsilons(G, R)
    BY <1>1, <2>1, <2>4
  <2>8. Singles(Popped, grammar)' = Singles(Q, G)
    BY <1>1, <2>4, <2>5
  <2>9. Pairs(Popped, Arcless)' = Pairs(Q, A)
    BY <2>1, <2>4, <2>5
  <2>10. ASSUME NEW y \in Singles(Q, G) PROVE y \in edges'
    <3>1. PICK x \in Q : \E p \in SingleProds(G) : p.rhs[1] = x.sym /\ y = Link(x.src, p.lhs, x.dst)
      BY <2>10, InSingles
    <3>2. CASE x \in Popped
      <4>1. y \in Singles(Popped, grammar)
        BY <2>4, <3>1, <3>2, InSingles
      <4> QED BY <1>4, <2>2, <4>1
    <3>3. CASE x = e
      <4>1. y \in FromSingle(e)
        BY <2>4, <3>1, <3>3, SingleIs
      <4> QED BY <1>4, <1>7, <4>1 DEF All
    <3> QED BY <2>6, <3>2, <3>3
  <2>11. ASSUME NEW y \in Pairs(Q, A) PROVE y \in edges'
    <3>1. PICK x \in Q : \E z \in Q : \E p \in PairProds(A) : Meet(x, z, p) /\ y = Link(x.src, p.lhs, z.dst)
      BY <2>11, InPairs
    <3>2. PICK z \in Q : \E p \in PairProds(A) : Meet(x, z, p) /\ y = Link(x.src, p.lhs, z.dst)
      BY <3>1
    <3>3. CASE x = e
      <4>1. z \in Known
        BY <2>3, <2>6
      <4>2. y \in FromFirst(e)
        BY <2>4, <3>2, <3>3, <4>1, InFirst
      <4> QED BY <1>4, <1>7, <4>2 DEF All
    <3>4. CASE z = e
      <4>1. x \in Known
        BY <2>3, <2>6
      <4>2. y \in FromSecond(e)
        BY <2>4, <3>2, <3>4, <4>1, InSecond
      <4> QED BY <1>4, <1>7, <4>2 DEF All
    <3>5. CASE x \in Popped /\ z \in Popped
      <4>1. y \in Pairs(Popped, Arcless)
        BY <2>4, <3>2, <3>5, InPairs
      <4> QED BY <1>4, <2>2, <4>1
    <3> QED BY <2>6, <3>3, <3>4, <3>5
  <2>12. Epsilons(G, R) \subseteq edges'
    BY <1>4, <2>2, <2>4
  <2> QED BY <2>7, <2>8, <2>9, <2>10, <2>11, <2>12
<1>18. Ended'
  BY <1>1 DEF Ended, Done
<1> QED BY <1>13, <1>14, <1>15, <1>16, <1>17, <1>18

-----------------------------------------------------------------------------
(* updateCallGraph: the copies of the calls that are resolved now. *)
LEMMA UpdateKeeps ==
  ASSUME CFLAssumption, Inv, updateCallGraph
  PROVE  Inv'
<1> USE DEF Inv
<1>1. /\ problem' = problem /\ grammar' = grammar /\ keys' = keys /\ data' = data
      /\ cflPc = "solve" /\ worklist = <<>> /\ connected' = Resolved(edges)
  BY DEF updateCallGraph
<1>2. PICK R, C : R = Resolved(edges) /\ C = connected
  OBVIOUS
<1>3. PICK W : W = Copies(R \ C) \ edges
  OBVIOUS
<1>4. edges' = edges \cup W /\ worklist' = Pushed(worklist, W) /\ cflPc' = IF W = {} THEN "done" ELSE "init"
  BY <1>2, <1>3 DEF updateCallGraph
<1>5. C \subseteq R /\ R \subseteq problem.calls /\ Copies(C) \subseteq edges
  BY <1>2 DEF Types, Resolved, Copied
<1>6. Copies(R) = Copies(R \ C) \cup Copies(C) /\ W \subseteq Copies(R) /\ Copies(R) \subseteq edges \cup W
  <2>1. R = (R \ C) \cup C
    BY <1>5
  <2>2. Copies(R) = Copies(R \ C) \cup Copies(C)
    BY <2>1, CopiesFacts
  <2> QED BY <1>3, <1>5, <2>2
<1>7. W \in SUBSET Links
  <2>1. \A y \in Copies(R) : y \in [src : problem.nodes, sym : CopySyms, dst : problem.nodes]
    BY <1>5, CopyEdges DEF Types
  <2> QED BY <1>6, <2>1 DEF Links
<1>8. worklist' \in Seq(edges') /\ On(worklist') = W
  <2>1. PICK E, D : E = edges /\ D = worklist
    OBVIOUS
  <2> DEFINE L == E \cup W
  <2>2. D \in Seq(L) /\ W \in SUBSET L /\ On(D) = {}
    BY <1>1, <2>1 DEF On
  <2>3. IsFiniteSet(W)
    BY <1>7, LinksFinite
  <2> HIDE DEF L
  <2>4. Pushed(D, W) \in Seq(L) /\ On(Pushed(D, W)) = On(D) \cup W
    <3>1. D \in Seq(L) /\ W \in SUBSET L
      BY <2>2
    <3> QED BY ONLY <2>3, <3>1, PushedHas
  <2>5. PICK u : u = Pushed(D, W)
    OBVIOUS
  <2>6. worklist' = u
    BY <1>4, <2>1, <2>5
  <2>7. On(worklist') = On(D) \cup W
    BY <2>4, <2>5, <2>6
  <2> QED BY <1>4, <2>1, <2>2, <2>4, <2>5, <2>6, <2>7 DEF L
<1>9. Types'
  <2>1. PICK E, V : E = edges /\ V = edges'
    OBVIOUS
  <2>2. Resolved(E) \subseteq Resolved(V)
    BY <1>4, <2>1, ResolvedGrows
  <2>3. connected' \subseteq Resolved(edges')
    BY <1>1, <2>1, <2>2
  <2>4. data' \subseteq edges' /\ keys' \subseteq problem.nodes
    BY <1>1, <1>4 DEF Types
  <2> QED BY <1>1, <1>4, <1>7, <1>8, <2>3, <2>4, TypesKept
<1>10. POCR' = POCR /\ Roots' = Roots /\ Arcless' = Arcless
  BY <1>1, Same
<1>11. R = {} => W = {}
  BY <1>6, CopiesFacts
<1>12. Follows'
  <2>1. ASSUME NEW T, AllClosed(T), edges \subseteq T PROVE W \subseteq T
    BY <1>2, <1>6, <2>1, ClosedHas
  <2>2. ASSUME connected' = {} PROVE connected = {} /\ W = {}
    BY <1>1, <1>2, <1>5, <1>11, <2>2
  <2> QED BY <1>1, <1>4, <2>1, <2>2, FollowsKept
<1>13. Placed'
  BY <1>1, <1>2, <1>4, <1>10, <1>11 DEF Placed
<1>14. Copied'
  <2>1. Copies(connected)' = Copies(R)
    BY <1>1, <1>2
  <2>2. Copies(R) \subseteq edges'
    BY <1>4, <1>6
  <2>3. POCR => edges' \ data' \subseteq Copies(R)
    BY <1>1, <1>2, <1>4, <1>6 DEF Copied
  <2> QED BY <1>10, <2>1, <2>2, <2>3 DEF Copied
<1>15. Processed'
  <2> SUFFICES ASSUME ~POCR \/ connected' = {}, cflPc' # "init"
               PROVE  /\ Epsilons(grammar, Roots)' \subseteq edges'
                      /\ Singles(Popped, grammar)' \subseteq edges'
                      /\ Pairs(Popped, Arcless)' \subseteq edges'
    BY <1>10 DEF Processed
  <2>1. W = {} /\ edges' = edges /\ (~POCR \/ connected = {})
    BY <1>1, <1>2, <1>4, <1>5
  <2>2. /\ Epsilons(grammar, Roots) \subseteq edges
        /\ Singles(Popped, grammar) \subseteq edges
        /\ Pairs(Popped, Arcless) \subseteq edges
    BY <1>1, <2>1 DEF Processed
  <2>3. On(worklist) = {}
    BY <1>1 DEF On
  <2>4. Popped' = Popped
    BY <1>8, <2>1, <2>3 DEF Popped
  <2> QED BY <1>1, <1>10, <2>1, <2>2, <2>4
<1>16. Ended'
  <2> SUFFICES ASSUME cflPc' = "done"
               PROVE  worklist' = <<>> /\ connected' = Resolved(edges)'
    BY DEF Ended, Done
  <2>1. W = {} /\ edges' = edges
    BY <1>4
  <2>2. worklist' = <<>>
    <3>1. PICK u, V : u = worklist' /\ V = edges'
      OBVIOUS
    <3>2. u \in Seq(V) /\ On(u) = {}
      BY <1>8, <2>1, <3>1
    <3>3. u # <<>> => Head(u) \in On(u)
      BY <3>2, PopFacts
    <3> QED BY <3>1, <3>2, <3>3
  <2>3. Resolved(edges)' = Resolved(edges)
    <3>1. PICK V : V = edges
      OBVIOUS
    <3>2. Resolved(edges)' = Resolved(V)'
      BY <2>1, <3>1
    <3> QED BY <1>1, <3>1, <3>2, Same
  <2> QED BY <1>1, <2>2, <2>3
<1> QED BY <1>9, <1>12, <1>13, <1>14, <1>15, <1>16

-----------------------------------------------------------------------------
(* The invariant holds of every state reached. *)
LEMMA InvHolds ==
  ASSUME CFLAssumption
  PROVE  CFLSpec => []Inv
<1>1. CFLInit => Inv
  BY InitHolds
<1>2. Inv /\ [CFLNext]_cflVars => Inv'
  <2> SUFFICES ASSUME Inv, [CFLNext]_cflVars PROVE Inv'
    OBVIOUS
  <2>1. CASE UNCHANGED cflVars
    <3>1. problem' = problem /\ grammar' = grammar /\ edges' = edges /\ data' = data /\ keys' = keys
          /\ worklist' = worklist /\ connected' = connected /\ cflPc' = cflPc
      BY <2>1 DEF cflVars
    <3>2. POCR' = POCR /\ Roots' = Roots /\ Arcless' = Arcless /\ Popped' = Popped
      BY <3>1, Same DEF Popped
    <3>3. Resolved(edges)' = Resolved(edges)
      <4>1. PICK V : V = edges
        OBVIOUS
      <4>2. Resolved(edges)' = Resolved(V)'
        BY <3>1, <4>1
      <4> QED BY <3>1, <4>1, <4>2, Same
    <3>4. Types'
      <4>1. Links' = Links
        BY <3>1, Same
      <4> QED BY <3>1, <3>3, <4>1 DEF Inv, Types
    <3>5. Follows'
      <4>1. edges' = edges \cup {}
        BY <3>1
      <4>2. PICK Z : Z = {}
        OBVIOUS
      <4>3. edges' = edges \cup Z /\ \A T : Z \subseteq T
        BY <4>1, <4>2
      <4> QED BY <3>1, <4>3, FollowsKept DEF Inv
    <3>6. Placed'
      <4>1. Joined' = Joined
        BY <3>1, Same
      <4> QED BY <3>1, <3>2, <4>1 DEF Inv, Placed
    <3>7. Copied'
      <4>1. Copies(connected)' = Copies(connected)
        BY <3>1
      <4> QED BY <3>1, <3>2, <4>1 DEF Inv, Copied
    <3>8. Processed'
      <4>1. /\ Epsilons(grammar, Roots)' = Epsilons(grammar, Roots)
            /\ Singles(Popped, grammar)' = Singles(Popped, grammar)
            /\ Pairs(Popped, Arcless)' = Pairs(Popped, Arcless)
        BY <3>1, <3>2
      <4> QED BY <3>1, <3>2, <4>1 DEF Inv, Processed
    <3>9. Ended'
      BY <3>1, <3>3 DEF Inv, Ended, Done
    <3> QED BY <3>4, <3>5, <3>6, <3>7, <3>8, <3>9 DEF Inv
  <2>2. CASE initialize
    BY <2>2, InitializeKeeps
  <2>3. CASE processCFLEdge
    BY <2>3, ProcessKeeps
  <2>4. CASE updateCallGraph
    BY <2>4, UpdateKeeps
  <2> QED BY <2>1, <2>2, <2>3, <2>4 DEF CFLNext
<1> QED BY <1>1, <1>2, PTL DEF CFLSpec

(* What it says when the solver is done. *)
LEMMA InvMeans ==
  ASSUME CFLAssumption, Inv
  PROVE  CFLCorrect
<1> USE DEF Inv
<1>1. Grounded /\ Joined \in SUBSET problem.nodes /\ IsFiniteSet(Arcless) /\ IsFiniteSet(grammar)
  BY TypesGround, LinksFinite
<1>2. Done => Popped = edges
  BY DEF Ended, Popped, On
<1>3. PlainExact
  <2> SUFFICES ASSUME Done, ~POCR PROVE edges = Closure(grammar, problem.nodes, problem.calls)
    BY DEF PlainExact
  <2>1. /\ Epsilons(grammar, problem.nodes) \subseteq edges /\ Singles(edges, grammar) \subseteq edges
        /\ Pairs(edges, grammar) \subseteq edges
    BY <1>2, ArclessFacts DEF Processed, Done, Roots
  <2>2. Copies(Resolved(edges) \cap problem.calls) \subseteq edges
    <3>1. Resolved(edges) \cap problem.calls = connected
      BY DEF Ended, Resolved
    <3> QED BY <3>1 DEF Copied
  <2>3. ClosureStep(edges, grammar, problem.nodes, problem.calls) \subseteq edges
    BY <2>1, <2>2, StepIs
  <2>4. Closes(edges, grammar, problem.nodes, problem.calls)
    BY <2>3 DEF Closes, Types
  <2>5. \A T : Closes(T, grammar, problem.nodes, problem.calls) => edges \subseteq T
    BY DEF Follows, AllClosed
  <2>6. PICK P, N, C : P = grammar /\ N = problem.nodes /\ C = problem.calls
    OBVIOUS
  <2>7. edges = Closure(P, N, C)
    <3>1. Closes(edges, P, N, C) /\ (\A T : Closes(T, P, N, C) => edges \subseteq T)
          /\ IsFiniteSet(P) /\ N \in SUBSET problem.nodes
      BY <1>1, <2>4, <2>5, <2>6
    <3> QED BY ONLY CFLAssumption, <1>1, <3>1, ClosureExact
  <2> QED BY <2>6, <2>7
<1>4. SetsExact
  <2> SUFFICES ASSUME Done, POCR, connected = {} PROVE edges = Closure(Arcless, Joined, {})
    BY DEF SetsExact, Arcless
  <2>1. /\ Epsilons(Arcless, Joined) \subseteq edges /\ Singles(edges, Arcless) \subseteq edges
        /\ Pairs(edges, Arcless) \subseteq edges
    BY <1>2, ArclessFacts DEF Processed, Done, Roots
  <2>2. Copies(Resolved(edges) \cap {}) \subseteq edges
    BY CopiesFacts
  <2>3. ClosureStep(edges, Arcless, Joined, {}) \subseteq edges
    BY <2>1, <2>2, StepIs
  <2>4. Closes(edges, Arcless, Joined, {})
    BY <2>3 DEF Closes, Types
  <2>5. \A T : Closes(T, Arcless, Joined, {}) => edges \subseteq T
    BY DEF Follows, SetsClosed
  <2>6. PICK P, N, C : P = Arcless /\ N = Joined /\ C = {}
    OBVIOUS
  <2>7. edges = Closure(P, N, C)
    <3>1. Closes(edges, P, N, C) /\ (\A T : Closes(T, P, N, C) => edges \subseteq T)
          /\ IsFiniteSet(P) /\ N \in SUBSET problem.nodes
      BY <1>1, <2>4, <2>5, <2>6
    <3> QED BY ONLY CFLAssumption, <1>1, <3>1, ClosureExact
  <2> QED BY <2>6, <2>7
<1>5. SetsSound
  <2>1. edges \subseteq Closure(grammar, problem.nodes, problem.calls)
    <3>1. PICK P, N, C : P = grammar /\ N = problem.nodes /\ C = problem.calls
      OBVIOUS
    <3>2. Closes(Closure(P, N, C), P, N, C)
      <4>1. IsFiniteSet(P) /\ N \in SUBSET problem.nodes
        BY <1>1, <3>1
      <4> QED BY ONLY CFLAssumption, <1>1, <4>1, ClosureCloses
    <3>3. PICK T : T = Closure(P, N, C)
      OBVIOUS
    <3>4. AllClosed(T)
      BY <3>1, <3>2, <3>3 DEF AllClosed
    <3> QED BY <3>1, <3>3, <3>4 DEF Follows
  <2> QED BY <2>1 DEF SetsSound, Types, Copied
<1>6. ArcsKnown
  <2> SUFFICES ASSUME POCR, NEW i \in DOMAIN worklist, worklist[i].sym = F PROVE worklist[i] \in data
    BY DEF ArcsKnown
  <2>1. worklist[i] \in edges
    BY DEF Types
  <2>2. \A y \in Copies(connected) : y.sym # F
    <3>1. connected \in SUBSET problem.calls
      BY DEF Types, Resolved
    <3>2. \A y \in Copies(connected) : y.sym \in CopySyms
      BY <3>1, CopyEdges DEF Types
    <3>3. "copy" # "F" /\ Bar("copy") # "F"
      BY DEF CFLAssumption
    <3> QED BY <3>2, <3>3 DEF CopySyms, F
  <2> QED BY <2>1, <2>2 DEF Copied
<1> QED BY <1>3, <1>4, <1>5, <1>6 DEF CFLCorrect

(* What the solvers of CFLAlias compute, at every graph, grammar and set of
   calls: the plain one the least set of edges closed under the grammar and the
   calls it resolves, those with sets what is closed at the nodes with an edge
   while no call is resolved, and nothing that does not follow when one is; and
   addArc finds every edge that is popped in the sets. *)
THEOREM SolversAreCorrect ==
  ASSUME CFLAssumption
  PROVE  CFLSpec => []CFLCorrect
<1>1. CFLSpec => []Inv
  BY InvHolds
<1>2. Inv => CFLCorrect
  BY InvMeans
<1> QED BY <1>1, <1>2, PTL

-----------------------------------------------------------------------------
(***************************************************************************)
(* The operations of the interval domain contain what they promise, for all *)
(* intervals and all numbers in them.                                       *)
(***************************************************************************)

\* The sign of an infinity orders literals before their numbers do.
LEMMA LitFacts ==
  /\ \A n \in Int : Fin(n) \in Lit
  /\ PlusInf \in Lit /\ MinusInf \in Lit
  /\ \A a \in Lit : a.inf \in {-1, 0, 1} /\ a.n \in Int /\ (a.inf # 0 => a.n = 0)
BY DEF Lit, Fin, PlusInf, MinusInf

\* leq is a total order of literals (NumericLiteral.h:132).
LEMMA LeqOrder ==
  ASSUME NEW a \in Lit, NEW b \in Lit, NEW c \in Lit
  PROVE  /\ leq(a, a)
         /\ leq(a, b) \/ leq(b, a)
         /\ leq(a, b) /\ leq(b, a) => a = b
         /\ leq(a, b) /\ leq(b, c) => leq(a, c)
<1>1. leq(a, a) /\ (leq(a, b) \/ leq(b, a)) /\ (leq(a, b) /\ leq(b, c) => leq(a, c))
  BY LitFacts DEF leq
<1>2. leq(a, b) /\ leq(b, a) => a = b
  BY LitFacts DEF leq, Lit
<1> QED BY <1>1, <1>2

\* What an interval contains is at or above its lower and at or below its upper bound.
LEMMA ContainsMeans ==
  ASSUME NEW v \in Itv, NEW x \in Int, contains(v, x)
  PROVE  /\ v.lb \in Lit /\ v.ub \in Lit
         /\ v.lb.inf = -1 \/ (v.lb.inf = 0 /\ v.lb.n <= x)
         /\ v.ub.inf = 1 \/ (v.ub.inf = 0 /\ x <= v.ub.n)
BY LitFacts DEF contains, leq, geq, Fin, Itv

\* An interval that contains a number is not the empty one (IntervalValue.h:60).
LEMMA NotEmpty ==
  ASSUME NEW v \in Itv, NEW x \in Int, contains(v, x)
  PROVE  ~IsBottom(v)
BY LitFacts, LeqOrder DEF contains, IsBottom, geq, Itv

\* The interval without bounds contains every number.
LEMMA TopContains == \A x \in Int : contains(top, x)
BY DEF contains, top, Between, leq, geq, Fin, PlusInf, MinusInf

-----------------------------------------------------------------------------
\* The sum of two intervals contains the sums of their numbers (IntervalValue.h:459).
THEOREM AddSound ==
  ASSUME NEW v \in Itv, NEW w \in Itv, NEW x \in Int, NEW y \in Int,
         contains(v, x), contains(w, y)
  PROVE  contains(Add(v, w), x + y)
<1>1. ~AnyBottom(v, w)
  BY NotEmpty DEF AnyBottom
<1>2. CASE IsTop(v) \/ IsTop(w)
  BY <1>1, <1>2, TopContains DEF Add
<1>3. CASE ~(IsTop(v) \/ IsTop(w))
  <2>1. Add(v, w) = Between(Plus(v.lb, w.lb), Plus(v.ub, w.ub))
    BY <1>1, <1>3 DEF Add
  <2>2. leq(Plus(v.lb, w.lb), Fin(x + y))
    BY ContainsMeans, LitFacts DEF Plus, IsInf, leq, Fin
  <2>3. leq(Fin(x + y), Plus(v.ub, w.ub))
    BY ContainsMeans, LitFacts DEF Plus, IsInf, leq, Fin
  <2> QED BY <2>1, <2>2, <2>3 DEF contains, geq, Between
<1> QED BY <1>2, <1>3

\* The difference contains the differences (IntervalValue.h:477).
THEOREM SubSound ==
  ASSUME NEW v \in Itv, NEW w \in Itv, NEW x \in Int, NEW y \in Int,
         contains(v, x), contains(w, y)
  PROVE  contains(Sub(v, w), x - y)
<1>1. ~AnyBottom(v, w)
  BY NotEmpty DEF AnyBottom
<1>2. CASE IsTop(v) \/ IsTop(w)
  BY <1>1, <1>2, TopContains DEF Sub
<1>3. CASE ~(IsTop(v) \/ IsTop(w))
  <2>1. Sub(v, w) = Between(Minus(v.lb, w.ub), Minus(v.ub, w.lb))
    BY <1>1, <1>3 DEF Sub
  <2>2. leq(Minus(v.lb, w.ub), Fin(x - y))
    BY ContainsMeans, LitFacts DEF Minus, Neg, IsInf, leq, Fin
  <2>3. leq(Fin(x - y), Minus(v.ub, w.lb))
    BY ContainsMeans, LitFacts DEF Minus, Neg, IsInf, leq, Fin
  <2> QED BY <2>1, <2>2, <2>3 DEF contains, geq, Between
<1> QED BY <1>2, <1>3

-----------------------------------------------------------------------------
\* The join contains what either interval does (IntervalValue.h:345).
THEOREM JoinSound ==
  ASSUME NEW v \in Itv, NEW w \in Itv, NEW x \in Int, contains(v, x) \/ contains(w, x)
  PROVE  contains(JoinWith(v, w), x)
<1>1. ASSUME NEW u \in Itv, IsBottom(u) PROVE ~contains(u, x)
  BY <1>1, NotEmpty
<1>2. CASE IsBottom(w)
  BY <1>1, <1>2 DEF JoinWith
<1>3. CASE ~IsBottom(w) /\ IsBottom(v)
  BY <1>1, <1>3 DEF JoinWith
<1>4. CASE ~IsBottom(w) /\ ~IsBottom(v)
  <2>1. JoinWith(v, w) = Between(litMin(v.lb, w.lb), litMax(v.ub, w.ub))
    BY <1>4 DEF JoinWith
  <2>2. v.lb \in Lit /\ w.lb \in Lit /\ v.ub \in Lit /\ w.ub \in Lit /\ Fin(x) \in Lit
    BY LitFacts DEF Itv
  <2>3. leq(litMin(v.lb, w.lb), Fin(x))
    BY <2>2, LeqOrder DEF contains, geq, litMin
  <2>4. leq(Fin(x), litMax(v.ub, w.ub))
    BY <2>2, LeqOrder DEF contains, geq, litMax
  <2> QED BY <2>1, <2>3, <2>4 DEF contains, geq, Between
<1> QED BY <1>2, <1>3, <1>4

\* The meet contains what both intervals do (IntervalValue.h:408).
THEOREM MeetSound ==
  ASSUME NEW v \in Itv, NEW w \in Itv, NEW x \in Int, contains(v, x), contains(w, x)
  PROVE  contains(MeetWith(v, w), x)
<1> DEFINE both == Between(litMax(v.lb, w.lb), litMin(v.ub, w.ub))
<1>1. v.lb \in Lit /\ w.lb \in Lit /\ v.ub \in Lit /\ w.ub \in Lit /\ Fin(x) \in Lit
  BY LitFacts DEF Itv
<1>2. contains(both, x)
  BY <1>1 DEF contains, geq, litMax, litMin, Between
<1>3. both \in Itv
  BY <1>1 DEF Itv, Between, litMax, litMin
<1>4. ~IsBottom(v) /\ ~IsBottom(w) /\ ~IsBottom(both)
  BY <1>2, <1>3, NotEmpty
<1> QED BY <1>2, <1>4 DEF MeetWith

\* Widening contains what both intervals do (IntervalValue.h:371).
THEOREM WidenSound ==
  ASSUME NEW v \in Itv, NEW w \in Itv, NEW x \in Int, contains(v, x) \/ contains(w, x)
  PROVE  contains(WidenWith(v, w), x)
<1>1. ASSUME NEW u \in Itv, IsBottom(u) PROVE ~contains(u, x)
  BY <1>1, NotEmpty
<1>2. CASE IsBottom(v)
  BY <1>1, <1>2 DEF WidenWith
<1>3. CASE ~IsBottom(v) /\ IsBottom(w)
  BY <1>1, <1>3 DEF WidenWith
<1>4. CASE ~IsBottom(w) /\ ~IsBottom(v)
  <2>1. v.lb \in Lit /\ w.lb \in Lit /\ v.ub \in Lit /\ w.ub \in Lit /\ Fin(x) \in Lit
    BY LitFacts DEF Itv
  <2>2. leq(MinusInf, Fin(x)) /\ leq(Fin(x), PlusInf)
    BY DEF leq, Fin, PlusInf, MinusInf
  <2>3. WidenWith(v, w) = Between(IF leq(v.lb, w.lb) THEN v.lb ELSE MinusInf,
                                  IF geq(v.ub, w.ub) THEN v.ub ELSE PlusInf)
    BY <1>4 DEF WidenWith
  <2>4. leq(IF leq(v.lb, w.lb) THEN v.lb ELSE MinusInf, Fin(x))
    BY <2>1, <2>2, LeqOrder DEF contains
  <2>5. leq(Fin(x), IF geq(v.ub, w.ub) THEN v.ub ELSE PlusInf)
    BY <2>1, <2>2, LeqOrder DEF contains, geq
  <2> QED BY <2>3, <2>4, <2>5 DEF contains, geq, Between
<1> QED BY <1>2, <1>3, <1>4
-----------------------------------------------------------------------------
\* A product of literals is a literal.
LEMMA TimesType == \A a \in Lit, b \in Lit : Times(a, b) \in Lit
BY LitFacts DEF Times, IsInf, IsZero, Lit, Neg, Fin, PlusInf, MinusInf

\* Multiplication of integers keeps or turns the order, by the factor's sign.
LEMMA IntMono ==
  ASSUME NEW a \in Int, NEW b \in Int, NEW r \in Int, a <= b
  PROVE  /\ 0 <= r => a * r <= b * r
         /\ r <= 0 => b * r <= a * r
OBVIOUS

\* Multiplication of integers commutes and has a zero.
LEMMA IntSigns ==
  ASSUME NEW a \in Int, NEW b \in Int
  PROVE  /\ a * b = b * a
         /\ a = 0 => a * b = 0
OBVIOUS

\* Multiplication by a literal that is not negative keeps the order, also with
\* infinities (NumericLiteral.h:244).
LEMMA TimesMonoPos ==
  ASSUME NEW a \in Lit, NEW b \in Lit, NEW r \in Lit, leq(a, b), leq(Fin(0), r)
  PROVE  leq(Times(a, r), Times(b, r))
<1>1. CASE ~IsInf(a) /\ ~IsInf(b) /\ ~IsInf(r)
  <2>1. a.n <= b.n /\ 0 <= r.n /\ a.n \in Int /\ b.n \in Int /\ r.n \in Int
    BY <1>1, LitFacts DEF leq, IsInf, Fin
  <2>2. a.n * r.n <= b.n * r.n
    BY <2>1, IntMono
  <2>3. Times(a, r) = Fin(a.n * r.n) /\ Times(b, r) = Fin(b.n * r.n)
    BY <1>1, <2>1, IntSigns DEF Times, IsZero, Fin
  <2> QED BY <2>2, <2>3 DEF leq, Fin
<1>2. CASE IsInf(a) \/ IsInf(b) \/ IsInf(r)
  BY <1>2, LitFacts DEF Times, IsInf, IsZero, leq, Neg, Fin, PlusInf, MinusInf, Lit
<1> QED BY <1>1, <1>2

\* Multiplication by a literal that is not positive turns the order.
LEMMA TimesMonoNeg ==
  ASSUME NEW a \in Lit, NEW b \in Lit, NEW r \in Lit, leq(a, b), leq(r, Fin(0))
  PROVE  leq(Times(b, r), Times(a, r))
<1>1. CASE ~IsInf(a) /\ ~IsInf(b) /\ ~IsInf(r)
  <2>1. a.n <= b.n /\ r.n <= 0 /\ a.n \in Int /\ b.n \in Int /\ r.n \in Int
    BY <1>1, LitFacts DEF leq, IsInf, Fin
  <2>2. b.n * r.n <= a.n * r.n
    BY <2>1, IntMono
  <2>3. Times(a, r) = Fin(a.n * r.n) /\ Times(b, r) = Fin(b.n * r.n)
    BY <1>1, <2>1, IntSigns DEF Times, IsZero, Fin
  <2> QED BY <2>2, <2>3 DEF leq, Fin
<1>2. CASE IsInf(a) \/ IsInf(b) \/ IsInf(r)
  BY <1>2, LitFacts DEF Times, IsInf, IsZero, leq, Neg, Fin, PlusInf, MinusInf, Lit
<1> QED BY <1>1, <1>2

\* Multiplication of literals commutes, also of infinities.
LEMMA TimesComm == \A a \in Lit, b \in Lit : Times(a, b) = Times(b, a)
<1> SUFFICES ASSUME NEW a \in Lit, NEW b \in Lit PROVE Times(a, b) = Times(b, a)
  OBVIOUS
<1>1. CASE ~IsInf(a) /\ ~IsInf(b)
  BY <1>1, LitFacts, IntSigns DEF Times, IsZero, Fin
<1>2. CASE IsInf(a) \/ IsInf(b)
  BY <1>2, LitFacts DEF Times, IsInf, IsZero, leq, Neg, Fin, PlusInf, MinusInf, Lit
<1> QED BY <1>1, <1>2

\* A product with a literal between two others is between their products.
LEMMA TimesBetween ==
  ASSUME NEW l \in Lit, NEW m \in Lit, NEW u \in Lit, NEW r \in Lit, leq(l, m), leq(m, u)
  PROVE  /\ leq(Times(l, r), Times(m, r)) \/ leq(Times(u, r), Times(m, r))
         /\ leq(Times(m, r), Times(u, r)) \/ leq(Times(m, r), Times(l, r))
<1>1. leq(Fin(0), r) \/ leq(r, Fin(0))
  BY LeqOrder, LitFacts
<1> QED BY <1>1, TimesMonoPos, TimesMonoNeg

\* The product contains the products of their numbers (IntervalValue.h:495).
THEOREM MulSound ==
  ASSUME NEW v \in Itv, NEW w \in Itv, NEW x \in Int, NEW y \in Int,
         contains(v, x), contains(w, y)
  PROVE  contains(Mul(v, w), x * y)
<1> DEFINE a == Times(v.lb, w.lb)
           b == Times(v.lb, w.ub)
           c == Times(v.ub, w.lb)
           d == Times(v.ub, w.ub)
<1>1. /\ v.lb \in Lit /\ v.ub \in Lit /\ w.lb \in Lit /\ w.ub \in Lit
      /\ Fin(x) \in Lit /\ Fin(y) \in Lit /\ a \in Lit /\ b \in Lit /\ c \in Lit /\ d \in Lit
  BY LitFacts, TimesType DEF Itv
<1>2. Mul(v, w) = Hull(a, b, c, d)
  BY NotEmpty DEF Mul, AnyBottom
<1>3. Fin(x * y) = Times(Fin(x), Fin(y))
  BY IntSigns DEF Times, IsZero, IsInf, Fin
<1>4. leq(v.lb, Fin(x)) /\ leq(Fin(x), v.ub) /\ leq(w.lb, Fin(y)) /\ leq(Fin(y), w.ub)
  BY DEF contains, geq
<1> DEFINE e == Times(v.lb, Fin(y))
           f == Times(v.ub, Fin(y))
           p == Times(Fin(x), Fin(y))
<1>5. e \in Lit /\ f \in Lit /\ p \in Lit
  BY <1>1, TimesType
<1>6. (leq(e, p) \/ leq(f, p)) /\ (leq(p, f) \/ leq(p, e))
  BY <1>1, <1>4, TimesBetween
<1>7. (leq(a, e) \/ leq(b, e)) /\ (leq(e, b) \/ leq(e, a))
  BY <1>1, <1>4, TimesBetween, TimesComm
<1>8. (leq(c, f) \/ leq(d, f)) /\ (leq(f, d) \/ leq(f, c))
  BY <1>1, <1>4, TimesBetween, TimesComm
<1> HIDE DEF a, b, c, d, e, f, p
<1>9. leq(a, p) \/ leq(b, p) \/ leq(c, p) \/ leq(d, p)
  BY <1>1, <1>5, <1>6, <1>7, <1>8, LeqOrder
<1>10. leq(p, a) \/ leq(p, b) \/ leq(p, c) \/ leq(p, d)
  BY <1>1, <1>5, <1>6, <1>7, <1>8, LeqOrder
<1>11. leq(litMin(litMin(a, b), litMin(c, d)), p)
  BY <1>1, <1>5, <1>9, LeqOrder DEF litMin
<1>12. leq(p, litMax(litMax(a, b), litMax(c, d)))
  BY <1>1, <1>5, <1>10, LeqOrder DEF litMax
<1> QED BY <1>2, <1>3, <1>11, <1>12 DEF Hull, contains, geq, Between, p

-----------------------------------------------------------------------------
\* A comparison that is decided holds, or fails, for all numbers of the two
\* intervals (IntervalValue.h:619).
THEOREM LessSound ==
  ASSUME NEW v \in Itv, NEW w \in Itv, NEW x \in Int, NEW y \in Int,
         contains(v, x), contains(w, y)
  PROVE  contains(Less(v, w), IF x < y THEN 1 ELSE 0)
<1>1. ~AnyBottom(v, w)
  BY NotEmpty DEF AnyBottom
<1>2. contains(top, IF x < y THEN 1 ELSE 0) /\ contains(Maybe, IF x < y THEN 1 ELSE 0)
  BY TopContains DEF contains, Maybe, Between, leq, geq, Fin
<1>3. ASSUME is_numeral(v), is_numeral(w)
      PROVE  (x < y) <=> ~geq(v.lb, w.lb)
  BY <1>3, ContainsMeans, LitFacts DEF is_numeral, leq, geq
<1>4. ASSUME ~geq(v.ub, w.lb) PROVE x < y
  BY <1>4, ContainsMeans, LitFacts DEF leq, geq
<1>5. ASSUME ~leq(v.lb, w.ub) PROVE ~(x < y)
  BY <1>5, ContainsMeans, LitFacts DEF leq
<1>6. \A q \in BOOLEAN : contains(TruthOf(q), IF q THEN 1 ELSE 0)
  BY DEF contains, TruthOf, Only, Between, leq, geq, Fin
<1>7. contains(Only(1), 1) /\ contains(Only(0), 0)
  BY DEF contains, Only, Between, leq, geq, Fin
<1> QED BY <1>1, <1>2, <1>3, <1>4, <1>5, <1>6, <1>7 DEF Less

\* The same of the comparison the other way round (IntervalValue.h:581).
THEOREM GreaterSound ==
  ASSUME NEW v \in Itv, NEW w \in Itv, NEW x \in Int, NEW y \in Int,
         contains(v, x), contains(w, y)
  PROVE  contains(Greater(v, w), IF x > y THEN 1 ELSE 0)
<1>1. ~AnyBottom(v, w)
  BY NotEmpty DEF AnyBottom
<1>2. contains(top, IF x > y THEN 1 ELSE 0) /\ contains(Maybe, IF x > y THEN 1 ELSE 0)
  BY TopContains DEF contains, Maybe, Between, leq, geq, Fin
<1>3. ASSUME is_numeral(v), is_numeral(w)
      PROVE  (x > y) <=> ~leq(v.lb, w.lb)
  BY <1>3, ContainsMeans, LitFacts DEF is_numeral, leq
<1>4. ASSUME ~leq(v.lb, w.ub) PROVE x > y
  BY <1>4, ContainsMeans, LitFacts DEF leq
<1>5. ASSUME ~geq(v.ub, w.lb) PROVE ~(x > y)
  BY <1>5, ContainsMeans, LitFacts DEF leq, geq
<1>6. \A q \in BOOLEAN : contains(TruthOf(q), IF q THEN 1 ELSE 0)
  BY DEF contains, TruthOf, Only, Between, leq, geq, Fin
<1>7. contains(Only(1), 1) /\ contains(Only(0), 0)
  BY DEF contains, Only, Between, leq, geq, Fin
<1> QED BY <1>1, <1>2, <1>3, <1>4, <1>5, <1>6, <1>7 DEF Greater

\* Two intervals without a common number are not equal, two equal ones of one
\* number are (IntervalValue.h:135, 169).
THEOREM EqualSound ==
  ASSUME NEW v \in Itv, NEW w \in Itv, NEW x \in Int, NEW y \in Int,
         contains(v, x), contains(w, y)
  PROVE  /\ contains(Equal(v, w), IF x = y THEN 1 ELSE 0)
         /\ contains(NotEqual(v, w), IF x # y THEN 1 ELSE 0)
<1>1. ~AnyBottom(v, w)
  BY NotEmpty DEF AnyBottom
<1>2. ASSUME NEW n \in {0, 1}
      PROVE  contains(top, n) /\ contains(Maybe, n) /\ contains(Only(n), n)
  BY <1>2, TopContains DEF contains, Maybe, Between, leq, geq, Fin, Only
<1>3. ASSUME is_numeral(v), is_numeral(w) PROVE (x = y) <=> (v.lb = w.lb)
  <2>1. v.lb.inf = 0 /\ v.lb.n = x /\ w.lb.inf = 0 /\ w.lb.n = y
    BY <1>3, ContainsMeans, LitFacts DEF is_numeral
  <2> QED BY <2>1, ContainsMeans DEF Lit
<1>4. ASSUME IsBottom(MeetWith(v, w)) PROVE x # y
  <2>1. MeetWith(v, w) \in Itv
    BY LitFacts DEF MeetWith, Between, litMax, litMin, Itv, bottom
  <2> QED BY <1>4, <2>1, MeetSound, NotEmpty
<1> QED BY <1>1, <1>2, <1>3, <1>4 DEF Equal, NotEqual, TruthOf
=============================================================================
