------------------------- MODULE Iteration_proofs -------------------------
(***************************************************************************)
(* A function applied again and again from a start, as the reference       *)
(* definitions of the analysis do: the iteration exists, what a step keeps *)
(* holds all along, and over a finite set one that grows comes to a stop.  *)
(* Before it, what the other proofs need of natural numbers and finite     *)
(* sets: least and greatest members, and sets with every successor.        *)
(***************************************************************************)
EXTENDS Naturals, FiniteSetTheorems, NaturalsInduction, WellFoundedInduction, TLAPS

(* A set that has 0, and the successor of every natural number it has, has
   them all. *)
LEMMA NatWithSuccessors ==
  ASSUME NEW S, 0 \in S, \A n \in Nat : n \in S => n + 1 \in S
  PROVE  Nat \subseteq S
<1> DEFINE T == Nat \ S
           R == {x \in Nat \X Nat : x[1] < x[2]}
<1>1. IsWellFoundedOn(R, Nat)
  BY NatLessThanWellFounded DEF OpToRel
<1>2. ASSUME T # {} PROVE FALSE
  <2>1. PICK x \in T : \A y \in T : <<y, x>> \notin R
    <3> HIDE DEF R
    <3> QED BY <1>1, <1>2, WFMin
  <2>2. x # 0 /\ x - 1 \in Nat /\ (x - 1) + 1 = x
    OBVIOUS
  <2>3. x - 1 \in T /\ <<x - 1, x>> \in R
    BY <2>2
  <2> QED BY <2>1, <2>3
<1> QED BY <1>2

(* The image of a finite set is finite. *)
LEMMA ImageFinite ==
  ASSUME NEW S, IsFiniteSet(S), NEW f
  PROVE  IsFiniteSet({f[x] : x \in S})
<1> DEFINE T == {f[x] : x \in S}
           g == [x \in S |-> f[x]]
<1>1. g \in Surjection(S, T)
  BY DEF Surjection
<1> HIDE DEF g, T
<1>2. IsFiniteSet(T)
  BY <1>1, FS_Surjection
<1> QED BY <1>2 DEF T

(* A set of natural numbers that is not empty has a least element. *)
LEMMA LeastNumber ==
  ASSUME NEW S \in SUBSET Nat, S # {}
  PROVE  \E n \in S : \A m \in S : n <= m
<1> DEFINE R == {x \in Nat \X Nat : x[1] < x[2]}
<1>1. IsWellFoundedOn(R, Nat)
  BY NatLessThanWellFounded DEF OpToRel
<1>2. PICK x \in S : \A y \in S : <<y, x>> \notin R
  <2> HIDE DEF R
  <2> QED BY <1>1, WFMin
<1>3. \A y \in S : ~(y < x)
  BY <1>2
<1> QED BY <1>3

(* So has a set of numbers that are not above b a greatest one. *)
LEMMA GreatestNumber ==
  ASSUME NEW S \in SUBSET Nat, S # {}, NEW b \in Nat, \A n \in S : n <= b
  PROVE  \E n \in S : \A m \in S : m <= n
<1> DEFINE T == {b - n : n \in S}
<1>0. \A n \in S : n \in Nat /\ n <= b /\ b - n \in Nat
  OBVIOUS
<1>1. T \in SUBSET Nat /\ T # {}
  <2>1. \A k \in T : k \in Nat
    BY <1>0
  <2>2. PICK n \in S : TRUE
    OBVIOUS
  <2>3. b - n \in T
    BY <2>2
  <2> QED BY <2>1, <2>3
<1>2. PICK k \in T : \A m \in T : k <= m
  <2> HIDE DEF T
  <2> QED BY <1>1, LeastNumber
<1>3. PICK n \in S : k = b - n
  BY <1>2
<1>4. ASSUME NEW m \in S PROVE m <= n
  <2>1. b - m \in T
    OBVIOUS
  <2>2. b - n <= b - m
    BY <1>2, <1>3, <2>1
  <2> HIDE DEF T
  <2> QED BY <1>0, <2>2
<1> QED BY <1>4

-----------------------------------------------------------------------------
(* Iteration of a function from a start *)

Iterates(it, F, a) == it = [i \in Nat |-> IF i = 0 THEN a ELSE F[it[i - 1]]]

(* g is the first n steps of it. *)
Prefix(g, n, A, F, a) ==
  g \in [0..n -> A] /\ g[0] = a /\ \A i \in 1..n : g[i] = F[g[i - 1]]

(* A recursive function on the naturals, cut off at some n, exists. *)
LEMMA PrefixExists ==
  ASSUME NEW A, NEW F \in [A -> A], NEW a \in A
  PROVE  \A n \in Nat : \E g : Prefix(g, n, A, F, a)
<1> DEFINE S == {n \in Nat : \E g : Prefix(g, n, A, F, a)}
<1>1. 0 \in S
  <2>1. Prefix([i \in 0..0 |-> a], 0, A, F, a)
    BY DEF Prefix
  <2> QED BY <2>1
<1>2. ASSUME NEW n \in Nat, n \in S PROVE n + 1 \in S
  <2>1. PICK g : Prefix(g, n, A, F, a)
    BY <1>2
  <2> DEFINE h == [i \in 0..n + 1 |-> IF i = n + 1 THEN F[g[n]] ELSE g[i]]
  <2>2. h \in [0..n + 1 -> A]
    BY <2>1 DEF Prefix
  <2>3. h[0] = a
    BY <2>1 DEF Prefix
  <2>4. ASSUME NEW i \in 1..n + 1 PROVE h[i] = F[h[i - 1]]
    <3>1. i - 1 \in 0..n + 1 /\ i - 1 # n + 1 /\ i \in 0..n + 1
      OBVIOUS
    <3>2. CASE i = n + 1
      BY <3>1, <3>2
    <3>3. CASE i # n + 1
      <4>1. i \in 1..n
        BY <3>3
      <4> QED BY <2>1, <3>1, <3>3, <4>1 DEF Prefix
    <3> QED BY <3>2, <3>3
  <2>5. Prefix(h, n + 1, A, F, a)
    <3> HIDE DEF h
    <3> QED BY <2>2, <2>3, <2>4 DEF Prefix
  <2> QED BY <2>5
<1>3. Nat \subseteq S
  <2> HIDE DEF S
  <2> QED BY <1>1, <1>2, NatWithSuccessors
<1> QED BY <1>3

(* Two cut-off versions of the same recursion agree where both are defined. *)
LEMMA PrefixesAgree ==
  ASSUME NEW A, NEW F \in [A -> A], NEW a \in A, NEW n \in Nat, NEW m \in Nat,
         NEW g, Prefix(g, n, A, F, a), NEW h, Prefix(h, m, A, F, a)
  PROVE  \A i \in Nat : i <= n /\ i <= m => g[i] = h[i]
<1> DEFINE S == {i \in Nat : i <= n /\ i <= m => g[i] = h[i]}
<1>1. 0 \in S
  BY DEF Prefix
<1>2. ASSUME NEW i \in Nat, i \in S PROVE i + 1 \in S
  <2>1. SUFFICES ASSUME i + 1 <= n, i + 1 <= m PROVE g[i + 1] = h[i + 1]
    OBVIOUS
  <2>2. i + 1 \in 1..n /\ i + 1 \in 1..m /\ (i + 1) - 1 = i /\ g[i] = h[i]
    BY <1>2, <2>1
  <2> QED BY <2>2 DEF Prefix
<1>3. Nat \subseteq S
  <2> HIDE DEF S
  <2> QED BY <1>1, <1>2, NatWithSuccessors
<1> QED BY <1>3

(* There is a function that iterates F from a, so that the one CHOOSE picks
   does. *)
LEMMA IterationExists ==
  ASSUME NEW A, NEW F \in [A -> A], NEW a \in A
  PROVE  \E it : Iterates(it, F, a)
<1> DEFINE g(n) == CHOOSE p : Prefix(p, n, A, F, a)
           it == [n \in Nat |-> g(n)[n]]
<1>1. \A n \in Nat : Prefix(g(n), n, A, F, a)
  BY PrefixExists
<1> HIDE DEF g
<1>2. ASSUME NEW i \in Nat PROVE it[i] = IF i = 0 THEN a ELSE F[it[i - 1]]
  <2>1. CASE i = 0
    BY <1>1, <2>1 DEF Prefix
  <2>2. CASE i # 0
    <3>1. i - 1 \in Nat /\ i \in 1..i /\ i - 1 <= i
      BY <2>2
    <3>2. g(i)[i - 1] = g(i - 1)[i - 1]
      BY <1>1, <3>1, PrefixesAgree
    <3>3. g(i)[i] = F[g(i)[i - 1]]
      BY <1>1, <3>1 DEF Prefix
    <3> QED BY <2>2, <3>1, <3>2, <3>3
  <2> QED BY <2>1, <2>2
<1>3. it = [i \in Nat |-> IF i = 0 THEN a ELSE F[it[i - 1]]]
  <2> DEFINE it2 == [i \in Nat |-> IF i = 0 THEN a ELSE F[it[i - 1]]]
  <2>1. \A i \in Nat : it[i] = it2[i]
    BY <1>2
  <2> QED BY <2>1
<1> QED BY <1>3 DEF Iterates

(* Its values, and what holds of all of them. *)
LEMMA IterationSteps ==
  ASSUME NEW A, NEW F \in [A -> A], NEW a \in A, NEW it, Iterates(it, F, a)
  PROVE  /\ it[0] = a
         /\ \A i \in Nat : it[i] \in A /\ it[i + 1] = F[it[i]]
<1>1. it[0] = a
  BY DEF Iterates
<1>2. ASSUME NEW i \in Nat PROVE it[i + 1] = F[it[i]]
  BY DEF Iterates
<1> DEFINE S == {i \in Nat : it[i] \in A}
<1>3. 0 \in S /\ \A i \in Nat : i \in S => i + 1 \in S
  BY <1>1, <1>2
<1>4. Nat \subseteq S
  <2> HIDE DEF S
  <2> QED BY <1>3, NatWithSuccessors
<1> QED BY <1>1, <1>2, <1>4

(* What holds of the first assignment and is kept by a step holds of every
   iterate. *)
LEMMA IterationKeeps ==
  ASSUME NEW A, NEW F \in [A -> A], NEW a \in A, NEW it, Iterates(it, F, a),
         NEW T, a \in T, \A x \in A : x \in T => F[x] \in T
  PROVE  \A i \in Nat : it[i] \in T
<1> DEFINE S == {i \in Nat : it[i] \in T}
<1>1. 0 \in S /\ \A i \in Nat : i \in S => i + 1 \in S
  BY IterationSteps
<1>2. Nat \subseteq S
  <2> HIDE DEF S
  <2> QED BY <1>1, NatWithSuccessors
<1> QED BY <1>2

(***************************************************************************)
(* An iteration whose values grow, as the sets G gives them in a finite    *)
(* set U do, no longer changes after as many steps as U has elements.      *)
(***************************************************************************)
LEMMA IterationStops ==
  ASSUME NEW A, NEW F \in [A -> A], NEW a \in A, NEW it, Iterates(it, F, a),
         NEW U, IsFiniteSet(U), NEW G \in [A -> SUBSET U],
         \A x \in A : G[x] \subseteq G[F[x]] /\ (G[x] = G[F[x]] => F[x] = x)
  PROVE  LET N == Cardinality(U) IN N \in Nat /\ F[it[N]] = it[N]
<1>1. Cardinality(U) \in Nat /\ \A S \in SUBSET U : IsFiniteSet(S) /\ Cardinality(S) \in Nat
  BY FS_CardinalityType, FS_Subset
<1>2. \A i \in Nat : it[i] \in A /\ it[i + 1] = F[it[i]]
  BY IterationSteps
<1> DEFINE K(i) == G[it[i]]
           S == {i \in Nat : F[it[i]] = it[i] \/ Cardinality(K(i + 1)) >= i + 1}
<1>3. ASSUME NEW i \in Nat, F[it[i]] # it[i]
      PROVE  Cardinality(K(i + 1)) >= Cardinality(K(i)) + 1
  <2>1. K(i) \in SUBSET U /\ K(i + 1) \in SUBSET U /\ K(i) \subseteq K(i + 1) /\ K(i) # K(i + 1)
    BY <1>2, <1>3
  <2>2. Cardinality(K(i)) <= Cardinality(K(i + 1)) /\ Cardinality(K(i)) # Cardinality(K(i + 1))
    BY <1>1, <2>1, FS_Subset
  <2> QED BY <1>1, <2>1, <2>2
<1>4. \A i \in Nat : K(i) \in SUBSET U /\ Cardinality(K(i)) \in Nat
  BY <1>1, <1>2
<1>5. 0 \in S
  <2>1. CASE F[it[0]] # it[0]
    BY <1>3, <1>4, <2>1
  <2> QED BY <2>1
<1>6. ASSUME NEW i \in Nat, i \in S PROVE i + 1 \in S
  <2>1. CASE F[it[i]] = it[i]
    BY <1>2, <2>1
  <2>2. CASE F[it[i]] # it[i] /\ F[it[i + 1]] # it[i + 1]
    <3>1. Cardinality(K(i + 1)) >= i + 1
      BY <1>6, <2>2
    <3>2. Cardinality(K((i + 1) + 1)) >= Cardinality(K(i + 1)) + 1
      BY <1>3, <2>2
    <3> QED BY <1>4, <3>1, <3>2
  <2> QED BY <2>1, <2>2
<1>7. Nat \subseteq S
  <2> HIDE DEF S
  <2> QED BY <1>5, <1>6, NatWithSuccessors
<1>8. F[it[Cardinality(U)]] = it[Cardinality(U)]
  <2>1. Cardinality(U) \in S
    BY <1>1, <1>7
  <2>2. Cardinality(K(Cardinality(U) + 1)) <= Cardinality(U)
    BY <1>1, <1>4, FS_Subset
  <2> QED BY <1>1, <1>4, <2>1, <2>2
<1> QED BY <1>1, <1>8

(* R is above a, does not grow any more, and has no more than every set of U
   above a that is closed. *)
LeastClosed(R, U, F, a) ==
  /\ R \in SUBSET U /\ a \subseteq R /\ F[R] = R
  /\ \A T \in SUBSET U :
       a \subseteq T /\ (\A S \in SUBSET U : S \subseteq T => F[S] \subseteq T) => R \subseteq T

(* A set that grows in a finite one comes to be such a set. *)
LEMMA GrowthCloses ==
  ASSUME NEW U, IsFiniteSet(U), NEW F \in [SUBSET U -> SUBSET U],
         \A S \in SUBSET U : S \subseteq F[S],
         NEW a \in SUBSET U, NEW it, Iterates(it, F, a)
  PROVE  LeastClosed(it[Cardinality(U)], U, F, a)
<1> DEFINE R == it[Cardinality(U)]
           A == SUBSET U
           G == [S \in A |-> S]
<1>1. F \in [A -> A] /\ a \in A
  OBVIOUS
<1>2. G \in [A -> SUBSET U] /\ \A x \in A : G[x] \subseteq G[F[x]] /\ (G[x] = G[F[x]] => F[x] = x)
  OBVIOUS
<1>3. Cardinality(U) \in Nat
  BY FS_CardinalityType
<1>4. F[R] = R
  <2> HIDE DEF A, G
  <2> QED BY <1>1, <1>2, IterationStops DEF R
<1>5. \A i \in Nat : it[i] \in A
  <2> HIDE DEF A, G
  <2> QED BY <1>1, IterationSteps
<1>6. ASSUME NEW T, a \in T, \A x \in A : x \in T => F[x] \in T
      PROVE  R \in T
  <2> HIDE DEF A, G
  <2> QED BY <1>1, <1>3, <1>6, IterationKeeps
<1>7. a \subseteq R
  <2> DEFINE T == {S \in A : a \subseteq S}
  <2>1. a \in T /\ \A x \in A : x \in T => F[x] \in T
    BY <1>1
  <2>2. R \in T
    <3> HIDE DEF A, T
    <3> QED BY <1>6, <2>1
  <2> QED BY <2>2
<1>8. ASSUME NEW T \in SUBSET U, a \subseteq T, \A S \in SUBSET U : S \subseteq T => F[S] \subseteq T
      PROVE  R \subseteq T
  <2> DEFINE W == {S \in A : S \subseteq T}
  <2>1. a \in W /\ \A x \in A : x \in W => F[x] \in W
    BY <1>1, <1>8
  <2>2. R \in W
    <3> HIDE DEF A, W
    <3> QED BY <1>6, <2>1
  <2> QED BY <2>2
<1> HIDE DEF R
<1>9. R \in SUBSET U
  BY <1>3, <1>5 DEF R
<1> QED BY <1>4, <1>7, <1>8, <1>9 DEF LeastClosed, R

(* The same by a function that calls itself until nothing is added: there is
   one, *)
Recurses(f, U, F) == f = [S \in SUBSET U |-> IF F[S] = S THEN S ELSE f[F[S]]]

LEMMA LeastClosedIsOne ==
  ASSUME NEW U, NEW F \in [SUBSET U -> SUBSET U], \A S \in SUBSET U : S \subseteq F[S],
         \A S, T \in SUBSET U : S \subseteq T => F[S] \subseteq F[T],
         NEW a \in SUBSET U, NEW R, NEW Q, LeastClosed(R, U, F, a), LeastClosed(Q, U, F, a)
  PROVE  R = Q
<1>1. R \in SUBSET U /\ Q \in SUBSET U /\ F[R] = R /\ F[Q] = Q /\ a \subseteq R /\ a \subseteq Q
  BY DEF LeastClosed
<1>2. \A S \in SUBSET U : (S \subseteq R => F[S] \subseteq R) /\ (S \subseteq Q => F[S] \subseteq Q)
  BY <1>1
<1>3. R \subseteq Q
  BY <1>1, <1>2 DEF LeastClosed
<1>4. Q \subseteq R
  BY <1>1, <1>2 DEF LeastClosed
<1> QED BY <1>3, <1>4

LEMMA RecursionExists ==
  ASSUME NEW U, IsFiniteSet(U), NEW F \in [SUBSET U -> SUBSET U],
         \A S \in SUBSET U : S \subseteq F[S],
         \A S, T \in SUBSET U : S \subseteq T => F[S] \subseteq F[T]
  PROVE  \E f : Recurses(f, U, F)
<1> DEFINE L(S) == CHOOSE R : LeastClosed(R, U, F, S)
           f == [S \in SUBSET U |-> L(S)]
<1>1. ASSUME NEW S \in SUBSET U PROVE LeastClosed(L(S), U, F, S)
  <2>1. \E R : LeastClosed(R, U, F, S)
    <3>1. PICK it : Iterates(it, F, S)
      <4>1. PICK A : A = SUBSET U
        OBVIOUS
      <4> QED BY <4>1, IterationExists
    <3> QED BY <3>1, GrowthCloses
  <2> QED BY <2>1
<1> HIDE DEF L
<1>2. ASSUME NEW S \in SUBSET U, F[S] = S PROVE L(S) = S
  <2>1. LeastClosed(S, U, F, S)
    BY <1>2 DEF LeastClosed
  <2> QED BY <1>1, <2>1, LeastClosedIsOne
<1>3. ASSUME NEW S \in SUBSET U PROVE L(S) = L(F[S])
  <2> DEFINE Q == L(F[S])
  <2>1. LeastClosed(Q, U, F, F[S])
    BY <1>1
  <2>2. F[S] \in SUBSET U /\ S \subseteq F[S]
    OBVIOUS
  <2> HIDE DEF Q
  <2>3. ASSUME NEW T \in SUBSET U, S \subseteq T, \A V \in SUBSET U : V \subseteq T => F[V] \subseteq T
        PROVE  Q \subseteq T
    <3>1. F[S] \subseteq T
      BY <2>3
    <3> QED BY <2>1, <2>3, <3>1 DEF LeastClosed
  <2>4. LeastClosed(Q, U, F, S)
    BY <2>1, <2>2, <2>3 DEF LeastClosed
  <2> QED BY <1>1, <2>4, LeastClosedIsOne DEF Q
<1>4. \A S \in SUBSET U : f[S] = IF F[S] = S THEN S ELSE f[F[S]]
  BY <1>2, <1>3
<1>5. f = [S \in SUBSET U |-> IF F[S] = S THEN S ELSE f[F[S]]]
  <2> DEFINE g == [S \in SUBSET U |-> IF F[S] = S THEN S ELSE f[F[S]]]
  <2>1. \A S \in SUBSET U : f[S] = g[S]
    BY <1>4
  <2> QED BY <2>1
<1> QED BY <1>5 DEF Recurses

(* and every one finds it. *)
LEMMA RecursionCloses ==
  ASSUME NEW U, IsFiniteSet(U), NEW F \in [SUBSET U -> SUBSET U],
         \A S \in SUBSET U : S \subseteq F[S],
         NEW f, Recurses(f, U, F), NEW a \in SUBSET U
  PROVE  LeastClosed(f[a], U, F, a)
<1>1. PICK A : A = SUBSET U
  OBVIOUS
<1>2. PICK it : Iterates(it, F, a)
  BY <1>1, IterationExists
<1>3. it[0] = a /\ \A i \in Nat : it[i] \in A /\ it[i + 1] = F[it[i]]
  <2>1. F \in [A -> A] /\ a \in A
    BY <1>1
  <2> QED BY <1>2, <2>1, IterationSteps
<1>4. \A S \in SUBSET U : f[S] = f[F[S]] /\ (F[S] = S => f[S] = S)
  BY DEF Recurses
<1> DEFINE T == {i \in Nat : f[it[i]] = f[a]}
<1>5. 0 \in T /\ \A i \in Nat : i \in T => i + 1 \in T
  BY <1>1, <1>3, <1>4
<1>6. Nat \subseteq T
  <2> HIDE DEF T
  <2> QED BY <1>5, NatWithSuccessors
<1> DEFINE R == it[Cardinality(U)]
<1>7. LeastClosed(R, U, F, a)
  BY <1>2, GrowthCloses
<1>8. f[R] = f[a]
  BY <1>6, FS_CardinalityType
<1> HIDE DEF R
<1>9. f[R] = R
  BY <1>4, <1>7 DEF LeastClosed
<1> QED BY <1>7, <1>8, <1>9
=============================================================================
