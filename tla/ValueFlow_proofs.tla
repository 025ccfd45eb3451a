-------------------------- MODULE ValueFlow_proofs --------------------------
(***************************************************************************)
(* The persistent backend of points-to data: the cached results of set     *)
(* operations are right whatever the sets are represented by, remapping    *)
(* included, and where a set is represented in one way only, comparing ids *)
(* is comparing sets, so that both backends keep the promise of points-to  *)
(* data (PointsToData) in every step and every result. The optimised       *)
(* value-flow graph: its edges and definitions lead to nodes that are      *)
(* there, what is left at the end has to stay, and the flows between       *)
(* statements stay what they were.                                         *)
(***************************************************************************)
EXTENDS PersistentPTData, SVFGOPT, Iteration_proofs, NaturalsInduction, WellFoundedInduction,
  SequenceTheorems, TLAPS

(* The set an id stands for. *)
Meaning(c, i) == Elems(getActualPts(c, i))

(* Functions from some elements of S to T. *)
Partial(S, T) == UNION {[D -> T] : D \in SUBSET S}

(* Operands of a cached operation. *)
IdPair == Nat \X Nat

(* A cache: sets by ids, ids by sets, and results by the ids of operands. *)
CacheType ==
  [idToPts : Seq(Rep), ptsToId : Partial(Rep, Nat), union : Partial(IdPair, Nat),
   complement : Partial(IdPair, Nat), intersection : Partial(IdPair, Nat)]

(* r is right for the operands k. *)
IsUnion(c, k, r) ==
  /\ k \in IdPair /\ {k[1], k[2], r} \subseteq Id(c)
  /\ Meaning(c, r) = Meaning(c, k[1]) \cup Meaning(c, k[2])
IsDifference(c, k, r) ==
  /\ k \in IdPair /\ {k[1], k[2], r} \subseteq Id(c)
  /\ Meaning(c, r) = Meaning(c, k[1]) \ Meaning(c, k[2])
IsMeet(c, k, r) ==
  /\ k \in IdPair /\ {k[1], k[2], r} \subseteq Id(c)
  /\ Meaning(c, r) = Meaning(c, k[1]) \cap Meaning(c, k[2])

Unions(c, f)      == f \in Partial(IdPair, Nat) /\ \A k \in DOMAIN f : IsUnion(c, k, f[k])
Differences(c, f) == f \in Partial(IdPair, Nat) /\ \A k \in DOMAIN f : IsDifference(c, k, f[k])
Meets(c, f)       == f \in Partial(IdPair, Nat) /\ \A k \in DOMAIN f : IsMeet(c, k, f[k])

(* Nothing the cache holds is wrong. *)
CacheOK(c) ==
  /\ c \in CacheType /\ c.idToPts # <<>> /\ Meaning(c, 0) = {}
  /\ \A p \in DOMAIN c.ptsToId : c.ptsToId[p] \in Id(c) /\ Meaning(c, c.ptsToId[p]) = Elems(p)
  /\ Unions(c, c.union) /\ Differences(c, c.complement) /\ Meets(c, c.intersection)

(* Every set is found, and has one id. *)
Interned(c) ==
  /\ \A i \in Id(c) : getActualPts(c, i) \in DOMAIN c.ptsToId
  /\ \A i, j \in Id(c) : getActualPts(c, i) = getActualPts(c, j) => i = j

(* d knows the sets of c by the same ids. *)
Grows(c, d) == Id(c) \subseteq Id(d) /\ \A i \in Id(c) : Meaning(d, i) = Meaning(c, i)

(* g has value v for x, and the values of f. *)
Updated(g, f, x, v) ==
  /\ DOMAIN g = DOMAIN f \cup {x}
  /\ \A y \in DOMAIN g : IF y = x THEN g[y] = v ELSE y \in DOMAIN f /\ g[y] = f[y]
-----------------------------------------------------------------------------
(* A map with one more value has that value, and else those it had. *)
LEMMA WithValues ==
  ASSUME NEW f, NEW x, NEW v
  PROVE  Updated(With(f, x, v), f, x, v)
<1>1. PICK D : D = DOMAIN f \cup {x}
  OBVIOUS
<1>2. With(f, x, v) = [y \in D |-> IF y = x THEN v ELSE f[y]]
  BY <1>1 DEF With
<1>3. DOMAIN With(f, x, v) = D
  BY <1>2
<1>4. \A y \in D : With(f, x, v)[y] = IF y = x THEN v ELSE f[y]
  BY <1>2
<1> QED BY <1>1, <1>3, <1>4 DEF Updated

(* It is still a map from operands to ids. *)
LEMMA WithPairs ==
  ASSUME NEW f, f \in Partial(IdPair, Nat), NEW x \in IdPair, NEW v \in Nat
  PROVE  With(f, x, v) \in Partial(IdPair, Nat)
<1>1. PICK D \in SUBSET IdPair : f \in [D -> Nat]
  BY DEF Partial
<1>2. PICK E : E = D \cup {x}
  OBVIOUS
<1>3. E \in SUBSET IdPair
  BY <1>2
<1>4. With(f, x, v) \in [E -> Nat]
  BY <1>1, <1>2 DEF With
<1> QED BY <1>3, <1>4 DEF Partial

(* So is a map from sets to ids. *)
LEMMA WithSets ==
  ASSUME NEW f, f \in Partial(Rep, Nat), NEW x \in Rep, NEW v \in Nat
  PROVE  With(f, x, v) \in Partial(Rep, Nat)
<1>1. PICK D \in SUBSET Rep : f \in [D -> Nat]
  BY DEF Partial
<1>2. PICK E : E = D \cup {x}
  OBVIOUS
<1>3. E \in SUBSET Rep
  BY <1>2
<1>4. With(f, x, v) \in [E -> Nat]
  BY <1>1, <1>2 DEF With
<1> QED BY <1>3, <1>4 DEF Partial

(* Noting a right result keeps all results right. *)
LEMMA KnownUnion ==
  ASSUME NEW c, NEW f, Unions(c, f), NEW k, NEW r, NEW b \in BOOLEAN, b => IsUnion(c, k, r)
  PROVE  Unions(c, Known(f, k, r, b))
<1>1. CASE ~b
  BY <1>1 DEF Known
<1>2. CASE b
  <2>1. k \in IdPair /\ r \in Nat /\ IsUnion(c, k, r)
    BY <1>2 DEF IsUnion, Id
  <2>2. With(f, k, r) \in Partial(IdPair, Nat)
    BY <2>1, WithPairs DEF Unions
  <2>3. Updated(With(f, k, r), f, k, r)
    BY WithValues
  <2> QED BY <1>2, <2>1, <2>2, <2>3 DEF Unions, Known, Updated
<1> QED BY <1>1, <1>2

(* So for differences, *)
LEMMA KnownDifference ==
  ASSUME NEW c, NEW f, Differences(c, f), NEW k, NEW r, NEW b \in BOOLEAN, b => IsDifference(c, k, r)
  PROVE  Differences(c, Known(f, k, r, b))
<1>1. CASE ~b
  BY <1>1 DEF Known
<1>2. CASE b
  <2>1. k \in IdPair /\ r \in Nat /\ IsDifference(c, k, r)
    BY <1>2 DEF IsDifference, Id
  <2>2. With(f, k, r) \in Partial(IdPair, Nat)
    BY <2>1, WithPairs DEF Differences
  <2>3. Updated(With(f, k, r), f, k, r)
    BY WithValues
  <2> QED BY <1>2, <2>1, <2>2, <2>3 DEF Differences, Known, Updated
<1> QED BY <1>1, <1>2

(* and for intersections. *)
LEMMA KnownMeet ==
  ASSUME NEW c, NEW f, Meets(c, f), NEW k, NEW r, NEW b \in BOOLEAN, b => IsMeet(c, k, r)
  PROVE  Meets(c, Known(f, k, r, b))
<1>1. CASE ~b
  BY <1>1 DEF Known
<1>2. CASE b
  <2>1. k \in IdPair /\ r \in Nat /\ IsMeet(c, k, r)
    BY <1>2 DEF IsMeet, Id
  <2>2. With(f, k, r) \in Partial(IdPair, Nat)
    BY <2>1, WithPairs DEF Meets
  <2>3. Updated(With(f, k, r), f, k, r)
    BY WithValues
  <2> QED BY <1>2, <2>1, <2>2, <2>3 DEF Meets, Known, Updated
<1> QED BY <1>1, <1>2

(* What was right stays right while the cache grows. *)
LEMMA GrowingKeeps ==
  ASSUME NEW c, NEW d, Grows(c, d), NEW f
  PROVE  /\ Unions(c, f) => Unions(d, f)
         /\ Differences(c, f) => Differences(d, f)
         /\ Meets(c, f) => Meets(d, f)
<1>1. ASSUME NEW k, NEW r
      PROVE  /\ IsUnion(c, k, r) => IsUnion(d, k, r)
             /\ IsDifference(c, k, r) => IsDifference(d, k, r)
             /\ IsMeet(c, k, r) => IsMeet(d, k, r)
  BY DEF Grows, IsUnion, IsDifference, IsMeet
<1> QED BY <1>1 DEF Unions, Differences, Meets

(* The empty set has id 0. *)
LEMMA ZeroId ==
  ASSUME NEW c, CacheOK(c)
  PROVE  0 \in Id(c) /\ Meaning(c, 0) = {} /\ Id(c) \subseteq Nat
<1>1. c.idToPts \in Seq(Rep) /\ c.idToPts # <<>>
  BY DEF CacheOK, CacheType
<1>2. Len(c.idToPts) \in Nat /\ Len(c.idToPts) # 0
  BY <1>1
<1> QED BY <1>2 DEF CacheOK, Id

(* The set p is put into the cache, or found there. *)
LEMMA EmplaceOK ==
  ASSUME Representation, NEW c, CacheOK(c), NEW p \in Rep, NEW e, e = emplacePts(c, p)
  PROVE  /\ CacheOK(e.cache) /\ Grows(c, e.cache)
         /\ e.id \in Id(e.cache) /\ Meaning(e.cache, e.id) = Elems(p)
         /\ Interned(c) => Interned(e.cache)
<1>1. CASE p \in DOMAIN c.ptsToId
  <2>1. e.cache = c /\ e.id = c.ptsToId[p]
    BY <1>1 DEF emplacePts, At
  <2> QED BY <1>1, <2>1 DEF CacheOK, Grows
<1>2. CASE p \notin DOMAIN c.ptsToId
  <2>1. PICK n, d : n = Len(c.idToPts) /\ d = e.cache
    OBVIOUS
  <2>2. d = [c EXCEPT !.idToPts = Append(@, p), !.ptsToId = With(@, p, n)] /\ e.id = n
    BY <1>2, <2>1 DEF emplacePts, At
  <2>3. c \in CacheType /\ c.idToPts \in Seq(Rep) /\ n \in Nat /\ c.ptsToId \in Partial(Rep, Nat)
    BY <2>1 DEF CacheOK, CacheType
  <2>4. /\ d.idToPts = Append(c.idToPts, p) /\ d.ptsToId = With(c.ptsToId, p, n)
        /\ d.union = c.union /\ d.complement = c.complement /\ d.intersection = c.intersection
    BY <2>2, <2>3 DEF CacheType
  <2>5. d.idToPts \in Seq(Rep) /\ Len(d.idToPts) = n + 1 /\ d.idToPts # <<>>
    BY <2>1, <2>3, <2>4
  <2>6a. With(c.ptsToId, p, n) \in Partial(Rep, Nat)
    BY <2>3, WithSets
  <2>6b. Updated(With(c.ptsToId, p, n), c.ptsToId, p, n)
    BY WithValues
  <2>6. Updated(d.ptsToId, c.ptsToId, p, n)
    BY <2>4, <2>6b
  <2>7. d \in CacheType
    BY <2>2, <2>3, <2>4, <2>5, <2>6a DEF CacheType
  <2>8. Id(c) = 0..(n - 1) /\ Id(d) = 0..n
    BY <2>1, <2>3, <2>5 DEF Id
  <2>9. \A i \in Id(c) : getActualPts(d, i) = getActualPts(c, i)
    BY <2>1, <2>3, <2>4, <2>8 DEF getActualPts
  <2>10. getActualPts(d, n) = p
    BY <2>1, <2>3, <2>4 DEF getActualPts
  <2>11. Grows(c, d)
    BY <2>3, <2>8, <2>9 DEF Grows, Meaning
  <2>12. n \in Id(d) /\ Meaning(d, n) = Elems(p)
    BY <2>3, <2>8, <2>10 DEF Meaning
  <2>13. Unions(d, d.union) /\ Differences(d, d.complement) /\ Meets(d, d.intersection)
    BY <2>4, <2>11, GrowingKeeps DEF CacheOK
  <2>14. \A y \in DOMAIN d.ptsToId : d.ptsToId[y] \in Id(d) /\ Meaning(d, d.ptsToId[y]) = Elems(y)
    BY <2>6, <2>11, <2>12 DEF CacheOK, Grows, Updated
  <2>15. Meaning(d, 0) = {}
    BY <2>11, ZeroId DEF Grows
  <2>16. CacheOK(d)
    BY <2>5, <2>7, <2>13, <2>14, <2>15 DEF CacheOK
  <2>17. ASSUME Interned(c) PROVE Interned(d)
    <3>1. \A i \in Id(d) : i \in Id(c) \/ i = n
      BY <2>3, <2>8
    <3>2. \A i \in Id(c) : getActualPts(d, i) \in DOMAIN c.ptsToId
      BY <2>9, <2>17 DEF Interned
    <3>3. \A i \in Id(d) : getActualPts(d, i) \in DOMAIN d.ptsToId
      BY <2>6, <2>10, <3>1, <3>2 DEF Updated
    <3>4. \A i, j \in Id(d) : getActualPts(d, i) = getActualPts(d, j) => i = j
      BY <1>2, <2>9, <2>10, <2>17, <3>1, <3>2 DEF Interned
    <3> QED BY <3>3, <3>4 DEF Interned
  <2> QED BY <2>1, <2>2, <2>11, <2>12, <2>16, <2>17
<1> QED BY <1>1, <1>2
(* u is an id of the set S, in a cache that has grown from c. *)
Gives(c, u, S) ==
  /\ CacheOK(u.cache) /\ Grows(c, u.cache)
  /\ u.id \in Id(u.cache) /\ Meaning(u.cache, u.id) = S
  /\ Interned(c) => Interned(u.cache)

(* Results that are right may be remembered. *)
LEMMA ResultRemembered ==
  ASSUME NEW d, CacheOK(d), NEW f, Unions(d, f), NEW g, Differences(d, g), NEW h, Meets(d, h),
         NEW x, x \in [idToPts : {d.idToPts}, ptsToId : {d.ptsToId}, union : {f},
                       complement : {g}, intersection : {h}]
  PROVE  /\ CacheOK(x) /\ Grows(d, x) /\ Id(x) = Id(d)
         /\ Interned(d) => Interned(x)
         /\ \A i \in Id(d) : Meaning(x, i) = Meaning(d, i)
<1>1. /\ x.idToPts = d.idToPts /\ x.ptsToId = d.ptsToId
      /\ x.union = f /\ x.complement = g /\ x.intersection = h
  OBVIOUS
<1>2. x \in CacheType
  BY <1>1 DEF CacheOK, CacheType, Unions, Differences, Meets
<1>3. Id(x) = Id(d) /\ \A i : getActualPts(x, i) = getActualPts(d, i)
  BY <1>1 DEF Id, getActualPts
<1>4. \A i : Meaning(x, i) = Meaning(d, i)
  BY <1>3 DEF Meaning
<1>5. Grows(d, x)
  BY <1>3, <1>4 DEF Grows
<1>6. Unions(x, f) /\ Differences(x, g) /\ Meets(x, h)
  BY <1>5, GrowingKeeps
<1>7. CacheOK(x)
  BY <1>1, <1>2, <1>3, <1>4, <1>6 DEF CacheOK
<1>8. Interned(d) => Interned(x)
  BY <1>1, <1>3 DEF Interned
<1> QED BY <1>3, <1>4, <1>5, <1>7, <1>8

(* Growth adds up. *)
LEMMA GrowsFurther ==
  ASSUME NEW c, NEW d, NEW x, Grows(c, d), Grows(d, x)
  PROVE  Grows(c, x)
BY DEF Grows

(* The ids of a cache have sets. *)
LEMMA ActualInRep ==
  ASSUME NEW c, CacheOK(c), NEW i \in Id(c)
  PROVE  getActualPts(c, i) \in Rep /\ i \in Nat /\ Meaning(c, i) = Elems(getActualPts(c, i))
<1>1. c.idToPts \in Seq(Rep)
  BY DEF CacheOK, CacheType
<1>2. i + 1 \in 1..Len(c.idToPts) /\ i \in Nat
  BY <1>1 DEF Id
<1>3. c.idToPts[i + 1] \in Rep
  BY <1>1, <1>2
<1> QED BY <1>2, <1>3 DEF getActualPts, Meaning

(* Operands may be put in order where the order does not matter. *)
LEMMA OrderedPair ==
  ASSUME NEW c, Id(c) \subseteq Nat, NEW i \in Id(c), NEW j \in Id(c), NEW r \in Id(c)
  PROVE  /\ Meaning(c, r) = Meaning(c, i) \cup Meaning(c, j) => IsUnion(c, minmax(i, j), r)
         /\ Meaning(c, r) = Meaning(c, i) \cap Meaning(c, j) => IsMeet(c, minmax(i, j), r)
<1>1. CASE i <= j
  <2>1. minmax(i, j) = <<i, j>>
    BY <1>1 DEF minmax
  <2> QED BY <2>1 DEF IsUnion, IsMeet, IdPair
<1>2. CASE ~(i <= j)
  <2>1. minmax(i, j) = <<j, i>>
    BY <1>2 DEF minmax
  <2> QED BY <2>1 DEF IsUnion, IsMeet, IdPair
<1> QED BY <1>1, <1>2

(* The id of a union. *)
LEMMA UnionOK ==
  ASSUME Representation, NEW c, CacheOK(c), NEW i \in Id(c), NEW j \in Id(c)
  PROVE  Gives(c, unionPts(c, i, j), Meaning(c, i) \cup Meaning(c, j))
<1>1. PICK key : key = minmax(i, j)
  OBVIOUS
<1>2. PICK u : u = unionPts(c, i, j)
  OBVIOUS
<1>3. Grows(c, c)
  BY DEF Grows
<1>4. i \in Nat /\ j \in Nat /\ 0 \in Id(c) /\ Meaning(c, 0) = {} /\ Id(c) \subseteq Nat
  BY ZeroId
<1>5. CASE key[1] = emptyPointsToId
  <2>1. u.cache = c /\ u.id = key[2]
    BY <1>1, <1>2, <1>5 DEF unionPts, At
  <2>2. (i = 0 /\ key[2] = j) \/ (j = 0 /\ key[2] = i)
    <3>1. CASE i <= j
      BY <1>1, <1>4, <1>5, <3>1 DEF minmax, emptyPointsToId
    <3>2. CASE ~(i <= j)
      BY <1>1, <1>4, <1>5, <3>2 DEF minmax, emptyPointsToId
    <3> QED BY <3>1, <3>2
  <2>3. u.id \in Id(c) /\ Meaning(c, u.id) = Meaning(c, i) \cup Meaning(c, j)
    BY <1>4, <2>1, <2>2
  <2> QED BY <1>2, <1>3, <2>1, <2>3 DEF Gives
<1>6. CASE key[1] # emptyPointsToId /\ i = j
  <2>1. u.cache = c /\ u.id = i
    BY <1>1, <1>2, <1>6 DEF unionPts, At
  <2> QED BY <1>2, <1>3, <1>6, <2>1 DEF Gives
<1>7. CASE key[1] # emptyPointsToId /\ i # j /\ key \in DOMAIN c.union
  <2>1. u.cache = c /\ u.id = c.union[key]
    BY <1>1, <1>2, <1>7 DEF unionPts, At
  <2>2. IsUnion(c, key, u.id)
    BY <1>7, <2>1 DEF CacheOK, Unions
  <2>3. key = <<i, j>> \/ key = <<j, i>>
    BY <1>1 DEF minmax
  <2>4. u.id \in Id(c) /\ Meaning(c, u.id) = Meaning(c, i) \cup Meaning(c, j)
    BY <2>2, <2>3 DEF IsUnion
  <2> QED BY <1>2, <1>3, <2>1, <2>4 DEF Gives
<1>8. CASE key[1] # emptyPointsToId /\ i # j /\ key \notin DOMAIN c.union
  <2>1. PICK p : p = Join(getActualPts(c, i), getActualPts(c, j))
    OBVIOUS
  <2>2. p \in Rep /\ Elems(p) = Meaning(c, i) \cup Meaning(c, j)
    BY <2>1, ActualInRep DEF Representation
  <2>3. PICK e : e = emplacePts(c, p)
    OBVIOUS
  <2>4. PICK d, r : d = e.cache /\ r = e.id
    OBVIOUS
  <2>5. /\ CacheOK(d) /\ Grows(c, d) /\ r \in Id(d) /\ Meaning(d, r) = Elems(p)
        /\ Interned(c) => Interned(d)
    BY <2>2, <2>3, <2>4, EmplaceOK
  <2>6. i \in Id(d) /\ j \in Id(d) /\ Id(d) \subseteq Nat
        /\ Meaning(d, i) = Meaning(c, i) /\ Meaning(d, j) = Meaning(c, j)
    BY <2>5, ZeroId DEF Grows
  <2>7. /\ IsUnion(d, key, r) /\ IsUnion(d, minmax(i, r), r) /\ IsUnion(d, minmax(j, r), r)
    <3>1. /\ Meaning(d, r) = Meaning(d, i) \cup Meaning(d, j)
          /\ Meaning(d, r) = Meaning(d, i) \cup Meaning(d, r)
          /\ Meaning(d, r) = Meaning(d, j) \cup Meaning(d, r)
      BY <2>2, <2>5, <2>6
    <3> QED BY <1>1, <2>5, <2>6, <3>1, OrderedPair
  <2>8. PICK f0, f1, f2 : /\ f0 = Known(d.union, key, r, TRUE)
                          /\ f1 = Known(f0, minmax(i, r), r, i # r)
                          /\ f2 = Known(f1, minmax(j, r), r, j # r)
    OBVIOUS
  <2>9. Unions(d, f0)
    BY <2>5, <2>7, <2>8, KnownUnion DEF CacheOK
  <2>10. Unions(d, f1)
    BY <2>7, <2>8, <2>9, KnownUnion
  <2>11. Unions(d, f2)
    BY <2>7, <2>8, <2>10, KnownUnion
  <2>12. u = At([d EXCEPT !.union = f2], r)
    <3>1. f0 = With(d.union, key, r)
      BY <2>8 DEF Known
    <3> QED BY <1>1, <1>2, <1>8, <2>1, <2>3, <2>4, <2>8, <3>1 DEF unionPts
  <2>13. d \in CacheType /\ Differences(d, d.complement) /\ Meets(d, d.intersection)
    BY <2>5 DEF CacheOK
  <2>14. PICK x : x = u.cache
    OBVIOUS
  <2>15. x = [d EXCEPT !.union = f2] /\ u.id = r
    BY <2>12, <2>14 DEF At
  <2>16. x \in [idToPts : {d.idToPts}, ptsToId : {d.ptsToId}, union : {f2},
                complement : {d.complement}, intersection : {d.intersection}]
    BY <2>13, <2>15 DEF CacheType
  <2>17. /\ CacheOK(x) /\ Grows(d, x) /\ Id(x) = Id(d)
         /\ Interned(d) => Interned(x)
         /\ \A k \in Id(d) : Meaning(x, k) = Meaning(d, k)
    BY <2>5, <2>11, <2>13, <2>16, ResultRemembered
  <2>18. Grows(c, x)
    BY <2>5, <2>17, GrowsFurther
  <2>19. u.id \in Id(x) /\ Meaning(x, u.id) = Meaning(c, i) \cup Meaning(c, j)
    BY <2>2, <2>5, <2>15, <2>17
  <2> QED BY <1>2, <2>5, <2>14, <2>17, <2>18, <2>19 DEF Gives
<1> QED BY <1>5, <1>6, <1>7, <1>8
(* The id of a difference. *)
LEMMA ComplementOK ==
  ASSUME Representation, NEW c, CacheOK(c), NEW i \in Id(c), NEW j \in Id(c)
  PROVE  Gives(c, complementPts(c, i, j), Meaning(c, i) \ Meaning(c, j))
<1>1. PICK key : key = <<i, j>>
  OBVIOUS
<1>2. PICK u : u = complementPts(c, i, j)
  OBVIOUS
<1>3. Grows(c, c)
  BY DEF Grows
<1>4. i \in Nat /\ j \in Nat /\ 0 \in Id(c) /\ Meaning(c, 0) = {} /\ Id(c) \subseteq Nat
  BY ZeroId
<1>5. CASE i = j \/ i = emptyPointsToId
  <2>1. u.cache = c /\ u.id = 0
    BY <1>2, <1>5 DEF complementPts, At, emptyPointsToId
  <2>2. Meaning(c, i) \ Meaning(c, j) = {}
    BY <1>4, <1>5 DEF emptyPointsToId
  <2> QED BY <1>2, <1>3, <1>4, <2>1, <2>2 DEF Gives
<1>6. CASE ~(i = j \/ i = emptyPointsToId) /\ j = emptyPointsToId
  <2>1. u.cache = c /\ u.id = i
    BY <1>2, <1>6 DEF complementPts, At
  <2>2. Meaning(c, i) \ Meaning(c, j) = Meaning(c, i)
    BY <1>4, <1>6 DEF emptyPointsToId
  <2> QED BY <1>2, <1>3, <2>1, <2>2 DEF Gives
<1>7. CASE ~(i = j \/ i = emptyPointsToId) /\ j # emptyPointsToId /\ key \in DOMAIN c.complement
  <2>1. u.cache = c /\ u.id = c.complement[key]
    BY <1>1, <1>2, <1>7 DEF complementPts, At
  <2>2. IsDifference(c, key, u.id)
    BY <1>7, <2>1 DEF CacheOK, Differences
  <2>3. u.id \in Id(c) /\ Meaning(c, u.id) = Meaning(c, i) \ Meaning(c, j)
    BY <1>1, <2>2 DEF IsDifference
  <2> QED BY <1>2, <1>3, <2>1, <2>3 DEF Gives
<1>8. CASE ~(i = j \/ i = emptyPointsToId) /\ j # emptyPointsToId /\ key \notin DOMAIN c.complement
  <2>1. PICK p : p = Minus(getActualPts(c, i), getActualPts(c, j))
    OBVIOUS
  <2>2. p \in Rep /\ Elems(p) = Meaning(c, i) \ Meaning(c, j)
    BY <2>1, ActualInRep DEF Representation
  <2>3. PICK e : e = emplacePts(c, p)
    OBVIOUS
  <2>4. PICK d, r : d = e.cache /\ r = e.id
    OBVIOUS
  <2>5. /\ CacheOK(d) /\ Grows(c, d) /\ r \in Id(d) /\ Meaning(d, r) = Elems(p)
        /\ Interned(c) => Interned(d)
    BY <2>2, <2>3, <2>4, EmplaceOK
  <2>6. /\ i \in Id(d) /\ j \in Id(d) /\ 0 \in Id(d) /\ Id(d) \subseteq Nat /\ Meaning(d, 0) = {}
        /\ Meaning(d, i) = Meaning(c, i) /\ Meaning(d, j) = Meaning(c, j)
    BY <2>5, ZeroId DEF Grows
  <2>7. /\ IsDifference(d, key, r) /\ IsDifference(d, <<r, j>>, r)
        /\ IsMeet(d, minmax(r, j), 0) /\ IsMeet(d, minmax(r, i), r)
    <3>1. /\ Meaning(d, r) = Meaning(d, i) \ Meaning(d, j)
          /\ Meaning(d, r) = Meaning(d, r) \ Meaning(d, j)
          /\ Meaning(d, 0) = Meaning(d, r) \cap Meaning(d, j)
          /\ Meaning(d, r) = Meaning(d, r) \cap Meaning(d, i)
      BY <2>2, <2>5, <2>6
    <3>2. IsMeet(d, minmax(r, j), 0) /\ IsMeet(d, minmax(r, i), r)
      BY <2>5, <2>6, <3>1, OrderedPair
    <3>3. IsDifference(d, key, r) /\ IsDifference(d, <<r, j>>, r)
      BY <1>1, <2>5, <2>6, <3>1 DEF IsDifference, IdPair
    <3> QED BY <3>2, <3>3
  <2>8. PICK some \in BOOLEAN : some = (r # emptyPointsToId)
    OBVIOUS
  <2>9. PICK g0, g1, h1, h2 : /\ g0 = Known(d.complement, key, r, TRUE)
                              /\ g1 = Known(g0, <<r, j>>, r, some)
                              /\ h1 = Known(d.intersection, minmax(r, j), 0, some)
                              /\ h2 = Known(h1, minmax(r, i), r, some)
    OBVIOUS
  <2>10. Differences(d, g0)
    BY <2>5, <2>7, <2>9, KnownDifference DEF CacheOK
  <2>11. Differences(d, g1)
    BY <2>7, <2>8, <2>9, <2>10, KnownDifference
  <2>12. Meets(d, h1)
    BY <2>5, <2>7, <2>8, <2>9, KnownMeet DEF CacheOK
  <2>13. Meets(d, h2)
    BY <2>7, <2>8, <2>9, <2>12, KnownMeet
  <2>14. u = At([d EXCEPT !.complement = g1, !.intersection = h2], r)
    <3>1. g0 = With(d.complement, key, r)
      BY <2>9 DEF Known
    <3> QED BY <1>1, <1>2, <1>7, <1>8, <2>1, <2>3, <2>4, <2>8, <2>9, <3>1
            DEF complementPts, emptyPointsToId
  <2>15. d \in CacheType /\ Unions(d, d.union)
    BY <2>5 DEF CacheOK
  <2>16. PICK x : x = u.cache
    OBVIOUS
  <2>17. x = [d EXCEPT !.complement = g1, !.intersection = h2] /\ u.id = r
    BY <2>14, <2>16 DEF At
  <2>18. x \in [idToPts : {d.idToPts}, ptsToId : {d.ptsToId}, union : {d.union},
                complement : {g1}, intersection : {h2}]
    BY <2>15, <2>17 DEF CacheType
  <2>19. /\ CacheOK(x) /\ Grows(d, x) /\ Id(x) = Id(d)
         /\ Interned(d) => Interned(x)
         /\ \A k \in Id(d) : Meaning(x, k) = Meaning(d, k)
    BY <2>5, <2>11, <2>13, <2>15, <2>18, ResultRemembered
  <2>20. Grows(c, x)
    BY <2>5, <2>19, GrowsFurther
  <2>21. u.id \in Id(x) /\ Meaning(x, u.id) = Meaning(c, i) \ Meaning(c, j)
    BY <2>2, <2>5, <2>17, <2>19
  <2> QED BY <1>2, <2>5, <2>16, <2>19, <2>20, <2>21 DEF Gives
<1> QED BY <1>5, <1>6, <1>7, <1>8

(* The id of an intersection. *)
LEMMA IntersectOK ==
  ASSUME Representation, NEW c, CacheOK(c), NEW i \in Id(c), NEW j \in Id(c)
  PROVE  Gives(c, intersectPts(c, i, j), Meaning(c, i) \cap Meaning(c, j))
<1>1. PICK key : key = minmax(i, j)
  OBVIOUS
<1>2. PICK u : u = intersectPts(c, i, j)
  OBVIOUS
<1>3. Grows(c, c)
  BY DEF Grows
<1>4. i \in Nat /\ j \in Nat /\ 0 \in Id(c) /\ Meaning(c, 0) = {} /\ Id(c) \subseteq Nat
  BY ZeroId
<1>5. CASE key[1] = emptyPointsToId
  <2>1. u.cache = c /\ u.id = 0
    BY <1>1, <1>2, <1>5 DEF intersectPts, At, emptyPointsToId
  <2>2. i = 0 \/ j = 0
    <3>1. CASE i <= j
      BY <1>1, <1>4, <1>5, <3>1 DEF minmax, emptyPointsToId
    <3>2. CASE ~(i <= j)
      BY <1>1, <1>4, <1>5, <3>2 DEF minmax, emptyPointsToId
    <3> QED BY <3>1, <3>2
  <2>3. Meaning(c, 0) = Meaning(c, i) \cap Meaning(c, j)
    BY <1>4, <2>2
  <2> QED BY <1>2, <1>3, <1>4, <2>1, <2>3 DEF Gives
<1>6. CASE key[1] # emptyPointsToId /\ i = j
  <2>1. u.cache = c /\ u.id = i
    BY <1>1, <1>2, <1>6 DEF intersectPts, At
  <2> QED BY <1>2, <1>3, <1>6, <2>1 DEF Gives
<1>7. CASE key[1] # emptyPointsToId /\ i # j /\ key \in DOMAIN c.intersection
  <2>1. u.cache = c /\ u.id = c.intersection[key]
    BY <1>1, <1>2, <1>7 DEF intersectPts, At
  <2>2. IsMeet(c, key, u.id)
    BY <1>7, <2>1 DEF CacheOK, Meets
  <2>3. key = <<i, j>> \/ key = <<j, i>>
    BY <1>1 DEF minmax
  <2>4. u.id \in Id(c) /\ Meaning(c, u.id) = Meaning(c, i) \cap Meaning(c, j)
    BY <2>2, <2>3 DEF IsMeet
  <2> QED BY <1>2, <1>3, <2>1, <2>4 DEF Gives
<1>8. CASE key[1] # emptyPointsToId /\ i # j /\ key \notin DOMAIN c.intersection
  <2>1. PICK p : p = Meet(getActualPts(c, i), getActualPts(c, j))
    OBVIOUS
  <2>2. p \in Rep /\ Elems(p) = Meaning(c, i) \cap Meaning(c, j)
    BY <2>1, ActualInRep DEF Representation
  <2>3. PICK e : e = emplacePts(c, p)
    OBVIOUS
  <2>4. PICK d, r : d = e.cache /\ r = e.id
    OBVIOUS
  <2>5. /\ CacheOK(d) /\ Grows(c, d) /\ r \in Id(d) /\ Meaning(d, r) = Elems(p)
        /\ Interned(c) => Interned(d)
    BY <2>2, <2>3, <2>4, EmplaceOK
  <2>6. /\ i \in Id(d) /\ j \in Id(d) /\ Id(d) \subseteq Nat
        /\ Meaning(d, i) = Meaning(c, i) /\ Meaning(d, j) = Meaning(c, j)
    BY <2>5, ZeroId DEF Grows
  <2>7. /\ IsMeet(d, key, r) /\ IsMeet(d, minmax(r, j), r) /\ IsMeet(d, minmax(r, i), r)
        /\ IsUnion(d, minmax(i, r), i) /\ IsUnion(d, minmax(j, r), j)
    <3>1. /\ Meaning(d, r) = Meaning(d, i) \cap Meaning(d, j)
          /\ Meaning(d, r) = Meaning(d, r) \cap Meaning(d, j)
          /\ Meaning(d, r) = Meaning(d, r) \cap Meaning(d, i)
          /\ Meaning(d, i) = Meaning(d, i) \cup Meaning(d, r)
          /\ Meaning(d, j) = Meaning(d, j) \cup Meaning(d, r)
      BY <2>2, <2>5, <2>6
    <3> QED BY <1>1, <2>5, <2>6, <3>1, OrderedPair
  <2>8. PICK b1 \in BOOLEAN, b2 \in BOOLEAN : /\ b1 = (r # emptyPointsToId /\ r # j)
                                              /\ b2 = (r # emptyPointsToId /\ r # i)
    OBVIOUS
  <2>9. PICK h0, h1, h2, f1, f2 : /\ h0 = Known(d.intersection, key, r, TRUE)
                                  /\ h1 = Known(h0, minmax(r, j), r, b1)
                                  /\ h2 = Known(h1, minmax(r, i), r, b2)
                                  /\ f1 = Known(d.union, minmax(i, r), i, b2)
                                  /\ f2 = Known(f1, minmax(j, r), j, b1)
    OBVIOUS
  <2>10. Meets(d, h0)
    BY <2>5, <2>7, <2>9, KnownMeet DEF CacheOK
  <2>11. Meets(d, h1)
    BY <2>7, <2>8, <2>9, <2>10, KnownMeet
  <2>12. Meets(d, h2)
    BY <2>7, <2>8, <2>9, <2>11, KnownMeet
  <2>13. Unions(d, f1)
    BY <2>5, <2>7, <2>8, <2>9, KnownUnion DEF CacheOK
  <2>14. Unions(d, f2)
    BY <2>7, <2>8, <2>9, <2>13, KnownUnion
  <2>15. u = At([d EXCEPT !.intersection = h2, !.union = f2], r)
    <3>1. h0 = With(d.intersection, key, r)
      BY <2>9 DEF Known
    <3> QED BY <1>1, <1>2, <1>7, <1>8, <2>1, <2>3, <2>4, <2>8, <2>9, <3>1 DEF intersectPts
  <2>16. d \in CacheType /\ Differences(d, d.complement)
    BY <2>5 DEF CacheOK
  <2>17. PICK x : x = u.cache
    OBVIOUS
  <2>18. x = [d EXCEPT !.intersection = h2, !.union = f2] /\ u.id = r
    BY <2>15, <2>17 DEF At
  <2>19. x \in [idToPts : {d.idToPts}, ptsToId : {d.ptsToId}, union : {f2},
                complement : {d.complement}, intersection : {h2}]
    BY <2>16, <2>18 DEF CacheType
  <2>20. /\ CacheOK(x) /\ Grows(d, x) /\ Id(x) = Id(d)
         /\ Interned(d) => Interned(x)
         /\ \A k \in Id(d) : Meaning(x, k) = Meaning(d, k)
    BY <2>5, <2>12, <2>14, <2>16, <2>19, ResultRemembered
  <2>21. Grows(c, x)
    BY <2>5, <2>20, GrowsFurther
  <2>22. u.id \in Id(x) /\ Meaning(x, u.id) = Meaning(c, i) \cap Meaning(c, j)
    BY <2>2, <2>5, <2>18, <2>20
  <2> QED BY <1>2, <2>5, <2>17, <2>20, <2>21, <2>22 DEF Gives
<1> QED BY <1>5, <1>6, <1>7, <1>8
(* Of some places of a list, one is the last. *)
LEMMA LastPlace ==
  ASSUME NEW n \in Nat, NEW S \in SUBSET (1..n), S # {}
  PROVE  \E i \in S : \A j \in S : j <= i
<1> DEFINE T == {n - i : i \in S}
           R == {x \in Nat \X Nat : x[1] < x[2]}
<1>1. IsWellFoundedOn(R, Nat)
  BY NatLessThanWellFounded DEF OpToRel
<1>2. T \subseteq Nat /\ T # {}
  <2>1. \A i \in S : n - i \in Nat
    OBVIOUS
  <2>2. PICK i \in S : TRUE
    OBVIOUS
  <2>3. n - i \in T
    BY <2>2
  <2> QED BY <2>1, <2>3
<1>3. PICK x \in T : \A y \in T : <<y, x>> \notin R
  <2> HIDE DEF R, T
  <2> QED BY <1>1, <1>2, WFMin
<1>4. PICK i \in S : x = n - i
  OBVIOUS
<1>5. ASSUME NEW j \in S PROVE j <= i
  <2>1. n - j \in T /\ <<n - j, x>> \notin R
    BY <1>3
  <2>2. n - j \in Nat /\ x \in Nat /\ ~(n - j < x)
    BY <1>2, <2>1
  <2> QED BY <1>4, <2>2
<1> QED BY <1>5

(* Making the sets anew changes no set; where sets are represented in one way
   only it changes nothing. *)
LEMMA RemapOK ==
  ASSUME Representation, NEW c, CacheOK(c), NEW d, d = remapAllPts(c)
  PROVE  /\ CacheOK(d) /\ Grows(c, d) /\ Id(d) = Id(c)
         /\ Canonical /\ Interned(c) => Interned(d)
<1>1. PICK sets : sets = [i \in DOMAIN c.idToPts |-> Rebuilt(c.idToPts[i])]
  OBVIOUS
<1> DEFINE last(p) == CHOOSE i \in DOMAIN sets :
                        sets[i] = p /\ \A j \in DOMAIN sets : sets[j] = p => j <= i
<1>2. PICK n : n = Len(c.idToPts)
  OBVIOUS
<1>3. c \in CacheType /\ c.idToPts \in Seq(Rep) /\ n \in Nat \ {0} /\ DOMAIN c.idToPts = 1..n
  BY <1>2 DEF CacheOK, CacheType
<1>4. /\ DOMAIN sets = 1..n /\ sets \in [1..n -> Rep]
      /\ \A i \in 1..n : Elems(sets[i]) = Elems(c.idToPts[i])
  BY <1>1, <1>3 DEF Representation
<1>5. sets \in Seq(Rep) /\ Len(sets) = n /\ sets # <<>>
  BY <1>3, <1>4
<1>6. PICK P : P = {sets[i] : i \in DOMAIN sets}
  OBVIOUS
<1>7. PICK g : g = [p \in P |-> last(p) - 1]
  OBVIOUS
<1>8. d = [c EXCEPT !.idToPts = sets, !.ptsToId = g]
  BY <1>1, <1>6, <1>7 DEF remapAllPts
<1>9. ASSUME NEW p \in P
      PROVE  /\ last(p) \in 1..n /\ sets[last(p)] = p
             /\ \A j \in 1..n : sets[j] = p => j <= last(p)
  <2>1. PICK S : S = {i \in 1..n : sets[i] = p}
    OBVIOUS
  <2>2. S \in SUBSET (1..n) /\ S # {}
    BY <1>4, <1>6, <2>1
  <2>3. \E i \in S : \A j \in S : j <= i
    BY <1>3, <2>2, LastPlace
  <2>4. \E i \in 1..n : sets[i] = p /\ \A j \in 1..n : sets[j] = p => j <= i
    BY <2>1, <2>3
  <2> QED BY <1>4, <2>4
<1>10. P \in SUBSET Rep /\ g \in [P -> Nat]
  <2>1. \A p \in P : last(p) - 1 \in Nat
    <3> HIDE DEF last
    <3> QED BY <1>3, <1>9
  <2> HIDE DEF last
  <2> QED BY <1>4, <1>6, <1>7, <2>1
<1> HIDE DEF last
<1>11. /\ d.idToPts = sets /\ d.ptsToId = g
       /\ d.union = c.union /\ d.complement = c.complement /\ d.intersection = c.intersection
  BY <1>3, <1>8 DEF CacheType
<1>12. d \in CacheType
  <2>1. g \in Partial(Rep, Nat)
    BY <1>10 DEF Partial
  <2> QED BY <1>3, <1>5, <1>8, <2>1 DEF CacheType
<1>13. Id(d) = 0..(n - 1) /\ Id(c) = 0..(n - 1)
  BY <1>2, <1>5, <1>11 DEF Id
<1>14. \A i \in Id(c) : i + 1 \in 1..n /\ getActualPts(d, i) = sets[i + 1]
                        /\ getActualPts(c, i) = c.idToPts[i + 1]
  BY <1>3, <1>11, <1>13 DEF getActualPts
<1>15. Grows(c, d)
  BY <1>4, <1>13, <1>14 DEF Grows, Meaning
<1>16. Unions(d, d.union) /\ Differences(d, d.complement) /\ Meets(d, d.intersection)
  BY <1>11, <1>15, GrowingKeeps DEF CacheOK
<1>17. ASSUME NEW p \in DOMAIN d.ptsToId
       PROVE  d.ptsToId[p] \in Id(d) /\ Meaning(d, d.ptsToId[p]) = Elems(p)
  <2>1. p \in P /\ d.ptsToId[p] = last(p) - 1
    BY <1>7, <1>11
  <2>2. last(p) \in 1..n /\ sets[last(p)] = p
    BY <1>9, <2>1
  <2>3. d.ptsToId[p] \in Id(d) /\ d.ptsToId[p] + 1 = last(p)
    BY <1>3, <1>13, <2>1, <2>2
  <2> QED BY <1>13, <1>14, <2>2, <2>3 DEF Meaning
<1>18. Meaning(d, 0) = {}
  BY <1>15, ZeroId DEF Grows
<1>19. CacheOK(d)
  BY <1>5, <1>11, <1>12, <1>16, <1>17, <1>18 DEF CacheOK
<1>20. ASSUME Canonical, Interned(c) PROVE Interned(d)
  <2>1. \A i \in 1..n : c.idToPts[i] \in Rep /\ sets[i] \in Rep
    BY <1>3, <1>4
  <2>2. \A i \in 1..n : sets[i] = c.idToPts[i]
    BY <1>4, <1>20, <2>1 DEF Canonical
  <2>3. \A i \in Id(c) : getActualPts(d, i) = getActualPts(c, i)
    BY <1>14, <2>2
  <2>4. \A i \in Id(d) : getActualPts(d, i) \in DOMAIN d.ptsToId
    BY <1>4, <1>6, <1>7, <1>11, <1>13, <1>14
  <2> QED BY <1>13, <1>20, <2>3, <2>4 DEF Interned
<1> QED BY <1>13, <1>15, <1>19, <1>20
-----------------------------------------------------------------------------
(* The points-to data *)

(* The sets the ids of a map stand for. *)
SetsOf(c, map) == [k \in Key |-> Meaning(c, map[k])]

(* The maps have ids of the cache, and the reverse map is exact. *)
Data(c, pm, rm, dm, qm) ==
  /\ CacheOK(c) /\ pm \in [Key -> Id(c)] /\ dm \in [Key -> Id(c)] /\ qm \in [Key -> Id(c)]
  /\ rm \in [Obj -> SUBSET Key]
  /\ \A o \in Obj : rm[o] = {k \in Key : o \in SetsOf(c, pm)[k]}

(* The inductive invariant. *)
PtInv == Data(cache, ptsMap, revPtsMap, diffPtsMap, propaPtsMap)

(* Of what can be told from results, equal sets have equal ids. *)
OneId(c) == \A i, j \in Id(c) : Meaning(c, i) = Meaning(c, j) => i = j

(* A set that is represented in one way has one id. *)
LEMMA InternedOneId ==
  ASSUME Canonical, NEW c, CacheOK(c), Interned(c)
  PROVE  OneId(c)
<1>1. \A i \in Id(c) : getActualPts(c, i) \in Rep /\ Meaning(c, i) = Elems(getActualPts(c, i))
  BY ActualInRep
<1> QED BY <1>1 DEF OneId, Interned, Canonical

(* A map that is left alone while the cache grows has the sets it had. *)
LEMMA KeptMap ==
  ASSUME NEW c, NEW d, Grows(c, d), NEW f, f \in [Key -> Id(c)]
  PROVE  f \in [Key -> Id(d)] /\ SetsOf(d, f) = SetsOf(c, f)
<1>1. \A k \in Key : f[k] \in Id(c) /\ f[k] \in Id(d) /\ Meaning(d, f[k]) = Meaning(c, f[k])
  BY DEF Grows
<1> QED BY <1>1 DEF SetsOf

(* The map f of c, with id i for k, is a map of d. *)
Changed(c, d, f, k, i) ==
  /\ [f EXCEPT ![k] = i] \in [Key -> Id(d)]
  /\ SetsOf(d, [f EXCEPT ![k] = i]) = [SetsOf(c, f) EXCEPT ![k] = Meaning(d, i)]

(* A map that gets a new id for a key has the set of that id. *)
LEMMA ChangedMap ==
  ASSUME NEW c, NEW d, Grows(c, d), NEW f, f \in [Key -> Id(c)], NEW k \in Key, NEW i \in Id(d)
  PROVE  Changed(c, d, f, k, i)
<1>0. PICK g, S : g = [f EXCEPT ![k] = i] /\ S = Meaning(d, i)
  OBVIOUS
<1>1. \A x \in Key : f[x] \in Id(c) /\ f[x] \in Id(d) /\ Meaning(d, f[x]) = Meaning(c, f[x])
  BY DEF Grows
<1>2. f \in [Key -> Id(d)]
  BY <1>1
<1>3. g \in [Key -> Id(d)]
  BY <1>0, <1>2
<1>4. \A x \in Key : g[x] = IF x = k THEN i ELSE f[x]
  BY <1>0
<1>5. \A x \in Key : Meaning(d, g[x]) = IF x = k THEN S ELSE Meaning(c, f[x])
  BY <1>0, <1>1, <1>4
<1>6. SetsOf(d, g) = [x \in Key |-> IF x = k THEN S ELSE Meaning(c, f[x])]
  BY <1>5 DEF SetsOf
<1>7. [SetsOf(c, f) EXCEPT ![k] = S] = [x \in Key |-> IF x = k THEN S ELSE Meaning(c, f[x])]
  BY DEF SetsOf
<1> QED BY <1>0, <1>3, <1>6, <1>7 DEF Changed

(* The sets the maps have, in this state and in the next. *)
LEMMA SetsAre ==
  /\ Sets(ptsMap) = SetsOf(cache, ptsMap) /\ Sets(diffPtsMap) = SetsOf(cache, diffPtsMap)
  /\ Sets(propaPtsMap) = SetsOf(cache, propaPtsMap)
  /\ Sets(ptsMap)' = SetsOf(cache', ptsMap') /\ Sets(diffPtsMap)' = SetsOf(cache', diffPtsMap')
  /\ Sets(propaPtsMap)' = SetsOf(cache', propaPtsMap')
BY DEF Sets, SetsOf, Meaning

(* The invariant in the next state. *)
LEMMA PtInvNext ==
  PtInv' <=> Data(cache', ptsMap', revPtsMap', diffPtsMap', propaPtsMap')
BY DEF PtInv

(* Sets are sets of objects. *)
LEMMA MeaningInObj ==
  ASSUME Representation, NEW c, CacheOK(c), NEW i \in Id(c)
  PROVE  Meaning(c, i) \in SUBSET Obj
BY ActualInRep DEF Representation

(* The set of an id joined to the set of a key. *)
LEMMA UnionFromId ==
  ASSUME Representation, PtInv, NEW c, CacheOK(c), Grows(cache, c), NEW dst \in Key, NEW src \in Id(c),
         unionPtsFromId(c, dst, src), NEW S, S = Meaning(c, src)
  PROVE  /\ PtInv' /\ S \in SUBSET Obj
         /\ Interned(c) => Interned(cache')
         /\ OneId(cache') => Promise!Join(dst, S)
<1>1. PICK pm, rm, dm, qm, c0 : pm = ptsMap /\ rm = revPtsMap /\ dm = diffPtsMap /\ qm = propaPtsMap
                               /\ c0 = cache
  OBVIOUS
<1>2. /\ CacheOK(c0) /\ pm \in [Key -> Id(c0)] /\ dm \in [Key -> Id(c0)] /\ qm \in [Key -> Id(c0)]
      /\ rm \in [Obj -> SUBSET Key]
      /\ \A o \in Obj : rm[o] = {k \in Key : o \in SetsOf(c0, pm)[k]}
  BY <1>1 DEF PtInv, Data
<1>3. PICK i : i = pm[dst]
  OBVIOUS
<1>4. i \in Id(c0) /\ i \in Id(c) /\ Meaning(c, i) = Meaning(c0, i)
  BY <1>1, <1>2, <1>3 DEF Grows
<1>5. PICK u : u = unionPts(c, i, src)
  OBVIOUS
<1>6. PICK d, r : d = u.cache /\ r = u.id
  OBVIOUS
<1>7. Gives(c, u, Meaning(c, i) \cup S)
  BY <1>4, <1>5, UnionOK
<1>8. /\ CacheOK(d) /\ Grows(c, d) /\ r \in Id(d) /\ Meaning(d, r) = Meaning(c0, i) \cup S
      /\ Interned(c) => Interned(d)
  BY <1>4, <1>6, <1>7 DEF Gives
<1>9. Grows(c0, d)
  BY <1>1, <1>8, GrowsFurther
<1>10. PICK changed \in BOOLEAN : changed = (r # i)
  OBVIOUS
<1>11. /\ cache' = d /\ ptsMap' = [pm EXCEPT ![dst] = r] /\ result' = changed
       /\ diffPtsMap' = dm /\ propaPtsMap' = qm
  BY <1>1, <1>3, <1>5, <1>6, <1>10 DEF unionPtsFromId
<1>12. src \in Id(d) /\ Meaning(d, src) = S /\ Elems(getActualPts(d, src)) = S
  BY <1>8 DEF Grows, Meaning
<1>13. S \in SUBSET Obj
  BY MeaningInObj
<1>14. revPtsMap' = IF ~changed THEN rm
                    ELSE [o \in Obj |-> IF o \in S THEN rm[o] \cup {dst} ELSE rm[o]]
  BY <1>1, <1>3, <1>5, <1>6, <1>10, <1>12 DEF unionPtsFromId
<1>15. PICK pm2, rm2, sets, T : /\ pm2 = ptsMap' /\ rm2 = revPtsMap' /\ sets = SetsOf(c0, pm)
                                /\ T = Meaning(d, r)
  OBVIOUS
<1>16. pm2 \in [Key -> Id(d)] /\ SetsOf(d, pm2) = [sets EXCEPT ![dst] = T]
  <2>1. pm2 = [pm EXCEPT ![dst] = r]
    BY <1>11, <1>15
  <2>2. Changed(c0, d, pm, dst, r)
    BY <1>2, <1>8, <1>9, ChangedMap
  <2> QED BY <1>15, <2>1, <2>2 DEF Changed
<1>17. dm \in [Key -> Id(d)] /\ qm \in [Key -> Id(d)]
       /\ SetsOf(d, dm) = SetsOf(c0, dm) /\ SetsOf(d, qm) = SetsOf(c0, qm)
  BY <1>2, <1>9, KeptMap
<1>18. sets = [k \in Key |-> sets[k]] /\ sets[dst] = Meaning(c0, i) /\ T = sets[dst] \cup S
       /\ \A k \in Key : SetsOf(d, pm2)[k] = IF k = dst THEN T ELSE sets[k]
  BY <1>3, <1>8, <1>15, <1>16 DEF SetsOf
<1>19. ~changed => S \subseteq sets[dst]
  BY <1>8, <1>9, <1>10, <1>4, <1>18 DEF Grows
<1>20. rm2 \in [Obj -> SUBSET Key] /\ \A o \in Obj : rm2[o] = {k \in Key : o \in SetsOf(d, pm2)[k]}
  <2>1. \A o \in Obj : rm[o] = {k \in Key : o \in sets[k]}
    BY <1>2, <1>15
  <2>2. CASE changed
    <3>1. rm2 = [o \in Obj |-> IF o \in S THEN rm[o] \cup {dst} ELSE rm[o]]
      BY <1>14, <1>15, <2>2
    <3>2. rm2 \in [Obj -> SUBSET Key]
      BY <1>2, <3>1
    <3>3. ASSUME NEW o \in Obj PROVE rm2[o] = {k \in Key : o \in SetsOf(d, pm2)[k]}
      <4>1. rm2[o] = IF o \in S THEN rm[o] \cup {dst} ELSE rm[o]
        BY <3>1
      <4> QED BY <1>18, <2>1, <4>1
    <3> QED BY <3>2, <3>3
  <2>3. CASE ~changed
    <3>1. rm2 = rm
      BY <1>14, <1>15, <2>3
    <3>2. \A k \in Key : SetsOf(d, pm2)[k] = sets[k]
      BY <1>18, <1>19, <2>3
    <3> QED BY <1>2, <2>1, <3>1, <3>2
  <2> QED BY <2>2, <2>3
<1>21. PtInv'
  BY <1>8, <1>11, <1>15, <1>16, <1>17, <1>20, PtInvNext DEF Data
<1>22. Interned(c) => Interned(cache')
  BY <1>8, <1>11
<1>23. ASSUME OneId(cache') PROVE Promise!Join(dst, S)
  <2>1. Sets(ptsMap)' = [Sets(ptsMap) EXCEPT ![dst] = @ \cup S]
    <3>1. Sets(ptsMap) = sets /\ Sets(ptsMap)' = [sets EXCEPT ![dst] = sets[dst] \cup S]
      BY <1>1, <1>11, <1>15, <1>16, <1>18, SetsAre
    <3> QED BY <3>1
  <2>2. Sets(diffPtsMap)' = Sets(diffPtsMap) /\ Sets(propaPtsMap)' = Sets(propaPtsMap)
    BY <1>1, <1>11, <1>17, SetsAre
  <2>3. changed <=> ~(S \subseteq Sets(ptsMap)[dst])
    <3>1. Sets(ptsMap)[dst] = sets[dst]
      BY <1>1, <1>15, SetsAre
    <3>2. S \subseteq sets[dst] => Meaning(d, r) = Meaning(d, i) /\ i \in Id(d)
      BY <1>4, <1>8, <1>9, <1>18 DEF Grows
    <3>3. S \subseteq sets[dst] => r = i
      BY <1>8, <1>11, <1>23, <3>2 DEF OneId
    <3> QED BY <1>10, <1>19, <3>1, <3>3
  <2>4. result' = ~(S \subseteq Sets(ptsMap)[dst])
    BY <1>11, <2>3, Zenon
  <2> QED BY <2>1, <2>2, <2>4 DEF Promise!Join
<1> QED BY <1>13, <1>21, <1>22, <1>23
(* What a step keeps, and the step of the promise it is. *)
Stepped ==
  /\ PtInv'
  /\ Canonical /\ Interned(cache) => Interned(cache')
  /\ OneId(cache') => Promise!Next

(* The operations that join a set to that of a key. *)
LEMMA JoinStepped ==
  ASSUME Representation, PtInv, NEW k \in Key,
         \/ \E o \in Obj : AddPts(k, o)
         \/ \E l \in Key : UnionPts(k, l)
         \/ \E p \in Rep : UnionData(k, p)
  PROVE  Stepped
<1>1. CacheOK(cache) /\ ptsMap \in [Key -> Id(cache)] /\ Grows(cache, cache)
  BY DEF PtInv, Data, Grows
<1>2. ASSUME NEW p \in Rep, NEW e, e = emplacePts(cache, p), unionPtsFromId(e.cache, k, e.id)
      PROVE  Stepped
  <2>1. PICK c, i : c = e.cache /\ i = e.id
    OBVIOUS
  <2>2. CacheOK(c) /\ Grows(cache, c) /\ i \in Id(c) /\ (Interned(cache) => Interned(c))
    BY <1>1, <1>2, <2>1, EmplaceOK
  <2>3. PICK S : S = Meaning(c, i)
    OBVIOUS
  <2>4. /\ PtInv' /\ S \in SUBSET Obj
        /\ Interned(c) => Interned(cache')
        /\ OneId(cache') => Promise!Join(k, S)
    BY <1>2, <2>1, <2>2, <2>3, UnionFromId
  <2> QED BY <2>2, <2>4 DEF Stepped, Promise!Next
<1>3. ASSUME NEW o \in Obj, AddPts(k, o) PROVE Stepped
  <2>1. Single(o) \in Rep
    BY DEF Representation
  <2>2. PICK p \in Rep : p = Single(o)
    BY <2>1
  <2>3. PICK e : e = emplacePts(cache, p)
    OBVIOUS
  <2>4. unionPtsFromId(e.cache, k, e.id)
    BY <1>3, <2>2, <2>3 DEF AddPts
  <2> QED BY <1>2, <2>3, <2>4
<1>4. ASSUME NEW p \in Rep, UnionData(k, p) PROVE Stepped
  <2>1. PICK e : e = emplacePts(cache, p)
    OBVIOUS
  <2>2. unionPtsFromId(e.cache, k, e.id)
    BY <1>4, <2>1 DEF UnionData
  <2> QED BY <1>2, <2>1, <2>2
<1>5. ASSUME NEW l \in Key, UnionPts(k, l) PROVE Stepped
  <2>1. PICK c, i : c = cache /\ i = ptsMap[l]
    OBVIOUS
  <2>2. CacheOK(c) /\ Grows(cache, c) /\ i \in Id(c) /\ unionPtsFromId(c, k, i)
    BY <1>1, <1>5, <2>1 DEF UnionPts
  <2>3. PICK S : S = Meaning(c, i)
    OBVIOUS
  <2>4. /\ PtInv' /\ S \in SUBSET Obj
        /\ Interned(c) => Interned(cache')
        /\ OneId(cache') => Promise!Join(k, S)
    BY <2>2, <2>3, UnionFromId
  <2> QED BY <2>1, <2>4 DEF Stepped, Promise!Next
<1> QED BY <1>3, <1>4, <1>5

(* An object is taken out of the set of a key. *)
LEMMA ClearStepped ==
  ASSUME Representation, PtInv, NEW k \in Key, NEW o \in Obj, ClearPts(k, o)
  PROVE  Stepped
<1>1. PICK pm, rm, dm, qm, c : /\ pm = ptsMap /\ rm = revPtsMap /\ dm = diffPtsMap
                               /\ qm = propaPtsMap /\ c = cache
  OBVIOUS
<1>2. /\ CacheOK(c) /\ pm \in [Key -> Id(c)] /\ dm \in [Key -> Id(c)] /\ qm \in [Key -> Id(c)]
      /\ rm \in [Obj -> SUBSET Key]
      /\ \A x \in Obj : rm[x] = {y \in Key : x \in SetsOf(c, pm)[y]}
  BY <1>1 DEF PtInv, Data
<1>3. PICK p, i : p = Single(o) /\ i = pm[k]
  OBVIOUS
<1>4. p \in Rep /\ Elems(p) = {o} /\ i \in Id(c)
  BY <1>2, <1>3 DEF Representation
<1>5. PICK e : e = emplacePts(c, p)
  OBVIOUS
<1>6. PICK c1, j : c1 = e.cache /\ j = e.id
  OBVIOUS
<1>7. /\ CacheOK(c1) /\ Grows(c, c1) /\ j \in Id(c1) /\ Meaning(c1, j) = {o}
      /\ Interned(c) => Interned(c1)
  BY <1>2, <1>4, <1>5, <1>6, EmplaceOK
<1>8. i \in Id(c1) /\ Meaning(c1, i) = Meaning(c, i)
  BY <1>4, <1>7 DEF Grows
<1>9. PICK u : u = complementPts(c1, i, j)
  OBVIOUS
<1>10. PICK d, r : d = u.cache /\ r = u.id
  OBVIOUS
<1>11. Gives(c1, u, Meaning(c1, i) \ Meaning(c1, j))
  BY <1>7, <1>8, <1>9, ComplementOK
<1>12. /\ CacheOK(d) /\ Grows(c1, d) /\ r \in Id(d) /\ Meaning(d, r) = Meaning(c, i) \ {o}
       /\ Interned(c1) => Interned(d)
  BY <1>7, <1>8, <1>10, <1>11 DEF Gives
<1>13. Grows(c, d)
  BY <1>7, <1>12, GrowsFurther
<1>14. /\ cache' = d /\ ptsMap' = [pm EXCEPT ![k] = r] /\ result' = FALSE
       /\ diffPtsMap' = dm /\ propaPtsMap' = qm
       /\ revPtsMap' = IF r = i THEN rm ELSE [rm EXCEPT ![o] = @ \ {k}]
  BY <1>1, <1>3, <1>5, <1>6, <1>9, <1>10 DEF ClearPts
<1>15. PICK pm2, rm2, sets, T : /\ pm2 = ptsMap' /\ rm2 = revPtsMap' /\ sets = SetsOf(c, pm)
                                /\ T = Meaning(d, r)
  OBVIOUS
<1>16. pm2 \in [Key -> Id(d)] /\ SetsOf(d, pm2) = [sets EXCEPT ![k] = T]
  <2>1. Changed(c, d, pm, k, r)
    BY <1>2, <1>12, <1>13, ChangedMap
  <2> QED BY <1>14, <1>15, <2>1 DEF Changed
<1>17. dm \in [Key -> Id(d)] /\ qm \in [Key -> Id(d)]
       /\ SetsOf(d, dm) = SetsOf(c, dm) /\ SetsOf(d, qm) = SetsOf(c, qm)
  BY <1>2, <1>13, KeptMap
<1>18. sets = [y \in Key |-> sets[y]] /\ sets[k] = Meaning(c, i) /\ T = sets[k] \ {o}
       /\ \A y \in Key : SetsOf(d, pm2)[y] = IF y = k THEN T ELSE sets[y]
  BY <1>3, <1>12, <1>15, <1>16 DEF SetsOf
<1>19. r = i => o \notin sets[k]
  BY <1>4, <1>12, <1>13, <1>18 DEF Grows
<1>20. rm2 \in [Obj -> SUBSET Key] /\ \A x \in Obj : rm2[x] = {y \in Key : x \in SetsOf(d, pm2)[y]}
  <2>1. \A x \in Obj : rm[x] = {y \in Key : x \in sets[y]}
    BY <1>2, <1>15
  <2>2. CASE r # i
    <3>1. rm2 = [rm EXCEPT ![o] = @ \ {k}]
      BY <1>14, <1>15, <2>2
    <3>2. rm2 \in [Obj -> SUBSET Key]
      BY <1>2, <3>1
    <3>3. ASSUME NEW x \in Obj PROVE rm2[x] = {y \in Key : x \in SetsOf(d, pm2)[y]}
      <4>1. rm2[x] = IF x = o THEN rm[x] \ {k} ELSE rm[x]
        BY <1>2, <3>1
      <4> QED BY <1>18, <2>1, <4>1
    <3> QED BY <3>2, <3>3
  <2>3. CASE r = i
    <3>1. rm2 = rm
      BY <1>14, <1>15, <2>3
    <3>2. \A y \in Key : SetsOf(d, pm2)[y] = sets[y]
      BY <1>18, <1>19, <2>3
    <3> QED BY <1>2, <2>1, <3>1, <3>2
  <2> QED BY <2>2, <2>3
<1>21. PtInv'
  BY <1>12, <1>14, <1>15, <1>16, <1>17, <1>20, PtInvNext DEF Data
<1>22. Promise!Remove(k, {o})
  <2>1. Sets(ptsMap)' = [Sets(ptsMap) EXCEPT ![k] = @ \ {o}]
    <3>1. Sets(ptsMap) = sets /\ Sets(ptsMap)' = [sets EXCEPT ![k] = sets[k] \ {o}]
      BY <1>1, <1>14, <1>15, <1>16, <1>18, SetsAre
    <3> QED BY <3>1
  <2>2. Sets(diffPtsMap)' = Sets(diffPtsMap) /\ Sets(propaPtsMap)' = Sets(propaPtsMap)
    BY <1>1, <1>14, <1>17, SetsAre
  <2> QED BY <1>14, <2>1, <2>2 DEF Promise!Remove
<1>23. Promise!Next
  BY <1>22 DEF Promise!Next
<1> QED BY <1>1, <1>7, <1>12, <1>14, <1>21, <1>23 DEF Stepped

(* A set is emptied. *)
LEMMA ClearFullStepped ==
  ASSUME Representation, PtInv, NEW k \in Key, ClearFullPts(k)
  PROVE  Stepped
<1>1. PICK pm, rm, dm, qm, c : /\ pm = ptsMap /\ rm = revPtsMap /\ dm = diffPtsMap
                               /\ qm = propaPtsMap /\ c = cache
  OBVIOUS
<1>2. /\ CacheOK(c) /\ pm \in [Key -> Id(c)] /\ dm \in [Key -> Id(c)] /\ qm \in [Key -> Id(c)]
      /\ rm \in [Obj -> SUBSET Key]
      /\ \A x \in Obj : rm[x] = {y \in Key : x \in SetsOf(c, pm)[y]}
  BY <1>1 DEF PtInv, Data
<1>3. Grows(c, c) /\ 0 \in Id(c) /\ Meaning(c, 0) = {}
  BY <1>2, ZeroId DEF Grows
<1>4. PICK sets, pm2, rm2 : sets = SetsOf(c, pm) /\ pm2 = ptsMap' /\ rm2 = revPtsMap'
  OBVIOUS
<1>5. /\ cache' = c /\ ptsMap' = [pm EXCEPT ![k] = 0] /\ result' = FALSE
      /\ diffPtsMap' = dm /\ propaPtsMap' = qm
      /\ rm2 = [x \in Obj |-> IF x \in sets[k] THEN rm[x] \ {k} ELSE rm[x]]
  BY <1>1, <1>4 DEF ClearFullPts, Pts, SetsOf, Meaning, emptyPointsToId
<1>6. pm2 \in [Key -> Id(c)] /\ SetsOf(c, pm2) = [sets EXCEPT ![k] = {}]
  <2>1. Changed(c, c, pm, k, 0)
    BY <1>2, <1>3, ChangedMap
  <2> QED BY <1>3, <1>4, <1>5, <2>1 DEF Changed
<1>7. sets = [y \in Key |-> sets[y]] /\ \A y \in Key : SetsOf(c, pm2)[y] = IF y = k THEN {} ELSE sets[y]
  BY <1>4, <1>6 DEF SetsOf
<1>8. rm2 \in [Obj -> SUBSET Key] /\ \A x \in Obj : rm2[x] = {y \in Key : x \in SetsOf(c, pm2)[y]}
  <2>1. rm2 \in [Obj -> SUBSET Key]
    BY <1>2, <1>5
  <2>2. ASSUME NEW x \in Obj PROVE rm2[x] = {y \in Key : x \in SetsOf(c, pm2)[y]}
    <3>1. rm[x] = {y \in Key : x \in sets[y]} /\ rm2[x] = IF x \in sets[k] THEN rm[x] \ {k} ELSE rm[x]
      BY <1>2, <1>4, <1>5
    <3> QED BY <1>7, <3>1
  <2> QED BY <2>1, <2>2
<1>9. PtInv'
  <2>1. Data(c, pm2, rm2, dm, qm)
    BY <1>2, <1>6, <1>8 DEF Data
  <2> QED BY <1>4, <1>5, <2>1, PtInvNext
<1>10. Promise!Remove(k, sets[k]) /\ sets[k] \in SUBSET Obj
  <2>1. Sets(ptsMap)' = [Sets(ptsMap) EXCEPT ![k] = @ \ sets[k]]
    <3>1. Sets(ptsMap) = sets /\ Sets(ptsMap)' = [sets EXCEPT ![k] = {}]
      BY <1>1, <1>4, <1>5, <1>6, SetsAre
    <3>2. sets[k] \ sets[k] = {}
      OBVIOUS
    <3> QED BY <3>1, <3>2
  <2>2. Sets(diffPtsMap)' = Sets(diffPtsMap) /\ Sets(propaPtsMap)' = Sets(propaPtsMap)
    BY <1>1, <1>5, SetsAre
  <2>3. pm[k] \in Id(c) /\ sets[k] = Meaning(c, pm[k])
    BY <1>2, <1>4 DEF SetsOf
  <2> QED BY <1>2, <1>5, <2>1, <2>2, <2>3, MeaningInObj DEF Promise!Remove
<1>11. Promise!Next
  BY <1>10 DEF Promise!Next
<1> QED BY <1>1, <1>5, <1>9, <1>11 DEF Stepped
(* What is new of a set is worked out, and the set noted as propagated. *)
LEMMA DiffStepped ==
  ASSUME Representation, PtInv, NEW k \in Key, ComputeDiffPts(k)
  PROVE  Stepped
<1>1. PICK pm, rm, dm, qm, c : /\ pm = ptsMap /\ rm = revPtsMap /\ dm = diffPtsMap
                               /\ qm = propaPtsMap /\ c = cache
  OBVIOUS
<1>2. /\ CacheOK(c) /\ pm \in [Key -> Id(c)] /\ dm \in [Key -> Id(c)] /\ qm \in [Key -> Id(c)]
      /\ rm \in [Obj -> SUBSET Key]
      /\ \A x \in Obj : rm[x] = {y \in Key : x \in SetsOf(c, pm)[y]}
  BY <1>1 DEF PtInv, Data
<1>3. PICK i, j, p : i = pm[k] /\ j = qm[k] /\ p = getActualPts(c, i)
  OBVIOUS
<1>4. i \in Id(c) /\ j \in Id(c) /\ p \in Rep /\ Elems(p) = Meaning(c, i)
  BY <1>2, <1>3, ActualInRep
<1>5. PICK e : e = emplacePts(c, p)
  OBVIOUS
<1>6. PICK c1, a : c1 = e.cache /\ a = e.id
  OBVIOUS
<1>7. /\ CacheOK(c1) /\ Grows(c, c1) /\ a \in Id(c1) /\ Meaning(c1, a) = Meaning(c, i)
      /\ Interned(c) => Interned(c1)
  BY <1>2, <1>4, <1>5, <1>6, EmplaceOK
<1>8. j \in Id(c1) /\ Meaning(c1, j) = Meaning(c, j)
  BY <1>4, <1>7 DEF Grows
<1>9. PICK u : u = complementPts(c1, a, j)
  OBVIOUS
<1>10. PICK d, r : d = u.cache /\ r = u.id
  OBVIOUS
<1>11. Gives(c1, u, Meaning(c1, a) \ Meaning(c1, j))
  BY <1>7, <1>8, <1>9, ComplementOK
<1>12. /\ CacheOK(d) /\ Grows(c1, d) /\ r \in Id(d) /\ Meaning(d, r) = Meaning(c, i) \ Meaning(c, j)
       /\ Interned(c1) => Interned(d)
  BY <1>7, <1>8, <1>10, <1>11 DEF Gives
<1>13. Grows(c, d) /\ a \in Id(d) /\ Meaning(d, a) = Meaning(c, i)
  <2>1. Grows(c, d)
    BY <1>7, <1>12, GrowsFurther
  <2> QED BY <1>7, <1>12, <2>1 DEF Grows
<1>14. /\ cache' = d /\ ptsMap' = pm /\ revPtsMap' = rm
       /\ diffPtsMap' = [dm EXCEPT ![k] = r] /\ propaPtsMap' = [qm EXCEPT ![k] = a]
       /\ result' = (r # emptyPointsToId)
  BY <1>1, <1>3, <1>5, <1>6, <1>9, <1>10 DEF ComputeDiffPts
<1>15. pm \in [Key -> Id(d)] /\ SetsOf(d, pm) = SetsOf(c, pm)
  BY <1>2, <1>13, KeptMap
<1>16. /\ [dm EXCEPT ![k] = r] \in [Key -> Id(d)]
       /\ SetsOf(d, [dm EXCEPT ![k] = r]) = [SetsOf(c, dm) EXCEPT ![k] = Meaning(d, r)]
  <2>1. Changed(c, d, dm, k, r)
    BY <1>2, <1>12, <1>13, ChangedMap
  <2> QED BY <2>1 DEF Changed
<1>17. /\ [qm EXCEPT ![k] = a] \in [Key -> Id(d)]
       /\ SetsOf(d, [qm EXCEPT ![k] = a]) = [SetsOf(c, qm) EXCEPT ![k] = Meaning(d, a)]
  <2>1. Changed(c, d, qm, k, a)
    BY <1>2, <1>13, ChangedMap
  <2> QED BY <2>1 DEF Changed
<1>18. PtInv'
  <2>1. PICK dm2, qm2 : dm2 = [dm EXCEPT ![k] = r] /\ qm2 = [qm EXCEPT ![k] = a]
    OBVIOUS
  <2>2. Data(d, pm, rm, dm2, qm2)
    BY <1>2, <1>12, <1>15, <1>16, <1>17, <2>1 DEF Data
  <2> QED BY <1>14, <2>1, <2>2, PtInvNext
<1>19. PICK S : S = Meaning(c, i) \ Meaning(c, j)
  OBVIOUS
<1>20. Sets(ptsMap)[k] = Meaning(c, i) /\ Sets(propaPtsMap)[k] = Meaning(c, j)
  BY <1>1, <1>3, SetsAre DEF SetsOf
<1>21. ASSUME OneId(cache') PROVE Promise!ComputeDiff(k)
  <2>1. Sets(diffPtsMap)' = [Sets(diffPtsMap) EXCEPT ![k] = S]
    BY <1>1, <1>12, <1>14, <1>16, <1>19, SetsAre
  <2>2. Sets(propaPtsMap)' = [Sets(propaPtsMap) EXCEPT ![k] = Meaning(c, i)]
    BY <1>1, <1>13, <1>14, <1>17, SetsAre
  <2>3. Sets(ptsMap)' = Sets(ptsMap)
    BY <1>1, <1>14, <1>15, SetsAre
  <2>4. r # emptyPointsToId <=> S # {}
    <3>1. 0 \in Id(d) /\ Meaning(d, 0) = {}
      BY <1>12, ZeroId
    <3> QED BY <1>12, <1>14, <1>19, <1>21, <3>1 DEF OneId, emptyPointsToId
  <2>5. result' = (S # {})
    BY <1>14, <2>4, Zenon
  <2> QED BY <1>19, <1>20, <2>1, <2>2, <2>3, <2>5 DEF Promise!ComputeDiff
<1> QED BY <1>1, <1>7, <1>12, <1>14, <1>18, <1>21 DEF Stepped, Promise!Next

(* dst has propagated what both have. *)
LEMMA PropaStepped ==
  ASSUME Representation, PtInv, NEW src \in Key, NEW dst \in Key, UpdatePropaPtsMap(src, dst)
  PROVE  Stepped
<1>1. PICK pm, rm, dm, qm, c : /\ pm = ptsMap /\ rm = revPtsMap /\ dm = diffPtsMap
                               /\ qm = propaPtsMap /\ c = cache
  OBVIOUS
<1>2. /\ CacheOK(c) /\ pm \in [Key -> Id(c)] /\ dm \in [Key -> Id(c)] /\ qm \in [Key -> Id(c)]
      /\ rm \in [Obj -> SUBSET Key]
      /\ \A x \in Obj : rm[x] = {y \in Key : x \in SetsOf(c, pm)[y]}
  BY <1>1 DEF PtInv, Data
<1>3. PICK i, j : i = qm[dst] /\ j = qm[src]
  OBVIOUS
<1>4. i \in Id(c) /\ j \in Id(c)
  BY <1>2, <1>3
<1>5. PICK u : u = intersectPts(c, i, j)
  OBVIOUS
<1>6. PICK d, r : d = u.cache /\ r = u.id
  OBVIOUS
<1>7. Gives(c, u, Meaning(c, i) \cap Meaning(c, j))
  BY <1>2, <1>4, <1>5, IntersectOK
<1>8. /\ CacheOK(d) /\ Grows(c, d) /\ r \in Id(d) /\ Meaning(d, r) = Meaning(c, i) \cap Meaning(c, j)
      /\ Interned(c) => Interned(d)
  BY <1>6, <1>7 DEF Gives
<1>9. /\ cache' = d /\ ptsMap' = pm /\ revPtsMap' = rm /\ diffPtsMap' = dm
      /\ propaPtsMap' = [qm EXCEPT ![dst] = r] /\ result' = FALSE
  BY <1>1, <1>3, <1>5, <1>6 DEF UpdatePropaPtsMap
<1>10. /\ pm \in [Key -> Id(d)] /\ SetsOf(d, pm) = SetsOf(c, pm)
       /\ dm \in [Key -> Id(d)] /\ SetsOf(d, dm) = SetsOf(c, dm)
  BY <1>2, <1>8, KeptMap
<1>11. /\ [qm EXCEPT ![dst] = r] \in [Key -> Id(d)]
       /\ SetsOf(d, [qm EXCEPT ![dst] = r]) = [SetsOf(c, qm) EXCEPT ![dst] = Meaning(d, r)]
  <2>1. Changed(c, d, qm, dst, r)
    BY <1>2, <1>8, ChangedMap
  <2> QED BY <2>1 DEF Changed
<1>12. PtInv'
  <2>1. PICK qm2 : qm2 = [qm EXCEPT ![dst] = r]
    OBVIOUS
  <2>2. Data(d, pm, rm, dm, qm2)
    BY <1>2, <1>8, <1>10, <1>11, <2>1 DEF Data
  <2> QED BY <1>9, <2>1, <2>2, PtInvNext
<1>13. Promise!UpdatePropa(src, dst)
  <2>1. Sets(propaPtsMap)[dst] = Meaning(c, i) /\ Sets(propaPtsMap)[src] = Meaning(c, j)
    BY <1>1, <1>3, SetsAre DEF SetsOf
  <2>2. Sets(propaPtsMap)' = [Sets(propaPtsMap) EXCEPT ![dst] = Meaning(c, i) \cap Meaning(c, j)]
    BY <1>1, <1>8, <1>9, <1>11, SetsAre
  <2>3. Sets(ptsMap)' = Sets(ptsMap) /\ Sets(diffPtsMap)' = Sets(diffPtsMap)
    BY <1>1, <1>9, <1>10, SetsAre
  <2> QED BY <1>9, <2>1, <2>2, <2>3 DEF Promise!UpdatePropa
<1> QED BY <1>1, <1>8, <1>9, <1>12, <1>13 DEF Stepped, Promise!Next

(* Nothing has been propagated. *)
LEMMA ClearPropaStepped ==
  ASSUME Representation, PtInv, NEW k \in Key, ClearPropaPts(k)
  PROVE  Stepped
<1>1. PICK pm, rm, dm, qm, c : /\ pm = ptsMap /\ rm = revPtsMap /\ dm = diffPtsMap
                               /\ qm = propaPtsMap /\ c = cache
  OBVIOUS
<1>2. /\ CacheOK(c) /\ pm \in [Key -> Id(c)] /\ dm \in [Key -> Id(c)] /\ qm \in [Key -> Id(c)]
      /\ rm \in [Obj -> SUBSET Key]
      /\ \A x \in Obj : rm[x] = {y \in Key : x \in SetsOf(c, pm)[y]}
  BY <1>1 DEF PtInv, Data
<1>3. Grows(c, c) /\ 0 \in Id(c) /\ Meaning(c, 0) = {}
  BY <1>2, ZeroId DEF Grows
<1>4. /\ cache' = c /\ ptsMap' = pm /\ revPtsMap' = rm /\ diffPtsMap' = dm
      /\ propaPtsMap' = [qm EXCEPT ![k] = 0] /\ result' = FALSE
  BY <1>1 DEF ClearPropaPts, emptyPointsToId
<1>5. /\ [qm EXCEPT ![k] = 0] \in [Key -> Id(c)]
      /\ SetsOf(c, [qm EXCEPT ![k] = 0]) = [SetsOf(c, qm) EXCEPT ![k] = {}]
  <2>1. Changed(c, c, qm, k, 0)
    BY <1>2, <1>3, ChangedMap
  <2> QED BY <1>3, <2>1 DEF Changed
<1>6. PtInv'
  <2>1. PICK qm2 : qm2 = [qm EXCEPT ![k] = 0]
    OBVIOUS
  <2>2. Data(c, pm, rm, dm, qm2)
    BY <1>2, <1>5, <2>1 DEF Data
  <2> QED BY <1>4, <2>1, <2>2, PtInvNext
<1>7. Promise!ClearPropa(k)
  <2>1. Sets(propaPtsMap)' = [Sets(propaPtsMap) EXCEPT ![k] = {}]
    BY <1>1, <1>4, <1>5, SetsAre
  <2>2. Sets(ptsMap)' = Sets(ptsMap) /\ Sets(diffPtsMap)' = Sets(diffPtsMap)
    BY <1>1, <1>4, SetsAre
  <2> QED BY <1>4, <2>1, <2>2 DEF Promise!ClearPropa
<1> QED BY <1>1, <1>4, <1>6, <1>7 DEF Stepped, Promise!Next

(* Another node mapping. *)
LEMMA RemapStepped ==
  ASSUME Representation, PtInv, RemapAllPts
  PROVE  Stepped
<1>1. PICK pm, rm, dm, qm, c, d : /\ pm = ptsMap /\ rm = revPtsMap /\ dm = diffPtsMap
                                  /\ qm = propaPtsMap /\ c = cache /\ d = remapAllPts(c)
  OBVIOUS
<1>2. /\ CacheOK(c) /\ pm \in [Key -> Id(c)] /\ dm \in [Key -> Id(c)] /\ qm \in [Key -> Id(c)]
      /\ rm \in [Obj -> SUBSET Key]
      /\ \A x \in Obj : rm[x] = {y \in Key : x \in SetsOf(c, pm)[y]}
  BY <1>1 DEF PtInv, Data
<1>3. /\ CacheOK(d) /\ Grows(c, d) /\ Id(d) = Id(c)
      /\ Canonical /\ Interned(c) => Interned(d)
  BY <1>1, <1>2, RemapOK
<1>4. /\ cache' = d /\ ptsMap' = pm /\ revPtsMap' = rm /\ diffPtsMap' = dm
      /\ propaPtsMap' = qm /\ result' = FALSE
  BY <1>1 DEF RemapAllPts
<1>5. /\ pm \in [Key -> Id(d)] /\ SetsOf(d, pm) = SetsOf(c, pm)
      /\ dm \in [Key -> Id(d)] /\ SetsOf(d, dm) = SetsOf(c, dm)
      /\ qm \in [Key -> Id(d)] /\ SetsOf(d, qm) = SetsOf(c, qm)
  BY <1>2, <1>3, KeptMap
<1>6. PtInv'
  <2>1. Data(d, pm, rm, dm, qm)
    BY <1>2, <1>3, <1>5 DEF Data
  <2> QED BY <1>4, <2>1, PtInvNext
<1>7. Promise!Next
  BY <1>1, <1>4, <1>5, SetsAre DEF Promise!Next
<1> QED BY <1>1, <1>3, <1>4, <1>6, <1>7 DEF Stepped

(* Every operation keeps the invariant and is a step of the promise. *)
LEMMA StepStepped ==
  ASSUME Representation, PtInv, Step
  PROVE  Stepped
<1>1. ASSUME NEW o \in Obj, NEW x \in Obj
      PROVE  Join(Single(o), Single(x)) \in Rep
  BY DEF Representation
<1> QED BY <1>1, JoinStepped, ClearStepped, ClearFullStepped, DiffStepped, PropaStepped,
           ClearPropaStepped, RemapStepped DEF Step
(* The cache starts with the empty set alone. *)
LEMMA StartOK ==
  ASSUME Representation, Init
  PROVE  PtInv /\ Interned(cache) /\ Promise!Init
<1>1. PICK c : c = cache
  OBVIOUS
<1>2. /\ c = NewCache /\ c.idToPts = <<Empty>> /\ c.ptsToId = [p \in {Empty} |-> 0]
      /\ c.union = NoResults /\ c.complement = NoResults /\ c.intersection = NoResults
  BY <1>1 DEF Init, NewCache, emptyPointsToId
<1>3. Empty \in Rep /\ Elems(Empty) = {}
  BY DEF Representation
<1>4. DOMAIN NoResults = {} /\ NoResults \in Partial(IdPair, Nat)
  <2>1. NoResults \in [{} -> Nat] /\ {} \in SUBSET IdPair
    BY DEF NoResults
  <2> QED BY <2>1 DEF Partial
<1>5. c.ptsToId \in Partial(Rep, Nat)
  <2>1. c.ptsToId \in [{Empty} -> Nat] /\ {Empty} \in SUBSET Rep
    BY <1>2, <1>3
  <2> QED BY <2>1 DEF Partial
<1>6. c.idToPts \in Seq(Rep) /\ Len(c.idToPts) = 1 /\ c.idToPts # <<>> /\ c.idToPts[1] = Empty
  BY <1>2, <1>3
<1>7. c \in CacheType
  BY <1>2, <1>4, <1>5, <1>6 DEF CacheType, NewCache
<1>8. Id(c) = {0} /\ getActualPts(c, 0) = Empty /\ Meaning(c, 0) = {}
  BY <1>3, <1>6 DEF Id, getActualPts, Meaning
<1>9. Unions(c, NoResults) /\ Differences(c, NoResults) /\ Meets(c, NoResults)
  BY <1>4 DEF Unions, Differences, Meets
<1>10. CacheOK(c)
  BY <1>2, <1>3, <1>6, <1>7, <1>8, <1>9 DEF CacheOK
<1>11. Interned(c)
  BY <1>2, <1>8 DEF Interned
<1>12. PICK f, rm : f = [k \in Key |-> 0] /\ rm = [o \in Obj |-> {}]
  OBVIOUS
<1>13. f \in [Key -> Id(c)] /\ SetsOf(c, f) = [k \in Key |-> {}]
  BY <1>8, <1>12 DEF SetsOf
<1>14. rm \in [Obj -> SUBSET Key] /\ \A o \in Obj : rm[o] = {k \in Key : o \in SetsOf(c, f)[k]}
  BY <1>12, <1>13
<1>15. ptsMap = f /\ revPtsMap = rm /\ diffPtsMap = f /\ propaPtsMap = f /\ result = FALSE
  BY <1>12 DEF Init, emptyPointsToId
<1>16. PtInv
  BY <1>1, <1>10, <1>13, <1>14, <1>15 DEF PtInv, Data
<1>17. Promise!Init
  BY <1>1, <1>13, <1>15, SetsAre DEF Promise!Init
<1> QED BY <1>1, <1>11, <1>16, <1>17

(* The maps and the cache stay right, whatever sets are represented by. *)
LEMMA DataKept ==
  ASSUME Representation
  PROVE  Spec => []PtInv
<1>1. Init => PtInv
  BY StartOK
<1>2. PtInv /\ [Step]_pdVars => PtInv'
  <2>1. PtInv /\ Step => PtInv'
    BY StepStepped DEF Stepped
  <2>2. PtInv /\ UNCHANGED pdVars => PtInv'
    BY DEF PtInv, Data, pdVars
  <2> QED BY <2>1, <2>2
<1> QED BY <1>1, <1>2, PTL DEF Spec

(* Whatever sets are represented by, no remembered result of the cache is ever
   wrong: not those of the operations, not those they note in passing, and
   not after the sets were made anew in another node mapping. *)
THEOREM CachedResultsRight ==
  ASSUME Representation
  PROVE  Spec => []CacheSound
<1>1. PtInv => CacheSound
  <2>1. SUFFICES ASSUME PtInv PROVE CacheSound
    OBVIOUS
  <2>2. PICK c : c = cache
    OBVIOUS
  <2>3. CacheOK(c)
    BY <2>1, <2>2 DEF PtInv, Data
  <2>4. /\ \A k \in DOMAIN c.union : Meaning(c, c.union[k]) = Meaning(c, k[1]) \cup Meaning(c, k[2])
        /\ \A k \in DOMAIN c.complement :
              Meaning(c, c.complement[k]) = Meaning(c, k[1]) \ Meaning(c, k[2])
        /\ \A k \in DOMAIN c.intersection :
              Meaning(c, c.intersection[k]) = Meaning(c, k[1]) \cap Meaning(c, k[2])
        /\ \A p \in DOMAIN c.ptsToId : Meaning(c, c.ptsToId[p]) = Elems(p)
    BY <2>3 DEF CacheOK, Unions, Differences, Meets, IsUnion, IsDifference, IsMeet
  <2> QED BY <2>2, <2>4 DEF CacheSound, Meaning
<1> QED BY <1>1, DataKept, PTL

(* Whatever sets are represented by, the reverse map has the pointers of an
   object and no others, although it is left alone where an id does not
   change. *)
THEOREM ReverseMapExact ==
  ASSUME Representation
  PROVE  Spec => []ReverseExact
<1>1. PtInv => ReverseExact
  BY DEF PtInv, Data, ReverseExact, SetsOf, Pts, Meaning
<1> QED BY <1>1, DataKept, PTL

(* Every set stays found, by one id. *)
LEMMA InternedKept ==
  ASSUME Representation, Canonical
  PROVE  Spec => []Interned(cache)
<1>1. Init => Interned(cache)
  BY StartOK
<1>2. PtInv /\ Interned(cache) /\ [Step]_pdVars => Interned(cache)'
  <2>1. PtInv /\ Interned(cache) /\ Step => Interned(cache')
    BY StepStepped DEF Stepped
  <2>2. Interned(cache) /\ UNCHANGED pdVars => Interned(cache')
    BY DEF pdVars
  <2>3. Interned(cache)' <=> Interned(cache')
    BY DEF Interned, Id, getActualPts
  <2> QED BY <2>1, <2>2, <2>3
<1> QED BY <1>1, <1>2, DataKept, PTL DEF Spec

(* Where a set is represented in one way only, no two ids stand for one set:
   remapping, which makes every set anew, brings none about. *)
THEOREM OneIdEach ==
  ASSUME Representation, Canonical
  PROVE  Spec => []OneIdPerSet
<1>1. PtInv /\ Interned(cache) => OneIdPerSet
  <2>1. SUFFICES ASSUME PtInv, Interned(cache) PROVE OneIdPerSet
    OBVIOUS
  <2>2. OneId(cache)
    BY <2>1, InternedOneId DEF PtInv, Data
  <2> QED BY <2>2 DEF OneId, OneIdPerSet, Meaning
<1> QED BY <1>1, DataKept, InternedKept, PTL

(* The persistent backend keeps the promise of points-to data, the answers of
   its operations included, where a set is represented in one way only. *)
THEOREM PersistentKeepsPromise ==
  ASSUME Representation, Canonical
  PROVE  Spec => Promise!Spec
<1>1. Init => Promise!Init
  BY StartOK
<1>2. PtInv /\ Interned(cache) /\ [Step]_pdVars => [Promise!Next]_Promise!vars
  <2>1. SUFFICES ASSUME PtInv, Interned(cache), [Step]_pdVars PROVE [Promise!Next]_Promise!vars
    OBVIOUS
  <2>2. CASE Step
    <3>1. Stepped
      BY <2>1, <2>2, StepStepped
    <3>2. PICK d : d = cache'
      OBVIOUS
    <3>3. CacheOK(d) /\ Interned(d)
      BY <2>1, <3>1, <3>2, PtInvNext DEF Stepped, Data
    <3>4. OneId(d)
      BY <3>3, InternedOneId
    <3> QED BY <3>1, <3>2, <3>4 DEF Stepped
  <2>3. CASE UNCHANGED pdVars
    <3>1. Sets(ptsMap)' = Sets(ptsMap) /\ Sets(diffPtsMap)' = Sets(diffPtsMap)
          /\ Sets(propaPtsMap)' = Sets(propaPtsMap) /\ result' = result
      BY <2>3, SetsAre DEF pdVars
    <3> QED BY <3>1 DEF Promise!vars
  <2> QED BY <2>1, <2>2, <2>3
<1> QED BY <1>1, <1>2, DataKept, InternedKept, PTL DEF Spec, Promise!Spec
-----------------------------------------------------------------------------
(* The mutable backend *)

M == INSTANCE MutablePTData

(* The maps are maps, and the reverse map is exact. *)
MInv ==
  /\ ptsMap \in [Key -> SUBSET Obj] /\ revPtsMap \in [Obj -> SUBSET Key]
  /\ diffPtsMap \in [Key -> SUBSET Obj] /\ propaPtsMap \in [Key -> SUBSET Obj]
  /\ M!ReverseExact

(* The mutable backend keeps its maps so. *)
LEMMA MutableKept == M!Spec => []MInv
<1>1. M!Init => MInv
  BY DEF M!Init, MInv, M!ReverseExact
<1>2. MInv /\ [M!Step]_M!mdVars => MInv'
  <2>1. SUFFICES ASSUME MInv, [M!Step]_M!mdVars PROVE MInv'
    OBVIOUS
  <2>2. ASSUME NEW k \in Key, NEW S \in SUBSET Obj, M!UnionPts(k, S) PROVE MInv'
    BY <2>1, <2>2 DEF MInv, M!UnionPts, M!addRevPts, M!ReverseExact
  <2>3. ASSUME NEW k \in Key, NEW o \in Obj, M!ClearPts(k, o) PROVE MInv'
    BY <2>1, <2>3 DEF MInv, M!ClearPts, M!clearRevPts, M!ReverseExact
  <2>4. ASSUME NEW k \in Key, M!ClearFullPts(k) PROVE MInv'
    BY <2>1, <2>4 DEF MInv, M!ClearFullPts, M!clearRevPts, M!ReverseExact
  <2>5. ASSUME NEW k \in Key, M!ComputeDiffPts(k) PROVE MInv'
    BY <2>1, <2>5 DEF MInv, M!ComputeDiffPts, M!ReverseExact
  <2>6. ASSUME NEW k \in Key, NEW l \in Key, M!UpdatePropaPtsMap(k, l) PROVE MInv'
    BY <2>1, <2>6 DEF MInv, M!UpdatePropaPtsMap, M!ReverseExact
  <2>7. ASSUME NEW k \in Key, M!ClearPropaPts(k) PROVE MInv'
    BY <2>1, <2>7 DEF MInv, M!ClearPropaPts, M!ReverseExact
  <2>8. CASE UNCHANGED M!mdVars
    BY <2>1, <2>8 DEF MInv, M!mdVars, M!ReverseExact
  <2>9. \A l \in Key : ptsMap[l] \in SUBSET Obj
    BY <2>1 DEF MInv
  <2>10. \A o, x \in Obj : {o} \in SUBSET Obj /\ {o, x} \in SUBSET Obj
    OBVIOUS
  <2> QED BY <2>1, <2>2, <2>3, <2>4, <2>5, <2>6, <2>7, <2>8, <2>9, <2>10 DEF M!Step
<1> QED BY <1>1, <1>2, PTL DEF M!Spec

(* The reverse map of the mutable backend has the pointers of an object and no
   others. *)
THEOREM MutableReverseExact == M!Spec => []M!ReverseExact
<1>1. MInv => M!ReverseExact
  BY DEF MInv
<1> QED BY <1>1, MutableKept, PTL
(* The mutable backend keeps the same promise. *)
THEOREM MutableKeepsPromise == M!Spec => M!Promise!Spec
<1>1. M!Init => M!Promise!Init
  BY DEF M!Init, M!Promise!Init
<1>2. MInv /\ [M!Step]_M!mdVars => [M!Promise!Next]_M!Promise!vars
  <2>1. SUFFICES ASSUME MInv, [M!Step]_M!mdVars PROVE [M!Promise!Next]_M!Promise!vars
    OBVIOUS
  <2>2. ASSUME NEW k \in Key, NEW S \in SUBSET Obj, M!UnionPts(k, S) PROVE M!Promise!Next
    BY <2>2 DEF M!UnionPts, M!Promise!Next, M!Promise!Join
  <2>3. ASSUME NEW k \in Key, NEW o \in Obj, M!ClearPts(k, o) PROVE M!Promise!Next
    BY <2>3 DEF M!ClearPts, M!Promise!Next, M!Promise!Remove
  <2>4. ASSUME NEW k \in Key, M!ClearFullPts(k) PROVE M!Promise!Next
    <3>1. ptsMap[k] \in SUBSET Obj /\ ptsMap[k] \ ptsMap[k] = {}
      BY <2>1 DEF MInv
    <3>2. M!Promise!Remove(k, ptsMap[k])
      BY <2>4, <3>1 DEF M!ClearFullPts, M!Promise!Remove
    <3> QED BY <3>1, <3>2 DEF M!Promise!Next
  <2>5. ASSUME NEW k \in Key, M!ComputeDiffPts(k) PROVE M!Promise!Next
    BY <2>5 DEF M!ComputeDiffPts, M!Promise!Next, M!Promise!ComputeDiff
  <2>6. ASSUME NEW k \in Key, NEW l \in Key, M!UpdatePropaPtsMap(k, l) PROVE M!Promise!Next
    BY <2>6 DEF M!UpdatePropaPtsMap, M!Promise!Next, M!Promise!UpdatePropa
  <2>7. ASSUME NEW k \in Key, M!ClearPropaPts(k) PROVE M!Promise!Next
    BY <2>7 DEF M!ClearPropaPts, M!Promise!Next, M!Promise!ClearPropa
  <2>8. CASE UNCHANGED M!mdVars
    BY <2>8 DEF M!mdVars, M!Promise!vars
  <2>9. \A l \in Key : ptsMap[l] \in SUBSET Obj
    BY <2>1 DEF MInv
  <2>10. \A o, x \in Obj : {o} \in SUBSET Obj /\ {o, x} \in SUBSET Obj
    OBVIOUS
  <2> QED BY <2>1, <2>2, <2>3, <2>4, <2>5, <2>6, <2>7, <2>8, <2>9, <2>10 DEF M!Step
<1> QED BY <1>1, <1>2, MutableKept, PTL DEF M!Spec, M!Promise!Spec
-----------------------------------------------------------------------------
(* The optimisation of the value-flow graph. The phis put in, and the nodes
   that define memory, define variables and use them. *)
Phis == {Phi(n) : n \in OfKind({"FP", "AR"})}
MemDefs == OfKind({"stmt", "phi", "AO", "FI"})
TopDefs == OfKind({"stmt", "FP", "AR"}) \cup Phis
TopUses == OfKind({"stmt", "AP", "FR"}) \cup Phis

(* What edges lead from and to while the graph is optimised. *)
EdgeOK(e) ==
  /\ e.src \in Nodes /\ e.dst \in Nodes
  /\ e.src \in OfKind({"AI", "FO"}) => e.src \in cands /\ e.dst \in OfKind({"AO", "FI"})
  /\ e.src \in OfKind({"AP", "FR"}) => e.src \in program.nodes /\ e.dst \in OfKind({"FP", "AR"})
  /\ e.src \in OfKind({"FP", "AR"}) => e.src \in cands
  /\ e.dst \in OfKind({"FP", "AR"}) => e.dst \in cands /\ e.src \in OfKind({"AP", "FR"})
  /\ e.dst \in OfKind({"AI", "FO"}) => e.dst \in cands /\ ~Inter(e) /\ e.src \in MemDefs
  /\ e.dst \in OfKind({"AO", "FI"}) =>
       \/ Inter(e) /\ e.src \in OfKind({"AI", "FO"}) \cup DefNodes
       \/ e.src \in OfKind({"stmt"})
  /\ Inter(e) => \/ e.src \in OfKind({"AI", "FO"}) \cup DefNodes
                 \/ e.dst \in OfKind({"FP", "AR"}) \cup Phis
  /\ e.dst \in OfKind({"AP", "FR"}) \cup Phis => e.src \in TopDefs
  /\ e.src \in OfKind({"FP", "AR"}) \cup Phis => e.dst \in TopUses
  /\ e.src \notin removed /\ e.dst \notin removed

EdgesOK == \A e \in edges : EdgeOK(e)

(* The graph before, with the calls connected so far. *)
ProgramOK ==
  /\ program \in Programs
  /\ program.graph \subseteq graph /\ graph \subseteq program.graph \cup program.later

(* What each phase has done. *)
PhaseOK ==
  /\ phase \in {"inter", "delete", "intra", "done"}
  /\ cands \subseteq program.nodes \ OfKind({"stmt", "phi"}) /\ (phase # "inter" => cands = {})
  /\ del \subseteq program.nodes \ OfKind({"stmt", "phi"}) /\ (phase \in {"intra", "done"} => del = {})
  /\ worklist \subseteq OfKind({"phi"}) \ (DefNodes \cup removed)
  /\ phase # "intra" => worklist = {}
  /\ removed \subseteq Node \ OfKind({"stmt"}) /\ (phase = "inter" => removed = {})
  /\ phase \in {"inter", "delete"} => removed \cap OfKind({"phi"}) = {}
  /\ removed \cap program.pinned \cap OfKind({"AO", "FI"}) = {}

(* What is passed has a definition that stays, known as soon as its node is
   out of the graph. *)
DefsOK ==
  /\ \A d \in defOf : d[1] \in OfKind({"AI", "FO"}) /\ d[2] \in MemDefs /\ d[2] \notin removed
  /\ \A n \in OfKind({"AI", "FO"}) :
       \/ \E d \in defOf : d[1] = n
       \/ n \in cands /\ In(graph, n) \subseteq In(edges, n)
       \/ In(graph, n) = {}
  /\ \A n \in program.nodes \cap OfKind({"AP", "FR"}) :
       paramDef[n] \in OfKind({"stmt"}) \cup Phis \cup (cands \cap OfKind({"FP", "AR"}))
  /\ DOMAIN paramDef = OfKind({"AP", "FR"})

(* A phi that stays is still to be looked at, or has a cycle. *)
PhisOK ==
  phase \in {"intra", "done"} => \A n \in OfKind({"phi"}) \ DefNodes :
    Around(edges, n) # {} =>
      n \in worklist \/ (program.selfCycle # "none" /\ \E e \in edges : e.src = n /\ e.dst = n)

OptInv == ProgramOK /\ PhaseOK /\ EdgesOK /\ DefsOK /\ PhisOK
-----------------------------------------------------------------------------
(* The phis put in are no nodes of the program. *)
LEMMA PhisNew ==
  ASSUME OptAssumption
  PROVE  /\ Phis \cap Node = {} /\ Nodes = Node \cup Phis
         /\ \A n \in OfKind({"FP", "AR"}) : Phi(n) \in Phis
BY DEF OptAssumption, Phis, Nodes, OfKind

(* A well-formed program begins so. *)
LEMMA OptInvInit ==
  ASSUME OptAssumption, OptInit
  PROVE  OptInv
<1>1. PICK p \in Programs : program = p /\ WellFormed(p)
  BY DEF OptInit, OptAssumption
<1>2. ProgramOK
  BY DEF OptInit, ProgramOK
<1>3. PhaseOK
  BY <1>1 DEF OptInit, PhaseOK, WellFormed, DefNodes
<1>4. ASSUME NEW e \in edges
      PROVE  EdgeOK(e)
  <2>1. /\ e.src \in program.nodes /\ e.dst \in program.nodes
        /\ (IF Inter(e) THEN Crosses(e) ELSE Stays(e))
    BY <1>1, <1>4 DEF OptInit, WellFormed
  <2>2. e.src \in Node /\ e.dst \in Node
    BY <1>1, <2>1 DEF WellFormed
  <2>. QED
    BY <2>1, <2>2, PhisNew DEF OptInit, EdgeOK, Crosses, Stays, OfKind, MemDefs, TopDefs, TopUses
<1>5. ASSUME NEW n \in program.nodes \cap OfKind({"AP", "FR"})
      PROVE  paramDef[n] \in OfKind({"stmt"}) \cup (cands \cap OfKind({"FP", "AR"}))
  <2>1. In(graph, n) # {}
    BY <1>1 DEF WellFormed, OptInit
  <2>2. PICK e \in In(graph, n) : paramDef[n] = e.src
    BY <2>1 DEF OptInit
  <2>3. e \in program.graph /\ e.dst = n
    BY DEF In, OptInit
  <2>4. e.src \in program.nodes /\ (IF Inter(e) THEN Crosses(e) ELSE Stays(e))
    BY <1>1, <2>3 DEF WellFormed
  <2>. QED
    BY <2>2, <2>3, <2>4 DEF OptInit, Crosses, Stays, OfKind
<1>6. DefsOK
  <2>1. ASSUME NEW n \in OfKind({"AI", "FO"})
        PROVE  (n \in cands /\ In(graph, n) \subseteq In(edges, n)) \/ In(graph, n) = {}
    <3>1. CASE n \in program.nodes
      BY <3>1 DEF OptInit, OfKind
    <3>2. CASE n \notin program.nodes
      BY <3>2, <1>1 DEF OptInit, WellFormed, In
    <3>. QED
      BY <3>1, <3>2
  <2>. QED
    BY <1>5, <2>1 DEF DefsOK, OptInit
<1>. QED
  BY <1>2, <1>3, <1>4, <1>6 DEF OptInv, EdgesOK, PhisOK, OptInit
-----------------------------------------------------------------------------
(* A formal parameter or actual result is replaced. *)
LEMMA ReplaceKeeps ==
  ASSUME OptAssumption, OptInv, NEW n \in Node, ReplaceFParamARet(n)
  PROVE  OptInv'
<1>. n \in cands \cap OfKind({"FP", "AR"}) /\ phase = "inter" /\ n \in program.nodes
  BY DEF ReplaceFParamARet, OptInv, PhaseOK
<1>. /\ cands' = cands \ {n} /\ del' = del \cup {n}
     /\ UNCHANGED <<program, graph, phase, defOf, worklist, removed>>
     /\ paramDef' = DefBy(n)
     /\ edges' = (edges \ Around(edges, n)) \cup Migrated(n) \cup Passed(n, paramDef')
  BY DEF ReplaceFParamARet
<1>. DefNodes' = DefNodes
  BY DEF DefNodes
<1>1. ProgramOK' /\ PhisOK'
  BY DEF OptInv, ProgramOK, PhisOK
<1>2. PhaseOK'
  BY DEF OptInv, PhaseOK, OfKind
<1>3. /\ DOMAIN paramDef' = OfKind({"AP", "FR"})
      /\ \A p \in program.nodes \cap OfKind({"AP", "FR"}) :
           paramDef'[p] \in OfKind({"stmt"}) \cup Phis \cup (cands' \cap OfKind({"FP", "AR"}))
  <2>1. DOMAIN paramDef' = DOMAIN paramDef
    BY DEF DefBy
  <2>2. ASSUME NEW p \in DOMAIN paramDef
        PROVE  paramDef'[p] = IF paramDef[p] = n THEN Phi(n) ELSE paramDef[p]
    BY DEF DefBy
  <2>. QED
    BY <2>1, <2>2, PhisNew DEF OptInv, DefsOK
<1>4. ASSUME NEW e \in edges'
      PROVE  EdgeOK(e)'
  <2>. n \notin OfKind({"AP", "FR", "AI", "FO", "stmt", "phi", "AO", "FI"})
    BY DEF OfKind
  <2>1. CASE e \in edges \ Around(edges, n)
    <3>1. EdgeOK(e) /\ e.src # n /\ e.dst # n
      BY <2>1 DEF OptInv, EdgesOK, Around, In, Out
    <3>. QED
      BY <3>1 DEF EdgeOK, MemDefs, TopDefs, TopUses
  <2>2. CASE e \in Migrated(n)
    <3>1. PICK d \in Out(edges, n) : e = Moved(d, Phi(n), d.dst)
      BY <2>2 DEF Migrated
    <3>2. EdgeOK(d) /\ d.src = n
      BY DEF OptInv, EdgesOK, Out
    <3>3. e.src = Phi(n) /\ e.dst = d.dst /\ e.kind = d.kind /\ d.dst \in TopUses /\ d.dst \notin removed
      BY <3>1, <3>2 DEF EdgeOK, Moved
    <3>4. Phi(n) \in Phis /\ Phi(n) \notin Node /\ removed \subseteq Node
      BY PhisNew DEF OptInv, PhaseOK
    <3>5. Inter(e) => e.dst \in Phis
      BY <3>2, <3>3, PhisNew DEF EdgeOK, Inter, OptInv, DefsOK, DefNodes, MemDefs, OfKind, TopUses
    <3>. QED
      BY <3>3, <3>4, <3>5, PhisNew DEF EdgeOK, OfKind, MemDefs, TopDefs, TopUses
  <2>3. CASE e \in Passed(n, paramDef')
    <3>1. PICK d \in In(edges, n) : e = Moved(d, paramDef'[d.src], Phi(n))
      BY <2>3 DEF Passed
    <3>2. EdgeOK(d) /\ d.dst = n
      BY DEF OptInv, EdgesOK, In
    <3>3. d.src \in program.nodes \cap OfKind({"AP", "FR"})
      BY <3>2 DEF EdgeOK
    <3>4. e.dst = Phi(n) /\ e.src \in OfKind({"stmt"}) \cup Phis \cup (cands' \cap OfKind({"FP", "AR"}))
      BY <3>1, <3>3, <1>3 DEF Moved
    <3>5. Phi(n) \in Phis /\ Phi(n) \notin Node /\ removed = {}
      BY PhisNew DEF OptInv, PhaseOK
    <3>. QED
      BY <3>4, <3>5, PhisNew DEF EdgeOK, OfKind, MemDefs, TopDefs, TopUses
  <2>. QED
    BY <2>1, <2>2, <2>3
<1>5. ASSUME NEW m \in OfKind({"AI", "FO"}), In(graph, m) \subseteq In(edges, m)
      PROVE  In(graph, m) \subseteq In(edges', m)
  <2>1. ASSUME NEW e \in In(graph, m)
        PROVE  e \in edges' /\ e.dst = m
    <3>1. e \in edges /\ e.dst = m /\ EdgeOK(e)
      BY <1>5 DEF In, OptInv, EdgesOK
    <3>2. e.src \in MemDefs
      BY <3>1 DEF EdgeOK
    <3>. QED
      BY <3>1, <3>2 DEF Around, In, Out, OfKind, MemDefs
  <2>. QED
    BY <2>1 DEF In
<1>6. DefsOK'
  <2>1. ASSUME NEW m \in OfKind({"AI", "FO"})
        PROVE  \/ \E d \in defOf : d[1] = m
               \/ m \in cands' /\ In(graph, m) \subseteq In(edges', m)
               \/ In(graph, m) = {}
    <3>1. m # n
      BY DEF OfKind
    <3>. QED
      BY <3>1, <1>5 DEF OptInv, DefsOK
  <2>. QED
    BY <1>3, <2>1 DEF OptInv, DefsOK
<1>. QED
  BY <1>1, <1>2, <1>4, <1>6 DEF OptInv, EdgesOK

(* An actual-in or formal-out leaves its definition in its place. *)
LEMMA RetargetKeeps ==
  ASSUME OptAssumption, OptInv, NEW n \in Node, RetargetAInFOut(n)
  PROVE  OptInv'
<1>. n \in cands \cap OfKind({"AI", "FO"}) /\ phase = "inter" /\ n \in program.nodes
  BY DEF RetargetAInFOut, OptInv, PhaseOK
<1>. /\ cands' = cands \ {n} /\ del' = del \cup {n}
     /\ UNCHANGED <<program, graph, phase, paramDef, worklist, removed>>
     /\ defOf' = Remembered(n)
     /\ edges' = (edges \ Around(edges, n)) \cup Through(In(edges, n), Out(edges, n))
  BY DEF RetargetAInFOut
<1>1. ASSUME NEW e \in In(edges, n)
      PROVE  /\ EdgeOK(e) /\ e.dst = n /\ e.src \in MemDefs /\ ~Inter(e)
             /\ e.src \in DefNodes' /\ <<n, e.src>> \in defOf'
  <2>1. EdgeOK(e) /\ e.dst = n
    BY DEF In, OptInv, EdgesOK
  <2>2. <<n, e.src>> \in defOf'
    BY DEF Remembered
  <2>3. e.src \in DefNodes'
    BY <2>2 DEF DefNodes
  <2>. QED
    BY <2>1, <2>2, <2>3 DEF EdgeOK
<1>2. DefNodes \subseteq DefNodes'
  BY DEF DefNodes, Remembered
<1>3. ProgramOK' /\ PhisOK'
  BY DEF OptInv, ProgramOK, PhisOK
<1>4. PhaseOK'
  <2>1. worklist = {}
    BY DEF OptInv, PhaseOK
  <2>. QED
    BY <2>1 DEF OptInv, PhaseOK, OfKind
<1>5. ASSUME NEW e \in edges'
      PROVE  EdgeOK(e)'
  <2>. n \notin OfKind({"AP", "FR", "FP", "AR", "stmt", "phi", "AO", "FI"})
    BY DEF OfKind
  <2>1. CASE e \in edges \ Around(edges, n)
    <3>1. EdgeOK(e) /\ e.src # n /\ e.dst # n
      BY <2>1 DEF OptInv, EdgesOK, Around, In, Out
    <3>. QED
      BY <3>1, <1>2 DEF EdgeOK, MemDefs, TopDefs, TopUses
  <2>2. CASE e \in Through(In(edges, n), Out(edges, n))
    <3>1. PICK a \in In(edges, n), b \in Out(edges, n) : e = Joined(a, b)
      BY <2>2 DEF Through
    <3>2. EdgeOK(b) /\ b.src = n
      BY DEF Out, OptInv, EdgesOK
    <3>. n \notin OfKind({"stmt"})
      BY DEF OfKind
    <3>3. b.dst \in OfKind({"AO", "FI"}) /\ Inter(b) /\ b.dst \notin removed
      BY <3>2 DEF EdgeOK
    <3>4. e.src = a.src /\ e.dst = b.dst /\ e.kind = b.kind
      BY <3>1, <1>1 DEF Joined
    <3>5. a.src \in MemDefs /\ a.src \notin removed /\ a.src \in DefNodes'
      BY <1>1 DEF EdgeOK
    <3>6. Inter(e)
      BY <3>3, <3>4 DEF Inter
    <3>7. MemDefs \subseteq Node /\ OfKind({"AO", "FI"}) \subseteq Node
      BY DEF MemDefs, OfKind
    <3>8. Phis \cap Node = {} /\ Node \subseteq Nodes
      BY PhisNew
    <3>9. /\ a.src \notin OfKind({"AI", "FO"}) /\ a.src \notin OfKind({"AP", "FR"})
          /\ a.src \notin OfKind({"FP", "AR"})
      BY <3>5 DEF MemDefs, OfKind
    <3>10. /\ b.dst \notin OfKind({"AI", "FO"}) /\ b.dst \notin OfKind({"AP", "FR"})
           /\ b.dst \notin OfKind({"FP", "AR"})
      BY <3>3 DEF OfKind
    <3>. QED
      BY <3>3, <3>4, <3>5, <3>6, <3>7, <3>8, <3>9, <3>10 DEF EdgeOK
  <2>. QED
    BY <2>1, <2>2
<1>6. ASSUME NEW m \in OfKind({"AI", "FO"}), m # n, In(graph, m) \subseteq In(edges, m)
      PROVE  In(graph, m) \subseteq In(edges', m)
  <2>1. ASSUME NEW e \in In(graph, m)
        PROVE  e \in edges' /\ e.dst = m
    <3>1. e \in edges /\ e.dst = m /\ EdgeOK(e)
      BY <1>6 DEF In, OptInv, EdgesOK
    <3>2. e.src \in MemDefs
      BY <3>1 DEF EdgeOK
    <3>. QED
      BY <3>1, <3>2, <1>6 DEF Around, In, Out, OfKind, MemDefs
  <2>. QED
    BY <2>1 DEF In
<1>7. DefsOK'
  <2>1. ASSUME NEW m \in OfKind({"AI", "FO"})
        PROVE  \/ \E d \in defOf' : d[1] = m
               \/ m \in cands' /\ In(graph, m) \subseteq In(edges', m)
               \/ In(graph, m) = {}
    <3>1. CASE \E d \in defOf : d[1] = m
      BY <3>1 DEF Remembered
    <3>2. CASE m # n
      BY <3>2, <1>6 DEF OptInv, DefsOK, Remembered
    <3>3. CASE m = n /\ ~ \E d \in defOf : d[1] = m
      <4>1. CASE In(edges, n) = {}
        BY <4>1, <3>3 DEF OptInv, DefsOK
      <4>2. CASE In(edges, n) # {}
        <5>1. PICK e \in In(edges, n) : TRUE
          BY <4>2
        <5>2. <<n, e.src>> \in defOf'
          BY <1>1
        <5>. QED
          BY <5>2, <3>3
      <4>. QED
        BY <4>1, <4>2
    <3>. QED
      BY <3>1, <3>2, <3>3
  <2>2. ASSUME NEW d \in defOf'
        PROVE  d[1] \in OfKind({"AI", "FO"}) /\ d[2] \in MemDefs /\ d[2] \notin removed
    <3>1. CASE d \in defOf
      BY <3>1 DEF OptInv, DefsOK
    <3>2. CASE d \notin defOf
      <4>1. PICK e \in In(edges, n) : d = <<n, e.src>>
        BY <3>2 DEF Remembered
      <4>. QED
        BY <4>1, <1>1 DEF EdgeOK
    <3>. QED
      BY <3>1, <3>2
  <2>3. \A p \in program.nodes \cap OfKind({"AP", "FR"}) :
           paramDef[p] \in OfKind({"stmt"}) \cup Phis \cup (cands' \cap OfKind({"FP", "AR"}))
    BY DEF OptInv, DefsOK, OfKind
  <2>. QED
    BY <2>1, <2>2, <2>3 DEF OptInv, DefsOK, MemDefs
<1>. QED
  BY <1>3, <1>4, <1>5, <1>7 DEF OptInv, EdgesOK

(* The other nodes are only marked, and the next phase begins. *)
LEMMA MarkKeeps ==
  ASSUME OptAssumption, OptInv, NEW n \in Node, Mark(n)
  PROVE  OptInv'
<1>. n \in cands \cap OfKind({"AP", "FR", "AO", "FI"}) /\ phase = "inter" /\ n \in program.nodes
  BY DEF Mark, OptInv, PhaseOK
<1>. /\ cands' = cands \ {n} /\ del' = del \cup {n}
     /\ UNCHANGED <<program, graph, edges, phase, paramDef, defOf, worklist, removed>>
  BY DEF Mark
<1>. DefNodes' = DefNodes
  BY DEF DefNodes
<1>1. ProgramOK' /\ PhisOK'
  BY DEF OptInv, ProgramOK, PhisOK
<1>2. PhaseOK'
  BY DEF OptInv, PhaseOK, OfKind
<1>3. n \notin OfKind({"AI", "FO"}) /\ n \notin OfKind({"FP", "AR"})
  BY DEF OfKind
<1>4. EdgesOK'
  <2>1. ASSUME NEW e \in edges
        PROVE  EdgeOK(e)'
    <3>1. EdgeOK(e)
      BY DEF OptInv, EdgesOK
    <3>. QED
      BY <3>1, <1>3 DEF EdgeOK, MemDefs, TopDefs, TopUses
  <2>. QED
    BY <2>1 DEF EdgesOK
<1>5. DefsOK'
  BY <1>3 DEF OptInv, DefsOK, MemDefs
<1>. QED
  BY <1>1, <1>2, <1>4, <1>5 DEF OptInv

(* All calls have been handled. *)
LEMMA InterDoneKeeps ==
  ASSUME OptInv, InterDone
  PROVE  OptInv'
<1>. /\ phase = "inter" /\ cands = {} /\ phase' = "delete"
     /\ UNCHANGED <<program, graph, edges, cands, del, paramDef, defOf, worklist, removed>>
  BY DEF InterDone
<1>. DefNodes' = DefNodes
  BY DEF DefNodes
<1>1. EdgesOK'
  BY DEF OptInv, EdgesOK, EdgeOK
<1>. QED
  BY <1>1 DEF OptInv, ProgramOK, PhaseOK, PhisOK, DefsOK, EdgesOK
-----------------------------------------------------------------------------
(* What leads to and from a node of memory that is taken out. *)
LEMMA NodeEdges ==
  ASSUME OptAssumption, OptInv, cands = {}, NEW n \in OfKind({"phi", "AO", "FI"}) \ DefNodes
  PROVE  /\ \A a \in In(edges, n) :
              /\ a.dst = n /\ a.src \in MemDefs \ removed
              /\ Inter(a) => a.src \in DefNodes
              /\ a.src = n => n \in OfKind({"phi"})
         /\ \A b \in Out(edges, n) :
              b.src = n /\ ~Inter(b) /\ b.dst \in OfKind({"stmt", "phi"}) \ removed
<1>. n \in Node /\ Phis \cap Node = {}
  BY PhisNew DEF OfKind
<1>. /\ n \notin OfKind({"AI", "FO"}) /\ n \notin OfKind({"AP", "FR"})
     /\ n \notin OfKind({"FP", "AR"}) /\ n \notin OfKind({"stmt"}) /\ n \notin TopDefs /\ n \notin TopUses
  BY DEF OfKind, TopDefs, TopUses
<1>1. ASSUME NEW a \in In(edges, n)
      PROVE  /\ a.dst = n /\ a.src \in MemDefs \ removed
             /\ Inter(a) => a.src \in DefNodes
             /\ a.src = n => n \in OfKind({"phi"})
  <2>1. EdgeOK(a) /\ a.dst = n
    BY DEF OptInv, EdgesOK, In
  <2>2. /\ a.src \notin OfKind({"AI", "FO"}) /\ a.src \notin OfKind({"AP", "FR"})
        /\ a.src \notin OfKind({"FP", "AR"}) /\ a.src \notin Phis
    BY <2>1 DEF EdgeOK
  <2>3. a.src \in Nodes /\ a.src \notin removed
    BY <2>1 DEF EdgeOK
  <2>4. a.src \in MemDefs
    BY <2>2, <2>3, PhisNew DEF OptAssumption, OfKind, MemDefs
  <2>5. Inter(a) => a.src \in DefNodes
    BY <2>1, <2>2 DEF EdgeOK
  <2>6. n \in OfKind({"AO", "FI"}) => a.src \in DefNodes \cup OfKind({"stmt"})
    BY <2>1, <2>2 DEF EdgeOK
  <2>. QED
    BY <2>1, <2>3, <2>4, <2>5, <2>6 DEF OfKind
<1>2. ASSUME NEW b \in Out(edges, n)
      PROVE  /\ b.src = n /\ ~Inter(b)
             /\ b.dst \in OfKind({"stmt", "phi"}) \ removed
  <2>1. EdgeOK(b) /\ b.src = n
    BY DEF OptInv, EdgesOK, Out
  <2>2. /\ b.dst \notin OfKind({"AI", "FO"}) /\ b.dst \notin OfKind({"AP", "FR"})
        /\ b.dst \notin OfKind({"FP", "AR"}) /\ b.dst \notin Phis /\ b.dst \notin OfKind({"AO", "FI"})
    BY <2>1 DEF EdgeOK
  <2>3. b.dst \in Nodes /\ b.dst \notin removed
    BY <2>1 DEF EdgeOK
  <2>4. b.dst \in OfKind({"stmt", "phi"})
    BY <2>2, <2>3, PhisNew DEF OptAssumption, OfKind
  <2>. QED
    BY <2>1, <2>2, <2>3, <2>4 DEF EdgeOK
<1>. QED
  BY <1>1, <1>2

(* And what takes its place. *)
LEMMA ThroughOK ==
  ASSUME OptAssumption, OptInv, cands = {}, NEW n \in OfKind({"phi", "AO", "FI"}) \ DefNodes,
         NEW a \in In(edges, n), NEW b \in Out(edges, n), a.src # n, b.dst # n
  PROVE  /\ EdgeOK(Joined(a, b)) /\ Joined(a, b).src = a.src /\ Joined(a, b).dst = b.dst
         /\ a.src \in MemDefs /\ b.dst \in OfKind({"stmt", "phi"})
<1>. DEFINE e == Joined(a, b)
<1>1. /\ a.src \in MemDefs \ removed /\ (Inter(a) => a.src \in DefNodes)
      /\ ~Inter(b) /\ b.dst \in OfKind({"stmt", "phi"}) \ removed
  BY NodeEdges
<1>2. e.src = a.src /\ e.dst = b.dst /\ (Inter(e) => a.src \in DefNodes)
  BY <1>1 DEF Joined, Inter
<1>. HIDE DEF e
<1>3. a.src \in Node /\ b.dst \in Node /\ Phis \cap Node = {} /\ Node \subseteq Nodes
  BY <1>1, PhisNew DEF MemDefs, OfKind
<1>4. /\ a.src \notin OfKind({"AI", "FO"}) /\ a.src \notin OfKind({"AP", "FR"})
      /\ a.src \notin OfKind({"FP", "AR"})
  BY <1>1 DEF MemDefs, OfKind
<1>5. /\ b.dst \notin OfKind({"AI", "FO"}) /\ b.dst \notin OfKind({"AP", "FR"})
      /\ b.dst \notin OfKind({"FP", "AR"}) /\ b.dst \notin OfKind({"AO", "FI"})
  BY <1>1 DEF OfKind
<1>6. EdgeOK(e)
  BY <1>1, <1>2, <1>3, <1>4, <1>5 DEF EdgeOK
<1>. QED
  BY <1>1, <1>2, <1>6 DEF e

(* Nodes that are marked are deleted if they can be. *)
LEMMA DeleteKeeps ==
  ASSUME OptAssumption, OptInv, NEW n \in Node, Delete(n)
  PROVE  OptInv'
<1>. /\ phase = "delete" /\ n \in del /\ cands = {} /\ worklist = {} /\ del' = del \ {n}
     /\ UNCHANGED <<program, graph, phase, cands, paramDef, defOf, worklist>>
  BY DEF Delete, OptInv, PhaseOK
<1>. DefNodes' = DefNodes
  BY DEF DefNodes
<1>1. ProgramOK' /\ PhisOK'
  BY DEF OptInv, ProgramOK, PhisOK
<1>2. CASE UNCHANGED <<edges, removed>>
  <2>1. EdgesOK'
    BY <1>2 DEF OptInv, EdgesOK, EdgeOK
  <2>2. PhaseOK'
    BY <1>2 DEF OptInv, PhaseOK
  <2>3. DefsOK'
    BY <1>2 DEF OptInv, DefsOK
  <2>. QED
    BY <1>1, <2>1, <2>2, <2>3 DEF OptInv
<1>3. CASE CanBeRemoved(n) /\ ~ UNCHANGED <<edges, removed>>
  <2>. DEFINE T == IF Kind[n] \in {"AO", "FI"} THEN Through(In(edges, n), Out(edges, n)) ELSE {}
  <2>1. removed' = removed \cup {n} /\ edges' = (edges \ Around(edges, n)) \cup T
    BY <1>3 DEF Delete
  <2>2. n \in program.nodes \ OfKind({"stmt", "phi"})
    BY DEF OptInv, PhaseOK
  <2>3. n \in OfKind({"AO", "FI"}) => n \notin program.pinned /\ n \notin DefNodes
    BY <1>3 DEF CanBeRemoved, OfKind
  <2>4. \A d \in defOf : d[2] # n
    <3>1. ASSUME NEW d \in defOf, d[2] = n
          PROVE  FALSE
      <4>1. n \in MemDefs /\ n \in DefNodes
        BY <3>1 DEF OptInv, DefsOK, DefNodes
      <4>. QED
        BY <4>1, <2>2, <2>3 DEF MemDefs, OfKind
    <3>. QED
      BY <3>1
  <2>5. PhaseOK'
    BY <2>1, <2>2, <2>3 DEF OptInv, PhaseOK, OfKind
  <2>6. DefsOK'
    <3>1. ASSUME NEW p \in OfKind({"AI", "FO"})
          PROVE  (\E d \in defOf : d[1] = p) \/ In(graph, p) = {}
      BY DEF OptInv, DefsOK
    <3>. QED
      BY <2>1, <2>4, <3>1 DEF OptInv, DefsOK
  <2>7. ASSUME NEW e \in edges'
        PROVE  EdgeOK(e)'
    <3>1. EdgeOK(e) /\ e.src # n /\ e.dst # n
      <4>1. CASE e \in edges \ Around(edges, n)
        BY <4>1 DEF OptInv, EdgesOK, Around, In, Out
      <4>2. CASE e \in T
        <5>1. n \in OfKind({"AO", "FI"}) /\ e \in Through(In(edges, n), Out(edges, n))
          BY <4>2 DEF OfKind
        <5>2. PICK a \in In(edges, n), b \in Out(edges, n) : e = Joined(a, b)
          BY <5>1 DEF Through
        <5>3. n \in OfKind({"phi", "AO", "FI"}) \ DefNodes /\ n \notin OfKind({"stmt", "phi"})
              /\ n \notin OfKind({"phi"})
          BY <5>1, <2>3 DEF OfKind
        <5>4. a.src # n /\ b.dst # n
          BY <5>3, NodeEdges
        <5>. QED
          BY <5>2, <5>3, <5>4, ThroughOK
      <4>. QED
        BY <2>1, <4>1, <4>2
    <3>. QED
      BY <2>1, <3>1 DEF EdgeOK
  <2>. QED
    BY <1>1, <2>5, <2>6, <2>7 DEF OptInv, EdgesOK
<1>. QED
  BY <1>2, <1>3 DEF Delete

(* No phi that is no definition joins two calls, so all of them go on the list. *)
LEMMA DeleteDoneKeeps ==
  ASSUME OptAssumption, OptInv, DeleteDone
  PROVE  OptInv'
<1>. /\ phase = "delete" /\ del = {} /\ phase' = "intra" /\ worklist' = {n \in Node : Bypassable(n)}
     /\ UNCHANGED <<program, graph, edges, cands, del, paramDef, defOf, removed>> /\ cands = {}
  BY DEF DeleteDone, OptInv, PhaseOK
<1>. DefNodes' = DefNodes
  BY DEF DefNodes
<1>1. ASSUME NEW n \in OfKind({"phi"}) \ DefNodes
      PROVE  n \in worklist'
  <2>1. ~ ConnectingTwoCallSites(n)
    BY NodeEdges DEF ConnectingTwoCallSites, OfKind
  <2>. QED
    BY <2>1 DEF Bypassable, OfKind
<1>2. PhisOK'
  BY <1>1 DEF PhisOK
<1>3. worklist' \subseteq OfKind({"phi"}) \ DefNodes
  BY DEF Bypassable
<1>4. PhaseOK'
  BY <1>3 DEF OptInv, PhaseOK
<1>5. EdgesOK'
  BY DEF OptInv, EdgesOK, EdgeOK
<1>. QED
  BY <1>2, <1>4, <1>5 DEF OptInv, ProgramOK, DefsOK
-----------------------------------------------------------------------------
(* A phi is bypassed, or stays because of a cycle. *)
LEMMA ProcessKeeps ==
  ASSUME OptAssumption, OptInv, NEW n \in Node, Process(n)
  PROVE  OptInv'
<1>. DEFINE E == edges \ Dropped(n)
            R == (E \ Around(E, n)) \cup Bypass(E, n)
<1>. /\ phase = "intra" /\ n \in worklist /\ cands = {}
     /\ UNCHANGED <<program, graph, phase, cands, del, paramDef, defOf>>
  BY DEF Process, OptInv, PhaseOK
<1>. DefNodes' = DefNodes /\ n \in OfKind({"phi"}) \ DefNodes /\ n \in OfKind({"phi", "AO", "FI"}) \ DefNodes
     /\ n \notin removed
  BY DEF DefNodes, OptInv, PhaseOK, OfKind
<1>1. ProgramOK'
  BY DEF OptInv, ProgramOK
<1>2. E \subseteq edges /\ \A e \in edges \ E : e.src = n /\ e.dst = n
  BY DEF Dropped
<1>3. CASE \E e \in E : e.src = n /\ e.dst = n
  <2>1. edges' = E /\ worklist' = worklist \ {n} /\ UNCHANGED removed
    BY <1>3 DEF Process
  <2>. HIDE DEF E
  <2>2. EdgesOK'
    BY <1>2, <2>1 DEF OptInv, EdgesOK, EdgeOK
  <2>3. PhaseOK'
    BY <2>1 DEF OptInv, PhaseOK
  <2>4. DefsOK'
    BY <2>1 DEF OptInv, DefsOK
  <2>5. program.selfCycle # "none"
    BY <1>3 DEF E, Dropped
  <2>6. ASSUME NEW m \in OfKind({"phi"}) \ DefNodes, Around(edges', m) # {}
        PROVE  m \in worklist' \/ (program.selfCycle # "none" /\ \E e \in edges' : e.src = m /\ e.dst = m)
    <3>1. CASE m = n
      BY <3>1, <1>3, <2>1, <2>5
    <3>2. CASE m # n
      <4>1. Around(edges, m) # {}
        BY <2>6, <2>1, <1>2 DEF Around, In, Out
      <4>. QED
        BY <4>1, <3>2, <2>1, <1>2 DEF OptInv, PhisOK
    <3>. QED
      BY <3>1, <3>2
  <2>. QED
    BY <1>1, <2>2, <2>3, <2>4, <2>6 DEF OptInv, PhisOK
<1>4. CASE ~ \E e \in E : e.src = n /\ e.dst = n
  <2>1. /\ edges' = R /\ removed' = removed \cup {n}
        /\ worklist' = (worklist \ {n}) \cup {m \in Again(E, n) : Bypassable(m)}
    BY <1>4 DEF Process
  <2>2. ASSUME NEW e \in Bypass(E, n)
        PROVE  \E a \in In(edges, n), b \in Out(edges, n) :
                 /\ a \in E /\ b \in E /\ e = Joined(a, b) /\ a.src # n /\ b.dst # n
    <3>1. PICK a \in In(E, n), b \in Out(E, n) : e = Joined(a, b)
      BY DEF Bypass, Through
    <3>. QED
      BY <3>1, <1>2, <1>4 DEF In, Out
  <2>3. ASSUME NEW e \in R
        PROVE  EdgeOK(e) /\ e.src # n /\ e.dst # n
    <3>1. CASE e \in E \ Around(E, n)
      BY <3>1, <1>2 DEF OptInv, EdgesOK, Around, In, Out
    <3>2. CASE e \in Bypass(E, n)
      <4>1. PICK a \in In(edges, n), b \in Out(edges, n) : e = Joined(a, b) /\ a.src # n /\ b.dst # n
        BY <3>2, <2>2
      <4>. QED
        BY <4>1, ThroughOK
    <3>. QED
      BY <2>3, <3>1, <3>2
  <2>4. ASSUME NEW m, m # n, Around(R, m) # {}
        PROVE  Around(edges, m) # {}
    <3>1. PICK e \in R : e.src = m \/ e.dst = m
      BY <2>4 DEF Around, In, Out
    <3>2. CASE e \in E \ Around(E, n)
      BY <3>1, <3>2, <1>2 DEF Around, In, Out
    <3>3. CASE e \in Bypass(E, n)
      <4>1. PICK a \in In(edges, n), b \in Out(edges, n) : e = Joined(a, b)
        BY <3>3, <2>2
      <4>2. e.src = a.src /\ e.dst = b.dst /\ a \in edges /\ b \in edges
        BY <4>1 DEF Joined, In, Out
      <4>. QED
        BY <3>1, <4>2 DEF Around, In, Out
    <3>. QED
      BY <3>2, <3>3
  <2>5. ASSUME NEW m \in Again(E, n)
        PROVE  m # n /\ m \notin removed
    <3>1. \A a \in In(E, n) : a.src # n /\ a.src \notin removed
      BY <1>2, <1>4 DEF In, OptInv, EdgesOK, EdgeOK
    <3>2. \A b \in Out(E, n) : b.dst # n /\ b.dst \notin removed
      BY <1>2, <1>4 DEF Out, OptInv, EdgesOK, EdgeOK
    <3>3. (\E a \in In(E, n) : m = a.src) \/ \E b \in Out(E, n) : m = b.dst
      BY DEF Again
    <3>. QED
      BY <3>1, <3>2, <3>3
  <2>6. PhisOK'
    <3>1. ASSUME NEW m \in OfKind({"phi"}) \ DefNodes, Around(R, m) # {}
          PROVE  m \in worklist' \/ (program.selfCycle # "none" /\ \E e \in R : e.src = m /\ e.dst = m)
      <4>1. m # n
        BY <3>1, <2>3 DEF Around, In, Out
      <4>2. m \in worklist \/ (program.selfCycle # "none" /\ \E e \in edges : e.src = m /\ e.dst = m)
        BY <4>1, <3>1, <2>4 DEF OptInv, PhisOK
      <4>. QED
        BY <4>1, <4>2, <2>1, <1>2 DEF Around, In, Out
    <3>. QED
      BY <3>1, <2>1 DEF PhisOK
  <2>. HIDE DEF E, R
  <2>7. PhaseOK'
    <3>1. worklist' \subseteq OfKind({"phi"}) \ (DefNodes \cup removed')
      BY <2>1, <2>5 DEF OptInv, PhaseOK, Bypassable
    <3>2. removed' \subseteq Node \ OfKind({"stmt"}) /\ removed' \cap OfKind({"AO", "FI"}) = removed \cap OfKind({"AO", "FI"})
      BY <2>1 DEF OptInv, PhaseOK, OfKind
    <3>. QED
      BY <3>1, <3>2 DEF OptInv, PhaseOK
  <2>8. DefsOK'
    <3>1. \A d \in defOf : d[2] # n
      BY DEF DefNodes
    <3>2. ASSUME NEW p \in OfKind({"AI", "FO"})
          PROVE  (\E d \in defOf : d[1] = p) \/ In(graph, p) = {}
      BY DEF OptInv, DefsOK
    <3>. QED
      BY <2>1, <3>1, <3>2 DEF OptInv, DefsOK
  <2>9. EdgesOK'
    BY <2>1, <2>3 DEF EdgesOK, EdgeOK
  <2>. QED
    BY <1>1, <2>6, <2>7, <2>8, <2>9 DEF OptInv
<1>. QED
  BY <1>3, <1>4

(* The list is empty. *)
LEMMA IntraDoneKeeps ==
  ASSUME OptInv, IntraDone
  PROVE  OptInv'
<1>. /\ phase = "intra" /\ worklist = {} /\ phase' = "done"
     /\ UNCHANGED <<program, graph, edges, cands, del, paramDef, defOf, worklist, removed>>
  BY DEF IntraDone
<1>. DefNodes' = DefNodes
  BY DEF DefNodes
<1>1. EdgesOK'
  BY DEF OptInv, EdgesOK, EdgeOK
<1>. QED
  BY <1>1 DEF OptInv, ProgramOK, PhaseOK, PhisOK, DefsOK, EdgesOK

(* An edge that comes later is connected to what took the place of its ends. *)
LEMMA ConnectKeeps ==
  ASSUME OptAssumption, OptInv, NEW e \in program.later, Connect(e)
  PROVE  OptInv'
<1>. DEFINE c == Moved(e, Source(e), Target(e))
<1>. /\ phase = "done" /\ cands = {} /\ graph' = graph \cup {e} /\ edges' = edges \cup {c}
     /\ UNCHANGED <<program, phase, cands, del, paramDef, defOf, worklist, removed>>
  BY DEF Connect, OptInv, PhaseOK
<1>. DefNodes' = DefNodes
  BY DEF DefNodes
<1>1. c.src = Source(e) /\ c.dst = Target(e) /\ c.kind = e.kind
  BY DEF Moved
<1>. HIDE DEF c
<1>2. WellFormed(program) /\ program \in Programs
  BY DEF OptInv, ProgramOK, OptAssumption
<1>3. Inter(e) /\ Crosses(e) /\ e.src \in program.nodes /\ e.dst \in program.nodes
      /\ (Kind[e.dst] \in {"FI", "AO"} => e.dst \in program.pinned) /\ In(program.graph, e.src) # {}
  <2>1. e \in program.graph \cup program.later /\ Inter(e) /\ Crosses(e)
    BY <1>2 DEF WellFormed
  <2>2. e.src \in OfKind({"AI", "FO", "AP", "FR"})
    BY <2>1 DEF Crosses, OfKind
  <2>3. Defined(program.graph, e)
    BY <1>2, <2>1, <2>2 DEF WellFormed
  <2>. QED
    BY <1>2, <2>1, <2>3 DEF WellFormed, Defined
<1>4. Inter(c)
  BY <1>1, <1>3 DEF Inter
<1>5. ASSUME e.src \in OfKind({"AI", "FO"}), e.dst \in OfKind({"FI", "AO"})
      PROVE  EdgeOK(c) /\ c.dst \notin OfKind({"phi"}) /\ (c.src \in OfKind({"phi"}) => c.src \in DefNodes)
  <2>1. Target(e) = e.dst
    BY <1>5 DEF Target, OfKind
  <2>2. In(graph, e.src) # {}
    BY <1>3 DEF In, OptInv, ProgramOK
  <2>3. \E d \in defOf : d[1] = e.src
    BY <2>2, <1>5 DEF OptInv, DefsOK
  <2>4. Source(e) \in DefNodes
    BY <2>3, <1>5 DEF Source, OfKind, DefNodes
  <2>5. Source(e) \in MemDefs \ removed
    BY <2>4 DEF OptInv, DefsOK, DefNodes
  <2>6. e.dst \in OfKind({"AO", "FI"}) /\ e.dst \notin removed
    BY <1>3, <1>5 DEF OptInv, PhaseOK, OfKind
  <2>7. c.src \in MemDefs \ removed /\ c.src \in DefNodes /\ c.dst \in OfKind({"AO", "FI"}) /\ c.dst \notin removed
    BY <1>1, <2>1, <2>4, <2>5, <2>6
  <2>8. c.src \in Node /\ c.dst \in Node /\ Phis \cap Node = {} /\ Node \subseteq Nodes
    BY <2>7, PhisNew DEF MemDefs, OfKind
  <2>9. /\ c.src \notin OfKind({"AI", "FO"}) /\ c.src \notin OfKind({"AP", "FR"})
        /\ c.src \notin OfKind({"FP", "AR"})
    BY <2>7 DEF MemDefs, OfKind
  <2>10. /\ c.dst \notin OfKind({"AI", "FO"}) /\ c.dst \notin OfKind({"AP", "FR"})
         /\ c.dst \notin OfKind({"FP", "AR"}) /\ c.dst \notin OfKind({"phi"})
    BY <2>7 DEF OfKind
  <2>11. EdgeOK(c)
    BY <1>4, <2>7, <2>8, <2>9, <2>10 DEF EdgeOK
  <2>. QED
    BY <2>7, <2>10, <2>11
<1>6. ASSUME e.src \in OfKind({"AP", "FR"}), e.dst \in OfKind({"FP", "AR"})
      PROVE  EdgeOK(c) /\ c.dst \notin OfKind({"phi"}) /\ (c.src \in OfKind({"phi"}) => c.src \in DefNodes)
  <2>1. Target(e) = Phi(e.dst) /\ Source(e) = paramDef[e.src]
    BY <1>6 DEF Target, Source, OfKind
  <2>2. Target(e) \in Phis
    BY <2>1, <1>6, PhisNew
  <2>3. Source(e) \in OfKind({"stmt"}) \cup Phis
    BY <2>1, <1>3, <1>6 DEF OptInv, DefsOK
  <2>4. c.src \in OfKind({"stmt"}) \cup Phis /\ c.dst \in Phis
    BY <1>1, <2>2, <2>3
  <2>5. /\ c.src \notin OfKind({"AI", "FO"}) /\ c.src \notin OfKind({"AP", "FR"})
        /\ c.src \notin OfKind({"FP", "AR"}) /\ c.src \notin OfKind({"phi"})
        /\ c.src \in Nodes /\ c.src \in TopDefs /\ c.src \notin removed
    BY <2>4, PhisNew DEF OfKind, TopDefs, OptInv, PhaseOK
  <2>6. c.dst \notin Node /\ c.dst \in Nodes /\ c.dst \notin removed /\ c.dst \in TopUses
    BY <2>4, PhisNew DEF TopUses, OptInv, PhaseOK
  <2>7. EdgeOK(c)
    BY <1>4, <2>4, <2>5, <2>6 DEF EdgeOK, OfKind
  <2>. QED
    BY <2>5, <2>6, <2>7 DEF OfKind
<1>7. /\ EdgeOK(c) /\ c.dst \notin OfKind({"phi"}) /\ (c.src \in OfKind({"phi"}) => c.src \in DefNodes)
  BY <1>3, <1>5, <1>6 DEF Crosses
<1>8. EdgesOK'
  BY <1>7 DEF OptInv, EdgesOK, EdgeOK
<1>9. ProgramOK'
  BY DEF OptInv, ProgramOK
<1>10. DefsOK'
  <2>1. ASSUME NEW n \in OfKind({"AI", "FO"})
        PROVE  In(graph', n) = In(graph, n)
    BY <1>3 DEF Crosses, In, OfKind
  <2>2. ASSUME NEW n \in OfKind({"AI", "FO"})
        PROVE  (\E d \in defOf : d[1] = n) \/ In(graph', n) = {}
    BY <2>1 DEF OptInv, DefsOK
  <2>. QED
    BY <2>2 DEF OptInv, DefsOK
<1>11. PhisOK'
  <2>1. ASSUME NEW n \in OfKind({"phi"}) \ DefNodes
        PROVE  Around(edges', n) = Around(edges, n)
    BY <1>7 DEF Around, In, Out
  <2>. QED
    BY <2>1 DEF OptInv, PhisOK
<1>12. PhaseOK'
  BY DEF OptInv, PhaseOK
<1>. QED
  BY <1>8, <1>9, <1>10, <1>11, <1>12 DEF OptInv
-----------------------------------------------------------------------------
(* The invariant has what GraphCorrect says. *)
LEMMA OptInvCorrect ==
  ASSUME OptAssumption, OptInv
  PROVE  GraphCorrect
<1>1. WellFormed(program)
  BY DEF OptInv, ProgramOK, OptAssumption
<1>2. OptTypeOK
  BY <1>1 DEF OptInv, PhaseOK, EdgesOK, EdgeOK, DefsOK, OptTypeOK, WellFormed, MemDefs, OfKind
<1>3. NoDanglingEdge
  BY DEF OptInv, PhaseOK, EdgesOK, EdgeOK, DefsOK, NoDanglingEdge
<1>4. NotBothInter
  <2>1. ASSUME NEW n \in worklist
        PROVE  ~ ConnectingTwoCallSites(n)
    <3>1. n \in OfKind({"phi", "AO", "FI"}) \ DefNodes /\ cands = {}
      BY DEF OptInv, PhaseOK, OfKind
    <3>. QED
      BY <3>1, NodeEdges DEF ConnectingTwoCallSites
  <2>. QED
    BY <2>1 DEF NotBothInter
<1>5. DefsKnown
  BY DEF OptInv, PhaseOK, DefsOK, DefsKnown
<1>6. Bypassed
  BY DEF OptInv, PhaseOK, PhisOK, Bypassed
<1>. QED
  BY <1>2, <1>3, <1>4, <1>5, <1>6 DEF GraphCorrect

(* The value-flow graph stays correct in every order of the steps, for every    *)
(* program: edges and remembered definitions lead to nodes that are there, no   *)
(* phi that is to be bypassed joins two calls, what is passed at a call that is *)
(* resolved later has a known definition, and at the end the only phis left are *)
(* definitions or have a cycle of their own.                                    *)
THEOREM GraphsAreCorrect == OptAssumption /\ OptSpec => []GraphCorrect
<1>. SUFFICES ASSUME OptAssumption PROVE OptSpec => []GraphCorrect
  OBVIOUS
<1>1. OptInit => OptInv
  BY OptInvInit
<1>2. OptInv /\ [OptNext]_optVars => OptInv'
  <2>. SUFFICES ASSUME OptInv, [OptNext]_optVars PROVE OptInv'
    OBVIOUS
  <2>1. CASE UNCHANGED optVars
    BY <2>1 DEF optVars, OptInv, ProgramOK, PhaseOK, EdgesOK, EdgeOK, DefsOK, PhisOK, DefNodes
  <2>2. CASE OptNext
    BY <2>2, ReplaceKeeps, RetargetKeeps, MarkKeeps, DeleteKeeps, ProcessKeeps, InterDoneKeeps,
       DeleteDoneKeeps, IntraDoneKeeps, ConnectKeeps DEF OptNext, OptStep
  <2>. QED
    BY <2>1, <2>2
<1>3. OptInv => GraphCorrect
  BY OptInvCorrect
<1>. QED
  BY <1>1, <1>2, <1>3, PTL DEF OptSpec
-----------------------------------------------------------------------------
(* Words of labels, and what is reached from x along edges for o: what is in
   every set of points that is closed along them. *)
Closed(E, x, o, F) ==
  /\ <<x, <<>>>> \in F
  /\ \A p \in F, e \in E : e.src = p[1] /\ e.obj = o => <<e.dst, p[2] \o Label(e)>> \in F
Leads(E, x, o, y, w) == \A F : Closed(E, x, o, F) => <<y, w>> \in F

(* The labels are over S. *)
Over(E, S) == \A e \in E : Label(e) \in Seq(S)
Points(E, x, S) == ({x} \cup {e.dst : e \in E}) \X Seq(S)

(* v is what is left of w when loops are cut out of a path. *)
Fits(R, w, v) == Len(v) <= Len(w) /\ (v = w \/ R)
-----------------------------------------------------------------------------
LEMMA LeadsHere ==
  ASSUME NEW E, NEW x, NEW o
  PROVE  Leads(E, x, o, x, <<>>)
BY DEF Leads, Closed

LEMMA LeadsOn ==
  ASSUME NEW E, NEW x, NEW o, NEW e \in E, e.obj = o, NEW w, Leads(E, x, o, e.src, w)
  PROVE  Leads(E, x, o, e.dst, w \o Label(e))
<1>1. ASSUME NEW F, Closed(E, x, o, F)
      PROVE  <<e.dst, w \o Label(e)>> \in F
  <2>. DEFINE p == <<e.src, w>>
  <2>1. p \in F
    BY <1>1 DEF Leads
  <2>2. p[1] = e.src /\ p[2] = w
    OBVIOUS
  <2>. HIDE DEF p
  <2>3. <<e.dst, p[2] \o Label(e)>> \in F
    BY <1>1, <2>1, <2>2 DEF Closed
  <2>. QED
    BY <2>2, <2>3
<1>. QED
  BY <1>1 DEF Leads

LEMMA LeadsMore ==
  ASSUME NEW E, NEW D, E \subseteq D, NEW x, NEW o, NEW y, NEW w, Leads(E, x, o, y, w)
  PROVE  Leads(D, x, o, y, w)
<1>1. ASSUME NEW F, Closed(D, x, o, F)
      PROVE  <<y, w>> \in F
  <2>1. Closed(E, x, o, F)
    BY <1>1 DEF Closed
  <2>. QED
    BY <2>1 DEF Leads
<1>. QED
  BY <1>1 DEF Leads

(* A set of points that is closed has every point reached. *)
LEMMA LeadsWithin ==
  ASSUME NEW E, NEW S, Over(E, S), NEW x, NEW o, NEW F,
         <<x, <<>>>> \in F,
         \A z \in {x} \cup {e.dst : e \in E}, u \in Seq(S), e \in E :
           <<z, u>> \in F /\ e.src = z /\ e.obj = o => <<e.dst, u \o Label(e)>> \in F,
         NEW y, NEW w, Leads(E, x, o, y, w)
  PROVE  <<y, w>> \in F /\ w \in Seq(S)
<1>. DEFINE G == F \cap Points(E, x, S)
<1>1. <<x, <<>>>> \in G
  BY EmptySeq DEF Points
<1>2. ASSUME NEW p \in G, NEW e \in E, e.src = p[1], e.obj = o
      PROVE  <<e.dst, p[2] \o Label(e)>> \in G
  <2>1. /\ p[1] \in {x} \cup {d.dst : d \in E} /\ p[2] \in Seq(S)
        /\ p = <<p[1], p[2]>> /\ p \in F
    BY DEF Points
  <2>2. <<e.dst, p[2] \o Label(e)>> \in F
    BY <1>2, <2>1
  <2>3. p[2] \o Label(e) \in Seq(S)
    BY <2>1, ConcatProperties DEF Over
  <2>. QED
    BY <2>2, <2>3 DEF Points
<1>3. Closed(E, x, o, G)
  BY <1>1, <1>2 DEF Closed
<1>4. <<y, w>> \in G
  BY <1>3 DEF Leads
<1>. QED
  BY <1>4 DEF Points

LEMMA LeadsWords ==
  ASSUME NEW E, NEW S, Over(E, S), NEW x, NEW o, NEW y, NEW w, Leads(E, x, o, y, w)
  PROVE  w \in Seq(S) /\ y \in {x} \cup {e.dst : e \in E}
<1>. DEFINE F == Points(E, x, S)
<1>1. <<x, <<>>>> \in F
  BY EmptySeq DEF Points
<1>2. ASSUME NEW z \in {x} \cup {e.dst : e \in E}, NEW u \in Seq(S), NEW e \in E
      PROVE  <<e.dst, u \o Label(e)>> \in F
  BY ConcatProperties DEF Points, Over
<1>. HIDE DEF F
<1>3. <<y, w>> \in F
  BY <1>1, <1>2, LeadsWithin
<1>. QED
  BY <1>3 DEF Points, F

LEMMA LeadsJoin ==
  ASSUME NEW E, NEW S, Over(E, S), NEW x, NEW o, NEW y, NEW v, Leads(E, x, o, y, v),
         NEW z, NEW w, Leads(E, y, o, z, w)
  PROVE  Leads(E, x, o, z, v \o w) /\ v \o w \in Seq(S)
<1>1. v \in Seq(S) /\ w \in Seq(S)
  BY LeadsWords
<1>. DEFINE F == {p \in Points(E, y, S) : Leads(E, x, o, p[1], v \o p[2])}
<1>2. <<y, <<>>>> \in F
  <2>1. v \o <<>> = v
    BY <1>1, ConcatEmptySeq
  <2>. QED
    BY <2>1, EmptySeq DEF Points
<1>3. ASSUME NEW m \in {y} \cup {e.dst : e \in E}, NEW u \in Seq(S), NEW e \in E,
             <<m, u>> \in F, e.src = m, e.obj = o
      PROVE  <<e.dst, u \o Label(e)>> \in F
  <2>1. Leads(E, x, o, e.src, v \o u)
    BY <1>3
  <2>2. Leads(E, x, o, e.dst, (v \o u) \o Label(e))
    BY <1>3, <2>1, LeadsOn
  <2>3. (v \o u) \o Label(e) = v \o (u \o Label(e)) /\ u \o Label(e) \in Seq(S)
    <3>1. Label(e) \in Seq(S)
      BY DEF Over
    <3>. QED
      BY <1>1, <3>1, ConcatAssociative, ConcatProperties
  <2>4. Leads(E, x, o, e.dst, v \o (u \o Label(e)))
    BY <2>2, <2>3
  <2>. QED
    BY <2>3, <2>4 DEF Points
<1>. HIDE DEF F
<1>4. <<z, w>> \in F
  BY <1>2, <1>3, LeadsWithin
<1>5. Leads(E, x, o, z, v \o w)
  BY <1>4 DEF F
<1>. QED
  BY <1>1, <1>5, ConcatProperties

(* A path that is not empty has a last edge. *)
LEMMA LeadsLast ==
  ASSUME NEW E, NEW S, Over(E, S), NEW x, NEW o, NEW y, NEW w, Leads(E, x, o, y, w)
  PROVE  \/ y = x /\ w = <<>>
         \/ \E e \in E, u \in Seq(S) :
              /\ e.dst = y /\ e.obj = o /\ w = u \o Label(e)
              /\ Leads(E, x, o, e.src, u)
<1>. DEFINE Q(p) == \/ p[1] = x /\ p[2] = <<>>
                    \/ \E e \in E, u \in Seq(S) :
                         /\ e.dst = p[1] /\ e.obj = o /\ p[2] = u \o Label(e)
                         /\ Leads(E, x, o, e.src, u)
            F == {p \in Points(E, x, S) : Leads(E, x, o, p[1], p[2]) /\ Q(p)}
<1>1. <<x, <<>>>> \in F
  BY EmptySeq, LeadsHere DEF Points
<1>2. ASSUME NEW m \in {x} \cup {e.dst : e \in E}, NEW u \in Seq(S), NEW e \in E,
             <<m, u>> \in F, e.src = m, e.obj = o
      PROVE  <<e.dst, u \o Label(e)>> \in F
  <2>. DEFINE q == <<e.dst, u \o Label(e)>>
  <2>1. Leads(E, x, o, e.src, u)
    BY <1>2
  <2>2. Leads(E, x, o, e.dst, u \o Label(e))
    BY <1>2, <2>1, LeadsOn
  <2>3. u \o Label(e) \in Seq(S)
    BY ConcatProperties DEF Over
  <2>4. Q(q)
    BY <1>2, <2>1
  <2>. QED
    BY <2>2, <2>3, <2>4 DEF Points
<1>. HIDE DEF F
<1>3. <<y, w>> \in F
  BY <1>1, <1>2, LeadsWithin
<1>. QED
  BY <1>3 DEF F
(* What leads to another node has a last edge. *)
LEMMA LeadsFrom ==
  ASSUME NEW E, NEW S, Over(E, S), NEW x, NEW o, NEW y, NEW w, Leads(E, x, o, y, w), x # y
  PROVE  \E e \in E, u \in Seq(S) : e.dst = y /\ w = u \o Label(e) /\ Leads(E, x, o, e.src, u)
BY LeadsLast

-----------------------------------------------------------------------------
LEMMA FitsItself ==
  ASSUME NEW R, NEW S, NEW w \in Seq(S)
  PROVE  Fits(R, w, w)
BY LenProperties DEF Fits

LEMMA FitsJoin ==
  ASSUME NEW R, NEW S, NEW v \in Seq(S), NEW w \in Seq(S), NEW x \in Seq(S), NEW y \in Seq(S),
         Fits(R, v, w), Fits(R, x, y)
  PROVE  Fits(R, v \o x, w \o y)
<1>1. /\ Len(v \o x) = Len(v) + Len(x) /\ Len(w \o y) = Len(w) + Len(y)
      /\ {Len(v), Len(w), Len(x), Len(y)} \subseteq Nat
  BY ConcatProperties, LenProperties
<1>. QED
  BY <1>1 DEF Fits

LEMMA FitsAgain ==
  ASSUME NEW R, NEW S, NEW u \in Seq(S), NEW v \in Seq(S), NEW w \in Seq(S),
         Fits(R, u, v), Fits(R, v, w)
  PROVE  Fits(R, u, w)
<1>1. {Len(u), Len(v), Len(w)} \subseteq Nat
  BY LenProperties
<1>. QED
  BY <1>1 DEF Fits

(* Loops can be left out where their labels may be lost. *)
LEMMA WithoutLoops ==
  ASSUME NEW E, NEW S, Over(E, S), NEW R, NEW D,
         \A e \in E : e \in D \/ (e.src = e.dst /\ Fits(R, Label(e), <<>>)),
         NEW x, NEW o, NEW y, NEW w, Leads(E, x, o, y, w)
  PROVE  \E v \in Seq(S) : Fits(R, w, v) /\ Leads(D, x, o, y, v)
<1>. DEFINE F == {p \in Points(E, x, S) : \E v \in Seq(S) : Fits(R, p[2], v) /\ Leads(D, x, o, p[1], v)}
<1>1. <<x, <<>>>> \in F
  <2>1. <<>> \in Seq(S) /\ Fits(R, <<>>, <<>>) /\ Leads(D, x, o, x, <<>>)
    BY EmptySeq, FitsItself, LeadsHere
  <2>. QED
    BY <2>1 DEF Points
<1>2. ASSUME NEW m \in {x} \cup {e.dst : e \in E}, NEW u \in Seq(S), NEW e \in E,
             <<m, u>> \in F, e.src = m, e.obj = o
      PROVE  <<e.dst, u \o Label(e)>> \in F
  <2>1. PICK v \in Seq(S) : Fits(R, u, v) /\ Leads(D, x, o, e.src, v)
    BY <1>2
  <2>2. Label(e) \in Seq(S) /\ u \o Label(e) \in Seq(S) /\ v \o Label(e) \in Seq(S)
    BY ConcatProperties DEF Over
  <2>3. \E z \in Seq(S) : Fits(R, u \o Label(e), z) /\ Leads(D, x, o, e.dst, z)
    <3>1. CASE e \in D
      <4>1. Leads(D, x, o, e.dst, v \o Label(e))
        BY <3>1, <2>1, <1>2, LeadsOn
      <4>2. Fits(R, u \o Label(e), v \o Label(e))
        BY <2>1, <2>2, FitsItself, FitsJoin
      <4>. QED
        BY <4>1, <4>2, <2>2
    <3>2. CASE e.src = e.dst /\ Fits(R, Label(e), <<>>)
      <4>1. Fits(R, u \o Label(e), v \o <<>>) /\ v \o <<>> = v
        BY <2>1, <2>2, <3>2, FitsJoin, EmptySeq, ConcatEmptySeq
      <4>. QED
        BY <4>1, <2>1, <3>2
    <3>. QED
      BY <3>1, <3>2
  <2>. QED
    BY <2>2, <2>3 DEF Points
<1>. HIDE DEF F
<1>3. <<y, w>> \in F
  BY <1>1, <1>2, LeadsWithin
<1>. QED
  BY <1>3 DEF F

(* A node is bypassed: each edge in and each edge out of it for the same object
   have one that stands for both. *)
LEMMA WithoutNode ==
  ASSUME NEW E, NEW S, Over(E, S), NEW n, NEW D,
         \A e \in E : e.src # n /\ e.dst # n => e \in D,
         \A e \in E : e.dst = n => e.src # n,
         \A a \in In(E, n), b \in Out(E, n) :
           a.obj = b.obj => Joined(a, b) \in D /\ Label(Joined(a, b)) = Label(a) \o Label(b),
         NEW x, NEW o, NEW y, NEW w, x # n, y # n, Leads(E, x, o, y, w)
  PROVE  Leads(D, x, o, y, w)
<1>. DEFINE F == {p \in Points(E, x, S) :
                    /\ p[1] # n => Leads(D, x, o, p[1], p[2])
                    /\ p[1] = n => \E a \in In(E, n), v \in Seq(S) :
                         a.obj = o /\ p[2] = v \o Label(a) /\ Leads(D, x, o, a.src, v)}
<1>1. <<x, <<>>>> \in F
  BY LeadsHere, EmptySeq DEF Points
<1>2. ASSUME NEW m \in {x} \cup {e.dst : e \in E}, NEW u \in Seq(S), NEW e \in E,
             <<m, u>> \in F, e.src = m, e.obj = o
      PROVE  <<e.dst, u \o Label(e)>> \in F
  <2>1. u \o Label(e) \in Seq(S) /\ Label(e) \in Seq(S)
    BY ConcatProperties DEF Over
  <2>2. CASE m = n
    <3>1. PICK a \in In(E, n), v \in Seq(S) :
            a.obj = o /\ u = v \o Label(a) /\ Leads(D, x, o, a.src, v)
      BY <1>2, <2>2
    <3>2. e \in Out(E, n) /\ e.dst # n
      BY <1>2, <2>2 DEF Out
    <3>. DEFINE j == Joined(a, e)
    <3>3. j \in D /\ Label(j) = Label(a) \o Label(e)
      BY <1>2, <3>1, <3>2
    <3>4. j.src = a.src /\ j.dst = e.dst /\ j.obj = o
      BY <3>1 DEF Joined
    <3>. HIDE DEF j
    <3>5. Leads(D, x, o, e.dst, v \o Label(j))
      BY <3>1, <3>3, <3>4, LeadsOn
    <3>6. v \o (Label(a) \o Label(e)) = (v \o Label(a)) \o Label(e)
      <4>1. Label(a) \in Seq(S)
        BY <3>1 DEF Over, In
      <4>. QED
        BY <2>1, <4>1, ConcatAssociative
    <3>7. Leads(D, x, o, e.dst, u \o Label(e))
      BY <3>1, <3>3, <3>5, <3>6
    <3>. QED
      BY <2>1, <3>2, <3>7 DEF Points
  <2>3. CASE m # n /\ e.dst = n
    <3>1. Leads(D, x, o, e.src, u)
      BY <1>2, <2>3
    <3>2. e \in In(E, n)
      BY <2>3 DEF In
    <3>3. <<e.dst, u \o Label(e)>> \in Points(E, x, S)
      BY <2>1 DEF Points
    <3>. QED
      BY <1>2, <2>3, <3>1, <3>2, <3>3
  <2>4. CASE m # n /\ e.dst # n
    <3>1. Leads(D, x, o, e.src, u) /\ e \in D
      BY <1>2, <2>4
    <3>2. Leads(D, x, o, e.dst, u \o Label(e))
      BY <1>2, <3>1, LeadsOn
    <3>. QED
      BY <2>1, <2>4, <3>2 DEF Points
  <2>. QED
    BY <2>2, <2>3, <2>4
<1>. HIDE DEF F
<1>3. <<y, w>> \in F
  BY <1>1, <1>2, LeadsWithin
<1>. QED
  BY <1>3 DEF F
-----------------------------------------------------------------------------
(* Finite many words are short. *)
LEMMA ShortWordsFinite ==
  ASSUME NEW A, IsFiniteSet(A), NEW n \in Nat
  PROVE  IsFiniteSet({w \in Seq(A) : Len(w) <= n})
<1>. DEFINE W(k) == {w \in Seq(A) : Len(w) <= k}
            T == {k \in Nat : IsFiniteSet(W(k))}
<1>1. 0 \in T
  <2>1. W(0) \subseteq {<<>>}
    <3>1. ASSUME NEW w \in Seq(A), Len(w) <= 0
          PROVE  w = <<>>
      BY <3>1, EmptySeq
    <3>. QED
      BY <3>1
  <2>2. W(0) \in SUBSET {<<>>}
    BY <2>1
  <2>. HIDE DEF W
  <2>3. IsFiniteSet(W(0))
    BY <2>2, FS_Singleton, FS_Subset
  <2>. QED
    BY <2>3
<1>2. ASSUME NEW k \in Nat, k \in T
      PROVE  k + 1 \in T
  <2>. DEFINE D == W(k) \X A
              f == [x \in D |-> Append(x[1], x[2])]
  <2>1. IsFiniteSet(D)
    <3>1. IsFiniteSet(W(k))
      BY <1>2
    <3>. HIDE DEF W
    <3>. QED
      BY <3>1, FS_Product
  <2>2. IsFiniteSet({f[x] : x \in D})
    <3>. HIDE DEF D, f
    <3>. QED
      BY <2>1, ImageFinite
  <2>3. W(k + 1) \subseteq W(k) \cup {f[x] : x \in D}
    <3>1. ASSUME NEW w \in Seq(A), Len(w) <= k + 1, w \notin W(k)
          PROVE  w \in {f[x] : x \in D}
      <4>1. Len(w) \in Nat /\ ~ Len(w) <= k
        BY <3>1, LenProperties
      <4>2. w # <<>>
        BY <4>1, EmptySeq
      <4>3. PICK s \in Seq(A), a \in A : w = Append(s, a)
        BY <4>2, SequenceEmptyOrAppend
      <4>4. Len(w) = Len(s) + 1 /\ Len(s) \in Nat
        BY <4>3, AppendProperties, LenProperties
      <4>5. Len(s) <= k
        BY <4>4, <3>1
      <4>6. <<s, a>> \in D
        BY <4>5
      <4>7. f[<<s, a>>] = w
        BY <4>3, <4>6
      <4>. HIDE DEF D, f
      <4>. QED
        BY <4>6, <4>7
    <3>. QED
      BY <3>1
  <2>. HIDE DEF D, f
  <2>4. IsFiniteSet(W(k) \cup {f[x] : x \in D})
    <3>1. IsFiniteSet(W(k))
      BY <1>2
    <3>. HIDE DEF W
    <3>. QED
      BY <2>2, <3>1, FS_Union
  <2>5. IsFiniteSet(W(k + 1))
    <3>. HIDE DEF W
    <3>. QED
      BY <2>3, <2>4, FS_Subset
  <2>. QED
    BY <2>5
<1>. HIDE DEF T
<1>3. Nat \subseteq T
  BY <1>1, <1>2, NatWithSuccessors
<1>. QED
  BY <1>3 DEF T

(* The labels of edges. *)
Tags(E) == {<<e.kind, e.cs>> : e \in E}

LEMMA OverTags ==
  ASSUME NEW E
  PROVE  Over(E, Tags(E))
<1>1. ASSUME NEW e \in E
      PROVE  Label(e) \in Seq(Tags(E))
  <2>1. <<e.kind, e.cs>> \in Tags(E)
    BY DEF Tags
  <2>2. <<<<e.kind, e.cs>>>> \in Seq(Tags(E)) /\ <<>> \in Seq(Tags(E))
    BY <2>1
  <2>. QED
    BY <2>2 DEF Label
<1>. QED
  BY <1>1 DEF Over

LEMMA FlowSpaceFinite ==
  ASSUME OptAssumption, NEW E, IsFiniteSet(E), NEW S, IsFiniteSet(S), IsFiniteSet(graph)
  PROVE  IsFiniteSet(FlowSpace(E, S))
<1>. DEFINE D == S \cup {e.dst : e \in E}
            O == {e.obj : e \in graph}
            W == Words(E)
            X == (S \X D) \X (O \X W)
            f == [x \in X |-> [src |-> x[1][1], dst |-> x[1][2], obj |-> x[2][1], word |-> x[2][2]]]
<1>1. IsFiniteSet(D)
  <2>. DEFINE g == [e \in E |-> e.dst]
  <2>1. IsFiniteSet({g[e] : e \in E})
    <3>. HIDE DEF g
    <3>. QED
      BY ImageFinite
  <2>2. {g[e] : e \in E} = {e.dst : e \in E}
    OBVIOUS
  <2>. QED
    BY <2>1, <2>2, FS_Union
<1>2. IsFiniteSet(O)
  <2>. DEFINE g == [e \in graph |-> e.obj]
  <2>1. IsFiniteSet({g[e] : e \in graph})
    <3>. HIDE DEF g
    <3>. QED
      BY ImageFinite
  <2>2. {g[e] : e \in graph} = {e.obj : e \in graph}
    OBVIOUS
  <2>. QED
    BY <2>1, <2>2
<1>3. IsFiniteSet(W)
  <2>. DEFINE g == [e \in E |-> <<e.kind, e.cs>>]
              A == {g[e] : e \in E}
  <2>1. IsFiniteSet(A)
    <3>. HIDE DEF g
    <3>. QED
      BY ImageFinite
  <2>2. A = {<<e.kind, e.cs>> : e \in E}
    OBVIOUS
  <2>3. MaxCalls \in Nat
    BY DEF OptAssumption
  <2>. HIDE DEF A
  <2>4. IsFiniteSet({w \in Seq(A) : Len(w) <= MaxCalls})
    BY <2>1, <2>3, ShortWordsFinite
  <2>. QED
    BY <2>2, <2>4 DEF Words
<1>4. FlowSpace(E, S) \subseteq {f[x] : x \in X}
  <2>1. ASSUME NEW y \in FlowSpace(E, S)
        PROVE  y \in {f[x] : x \in X}
    <3>1. /\ y.src \in S /\ y.dst \in D /\ y.obj \in O /\ y.word \in W
          /\ y = [src |-> y.src, dst |-> y.dst, obj |-> y.obj, word |-> y.word]
      BY DEF FlowSpace
    <3>. DEFINE x == <<<<y.src, y.dst>>, <<y.obj, y.word>>>>
    <3>2. x \in X
      BY <3>1
    <3>3. f[x] = y
      BY <3>1, <3>2
    <3>. HIDE DEF f, x, X
    <3>. QED
      BY <3>2, <3>3
  <2>. QED
    BY <2>1
<1>5. IsFiniteSet(X)
  <2>. HIDE DEF D, O, W
  <2>. QED
    BY <1>1, <1>2, <1>3, FS_Product
<1>. HIDE DEF X, f
<1>6. IsFiniteSet({f[x] : x \in X})
  BY <1>5, ImageFinite
<1>. QED
  BY <1>4, <1>6, FS_Subset

(* The flows of a step longer. *)
Extender(E, S) == [F \in SUBSET FlowSpace(E, S) |-> OneMore(F, E)]

LEMMA InOneMore ==
  ASSUME NEW F, NEW E, NEW z
  PROVE  z \in OneMore(F, E) <=>
           \/ z \in F
           \/ \E f \in F, e \in E :
                /\ f.dst = e.src /\ f.obj = e.obj /\ Len(f.word \o Label(e)) <= MaxCalls
                /\ z = [src |-> f.src, dst |-> e.dst, obj |-> e.obj, word |-> f.word \o Label(e)]
<1>. DEFINE Next(f) == {d \in E : /\ f.dst = d.src /\ f.obj = d.obj
                                  /\ Len(f.word \o Label(d)) <= MaxCalls}
<1>1. ASSUME NEW f \in F, NEW e \in E,
             f.dst = e.src, f.obj = e.obj, Len(f.word \o Label(e)) <= MaxCalls,
             z = [src |-> f.src, dst |-> e.dst, obj |-> e.obj, word |-> f.word \o Label(e)]
      PROVE  z \in OneMore(F, E)
  <2>1. z \in {Longer(f, d) : d \in Next(f)}
    BY <1>1 DEF Longer
  <2>. QED
    BY <2>1, <1>1 DEF OneMore
<1>2. ASSUME z \in OneMore(F, E), z \notin F
      PROVE  \E f \in F, e \in E :
                /\ f.dst = e.src /\ f.obj = e.obj /\ Len(f.word \o Label(e)) <= MaxCalls
                /\ z = [src |-> f.src, dst |-> e.dst, obj |-> e.obj, word |-> f.word \o Label(e)]
  <2>1. PICK f \in F : z \in {Longer(f, d) : d \in Next(f)}
    BY <1>2 DEF OneMore
  <2>2. PICK e \in Next(f) : z = Longer(f, e)
    BY <2>1
  <2>. QED
    BY <2>2 DEF Longer
<1>3. F \subseteq OneMore(F, E)
  BY DEF OneMore
<1>. QED
  BY <1>1, <1>2, <1>3

LEMMA ExtenderIs ==
  ASSUME OptAssumption, NEW E, NEW S
  PROVE  /\ Extender(E, S) \in [SUBSET FlowSpace(E, S) -> SUBSET FlowSpace(E, S)]
         /\ \A F \in SUBSET FlowSpace(E, S) :
              /\ Extender(E, S)[F] = OneMore(F, E)
              /\ F \subseteq OneMore(F, E) /\ OneMore(F, E) \subseteq FlowSpace(E, S)
         /\ \A F, G \in SUBSET FlowSpace(E, S) : F \subseteq G => OneMore(F, E) \subseteq OneMore(G, E)
<1>1. ASSUME NEW F \in SUBSET FlowSpace(E, S), NEW z \in OneMore(F, E)
      PROVE  z \in FlowSpace(E, S)
  <2>1. CASE z \in F
    BY <2>1
  <2>2. CASE z \notin F
    <3>1. PICK f \in F, e \in E :
                /\ f.dst = e.src /\ f.obj = e.obj /\ Len(f.word \o Label(e)) <= MaxCalls
                /\ z = [src |-> f.src, dst |-> e.dst, obj |-> e.obj, word |-> f.word \o Label(e)]
      BY <2>2, InOneMore
    <3>2. f.src \in S /\ f.obj \in {g.obj : g \in graph} /\ f.word \in Words(E)
      BY DEF FlowSpace
    <3>3. f.word \in Seq(Tags(E)) /\ Label(e) \in Seq(Tags(E))
      BY <3>2, OverTags DEF Words, Tags, Over
    <3>4. f.word \o Label(e) \in Seq(Tags(E))
      BY <3>3, ConcatProperties
    <3>5. f.word \o Label(e) \in Words(E)
      BY <3>4, <3>1 DEF Words, Tags
    <3>. QED
      BY <3>1, <3>2, <3>5 DEF FlowSpace
  <2>. QED
    BY <2>1, <2>2
<1>2. ASSUME NEW F, NEW G, F \subseteq G
      PROVE  OneMore(F, E) \subseteq OneMore(G, E)
  <2>1. ASSUME NEW z \in OneMore(F, E)
        PROVE  z \in OneMore(G, E)
    BY <1>2, InOneMore
  <2>. QED
    BY <2>1
<1>3. \A F \in SUBSET FlowSpace(E, S) : Extender(E, S)[F] = OneMore(F, E) /\ F \subseteq OneMore(F, E)
  BY InOneMore DEF Extender
<1>. QED
  BY <1>1, <1>2, <1>3 DEF Extender

(* They are the least set that has the empty ones and is closed. *)
LEMMA FlowsLeast ==
  ASSUME OptAssumption, NEW E, IsFiniteSet(E), NEW S, IsFiniteSet(S), IsFiniteSet(graph)
  PROVE  LeastClosed(Flows(E, S), FlowSpace(E, S), Extender(E, S), NoSteps(S))
<1>. DEFINE V == FlowSpace(E, S)
            G == Extender(E, S)
            a == NoSteps(S)
            f == CHOOSE g : Recurses(g, V, G)
<1>1. IsFiniteSet(V)
  BY FlowSpaceFinite
<1>2. /\ G \in [SUBSET V -> SUBSET V] /\ \A F \in SUBSET V : G[F] = OneMore(F, E)
      /\ \A F \in SUBSET V : F \subseteq G[F]
      /\ \A F, H \in SUBSET V : F \subseteq H => G[F] \subseteq G[H]
  <2>1. PICK X : X = V
    OBVIOUS
  <2>2. PICK H : H = G
    OBVIOUS
  <2>3. /\ H \in [SUBSET X -> SUBSET X] /\ \A F \in SUBSET X : H[F] = OneMore(F, E) /\ F \subseteq OneMore(F, E)
        /\ \A F, K \in SUBSET X : F \subseteq K => OneMore(F, E) \subseteq OneMore(K, E)
    BY <2>1, <2>2, ExtenderIs
  <2>. HIDE DEF V, G
  <2>4. \A F, K \in SUBSET X : F \subseteq K => H[F] \subseteq H[K]
    BY <2>3
  <2>. QED
    BY <2>1, <2>2, <2>3, <2>4
<1>3. a \in SUBSET V
  <2>1. ASSUME NEW z \in a
        PROVE  z \in V
    <3>1. PICK x \in S \X {e.obj : e \in graph} : z = [src |-> x[1], dst |-> x[1], obj |-> x[2], word |-> <<>>]
      BY DEF NoSteps
    <3>2. <<>> \in Words(E)
      <4>1. <<>> \in Seq(Tags(E)) /\ Len(<<>>) = 0
        BY EmptySeq
      <4>. QED
        BY <4>1 DEF Words, Tags, OptAssumption
    <3>3. x[1] \in S /\ x[2] \in {e.obj : e \in graph}
      OBVIOUS
    <3>. QED
      BY <3>1, <3>2, <3>3 DEF FlowSpace
  <2>. QED
    BY <2>1
<1>4. Flows(E, S) = f[a]
  <2>. DEFINE Growth(g) == [F \in SUBSET V |-> IF G[F] = F THEN F ELSE g[G[F]]]
              growth(g) == [F \in SUBSET V |-> LET next == OneMore(F, E)
                                             IN  IF next = F THEN F ELSE g[next]]
  <2>1. \A g : Growth(g) = growth(g)
    <3>. HIDE DEF V, G
    <3>. QED
      BY <1>2
  <2>2. Flows(E, S) = (CHOOSE g : g = growth(g))[a]
    BY DEF Flows
  <2>3. f = CHOOSE g : g = Growth(g)
    BY DEF Recurses
  <2>4. (CHOOSE g : g = Growth(g)) = (CHOOSE g : g = growth(g))
    <3>. HIDE DEF Growth, growth
    <3>. QED
      BY <2>1
  <2>. HIDE DEF Growth, growth, f, a
  <2>. QED
    BY <2>2, <2>3, <2>4
<1>. HIDE DEF V, G, a
<1>5. Recurses(f, V, G)
  <2>1. \E g : Recurses(g, V, G)
    BY <1>1, <1>2, RecursionExists
  <2>. QED
    BY <2>1
<1>. HIDE DEF f
<1>6. LeastClosed(f[a], V, G, a)
  BY <1>1, <1>2, <1>3, <1>5, RecursionCloses
<1>. QED
  BY <1>4, <1>6 DEF V, G, a

(* The flows are what is reached, as far as it is looked at. *)
LEMMA FlowsAre ==
  ASSUME OptAssumption, NEW E, IsFiniteSet(E), NEW S, IsFiniteSet(S), IsFiniteSet(graph), NEW f
  PROVE  f \in Flows(E, S) <=> f \in FlowSpace(E, S) /\ Leads(E, f.src, f.obj, f.dst, f.word)
<1>. DEFINE V == FlowSpace(E, S)
            T == {h \in V : Leads(E, h.src, h.obj, h.dst, h.word)}
<1>1. PICK R : R = Flows(E, S)
  OBVIOUS
<1>2. LeastClosed(R, V, Extender(E, S), NoSteps(S))
  BY <1>1, FlowsLeast
<1>3. R \subseteq V /\ NoSteps(S) \subseteq R /\ OneMore(R, E) = R
  BY <1>2, ExtenderIs DEF LeastClosed
<1>4. R \subseteq T
  <2>1. NoSteps(S) \subseteq T
    <3>1. ASSUME NEW z \in NoSteps(S)
          PROVE  z \in T
      <4>1. PICK x \in S \X {e.obj : e \in graph} : z = [src |-> x[1], dst |-> x[1], obj |-> x[2], word |-> <<>>]
        BY DEF NoSteps
      <4>2. Leads(E, z.src, z.obj, z.dst, z.word)
        BY <4>1, LeadsHere
      <4>. QED
        BY <4>2, <1>3
    <3>. QED
      BY <3>1
  <2>2. ASSUME NEW F \in SUBSET V, F \subseteq T, NEW z \in OneMore(F, E)
        PROVE  z \in T
    <3>1. CASE z \in F
      BY <2>2, <3>1
    <3>2. CASE z \notin F
      <4>1. PICK h \in F, e \in E :
                  /\ h.dst = e.src /\ h.obj = e.obj /\ Len(h.word \o Label(e)) <= MaxCalls
                  /\ z = [src |-> h.src, dst |-> e.dst, obj |-> e.obj, word |-> h.word \o Label(e)]
        BY <2>2, <3>2, InOneMore
      <4>2. Leads(E, h.src, h.obj, h.dst, h.word)
        BY <2>2
      <4>3. Leads(E, h.src, e.obj, e.dst, h.word \o Label(e))
        BY <4>1, <4>2, LeadsOn
      <4>4. z \in V
        <5>1. OneMore(F, E) \subseteq FlowSpace(E, S)
          BY ExtenderIs
        <5>. QED
          BY <2>2, <5>1
      <4>. QED
        BY <4>1, <4>3, <4>4
    <3>. QED
      BY <3>1, <3>2
  <2>3. \A F \in SUBSET V : F \subseteq T => Extender(E, S)[F] \subseteq T
    <3>1. ASSUME NEW F \in SUBSET V, F \subseteq T
          PROVE  Extender(E, S)[F] \subseteq T
      <4>1. Extender(E, S)[F] = OneMore(F, E)
        BY ExtenderIs
      <4>2. OneMore(F, E) \subseteq T
        BY <2>2, <3>1
      <4>. QED
        BY <4>1, <4>2
    <3>. QED
      BY <3>1
  <2>4. T \in SUBSET V
    OBVIOUS
  <2>. HIDE DEF T, V
  <2>. QED
    BY <1>2, <2>1, <2>3, <2>4 DEF LeastClosed
<1>5. ASSUME f \in V, Leads(E, f.src, f.obj, f.dst, f.word)
      PROVE  f \in R
  <2>. DEFINE FlowTo(p) == [src |-> f.src, dst |-> p[1], obj |-> f.obj, word |-> p[2]]
              A == Tags(E)
              F == {p \in Points(E, f.src, A) : Len(p[2]) <= MaxCalls => FlowTo(p) \in R}
  <2>1. f.src \in S /\ f.obj \in {e.obj : e \in graph} /\ Len(f.word) <= MaxCalls
        /\ f = [src |-> f.src, dst |-> f.dst, obj |-> f.obj, word |-> f.word]
    BY <1>5 DEF FlowSpace, Words
  <2>2. <<f.src, <<>>>> \in F
    <3>. DEFINE x == <<f.src, f.obj>>
    <3>1. x \in S \X {e.obj : e \in graph}
      BY <2>1
    <3>2. [src |-> x[1], dst |-> x[1], obj |-> x[2], word |-> <<>>] \in NoSteps(S)
      BY <3>1 DEF NoSteps
    <3>3. FlowTo(<<f.src, <<>>>>) \in R
      BY <3>2, <1>3
    <3>. QED
      BY <3>3, EmptySeq DEF Points
  <2>3. ASSUME NEW m \in {f.src} \cup {e.dst : e \in E}, NEW u \in Seq(A), NEW e \in E,
               <<m, u>> \in F, e.src = m, e.obj = f.obj
        PROVE  <<e.dst, u \o Label(e)>> \in F
    <3>1. Label(e) \in Seq(A)
      BY OverTags DEF Over
    <3>2. u \o Label(e) \in Seq(A) /\ Len(u \o Label(e)) = Len(u) + Len(Label(e))
          /\ Len(u) \in Nat /\ Len(Label(e)) \in Nat
      BY <3>1, ConcatProperties, LenProperties
    <3>3. ASSUME Len(u \o Label(e)) <= MaxCalls
          PROVE  FlowTo(<<e.dst, u \o Label(e)>>) \in R
      <4>1. Len(u) <= MaxCalls
        BY <3>2, <3>3 DEF OptAssumption
      <4>. DEFINE h == FlowTo(<<m, u>>)
      <4>2. h \in R
        BY <2>3, <4>1
      <4>3. h.src = f.src /\ h.dst = m /\ h.obj = f.obj /\ h.word = u
        OBVIOUS
      <4>4. FlowTo(<<e.dst, u \o Label(e)>>) = [src |-> h.src, dst |-> e.dst, obj |-> e.obj, word |-> h.word \o Label(e)]
        BY <2>3
      <4>. HIDE DEF h, FlowTo
      <4>5. FlowTo(<<e.dst, u \o Label(e)>>) \in OneMore(R, E)
        BY <4>2, <4>3, <4>4, <2>3, <3>3, InOneMore
      <4>. QED
        BY <4>5, <1>3
    <3>. QED
      BY <3>2, <3>3 DEF Points
  <2>. HIDE DEF F
  <2>4. <<f.dst, f.word>> \in F
    <3>1. Over(E, A)
      BY OverTags
    <3>. HIDE DEF A
    <3>. QED
      BY <1>5, <2>2, <2>3, <3>1, LeadsWithin
  <2>. QED
    BY <2>1, <2>4 DEF F
<1>. QED
  BY <1>1, <1>4, <1>5
-----------------------------------------------------------------------------
(* A node, or the parameter or result that a phi has taken the place of; and
   what stands for a node now. *)
Original(m) == IF m \in Node THEN m ELSE m.phiOf
Standing(n) == IF n \in OfKind({"FP", "AR"}) \ cands THEN Phi(n) ELSE n

(* The nodes whose flows can still be told. *)
Staying ==
  {n \in program.nodes : n \in OfKind({"FP", "AR"}) \/ (n \in MemDefs /\ n \notin removed)}

(* Something is back where it was by a single call or return. *)
Turns(G) == \E x, o, l : Leads(G, x, o, x, <<l>>)

(* What is passed comes from its definition. *)
PassedOK ==
  /\ \A e \in edges : e.dst \in OfKind({"AP", "FR"}) => e.src = paramDef[e.dst] /\ ~Inter(e)
  /\ \A n \in program.nodes \cap OfKind({"AP", "FR"}) :
       \A g \in In(program.graph, n) : paramDef[n] = Standing(g.src)
  /\ \A d \in defOf : \A g \in In(program.graph, d[1]) : g.src = d[2]

(* At what is passed edges are only taken away. *)
OldEdges ==
  /\ \A e \in edges :
       e.src \in OfKind({"AP", "FR", "AI", "FO"}) \/ e.dst \in OfKind({"AI", "FO"}) => e \in program.graph
  /\ \A n \in cands \cap OfKind({"AI", "FO"}) : In(program.graph, n) \subseteq edges

(* An edge stands for flows of the graph before, and flows between nodes that
   stay are there, along the same calls unless something turns. *)
Sound == \A e \in edges : Leads(graph, Original(e.src), e.obj, Original(e.dst), Label(e))
Complete ==
  \A x, y \in Staying : \A o, w :
    Leads(graph, x, o, y, w) =>
      \E v : Fits(Turns(graph), w, v) /\ Leads(edges, Standing(x), o, Standing(y), v)

FlowInv == OptInv /\ PassedOK /\ OldEdges /\ IsFiniteSet(edges) /\ Sound /\ Complete
-----------------------------------------------------------------------------
LEMMA OriginalOf ==
  ASSUME OptAssumption, NEW n \in Node
  PROVE  Original(n) = n /\ Original(Phi(n)) = n /\ Original(Standing(n)) = n
<1>1. Phi(n) \notin Node /\ Phi(n).phiOf = n
  BY DEF OptAssumption, Phi
<1>. QED
  BY <1>1 DEF Original, Standing

LEMMA LabelOf ==
  ASSUME NEW e, NEW s, NEW d
  PROVE  Label(Moved(e, s, d)) = Label(e)
BY DEF Moved, Label, Inter

LEMMA JoinedLabel ==
  ASSUME NEW a, NEW b, ~Inter(a) \/ ~Inter(b)
  PROVE  Label(Joined(a, b)) = Label(a) \o Label(b)
<1>. DEFINE S == {<<a.kind, a.cs>>, <<b.kind, b.cs>>}
<1>1. Label(a) \in Seq(S) /\ Label(b) \in Seq(S)
  BY DEF Label
<1>2. Label(a) \o <<>> = Label(a) /\ <<>> \o Label(b) = Label(b)
  <2>. HIDE DEF S
  <2>. QED
    BY <1>1, ConcatEmptySeq
<1>3. CASE Inter(a)
  <2>1. Label(b) = <<>> /\ Label(Joined(a, b)) = Label(a)
    BY <1>3 DEF Label, Joined, Inter
  <2>. QED
    BY <2>1, <1>2
<1>4. CASE ~Inter(a)
  <2>1. Label(a) = <<>> /\ Label(Joined(a, b)) = Label(b)
    BY <1>4 DEF Label, Joined, Inter
  <2>. QED
    BY <2>1, <1>2
<1>. QED
  BY <1>3, <1>4

LEMMA OverGraph ==
  ASSUME Sound
  PROVE  Over(edges, Tags(graph))
<1>1. ASSUME NEW e \in edges
      PROVE  Label(e) \in Seq(Tags(graph))
  <2>1. Leads(graph, Original(e.src), e.obj, Original(e.dst), Label(e))
    BY DEF Sound
  <2>. QED
    BY <2>1, OverTags, LeadsWords
<1>. QED
  BY <1>1 DEF Over

(* Paths stand for flows of the graph before as edges do. *)
LEMMA SoundPath ==
  ASSUME Sound, NEW x, NEW o, NEW y, NEW w, Leads(edges, x, o, y, w)
  PROVE  Leads(graph, Original(x), o, Original(y), w)
<1>. DEFINE S == Tags(graph)
            F == {p \in Points(edges, x, S) : Leads(graph, Original(x), o, Original(p[1]), p[2])}
<1>1. <<x, <<>>>> \in F
  BY LeadsHere, EmptySeq DEF Points
<1>2. ASSUME NEW m \in {x} \cup {e.dst : e \in edges}, NEW u \in Seq(S), NEW e \in edges,
             <<m, u>> \in F, e.src = m, e.obj = o
      PROVE  <<e.dst, u \o Label(e)>> \in F
  <2>1. Leads(graph, Original(x), o, Original(m), u)
    BY <1>2
  <2>2. Leads(graph, Original(m), o, Original(e.dst), Label(e))
    BY <1>2 DEF Sound
  <2>3. Leads(graph, Original(x), o, Original(e.dst), u \o Label(e)) /\ u \o Label(e) \in Seq(S)
    BY <2>1, <2>2, OverTags, LeadsJoin
  <2>. QED
    BY <2>3 DEF Points
<1>3. Over(edges, S)
  BY OverGraph
<1>. HIDE DEF F, S
<1>4. <<y, w>> \in F
  BY <1>1, <1>2, <1>3, LeadsWithin
<1>. QED
  BY <1>4 DEF F

(* What stands for two edges. *)
LEMMA SoundJoined ==
  ASSUME Sound, NEW n, NEW a \in In(edges, n), NEW b \in Out(edges, n), a.obj = b.obj,
         ~Inter(a) \/ ~Inter(b)
  PROVE  Leads(graph, Original(a.src), a.obj, Original(b.dst), Label(Joined(a, b)))
<1>1. a \in edges /\ b \in edges /\ a.dst = n /\ b.src = n
  BY DEF In, Out
<1>2. /\ Leads(graph, Original(a.src), a.obj, Original(n), Label(a))
      /\ Leads(graph, Original(n), a.obj, Original(b.dst), Label(b))
  BY <1>1 DEF Sound
<1>3. Leads(graph, Original(a.src), a.obj, Original(b.dst), Label(a) \o Label(b))
  BY <1>2, OverTags, LeadsJoin
<1>. QED
  BY <1>3, JoinedLabel

LEMMA ThroughFinite ==
  ASSUME NEW E, IsFiniteSet(E), NEW I \in SUBSET E, NEW O \in SUBSET E
  PROVE  IsFiniteSet(Through(I, O))
<1>. DEFINE X == {y \in I \X O : y[1].obj = y[2].obj}
            f == [x \in X |-> Joined(x[1], x[2])]
<1>1. IsFiniteSet(X)
  <2>1. IsFiniteSet(I \X O)
    BY FS_Subset, FS_Product
  <2>. QED
    BY <2>1, FS_Subset
<1>2. IsFiniteSet({f[x] : x \in X})
  <2>. HIDE DEF X, f
  <2>. QED
    BY <1>1, ImageFinite
<1>3. Through(I, O) = {f[x] : x \in X}
  BY DEF Through
<1>. QED
  BY <1>2, <1>3

(* Turning is seen, and remains. *)
LEMMA TurnsMore ==
  ASSUME NEW E, NEW D, E \subseteq D, Turns(E)
  PROVE  Turns(D)
<1>1. PICK x, o, l : Leads(E, x, o, x, <<l>>)
  BY DEF Turns
<1>2. Leads(D, x, o, x, <<l>>)
  BY <1>1, LeadsMore
<1>. QED
  BY <1>2 DEF Turns

LEMMA EdgeOf ==
  ASSUME OptAssumption, OptInv
  PROVE  /\ WellFormed(program) /\ IsFiniteSet(graph) /\ program.nodes \subseteq Node
         /\ \A e \in graph : e.src \in program.nodes /\ e.dst \in program.nodes
                             /\ (IF Inter(e) THEN Crosses(e) ELSE Stays(e))
         /\ IsFiniteSet(program.nodes)
<1>1. WellFormed(program) /\ graph \subseteq program.graph \cup program.later
  BY DEF OptAssumption, OptInv, ProgramOK
<1>2. IsFiniteSet(program.graph \cup program.later)
  BY <1>1, FS_Union DEF WellFormed
<1>3. IsFiniteSet(graph)
  BY <1>1, <1>2, FS_Subset
<1>. QED
  BY <1>1, <1>3 DEF WellFormed

LEMMA TurnsRecurs ==
  ASSUME OptAssumption, OptInv, Turns(graph)
  PROVE  Recurs
<1>1. PICK x, o, l : Leads(graph, x, o, x, <<l>>)
  BY DEF Turns
<1>2. PICK e \in graph : e.dst = x /\ e.obj = o
  <2>1. PICK A : Over(graph, A)
    BY OverTags
  <2>2. PICK w : w = <<l>>
    OBVIOUS
  <2>3. Leads(graph, x, o, x, w) /\ w # <<>>
    BY <1>1, <2>2
  <2>. QED
    BY <2>1, <2>3, LeadsLast
<1>3. x \in program.nodes /\ o \in {g.obj : g \in graph}
  BY <1>2, EdgeOf
<1>4. <<l>> \in Seq(Tags(graph))
  BY <1>1, OverTags, LeadsWords
<1>5. <<l>> \in Words(graph)
  BY <1>4 DEF Words, Tags, OptAssumption
<1>. DEFINE f == [src |-> x, dst |-> x, obj |-> o, word |-> <<l>>]
<1>6. f \in FlowSpace(graph, program.nodes)
  BY <1>3, <1>5 DEF FlowSpace
<1>7. f.src = x /\ f.dst = x /\ f.obj = o /\ f.word = <<l>> /\ Len(<<l>>) = 1
  OBVIOUS
<1>. HIDE DEF f
<1>8. f \in Flows(graph, program.nodes)
  BY <1>1, <1>6, <1>7, EdgeOf, FlowsAre
<1>. QED
  BY <1>7, <1>8 DEF Recurs

(* The invariant has what FlowKept says. *)
LEMMA FlowInvKept ==
  ASSUME OptAssumption, FlowInv
  PROVE  FlowKept
<1>. OptInv /\ Sound /\ Complete /\ IsFiniteSet(edges)
  BY DEF FlowInv
<1>. DEFINE S == Statements
<1>1. IsFiniteSet(S) /\ IsFiniteSet(graph) /\ S \subseteq Node
  BY EdgeOf, FS_Subset DEF Statements
<1>2. ASSUME NEW n \in S
      PROVE  n \in Staying /\ Standing(n) = n /\ Original(n) = n
  <2>1. n \in program.nodes /\ n \in OfKind({"stmt"}) /\ n \in Node
    BY <1>1 DEF Statements
  <2>2. n \notin removed
    BY <2>1 DEF OptInv, PhaseOK
  <2>3. n \notin OfKind({"FP", "AR"}) /\ n \in MemDefs
    BY <2>1 DEF OfKind, MemDefs
  <2>. QED
    BY <2>1, <2>2, <2>3, OriginalOf DEF Staying, Standing
<1>3. ASSUME NEW f \in Effects(edges)
      PROVE  f \in Effects(graph)
  <2>1. f \in Flows(edges, S) /\ f.dst \in S
    BY DEF Effects
  <2>2. f \in FlowSpace(edges, S) /\ Leads(edges, f.src, f.obj, f.dst, f.word)
    BY <2>1, <1>1, FlowsAre
  <2>3. f.src \in S /\ Len(f.word) <= MaxCalls /\ f.obj \in {g.obj : g \in graph}
        /\ f = [src |-> f.src, dst |-> f.dst, obj |-> f.obj, word |-> f.word]
    BY <2>2 DEF FlowSpace, Words
  <2>4. Leads(graph, f.src, f.obj, f.dst, f.word)
    BY <2>1, <2>2, <2>3, <1>2, SoundPath
  <2>5. f.word \in Seq(Tags(graph))
    BY <2>4, OverTags, LeadsWords
  <2>6. f.word \in Words(graph)
    BY <2>3, <2>5 DEF Words, Tags
  <2>7. f \in FlowSpace(graph, S)
    BY <2>1, <2>3, <2>6 DEF FlowSpace
  <2>8. f \in Flows(graph, S)
    BY <1>1, <2>4, <2>7, FlowsAre
  <2>. QED
    BY <2>1, <2>8 DEF Effects
<1>4. ASSUME NEW f \in Effects(graph)
      PROVE  \E g \in Effects(edges) : /\ g.src = f.src /\ g.dst = f.dst /\ g.obj = f.obj
                                       /\ g = f \/ Turns(graph)
  <2>1. f \in Flows(graph, S) /\ f.dst \in S
    BY DEF Effects
  <2>2. f \in FlowSpace(graph, S) /\ Leads(graph, f.src, f.obj, f.dst, f.word)
    BY <2>1, <1>1, FlowsAre
  <2>3. f.src \in S /\ Len(f.word) <= MaxCalls /\ f.obj \in {g.obj : g \in graph}
        /\ f.word \in Seq(Tags(graph))
        /\ f = [src |-> f.src, dst |-> f.dst, obj |-> f.obj, word |-> f.word]
    BY <2>2 DEF FlowSpace, Words, Tags
  <2>4. PICK v : Fits(Turns(graph), f.word, v) /\ Leads(edges, f.src, f.obj, f.dst, v)
    BY <2>1, <2>2, <2>3, <1>2 DEF Complete
  <2>. DEFINE g == [src |-> f.src, dst |-> f.dst, obj |-> f.obj, word |-> v]
  <2>5. v \in Seq(Tags(edges))
    BY <2>4, OverTags, LeadsWords
  <2>6. Len(v) <= MaxCalls
    <3>1. Len(v) \in Nat /\ Len(f.word) \in Nat /\ Len(v) <= Len(f.word)
      BY <2>3, <2>4, <2>5, LenProperties DEF Fits
    <3>. QED
      BY <2>3, <3>1 DEF OptAssumption
  <2>7. v \in Words(edges)
    BY <2>5, <2>6 DEF Words, Tags
  <2>8. g \in FlowSpace(edges, S)
    BY <2>1, <2>3, <2>7 DEF FlowSpace
  <2>9. g.src = f.src /\ g.dst = f.dst /\ g.obj = f.obj /\ g.word = v /\ (v = f.word => g = f)
    BY <2>3
  <2>. HIDE DEF g
  <2>10. g \in Flows(edges, S)
    BY <1>1, <2>4, <2>8, <2>9, FlowsAre
  <2>11. g \in Effects(edges)
    BY <2>1, <2>9, <2>10 DEF Effects
  <2>12. g = f \/ Turns(graph)
    BY <2>4, <2>9 DEF Fits
  <2>. QED
    BY <2>9, <2>11, <2>12
<1>. HIDE DEF S
<1>5. Ends(Effects(graph)) \subseteq Ends(Effects(edges))
  <2>1. ASSUME NEW f \in Effects(graph)
        PROVE  <<f.src, f.dst, f.obj>> \in Ends(Effects(edges))
    <3>1. PICK g \in Effects(edges) : g.src = f.src /\ g.dst = f.dst /\ g.obj = f.obj
      BY <1>4
    <3>2. <<g.src, g.dst, g.obj>> \in Ends(Effects(edges))
      BY DEF Ends
    <3>. QED
      BY <3>1, <3>2
  <2>. QED
    BY <2>1 DEF Ends
<1>6. Effects(edges) # Effects(graph) => Recurs
  <2>1. ASSUME ~Turns(graph)
        PROVE  Effects(graph) \subseteq Effects(edges)
    BY <2>1, <1>4
  <2>. QED
    BY <2>1, <1>3, TurnsRecurs
<1>. QED
  BY <1>3, <1>5, <1>6 DEF FlowKept

(* It holds at first. *)
LEMMA FlowInvInit ==
  ASSUME OptAssumption, OptInit
  PROVE  FlowInv
<1>1. OptInv
  BY OptInvInit
<1>2. edges = graph /\ graph = program.graph /\ defOf = {} /\ removed = {}
      /\ cands = program.nodes \ OfKind({"stmt", "phi"})
  BY DEF OptInit
<1>3. WellFormed(program)
  BY <1>1, EdgeOf
<1>4. ASSUME NEW n \in program.nodes
      PROVE  Standing(n) = n /\ Original(n) = n
  <2>1. n \in OfKind({"FP", "AR"}) => n \in cands
    BY <1>2 DEF OfKind
  <2>2. n \in Node
    BY <1>1, EdgeOf
  <2>. QED
    BY <2>1, <2>2, OriginalOf DEF Standing
<1>5. ASSUME NEW n \in OfKind({"AP", "FR"}), NEW g \in In(program.graph, n)
      PROVE  paramDef[n] = g.src /\ ~Inter(g) /\ g.src \in program.nodes
  <2>1. g \in graph /\ g.dst = n
    BY <1>2 DEF In
  <2>2. PICK e \in In(graph, n) : paramDef[n] = e.src
    BY <1>2 DEF OptInit
  <2>3. e.src = g.src
    <3>1. e \in program.graph /\ e.dst = g.dst /\ Kind[g.dst] \in {"AI", "FO", "AP", "FR"}
      BY <1>2, <2>1, <2>2 DEF In, OfKind
    <3>. QED
      BY <1>2, <1>3, <2>1, <3>1 DEF WellFormed
  <2>4. g.src \in program.nodes /\ (IF Inter(g) THEN Crosses(g) ELSE Stays(g))
    BY <2>1, <1>1, EdgeOf
  <2>. QED
    BY <2>1, <2>2, <2>3, <2>4 DEF Crosses, OfKind
<1>6. PassedOK
  <2>1. ASSUME NEW e \in edges, e.dst \in OfKind({"AP", "FR"})
        PROVE  e.src = paramDef[e.dst] /\ ~Inter(e)
    <3>1. e \in In(program.graph, e.dst)
      BY <1>2 DEF In
    <3>. QED
      BY <3>1, <2>1, <1>5
  <2>. QED
    BY <2>1, <1>2, <1>4, <1>5 DEF PassedOK
<1>7. OldEdges
  BY <1>2 DEF OldEdges, In
<1>8. Sound
  <2>1. ASSUME NEW e \in edges
        PROVE  Leads(graph, Original(e.src), e.obj, Original(e.dst), Label(e))
    <3>1. Original(e.src) = e.src /\ Original(e.dst) = e.dst
      BY <1>1, <1>2, <1>4, EdgeOf
    <3>2. Leads(graph, e.src, e.obj, e.src, <<>>)
      BY LeadsHere
    <3>3. Leads(graph, e.src, e.obj, e.dst, <<>> \o Label(e))
      BY <3>2, <1>2, LeadsOn
    <3>4. <<>> \o Label(e) = Label(e)
      <4>1. Label(e) \in Seq(Tags(edges))
        BY OverTags DEF Over
      <4>. QED
        BY <4>1, ConcatEmptySeq
    <3>. QED
      BY <3>1, <3>3, <3>4
  <2>. QED
    BY <2>1 DEF Sound
<1>9. Complete
  <2>1. ASSUME NEW x \in Staying, NEW y \in Staying, NEW o, NEW w, Leads(graph, x, o, y, w)
        PROVE  \E v : Fits(Turns(graph), w, v) /\ Leads(edges, Standing(x), o, Standing(y), v)
    <3>1. Standing(x) = x /\ Standing(y) = y
      BY <1>4 DEF Staying
    <3>2. w \in Seq(Tags(graph))
      BY <2>1, OverTags, LeadsWords
    <3>3. Fits(Turns(graph), w, w)
      BY <3>2, FitsItself
    <3>. QED
      BY <3>1, <3>3, <2>1, <1>2
  <2>. QED
    BY <2>1 DEF Complete
<1>10. IsFiniteSet(edges)
  BY <1>1, <1>2, EdgeOf
<1>. QED
  BY <1>1, <1>6, <1>7, <1>8, <1>9, <1>10 DEF FlowInv
-----------------------------------------------------------------------------
(* What was there is still there, where the graph before is the same. *)
LEMMA CompleteKept ==
  ASSUME Sound, Complete, Sound', graph' = graph, Staying' \subseteq Staying,
         \A x, y \in Staying' : \A o, v :
           Leads(edges, Standing(x), o, Standing(y), v) =>
             \E u : Fits(Turns(graph), v, u) /\ Leads(edges', Standing(x)', o, Standing(y)', u)
  PROVE  Complete'
<1>. DEFINE S == Tags(graph)
<1>1. Over(graph, S) /\ Over(edges, S) /\ Over(edges', S)
  <2>1. Over(edges', Tags(graph'))
    <3>1. ASSUME NEW e \in edges'
          PROVE  Label(e) \in Seq(Tags(graph'))
      <4>1. Leads(graph', Original(e.src), e.obj, Original(e.dst), Label(e))
        BY DEF Sound
      <4>. QED
        BY <4>1, OverTags, LeadsWords
    <3>. QED
      BY <3>1 DEF Over
  <2>. QED
    BY <2>1, OverTags, OverGraph
<1>. HIDE DEF S
<1>2. ASSUME NEW x \in Staying', NEW y \in Staying', NEW o, NEW w, Leads(graph, x, o, y, w)
      PROVE  \E u : Fits(Turns(graph), w, u) /\ Leads(edges', Standing(x)', o, Standing(y)', u)
  <2>1. PICK v : Fits(Turns(graph), w, v) /\ Leads(edges, Standing(x), o, Standing(y), v)
    BY <1>2 DEF Complete
  <2>2. PICK u : Fits(Turns(graph), v, u) /\ Leads(edges', Standing(x)', o, Standing(y)', u)
    BY <2>1
  <2>3. w \in Seq(S)
    BY <1>1, <1>2, LeadsWords
  <2>4. v \in Seq(S)
    BY <1>1, <2>1, LeadsWords
  <2>5. u \in Seq(S)
    BY <1>1, <2>2, LeadsWords
  <2>6. Fits(Turns(graph), w, u)
    BY <2>1, <2>2, <2>3, <2>4, <2>5, FitsAgain
  <2>. QED
    BY <2>2, <2>6
<1>. QED
  BY <1>2 DEF Complete

(* Nothing changes but which nodes are still to be looked at. *)
LEMMA QuietKeeps ==
  ASSUME FlowInv, OptInv', UNCHANGED <<program, graph, edges, paramDef, defOf, removed>>,
         cands' \subseteq cands, cands \cap OfKind({"FP", "AR"}) \subseteq cands'
  PROVE  FlowInv'
<1>1. \A n : Standing(n)' = Standing(n)
  BY DEF Standing
<1>2. Staying' = Staying
  BY DEF Staying
<1>3. PassedOK' /\ OldEdges' /\ Sound'
  BY <1>1 DEF FlowInv, PassedOK, OldEdges, Sound
<1>4. Complete'
  BY <1>1, <1>2 DEF FlowInv, Complete
<1>. QED
  BY <1>3, <1>4 DEF FlowInv
-----------------------------------------------------------------------------
(* D is E where n has given its edges to m, and what passes to n is left out. *)
Replaces(E, D, n, m, P, def) ==
  /\ n \notin P
  /\ \A e \in E : e.src \in P => /\ e.dst \notin P
                                 /\ e.dst # n => e \in D
                                 /\ e.dst = n => Moved(e, def[e.src], m) \in D
  /\ \A e \in E : e.src \notin P => /\ e.dst # n
                                    /\ e.src # n => e \in D
                                    /\ e.src = n => Moved(e, m, e.dst) \in D
  /\ \A e \in E : e.dst \in P => ~Inter(e) /\ def[e.dst] = IF e.src = n THEN m ELSE e.src

LEMMA ReplacedPaths ==
  ASSUME NEW E, NEW S, Over(E, S), NEW D, NEW n, NEW m, NEW P, NEW def, Replaces(E, D, n, m, P, def),
         NEW x, x \notin P, NEW o, NEW y, y \notin P, NEW w, Leads(E, x, o, y, w)
  PROVE  Leads(D, IF x = n THEN m ELSE x, o, IF y = n THEN m ELSE y, w)
<1>. DEFINE Ren(z) == IF z = n THEN m ELSE z
            F == {p \in Points(E, x, S) :
                    /\ Leads(D, Ren(x), o, Ren(p[1]), p[2])
                    /\ p[1] \in P => Leads(D, Ren(x), o, def[p[1]], p[2])}
<1>. /\ n \notin P
     /\ \A e \in E : e.src \in P => /\ e.dst \notin P
                                    /\ e.dst # n => e \in D
                                    /\ e.dst = n => Moved(e, def[e.src], m) \in D
     /\ \A e \in E : e.src \notin P => /\ e.dst # n
                                       /\ e.src # n => e \in D
                                       /\ e.src = n => Moved(e, m, e.dst) \in D
     /\ \A e \in E : e.dst \in P => ~Inter(e) /\ def[e.dst] = IF e.src = n THEN m ELSE e.src
  BY DEF Replaces
<1>1. <<x, <<>>>> \in F
  BY LeadsHere, EmptySeq DEF Points
<1>2. ASSUME NEW z \in {x} \cup {e.dst : e \in E}, NEW u \in Seq(S), NEW e \in E,
             <<z, u>> \in F, e.src = z, e.obj = o
      PROVE  <<e.dst, u \o Label(e)>> \in F
  <2>1. Label(e) \in Seq(S) /\ u \o Label(e) \in Seq(S)
    BY ConcatProperties DEF Over
  <2>2. <<e.dst, u \o Label(e)>> \in Points(E, x, S)
    BY <2>1 DEF Points
  <2>3. Leads(D, Ren(x), o, Ren(z), u) /\ (z \in P => Leads(D, Ren(x), o, def[z], u))
    BY <1>2
  <2>. HIDE DEF Ren
  <2>4. CASE z \in P
    <3>1. e.dst \notin P
      BY <1>2, <2>4
    <3>2. CASE e.dst = n
      <4>. DEFINE c == Moved(e, def[z], m)
      <4>1. c \in D /\ c.src = def[z] /\ c.dst = m /\ c.obj = o /\ Label(c) = Label(e)
        BY <1>2, <2>4, <3>2, LabelOf DEF Moved
      <4>. HIDE DEF c
      <4>2. Leads(D, Ren(x), o, m, u \o Label(e))
        BY <2>3, <2>4, <4>1, LeadsOn
      <4>3. Ren(e.dst) = m
        BY <3>2 DEF Ren
      <4>. QED
        BY <2>2, <3>1, <4>2, <4>3
    <3>3. CASE e.dst # n
      <4>1. Ren(z) = z /\ Ren(e.dst) = e.dst
        BY <2>4, <3>3 DEF Ren
      <4>2. e \in D
        BY <1>2, <2>4, <3>3
      <4>3. Leads(D, Ren(x), o, e.dst, u \o Label(e))
        BY <1>2, <2>3, <4>1, <4>2, LeadsOn
      <4>. QED
        BY <2>2, <3>1, <4>1, <4>3
    <3>. QED
      BY <3>2, <3>3
  <2>5. CASE z \notin P
    <3>1. Ren(e.dst) = e.dst
      BY <1>2, <2>5 DEF Ren
    <3>2. Leads(D, Ren(x), o, e.dst, u \o Label(e))
      <4>1. CASE z = n
        <5>. DEFINE c == Moved(e, m, e.dst)
        <5>1. c \in D /\ c.src = m /\ c.dst = e.dst /\ c.obj = o /\ Label(c) = Label(e)
          BY <1>2, <2>5, <4>1, LabelOf DEF Moved
        <5>2. Ren(z) = m
          BY <4>1 DEF Ren
        <5>. HIDE DEF c
        <5>. QED
          BY <2>3, <5>1, <5>2, LeadsOn
      <4>2. CASE z # n
        <5>1. Ren(z) = z /\ e \in D
          BY <1>2, <2>5, <4>2 DEF Ren
        <5>. QED
          BY <1>2, <2>3, <5>1, LeadsOn
      <4>. QED
        BY <4>1, <4>2
    <3>3. ASSUME e.dst \in P
          PROVE  Leads(D, Ren(x), o, def[e.dst], u \o Label(e))
      <4>1. Label(e) = <<>> /\ def[e.dst] = Ren(z)
        BY <1>2, <3>3 DEF Label, Ren
      <4>2. u \o <<>> = u
        BY ConcatEmptySeq
      <4>. QED
        BY <2>3, <4>1, <4>2
    <3>. QED
      BY <2>2, <3>1, <3>2, <3>3
  <2>. QED
    BY <2>4, <2>5
<1>. HIDE DEF F
<1>3. <<y, w>> \in F
  BY <1>1, <1>2, LeadsWithin
<1>. QED
  BY <1>3 DEF F

(* Where what is passed is defined. *)
LEMMA DefinitionOf ==
  ASSUME OptAssumption, OptInv, PassedOK, NEW e \in program.graph \cup program.later,
         e.src \in OfKind({"AP", "FR", "AI", "FO"})
  PROVE  \E d \in In(program.graph, e.src) :
           /\ d.obj = e.obj /\ d.src \in program.nodes /\ d.src \in Node /\ ~Inter(d)
           /\ d.src \in OfKind({"stmt", "phi", "FP", "AR", "FI", "AO"})
           /\ e.src \in OfKind({"AP", "FR"}) => paramDef[e.src] = Standing(d.src)
           /\ Label(d) = <<>> /\ Leads(graph, d.src, e.obj, e.src, <<>>)
<1>1. WellFormed(program) /\ program.nodes \subseteq Node /\ program.graph \subseteq graph
  BY EdgeOf DEF OptInv, ProgramOK
<1>2. Defined(program.graph, e) /\ e.src \in program.nodes
  BY <1>1 DEF WellFormed, OfKind
<1>3. PICK d \in In(program.graph, e.src) : d.obj = e.obj
  BY <1>2 DEF Defined
<1>4. d \in program.graph /\ d.dst = e.src
  BY DEF In
<1>5. d.src \in program.nodes /\ (IF Inter(d) THEN Crosses(d) ELSE Stays(d))
  BY <1>1, <1>4 DEF WellFormed
<1>6. ~Inter(d) /\ d.src \in OfKind({"stmt", "phi", "FP", "AR", "FI", "AO"})
  BY <1>4, <1>5 DEF Crosses, Stays, OfKind
<1>7. Label(d) = <<>>
  BY <1>6 DEF Label
<1>8. Leads(graph, d.src, e.obj, e.src, <<>>)
  <2>1. Leads(graph, d.src, e.obj, d.src, <<>>)
    BY LeadsHere
  <2>2. Leads(graph, d.src, e.obj, d.dst, <<>> \o Label(d))
    BY <1>1, <1>3, <1>4, <2>1, LeadsOn
  <2>3. <<>> \o <<>> = <<>>
    <3>1. <<>> \in Seq({})
      BY EmptySeq
    <3>. QED
      BY <3>1, ConcatEmptySeq
  <2>. QED
    BY <2>2, <2>3, <1>4, <1>7
<1>9. e.src \in OfKind({"AP", "FR"}) => paramDef[e.src] = Standing(d.src)
  BY <1>2 DEF PassedOK
<1>. QED
  BY <1>1, <1>3, <1>5, <1>6, <1>7, <1>8, <1>9

(* An edge of the graph after its definition. *)
LEMMA PassedSound ==
  ASSUME NEW G, NEW s, NEW e \in G, Leads(G, s, e.obj, e.src, <<>>)
  PROVE  Leads(G, s, e.obj, e.dst, Label(e))
<1>1. Leads(G, s, e.obj, e.dst, <<>> \o Label(e))
  BY LeadsOn
<1>2. Label(e) \in Seq(Tags(G))
  BY OverTags DEF Over
<1>. QED
  BY <1>1, <1>2, ConcatEmptySeq

LEMMA ReplaceFlows ==
  ASSUME OptAssumption, FlowInv, NEW n \in Node, ReplaceFParamARet(n)
  PROVE  FlowInv'
<1>. OptInv /\ PassedOK /\ OldEdges /\ IsFiniteSet(edges) /\ Sound /\ Complete
  BY DEF FlowInv
<1>. n \in cands \cap OfKind({"FP", "AR"}) /\ phase = "inter" /\ n \in program.nodes
  BY DEF ReplaceFParamARet, OptInv, PhaseOK
<1>. /\ cands' = cands \ {n} /\ del' = del \cup {n}
     /\ UNCHANGED <<program, graph, phase, defOf, worklist, removed>>
     /\ paramDef' = DefBy(n)
     /\ edges' = (edges \ Around(edges, n)) \cup Migrated(n) \cup Passed(n, paramDef')
  BY DEF ReplaceFParamARet
<1>. DEFINE P == OfKind({"AP", "FR"})
<1>1. OptInv'
  BY ReplaceKeeps
<1>2. /\ Phi(n) \notin Node /\ Phi(n) # n /\ Phi(n) \in Phis /\ Phis \cap Node = {}
      /\ Original(n) = n /\ Original(Phi(n)) = n /\ P \subseteq Node /\ n \notin P
  BY PhisNew, OriginalOf DEF OfKind
<1>3. /\ DOMAIN paramDef = P
      /\ \A p \in P : paramDef'[p] = IF paramDef[p] = n THEN Phi(n) ELSE paramDef[p]
  BY DEF OptInv, DefsOK, DefBy
<1>4. ASSUME NEW e \in edges
      PROVE  /\ EdgeOK(e)
             /\ e.src \in P => e \in program.graph /\ e.src \in program.nodes /\ e.dst \in OfKind({"FP", "AR"}) /\ e.dst \notin P
             /\ e.src \notin P => e.dst # n
             /\ e.src = n => e.dst \in TopUses /\ e.dst # n
             /\ e.dst \in P => e.src = paramDef[e.dst] /\ ~Inter(e)
  <2>1. EdgeOK(e)
    BY DEF OptInv, EdgesOK
  <2>. QED
    BY <2>1, <1>2 DEF EdgeOK, PassedOK, OldEdges, OfKind
<1>5. \A m \in Node : Standing(m)' = IF m = n THEN Phi(n) ELSE Standing(m)
  BY DEF Standing
<1>6. ASSUME NEW e \in edges'
      PROVE  \/ e \in edges /\ e.src # n /\ e.dst # n
             \/ \E d \in edges : d.src = n /\ e = Moved(d, Phi(n), d.dst)
             \/ \E d \in edges : d.dst = n /\ d.src \in P /\ e = Moved(d, paramDef'[d.src], Phi(n))
  <2>1. CASE e \in edges \ Around(edges, n)
    BY <2>1 DEF Around, In, Out
  <2>2. CASE e \in Migrated(n)
    BY <2>2 DEF Migrated, Out
  <2>3. CASE e \in Passed(n, paramDef')
    <3>1. PICK d \in In(edges, n) : e = Moved(d, paramDef'[d.src], Phi(n))
      BY <2>3 DEF Passed
    <3>. QED
      BY <3>1, <1>4 DEF In
  <2>. QED
    BY <2>1, <2>2, <2>3
<1>7. ASSUME NEW p \in program.nodes \cap P
      PROVE  paramDef'[p] \in OfKind({"stmt"}) \cup Phis \cup OfKind({"FP", "AR"})
  BY <1>1 DEF OptInv, DefsOK
<1>8. PassedOK'
  <2>1. ASSUME NEW e \in edges', e.dst \in P
        PROVE  e.src = paramDef'[e.dst] /\ ~Inter(e)
    <3>1. CASE e \in edges /\ e.src # n /\ e.dst # n
      BY <2>1, <3>1, <1>3, <1>4
    <3>2. CASE \E d \in edges : d.src = n /\ e = Moved(d, Phi(n), d.dst)
      <4>1. PICK d \in edges : d.src = n /\ e = Moved(d, Phi(n), d.dst)
        BY <3>2
      <4>2. e.src = Phi(n) /\ e.dst = d.dst /\ (Inter(e) <=> Inter(d))
        BY <4>1 DEF Moved, Inter
      <4>. QED
        BY <2>1, <4>1, <4>2, <1>3, <1>4
    <3>3. CASE \E d \in edges : d.dst = n /\ d.src \in P /\ e = Moved(d, paramDef'[d.src], Phi(n))
      BY <3>3, <2>1, <1>2 DEF Moved
    <3>. QED
      BY <3>1, <3>2, <3>3, <1>6
  <2>2. ASSUME NEW p \in program.nodes \cap P, NEW g \in In(program.graph, p)
        PROVE  paramDef'[p] = Standing(g.src)'
    <3>1. g.src \in Node
      BY EdgeOf DEF In, OptInv, ProgramOK
    <3>2. paramDef[p] = Standing(g.src)
      BY DEF PassedOK
    <3>3. Standing(n) = n /\ (Standing(g.src) = n => g.src = n)
      BY <3>1, PhisNew DEF Standing
    <3>. QED
      BY <3>1, <3>2, <3>3, <1>3, <1>5
  <2>. QED
    BY <2>1, <2>2 DEF PassedOK
<1>9. OldEdges'
  <2>1. ASSUME NEW e \in edges', e.src \in OfKind({"AP", "FR", "AI", "FO"}) \/ e.dst \in OfKind({"AI", "FO"})
        PROVE  e \in program.graph
    <3>1. CASE e \in edges
      BY <2>1, <3>1 DEF OldEdges
    <3>2. CASE \E d \in edges : d.src = n /\ e = Moved(d, Phi(n), d.dst)
      <4>1. PICK d \in edges : d.src = n /\ e = Moved(d, Phi(n), d.dst)
        BY <3>2
      <4>2. e.src = Phi(n) /\ e.dst \in TopUses
        BY <4>1, <1>4 DEF Moved
      <4>. QED
        BY <2>1, <4>2, <1>2 DEF TopUses, OfKind
    <3>3. CASE \E d \in edges : d.dst = n /\ d.src \in P /\ e = Moved(d, paramDef'[d.src], Phi(n))
      <4>1. PICK d \in edges : d.dst = n /\ d.src \in P /\ e = Moved(d, paramDef'[d.src], Phi(n))
        BY <3>3
      <4>2. e.dst = Phi(n) /\ e.src \in OfKind({"stmt"}) \cup Phis \cup OfKind({"FP", "AR"})
        BY <4>1, <1>4, <1>7 DEF Moved
      <4>. QED
        BY <2>1, <4>2, <1>2 DEF OfKind
    <3>. QED
      BY <3>1, <3>2, <3>3, <1>6
  <2>2. ASSUME NEW m \in cands' \cap OfKind({"AI", "FO"}), NEW g \in In(program.graph, m)
        PROVE  g \in edges'
    <3>1. g \in edges /\ g.dst = m
      BY DEF OldEdges, In
    <3>2. EdgeOK(g)
      BY <3>1, <1>4
    <3>3. g.src # n /\ g.dst # n
      BY <3>1, <3>2 DEF EdgeOK, MemDefs, OfKind
    <3>. QED
      BY <3>1, <3>3 DEF Around, In, Out
  <2>. QED
    BY <2>1, <2>2 DEF OldEdges
<1>10. IsFiniteSet(edges')
  <2>. DEFINE I == In(edges, n)
              O == Out(edges, n)
              f == [e \in O |-> Moved(e, Phi(n), e.dst)]
              h == [e \in I |-> Moved(e, paramDef'[e.src], Phi(n))]
  <2>1. IsFiniteSet(I) /\ IsFiniteSet(O)
    <3>1. I \in SUBSET edges /\ O \in SUBSET edges
      BY DEF In, Out
    <3>. QED
      BY <3>1, FS_Subset
  <2>2. IsFiniteSet({f[e] : e \in O}) /\ IsFiniteSet({h[e] : e \in I})
    <3>. HIDE DEF I, O, f, h
    <3>. QED
      BY <2>1, ImageFinite
  <2>3. Migrated(n) = {f[e] : e \in O} /\ Passed(n, paramDef') = {h[e] : e \in I}
    BY DEF Migrated, Passed
  <2>4. IsFiniteSet(Migrated(n)) /\ IsFiniteSet(Passed(n, paramDef'))
    <3>. HIDE DEF I, O, f, h
    <3>. QED
      BY <2>2, <2>3
  <2>5. IsFiniteSet(edges \ Around(edges, n))
    BY FS_Subset
  <2>. QED
    BY <2>4, <2>5, FS_Union
<1>11. Sound'
  <2>1. ASSUME NEW e \in edges'
        PROVE  Leads(graph, Original(e.src), e.obj, Original(e.dst), Label(e))
    <3>1. CASE e \in edges
      BY <3>1 DEF Sound
    <3>2. CASE \E d \in edges : d.src = n /\ e = Moved(d, Phi(n), d.dst)
      <4>1. PICK d \in edges : d.src = n /\ e = Moved(d, Phi(n), d.dst)
        BY <3>2
      <4>2. e.src = Phi(n) /\ e.dst = d.dst /\ e.obj = d.obj /\ Label(e) = Label(d)
        BY <4>1, LabelOf DEF Moved
      <4>3. Leads(graph, Original(n), d.obj, Original(d.dst), Label(d))
        BY <4>1 DEF Sound
      <4>. QED
        BY <4>2, <4>3, <1>2
    <3>3. CASE \E d \in edges : d.dst = n /\ d.src \in P /\ e = Moved(d, paramDef'[d.src], Phi(n))
      <4>1. PICK d \in edges : d.dst = n /\ d.src \in P /\ e = Moved(d, paramDef'[d.src], Phi(n))
        BY <3>3
      <4>2. e.src = paramDef'[d.src] /\ e.dst = Phi(n) /\ e.obj = d.obj /\ Label(e) = Label(d)
        BY <4>1, LabelOf DEF Moved
      <4>3. d \in program.graph /\ d \in graph /\ d.src \in OfKind({"AP", "FR", "AI", "FO"})
        BY <4>1, <1>4 DEF OptInv, ProgramOK, OfKind
      <4>4. PICK g \in In(program.graph, d.src) :
              /\ g.src \in Node /\ paramDef[d.src] = Standing(g.src)
              /\ Leads(graph, g.src, d.obj, d.src, <<>>)
        BY <4>1, <4>3, DefinitionOf
      <4>5. Original(Standing(g.src)) = g.src
        BY <4>4, OriginalOf
      <4>6. Original(paramDef'[d.src]) = g.src
        <5>1. CASE paramDef[d.src] = n
          BY <5>1, <4>1, <4>4, <4>5, <1>2, <1>3
        <5>2. CASE paramDef[d.src] # n
          BY <5>2, <4>1, <4>4, <4>5, <1>3
        <5>. QED
          BY <5>1, <5>2
      <4>7. Leads(graph, g.src, d.obj, d.dst, Label(d))
        BY <4>3, <4>4, PassedSound
      <4>. QED
        BY <4>1, <4>2, <4>6, <4>7, <1>2
    <3>. QED
      BY <3>1, <3>2, <3>3, <1>6
  <2>. QED
    BY <2>1 DEF Sound
<1>12. Complete'
  <2>1. Staying' = Staying
    BY DEF Staying
  <2>2. ASSUME NEW x \in Staying, NEW y \in Staying, NEW o, NEW v,
               Leads(edges, Standing(x), o, Standing(y), v)
        PROVE  Fits(Turns(graph), v, v) /\ Leads(edges', Standing(x)', o, Standing(y)', v)
    <3>1. Over(edges, Tags(graph))
      BY OverGraph
    <3>2. v \in Seq(Tags(graph))
      BY <2>2, <3>1, LeadsWords
    <3>3. \A z \in Staying : /\ Standing(z) \notin P
                             /\ Standing(z)' = IF Standing(z) = n THEN Phi(n) ELSE Standing(z)
      <4>1. ASSUME NEW z \in Staying
            PROVE  /\ Standing(z) \notin P
                   /\ Standing(z)' = IF Standing(z) = n THEN Phi(n) ELSE Standing(z)
        <5>1. z \in Node /\ z \notin P
          BY EdgeOf DEF Staying, OfKind, MemDefs
        <5>2. (Standing(z) = n <=> z = n) /\ Standing(z) \notin P
          BY <5>1, <1>2, PhisNew DEF Standing
        <5>. QED
          BY <5>1, <5>2, <1>5
      <4>. QED
        BY <4>1
    <3>4. ASSUME NEW e \in edges, e.src \in P
          PROVE  /\ e.dst \notin P
                 /\ e.dst # n => e \in edges'
                 /\ e.dst = n => Moved(e, paramDef'[e.src], Phi(n)) \in edges'
      <4>1. e.dst # n => e \notin Around(edges, n)
        BY <3>4, <1>2 DEF Around, In, Out
      <4>2. e.dst = n => Moved(e, paramDef'[e.src], Phi(n)) \in Passed(n, paramDef')
        BY DEF Passed, In
      <4>. QED
        BY <3>4, <4>1, <4>2, <1>4
    <3>5. ASSUME NEW e \in edges, e.src \notin P
          PROVE  /\ e.dst # n
                 /\ e.src # n => e \in edges'
                 /\ e.src = n => Moved(e, Phi(n), e.dst) \in edges'
      <4>1. e.dst # n
        BY <3>5, <1>4
      <4>2. e.src # n => e \notin Around(edges, n)
        BY <4>1 DEF Around, In, Out
      <4>3. e.src = n => Moved(e, Phi(n), e.dst) \in Migrated(n)
        BY DEF Migrated, Out
      <4>. QED
        BY <4>1, <4>2, <4>3
    <3>6. \A e \in edges : e.dst \in P => ~Inter(e) /\ paramDef'[e.dst] = IF e.src = n THEN Phi(n) ELSE e.src
      BY <1>3, <1>4
    <3>7. PICK m : m = Phi(n)
      OBVIOUS
    <3>8. PICK D : D = edges'
      OBVIOUS
    <3>9. PICK def : def = paramDef'
      OBVIOUS
    <3>10. PICK a, b : a = Standing(x) /\ b = Standing(y)
      OBVIOUS
    <3>11. Replaces(edges, D, n, m, P, def)
      BY <1>2, <3>4, <3>5, <3>6, <3>7, <3>8, <3>9 DEF Replaces
    <3>12. a \notin P /\ b \notin P /\ Leads(edges, a, o, b, v)
      BY <2>2, <3>3, <3>10
    <3>. HIDE DEF P
    <3>13. Leads(D, IF a = n THEN m ELSE a, o, IF b = n THEN m ELSE b, v)
      BY <3>1, <3>11, <3>12, ReplacedPaths
    <3>14. /\ Standing(x)' = IF a = n THEN m ELSE a
           /\ Standing(y)' = IF b = n THEN m ELSE b
      BY <3>3, <3>7, <3>10
    <3>15. Leads(D, Standing(x)', o, Standing(y)', v)
      BY <3>13, <3>14
    <3>. QED
      BY <3>2, <3>8, <3>15, FitsItself
  <2>3. graph' = graph
    OBVIOUS
  <2>. QED
    BY <1>11, <2>1, <2>2, <2>3, CompleteKept
<1>. QED
  BY <1>1, <1>8, <1>9, <1>10, <1>11, <1>12 DEF FlowInv
-----------------------------------------------------------------------------
(* n is bypassed: its edges are gone, and others have come for pairs of them. *)
Bypasses(D, n) ==
  /\ \A e \in edges : e.src # n /\ e.dst # n => e \in D
  /\ \A e \in D : \/ e \in edges /\ e.src # n /\ e.dst # n
                  \/ \E a \in In(edges, n), b \in Out(edges, n) : a.obj = b.obj /\ e = Joined(a, b)
  /\ \A a \in In(edges, n), b \in Out(edges, n) :
       a.obj = b.obj => Joined(a, b) \in D /\ (~Inter(a) \/ ~Inter(b))
  /\ \A e \in edges : e.dst = n => e.src # n

LEMMA BypassSound ==
  ASSUME Sound, NEW D, NEW n, Bypasses(D, n), NEW e \in D
  PROVE  Leads(graph, Original(e.src), e.obj, Original(e.dst), Label(e))
<1>1. CASE e \in edges
  BY <1>1 DEF Sound
<1>2. CASE e \notin edges
  <2>1. PICK a \in In(edges, n), b \in Out(edges, n) : a.obj = b.obj /\ e = Joined(a, b)
    BY <1>2 DEF Bypasses
  <2>2. ~Inter(a) \/ ~Inter(b)
    BY <2>1 DEF Bypasses
  <2>3. Leads(graph, Original(a.src), a.obj, Original(b.dst), Label(Joined(a, b)))
    BY <2>1, <2>2, SoundJoined
  <2>4. Joined(a, b).src = a.src /\ Joined(a, b).dst = b.dst /\ Joined(a, b).obj = a.obj
    BY DEF Joined
  <2>. QED
    BY <2>1, <2>3, <2>4
<1>. QED
  BY <1>1, <1>2

LEMMA BypassPaths ==
  ASSUME Sound, NEW D, NEW n, Bypasses(D, n), NEW x, NEW o, NEW y, NEW w, x # n, y # n,
         Leads(edges, x, o, y, w)
  PROVE  Leads(D, x, o, y, w)
<1>1. Over(edges, Tags(graph))
  BY OverGraph
<1>2. \A a \in In(edges, n), b \in Out(edges, n) :
        a.obj = b.obj => Joined(a, b) \in D /\ Label(Joined(a, b)) = Label(a) \o Label(b)
  BY JoinedLabel DEF Bypasses
<1>3. /\ \A e \in edges : e.src # n /\ e.dst # n => e \in D
      /\ \A e \in edges : e.dst = n => e.src # n
  BY DEF Bypasses
<1>. QED
  BY <1>1, <1>2, <1>3, WithoutNode

LEMMA ThroughBypasses ==
  ASSUME NEW n, NEW D, D = (edges \ Around(edges, n)) \cup Through(In(edges, n), Out(edges, n)),
         \A a \in In(edges, n), b \in Out(edges, n) : ~Inter(a) \/ ~Inter(b),
         \A e \in edges : e.dst = n => e.src # n
  PROVE  Bypasses(D, n)
<1>1. \A e \in edges : (e.src # n /\ e.dst # n) <=> e \notin Around(edges, n)
  BY DEF Around, In, Out
<1>2. ASSUME NEW a \in In(edges, n), NEW b \in Out(edges, n), a.obj = b.obj
      PROVE  Joined(a, b) \in Through(In(edges, n), Out(edges, n))
  <2>. DEFINE x == <<a, b>>
  <2>1. x \in {y \in In(edges, n) \X Out(edges, n) : y[1].obj = y[2].obj} /\ x[1] = a /\ x[2] = b
    BY <1>2
  <2>. HIDE DEF x
  <2>. QED
    BY <2>1 DEF Through
<1>3. ASSUME NEW e \in Through(In(edges, n), Out(edges, n))
      PROVE  \E a \in In(edges, n), b \in Out(edges, n) : a.obj = b.obj /\ e = Joined(a, b)
  <2>1. PICK x \in {y \in In(edges, n) \X Out(edges, n) : y[1].obj = y[2].obj} : e = Joined(x[1], x[2])
    BY DEF Through
  <2>2. x[1] \in In(edges, n) /\ x[2] \in Out(edges, n) /\ x[1].obj = x[2].obj
    OBVIOUS
  <2>. QED
    BY <2>1, <2>2
<1>. QED
  BY <1>1, <1>2, <1>3 DEF Bypasses

LEMMA RetargetFlows ==
  ASSUME OptAssumption, FlowInv, NEW n \in Node, RetargetAInFOut(n)
  PROVE  FlowInv'
<1>. OptInv /\ PassedOK /\ OldEdges /\ IsFiniteSet(edges) /\ Sound /\ Complete
  BY DEF FlowInv
<1>. n \in cands \cap OfKind({"AI", "FO"}) /\ phase = "inter" /\ n \in program.nodes
  BY DEF RetargetAInFOut, OptInv, PhaseOK
<1>. /\ cands' = cands \ {n} /\ del' = del \cup {n}
     /\ UNCHANGED <<program, graph, phase, paramDef, worklist, removed>>
     /\ defOf' = Remembered(n)
     /\ edges' = (edges \ Around(edges, n)) \cup Through(In(edges, n), Out(edges, n))
  BY DEF RetargetAInFOut
<1>1. OptInv'
  BY RetargetKeeps
<1>2. ASSUME NEW e \in edges
      PROVE  /\ EdgeOK(e)
             /\ e.dst = n => e \in program.graph /\ e.src \in MemDefs /\ e.src # n /\ ~Inter(e)
             /\ e.src = n => e.dst \in OfKind({"AO", "FI"})
  <2>1. EdgeOK(e)
    BY DEF OptInv, EdgesOK
  <2>. QED
    BY <2>1 DEF EdgeOK, OldEdges, MemDefs, OfKind
<1>3. PICK D : D = edges'
  OBVIOUS
<1>4. Bypasses(D, n)
  BY <1>2, <1>3, ThroughBypasses DEF In
<1>5. ASSUME NEW e \in edges'
      PROVE  e \in edges \/ (e.src \in MemDefs /\ e.dst \in OfKind({"AO", "FI"}))
  <2>1. CASE e \notin edges
    <3>1. PICK a \in In(edges, n), b \in Out(edges, n) : e = Joined(a, b)
      BY <1>3, <1>4, <2>1 DEF Bypasses
    <3>2. e.src = a.src /\ e.dst = b.dst
      BY <3>1 DEF Joined
    <3>. QED
      BY <3>2, <1>2 DEF In, Out
  <2>. QED
    BY <2>1
<1>6. Standing(n) = n /\ \A m : Standing(m)' = Standing(m)
  BY DEF Standing, OfKind
<1>7. PassedOK'
  <2>1. ASSUME NEW e \in edges', e.dst \in OfKind({"AP", "FR"})
        PROVE  e.src = paramDef[e.dst] /\ ~Inter(e)
    <3>1. e \in edges
      BY <2>1, <1>5 DEF OfKind
    <3>. QED
      BY <2>1, <3>1 DEF PassedOK
  <2>2. ASSUME NEW d \in defOf', NEW g \in In(program.graph, d[1])
        PROVE  g.src = d[2]
    <3>1. CASE d \in defOf
      BY <3>1 DEF PassedOK
    <3>2. CASE d \notin defOf
      <4>1. PICK e \in In(edges, n) : d = <<n, e.src>>
        BY <3>2 DEF Remembered
      <4>2. e \in program.graph /\ e.dst = n /\ g \in program.graph /\ g.dst = n
        BY <4>1, <1>2 DEF In
      <4>3. Kind[n] \in {"AI", "FO"} /\ WellFormed(program)
        BY EdgeOf DEF OfKind
      <4>. QED
        BY <4>1, <4>2, <4>3 DEF WellFormed
    <3>. QED
      BY <3>1, <3>2
  <2>. QED
    BY <2>1, <2>2, <1>6 DEF PassedOK
<1>8. OldEdges'
  <2>1. ASSUME NEW e \in edges', e.src \in OfKind({"AP", "FR", "AI", "FO"}) \/ e.dst \in OfKind({"AI", "FO"})
        PROVE  e \in program.graph
    <3>1. e \in edges
      BY <2>1, <1>5 DEF OfKind, MemDefs
    <3>. QED
      BY <2>1, <3>1 DEF OldEdges
  <2>2. ASSUME NEW m \in cands' \cap OfKind({"AI", "FO"}), NEW g \in In(program.graph, m)
        PROVE  g \in edges'
    <3>1. g \in edges /\ g.dst = m /\ m # n
      BY DEF OldEdges, In
    <3>2. EdgeOK(g)
      BY <3>1, <1>2
    <3>3. g.src # n
      BY <3>1, <3>2 DEF EdgeOK, MemDefs, OfKind
    <3>. QED
      BY <3>1, <3>3 DEF Around, In, Out
  <2>. QED
    BY <2>1, <2>2 DEF OldEdges
<1>9. IsFiniteSet(edges')
  <2>1. In(edges, n) \in SUBSET edges /\ Out(edges, n) \in SUBSET edges
    BY DEF In, Out
  <2>2. IsFiniteSet(Through(In(edges, n), Out(edges, n))) /\ IsFiniteSet(edges \ Around(edges, n))
    BY <2>1, ThroughFinite, FS_Subset
  <2>. QED
    BY <2>2, FS_Union
<1>10. Sound'
  <2>1. ASSUME NEW e \in D
        PROVE  Leads(graph, Original(e.src), e.obj, Original(e.dst), Label(e))
    BY <1>4, BypassSound
  <2>. QED
    BY <1>3, <2>1 DEF Sound
<1>11. Complete'
  <2>1. Staying' = Staying /\ graph' = graph
    BY DEF Staying
  <2>2. ASSUME NEW x \in Staying, NEW y \in Staying, NEW o, NEW v,
               Leads(edges, Standing(x), o, Standing(y), v)
        PROVE  Fits(Turns(graph), v, v) /\ Leads(edges', Standing(x)', o, Standing(y)', v)
    <3>1. \A z \in Staying : Standing(z) # n
      <4>1. ASSUME NEW z \in Staying
            PROVE  Standing(z) # n
        <5>1. z # n /\ z \in Node
          BY EdgeOf DEF Staying, OfKind, MemDefs
        <5>. QED
          BY <5>1, PhisNew DEF Standing
      <4>. QED
        BY <4>1
    <3>2. Over(edges, Tags(graph))
      BY OverGraph
    <3>3. v \in Seq(Tags(graph))
      BY <2>2, <3>2, LeadsWords
    <3>4. PICK a, b : a = Standing(x) /\ b = Standing(y)
      OBVIOUS
    <3>5. a # n /\ b # n /\ Leads(edges, a, o, b, v)
      BY <2>2, <3>1, <3>4
    <3>6. Leads(D, a, o, b, v)
      BY <1>4, <3>5, BypassPaths
    <3>. QED
      BY <1>3, <1>6, <3>3, <3>4, <3>6, FitsItself
  <2>. QED
    BY <1>10, <2>1, <2>2, CompleteKept
<1>. QED
  BY <1>1, <1>7, <1>8, <1>9, <1>10, <1>11 DEF FlowInv
-----------------------------------------------------------------------------
(* Where nothing is looked at any more, edges between definitions of memory and
   what uses it may come. *)
LEMMA BetweenKeeps ==
  ASSUME OptAssumption, FlowInv, cands = {}, UNCHANGED <<program, graph, cands, paramDef, defOf>>,
         \A e \in edges' : e \in edges \/ (e.src \in MemDefs /\ e.dst \in OfKind({"stmt", "phi"}))
  PROVE  PassedOK' /\ OldEdges'
<1>. PassedOK /\ OldEdges
  BY DEF FlowInv
<1>1. \A m : Standing(m)' = Standing(m)
  BY DEF Standing
<1>2. ASSUME NEW e \in edges', e.dst \in OfKind({"AP", "FR"})
      PROVE  e.src = paramDef[e.dst] /\ ~Inter(e)
  <2>1. e \in edges
    BY <1>2 DEF OfKind
  <2>. QED
    BY <1>2, <2>1 DEF PassedOK
<1>3. ASSUME NEW e \in edges', e.src \in OfKind({"AP", "FR", "AI", "FO"}) \/ e.dst \in OfKind({"AI", "FO"})
      PROVE  e \in program.graph
  <2>1. e \in edges
    BY <1>3 DEF OfKind, MemDefs
  <2>. QED
    BY <1>3, <2>1 DEF OldEdges
<1>4. PassedOK'
  BY <1>1, <1>2 DEF PassedOK
<1>5. OldEdges'
  BY <1>3 DEF OldEdges
<1>. QED
  BY <1>4, <1>5

LEMMA DeleteFlows ==
  ASSUME OptAssumption, FlowInv, NEW n \in Node, Delete(n)
  PROVE  FlowInv'
<1>. OptInv /\ PassedOK /\ OldEdges /\ IsFiniteSet(edges) /\ Sound /\ Complete
  BY DEF FlowInv
<1>. /\ phase = "delete" /\ n \in del /\ cands = {} /\ worklist = {} /\ del' = del \ {n}
     /\ UNCHANGED <<program, graph, phase, cands, paramDef, defOf, worklist>>
  BY DEF Delete, OptInv, PhaseOK
<1>1. OptInv'
  BY DeleteKeeps
<1>2. CASE UNCHANGED <<edges, removed>>
  BY <1>1, <1>2, QuietKeeps
<1>3. CASE CanBeRemoved(n) /\ ~ UNCHANGED <<edges, removed>>
  <2>. DEFINE I == In(edges, n)
              O == Out(edges, n)
  <2>1. /\ removed' = removed \cup {n}
        /\ edges' = (edges \ Around(edges, n)) \cup (IF Kind[n] \in {"AO", "FI"} THEN Through(I, O) ELSE {})
    BY <1>3 DEF Delete
  <2>2. n \in program.nodes \ OfKind({"stmt", "phi"})
    BY DEF OptInv, PhaseOK
  <2>3. /\ \A a \in I, b \in O : a.obj = b.obj => ~Inter(b) /\ Kind[n] \in {"AO", "FI"}
        /\ \A e \in edges : e.dst = n => e.src # n
        /\ \A a \in I : a.src \in MemDefs \/ O = {}
        /\ \A b \in O : b.dst \in OfKind({"stmt", "phi"})
    <3>1. CASE n \in OfKind({"AO", "FI"})
      <4>1. n \in OfKind({"phi", "AO", "FI"}) \ DefNodes /\ n \notin OfKind({"phi"})
        BY <1>3, <3>1 DEF CanBeRemoved, OfKind
      <4>2. \A e \in edges : e.dst = n => e \in In(edges, n)
        BY DEF In
      <4>. QED
        BY <3>1, <4>1, <4>2, NodeEdges DEF OfKind
    <3>2. CASE n \notin OfKind({"AO", "FI"})
      <4>1. n \in OfKind({"AI", "FO"}) \cup OfKind({"AP", "FR"}) \cup OfKind({"FP", "AR"})
        BY <2>2, <3>2 DEF OptAssumption, OfKind
      <4>2. ASSUME NEW e \in edges
            PROVE  e.src # n
        <5>1. EdgeOK(e)
          BY DEF OptInv, EdgesOK
        <5>. QED
          BY <4>1, <5>1 DEF EdgeOK
      <4>3. O = {}
        BY <4>2 DEF Out
      <4>. QED
        BY <4>2, <4>3
    <3>. QED
      BY <3>1, <3>2
  <2>4. PICK D : D = edges'
    OBVIOUS
  <2>5. Bypasses(D, n)
    <3>1. CASE Kind[n] \in {"AO", "FI"}
      <4>1. D = (edges \ Around(edges, n)) \cup Through(I, O)
        BY <2>1, <2>4, <3>1
      <4>2. \A a \in I, b \in O : ~Inter(a) \/ ~Inter(b)
        <5>1. n \in OfKind({"phi", "AO", "FI"}) \ DefNodes
          BY <1>3, <3>1 DEF CanBeRemoved, OfKind
        <5>. QED
          BY <5>1, NodeEdges
      <4>. QED
        BY <4>1, <4>2, <2>3, ThroughBypasses
    <3>2. CASE Kind[n] \notin {"AO", "FI"}
      <4>1. D = edges \ Around(edges, n)
        BY <2>1, <2>4, <3>2
      <4>2. \A e \in edges : (e.src # n /\ e.dst # n) <=> e \notin Around(edges, n)
        BY DEF Around, In, Out
      <4>. QED
        BY <4>1, <4>2, <2>3, <3>2 DEF Bypasses
    <3>. QED
      BY <3>1, <3>2
  <2>6. ASSUME NEW e \in edges'
        PROVE  e \in edges \/ (e.src \in MemDefs /\ e.dst \in OfKind({"stmt", "phi"}))
    <3>1. CASE e \notin edges
      <4>1. PICK a \in In(edges, n), b \in Out(edges, n) : e = Joined(a, b)
        BY <2>4, <2>5, <3>1 DEF Bypasses
      <4>2. e.src = a.src /\ e.dst = b.dst
        BY <4>1 DEF Joined
      <4>. QED
        BY <4>2, <2>3
    <3>. QED
      BY <3>1
  <2>7. IsFiniteSet(edges')
    <3>1. I \in SUBSET edges /\ O \in SUBSET edges
      BY DEF In, Out
    <3>2. IsFiniteSet(Through(I, O)) /\ IsFiniteSet(edges \ Around(edges, n)) /\ IsFiniteSet({})
      BY <3>1, ThroughFinite, FS_Subset, FS_EmptySet
    <3>. HIDE DEF I, O
    <3>. QED
      BY <2>1, <3>2, FS_Union
  <2>8. PassedOK' /\ OldEdges'
    BY <2>6, BetweenKeeps
  <2>9. Sound'
    <3>1. ASSUME NEW e \in D
          PROVE  Leads(graph, Original(e.src), e.obj, Original(e.dst), Label(e))
      BY <2>5, BypassSound
    <3>. QED
      BY <2>4, <3>1 DEF Sound
  <2>10. Complete'
    <3>1. Staying' \subseteq Staying /\ graph' = graph
      BY <2>1 DEF Staying
    <3>2. ASSUME NEW x \in Staying', NEW y \in Staying', NEW o, NEW v,
                 Leads(edges, Standing(x), o, Standing(y), v)
          PROVE  Fits(Turns(graph), v, v) /\ Leads(edges', Standing(x)', o, Standing(y)', v)
      <4>1. \A z \in Staying' : Standing(z) # n /\ Standing(z)' = Standing(z)
        <5>1. ASSUME NEW z \in Staying'
              PROVE  Standing(z) # n /\ Standing(z)' = Standing(z)
          <6>1. z \in OfKind({"FP", "AR"}) \/ z # n
            BY <2>1 DEF Staying
          <6>2. Standing(z)' = Standing(z)
            BY DEF Standing
          <6>3. z \in OfKind({"FP", "AR"}) => Standing(z) \in Phis
            BY PhisNew DEF Standing
          <6>. QED
            BY <6>1, <6>2, <6>3, PhisNew DEF Standing
        <5>. QED
          BY <5>1
      <4>2. Over(edges, Tags(graph))
        BY OverGraph
      <4>3. v \in Seq(Tags(graph))
        BY <3>2, <4>2, LeadsWords
      <4>4. PICK a, b : a = Standing(x) /\ b = Standing(y)
        OBVIOUS
      <4>5. a # n /\ b # n /\ Leads(edges, a, o, b, v)
        BY <3>2, <4>1, <4>4
      <4>6. Leads(D, a, o, b, v)
        BY <2>5, <4>5, BypassPaths
      <4>. QED
        BY <2>4, <4>1, <4>3, <4>4, <4>6, FitsItself
    <3>. QED
      BY <2>9, <3>1, <3>2, CompleteKept
  <2>. QED
    BY <1>1, <2>7, <2>8, <2>9, <2>10 DEF FlowInv
<1>. QED
  BY <1>2, <1>3 DEF Delete
-----------------------------------------------------------------------------
(* A loop that is left out takes its label along only where something turns. *)
LEMMA LoopFits ==
  ASSUME NEW e, Leads(graph, Original(e.src), e.obj, Original(e.dst), Label(e)), e.src = e.dst
  PROVE  Fits(Turns(graph), Label(e), <<>>)
<1>1. CASE Inter(e)
  <2>1. Label(e) = <<<<e.kind, e.cs>>>>
    BY <1>1 DEF Label
  <2>2. Turns(graph)
    BY <2>1 DEF Turns
  <2>. QED
    BY <2>1, <2>2 DEF Fits
<1>2. CASE ~Inter(e)
  BY <1>2 DEF Label, Fits
<1>. QED
  BY <1>1, <1>2

LEMMA ProcessFlows ==
  ASSUME OptAssumption, FlowInv, NEW n \in Node, Process(n)
  PROVE  FlowInv'
<1>. OptInv /\ PassedOK /\ OldEdges /\ IsFiniteSet(edges) /\ Sound /\ Complete
  BY DEF FlowInv
<1>. DEFINE E == edges \ Dropped(n)
            I == In(E, n)
            O == Out(E, n)
            S == Tags(graph)
<1>. /\ phase = "intra" /\ n \in worklist /\ cands = {}
     /\ UNCHANGED <<program, graph, phase, cands, del, paramDef, defOf>>
  BY DEF Process, OptInv, PhaseOK
<1>. n \in OfKind({"phi"}) \ DefNodes /\ n \in OfKind({"phi", "AO", "FI"}) \ DefNodes
  BY DEF OptInv, PhaseOK, OfKind
<1>1. OptInv'
  BY ProcessKeeps
<1>2. E \subseteq edges /\ \A e \in edges : e \in E \/ (e.src = e.dst /\ e.src = n)
  BY DEF Dropped
<1>3. Over(edges, S) /\ Over(E, S)
  <2>1. Over(edges, S)
    BY OverGraph
  <2>. QED
    BY <1>2, <2>1 DEF Over
<1>4. \A m : Standing(m)' = Standing(m)
  BY DEF Standing
<1>5. \A e \in edges : e \in E \/ (e.src = e.dst /\ Fits(Turns(graph), Label(e), <<>>))
  BY <1>2, LoopFits DEF Sound
<1>6. ASSUME NEW x, NEW o, NEW y, NEW w, Leads(edges, x, o, y, w)
      PROVE  \E v \in Seq(S) : Fits(Turns(graph), w, v) /\ Leads(E, x, o, y, v)
  <2>. HIDE DEF E, S
  <2>. QED
    BY <1>3, <1>5, <1>6, WithoutLoops
<1>7. CASE \E e \in E : e.src = n /\ e.dst = n
  <2>1. edges' = E /\ removed' = removed
    BY <1>7 DEF Process
  <2>2. IsFiniteSet(edges')
    BY <1>2, <2>1, FS_Subset
  <2>. HIDE DEF E, S
  <2>3. PassedOK' /\ OldEdges'
    BY <1>2, <2>1, BetweenKeeps
  <2>4. Sound'
    BY <1>2, <2>1 DEF Sound
  <2>5. Complete'
    <3>1. Staying' = Staying /\ graph' = graph
      BY <2>1 DEF Staying
    <3>2. ASSUME NEW x \in Staying', NEW y \in Staying', NEW o, NEW v,
                 Leads(edges, Standing(x), o, Standing(y), v)
          PROVE  \E u : Fits(Turns(graph), v, u) /\ Leads(edges', Standing(x)', o, Standing(y)', u)
      <4>1. PICK u : Fits(Turns(graph), v, u) /\ Leads(E, Standing(x), o, Standing(y), u)
        BY <1>6, <3>2
      <4>. QED
        BY <4>1, <1>4, <2>1
    <3>. QED
      BY <2>4, <3>1, <3>2, CompleteKept
  <2>. QED
    BY <1>1, <2>2, <2>3, <2>4, <2>5 DEF FlowInv
<1>8. CASE ~ \E e \in E : e.src = n /\ e.dst = n
  <2>. DEFINE T == Through(I, O)
              D == (E \ Around(E, n)) \cup T
  <2>1. /\ edges' = (E \ Around(E, n)) \cup {e \in T : e.src # e.dst}
        /\ removed' = removed \cup {n}
    BY <1>8 DEF Process, Bypass
  <2>2. I \subseteq In(edges, n) /\ O \subseteq Out(edges, n) /\ I \in SUBSET E /\ O \in SUBSET E
    BY <1>2 DEF In, Out
  <2>3. /\ \A a \in I : a.src \in MemDefs
        /\ \A b \in O : ~Inter(b) /\ b.dst \in OfKind({"stmt", "phi"})
    BY <2>2, NodeEdges
  <2>4. ASSUME NEW e \in T
        PROVE  /\ \E a \in I, b \in O : a.obj = b.obj /\ e = Joined(a, b)
               /\ e.src \in MemDefs /\ e.dst \in OfKind({"stmt", "phi"})
               /\ Leads(graph, Original(e.src), e.obj, Original(e.dst), Label(e))
               /\ Label(e) \in Seq(S)
    <3>1. PICK x \in {y \in I \X O : y[1].obj = y[2].obj} : e = Joined(x[1], x[2])
      BY DEF Through
    <3>2. PICK a, b : a = x[1] /\ b = x[2]
      OBVIOUS
    <3>3. a \in I /\ b \in O /\ a.obj = b.obj /\ e = Joined(a, b)
      BY <3>1, <3>2
    <3>4. e.src = a.src /\ e.dst = b.dst /\ e.obj = a.obj
      BY <3>3 DEF Joined
    <3>5. a \in In(edges, n) /\ b \in Out(edges, n) /\ ~Inter(b)
      BY <2>2, <2>3, <3>3
    <3>. HIDE DEF I, O
    <3>6. Leads(graph, Original(a.src), a.obj, Original(b.dst), Label(Joined(a, b)))
      BY <3>3, <3>5, SoundJoined
    <3>7. Leads(graph, Original(e.src), e.obj, Original(e.dst), Label(e))
      BY <3>3, <3>4, <3>6
    <3>8. Label(e) \in Seq(S)
      BY <3>7, OverTags, LeadsWords
    <3>. QED
      BY <2>3, <3>3, <3>4, <3>7, <3>8
  <2>5. IsFiniteSet(edges')
    <3>1. IsFiniteSet(E) /\ E \in SUBSET edges
      BY <1>2, FS_Subset
    <3>. HIDE DEF E
    <3>2. IsFiniteSet(T) /\ IsFiniteSet(E \ Around(E, n))
      BY <2>2, <3>1, ThroughFinite, FS_Subset
    <3>. HIDE DEF T
    <3>3. IsFiniteSet({e \in T : e.src # e.dst})
      BY <3>2, FS_Subset
    <3>. QED
      BY <2>1, <3>2, <3>3, FS_Union
  <2>. HIDE DEF T
  <2>6. PassedOK' /\ OldEdges'
    BY <1>2, <2>1, <2>4, BetweenKeeps
  <2>7. \A e \in D : Leads(graph, Original(e.src), e.obj, Original(e.dst), Label(e))
    BY <1>2, <2>4 DEF Sound
  <2>8. Sound'
    BY <2>1, <2>7 DEF Sound
  <2>9. Over(D, S)
    BY <1>3, <2>4 DEF Over
  <2>10. /\ \A e \in E : e.src # n /\ e.dst # n => e \in D
         /\ \A e \in E : e.dst = n => e.src # n
         /\ \A a \in In(E, n), b \in Out(E, n) :
              a.obj = b.obj => Joined(a, b) \in D /\ Label(Joined(a, b)) = Label(a) \o Label(b)
    <3>1. \A e \in E : e.src # n /\ e.dst # n => e \notin Around(E, n)
      BY DEF Around, In, Out
    <3>2. ASSUME NEW a \in I, NEW b \in O, a.obj = b.obj
          PROVE  Joined(a, b) \in D /\ Label(Joined(a, b)) = Label(a) \o Label(b)
      <4>. DEFINE x == <<a, b>>
      <4>1. x \in {y \in I \X O : y[1].obj = y[2].obj} /\ x[1] = a /\ x[2] = b
        BY <3>2
      <4>. HIDE DEF x, I, O
      <4>2. Joined(a, b) \in T
        BY <4>1 DEF T, Through
      <4>. QED
        BY <4>2, <2>3, JoinedLabel
    <3>. QED
      BY <1>8, <3>1, <3>2
  <2>11. \A e \in D : e \in edges' \/ (e.src = e.dst /\ Fits(Turns(graph), Label(e), <<>>))
    BY <2>1, <2>7, LoopFits
  <2>12. ASSUME NEW x, NEW o, NEW y, NEW w, x # n, y # n, Leads(edges, x, o, y, w), w \in Seq(S)
         PROVE  \E u : Fits(Turns(graph), w, u) /\ Leads(edges', x, o, y, u)
    <3>1. PICK v \in Seq(S) : Fits(Turns(graph), w, v) /\ Leads(E, x, o, y, v)
      BY <1>6, <2>12
    <3>2. PICK Q : Q = edges'
      OBVIOUS
    <3>3. \A e \in D : e \in Q \/ (e.src = e.dst /\ Fits(Turns(graph), Label(e), <<>>))
      BY <2>11, <3>2
    <3>. HIDE DEF E, S, D, I, O
    <3>4. Leads(D, x, o, y, v)
      BY <1>3, <2>10, <2>12, <3>1, WithoutNode
    <3>5. PICK u \in Seq(S) : Fits(Turns(graph), v, u) /\ Leads(Q, x, o, y, u)
      BY <2>9, <3>3, <3>4, WithoutLoops
    <3>6. Fits(Turns(graph), w, u)
      BY <2>12, <3>1, <3>5, FitsAgain
    <3>. QED
      BY <3>2, <3>5, <3>6
  <2>13. Complete'
    <3>1. Staying' \subseteq Staying /\ graph' = graph
      BY <2>1 DEF Staying
    <3>2. ASSUME NEW x \in Staying', NEW y \in Staying', NEW o, NEW v,
                 Leads(edges, Standing(x), o, Standing(y), v)
          PROVE  \E u : Fits(Turns(graph), v, u) /\ Leads(edges', Standing(x)', o, Standing(y)', u)
      <4>1. \A z \in Staying' : Standing(z) # n
        <5>1. n \in Node /\ n \notin OfKind({"FP", "AR"})
          BY DEF OfKind
        <5>2. \A z \in Staying' : z # n
          BY <2>1, <5>1 DEF Staying
        <5>. QED
          BY <5>1, <5>2, PhisNew DEF Standing
      <4>2. v \in Seq(S)
        BY <1>3, <3>2, LeadsWords
      <4>3. \E u : Fits(Turns(graph), v, u) /\ Leads(edges', Standing(x), o, Standing(y), u)
        BY <2>12, <3>2, <4>1, <4>2
      <4>. QED
        BY <4>3, <1>4
    <3>. QED
      BY <2>8, <3>1, <3>2, CompleteKept
  <2>. QED
    BY <1>1, <2>5, <2>6, <2>8, <2>13 DEF FlowInv
<1>. QED
  BY <1>7, <1>8
-----------------------------------------------------------------------------
(* The edge that comes later stands between what took the place of its ends. *)
LEMMA ConnectFlows ==
  ASSUME OptAssumption, FlowInv, NEW e \in program.later, Connect(e)
  PROVE  FlowInv'
<1>. OptInv /\ PassedOK /\ OldEdges /\ IsFiniteSet(edges) /\ Sound /\ Complete
  BY DEF FlowInv
<1>. PICK c : c = Moved(e, Source(e), Target(e))
  OBVIOUS
<1>. DEFINE G == graph \cup {e}
            S == Tags(G)
<1>. /\ phase = "done" /\ cands = {} /\ graph' = G /\ edges' = edges \cup {c}
     /\ UNCHANGED <<program, phase, cands, del, paramDef, defOf, worklist, removed>>
  BY DEF Connect, OptInv, PhaseOK
<1>1. OptInv'
  BY ConnectKeeps
<1>2. /\ c.src = Source(e) /\ c.dst = Target(e) /\ c.obj = e.obj /\ Label(c) = Label(e)
      /\ (Inter(c) <=> Inter(e))
  BY LabelOf DEF Moved, Inter
<1>3. /\ Inter(e) /\ Crosses(e) /\ e.src \in program.nodes /\ e.dst \in program.nodes
      /\ e.src \in Node /\ e.dst \in Node
      /\ e.src \in OfKind({"AP", "FR", "AI", "FO"}) /\ e.dst \in OfKind({"FP", "AR", "FI", "AO"})
      /\ Kind[e.dst] \in {"FI", "AO"} => e.dst \in program.pinned
  <2>1. WellFormed(program)
    BY EdgeOf
  <2>2. Crosses(e)
    BY <2>1 DEF WellFormed
  <2>. QED
    BY <2>1, <2>2 DEF WellFormed, Crosses, OfKind
<1>4. PICK d \in In(program.graph, e.src) :
        /\ d.obj = e.obj /\ d.src \in program.nodes /\ d.src \in Node /\ ~Inter(d)
        /\ d.src \in OfKind({"stmt", "phi", "FP", "AR", "FI", "AO"})
        /\ e.src \in OfKind({"AP", "FR"}) => paramDef[e.src] = Standing(d.src)
        /\ Label(d) = <<>> /\ Leads(graph, d.src, e.obj, e.src, <<>>)
  BY <1>3, DefinitionOf
<1>5. /\ Source(e) = Standing(d.src) /\ d.src \in Staying /\ Original(Source(e)) = d.src
      /\ \A g \in graph : g.dst = e.src => g.src = d.src /\ Label(g) = <<>>
  <2>1. d \in program.graph /\ d \in graph /\ d.dst = e.src /\ d.src \in program.nodes
    BY <1>4 DEF In, OptInv, ProgramOK
  <2>2. Source(e) = Standing(d.src) /\ d.src \in Staying
    <3>1. CASE e.src \in OfKind({"AP", "FR"})
      <4>1. Source(e) = paramDef[e.src]
        BY <3>1 DEF Source, OfKind
      <4>2. Crosses(d) \/ Stays(d)
        BY <2>1, EdgeOf
      <4>3. d.src \in OfKind({"stmt"}) \cup OfKind({"FP", "AR"})
        BY <1>4, <2>1, <3>1, <4>2 DEF Crosses, Stays, OfKind
      <4>4. d.src \in OfKind({"stmt"}) => d.src \in MemDefs /\ d.src \notin removed
        BY DEF MemDefs, OfKind, OptInv, PhaseOK
      <4>. QED
        BY <1>4, <2>1, <3>1, <4>1, <4>3, <4>4 DEF Staying
    <3>2. CASE e.src \in OfKind({"AI", "FO"})
      <4>1. In(graph, e.src) # {}
        BY <2>1 DEF In
      <4>2. \E p \in defOf : p[1] = e.src
        BY <3>2, <4>1 DEF OptInv, DefsOK
      <4>3. PICK p \in defOf : p[1] = e.src /\ Source(e) = p[2]
        BY <3>2, <4>2 DEF Source, OfKind
      <4>4. d.src = p[2]
        BY <1>4, <4>3 DEF PassedOK
      <4>5. p[2] \in MemDefs /\ p[2] \notin removed
        BY DEF OptInv, DefsOK
      <4>6. Standing(d.src) = d.src
        BY <4>4, <4>5 DEF MemDefs, OfKind, Standing
      <4>. QED
        BY <1>4, <2>1, <4>3, <4>4, <4>5, <4>6 DEF Staying
    <3>. QED
      BY <1>3, <3>1, <3>2 DEF OfKind
  <2>3. ASSUME NEW g \in graph, g.dst = e.src
        PROVE  g.src = d.src /\ Label(g) = <<>>
    <3>1. Kind[g.dst] \in {"AI", "FO", "AP", "FR"}
      BY <1>3, <2>3 DEF OfKind
    <3>2. ~Inter(g)
      BY <3>1, <2>3, EdgeOf DEF Crosses, OfKind
    <3>3. WellFormed(program)
      BY EdgeOf
    <3>4. g \in program.graph
      BY <3>2, <3>3 DEF WellFormed, OptInv, ProgramOK
    <3>. QED
      BY <2>1, <2>3, <3>1, <3>2, <3>3, <3>4 DEF WellFormed, Label
  <2>4. Original(Source(e)) = d.src
    BY <1>4, <2>2, OriginalOf
  <2>. QED
    BY <2>2, <2>3, <2>4
<1>6. /\ Target(e) = Standing(e.dst) /\ e.dst \in Staying /\ Original(Target(e)) = e.dst
  <2>1. Target(e) = Standing(e.dst)
    BY <1>3 DEF Target, Standing, OfKind
  <2>2. Original(Target(e)) = e.dst
    BY <1>3, <2>1, OriginalOf
  <2>3. e.dst \in OfKind({"FI", "AO"}) => e.dst \notin removed /\ e.dst \in MemDefs
    BY <1>3 DEF OptInv, PhaseOK, OfKind, MemDefs
  <2>4. e.dst \in Staying
    BY <1>3, <2>3 DEF Staying, OfKind
  <2>. QED
    BY <2>1, <2>2, <2>4
<1>7. \A m : Standing(m)' = Standing(m)
  BY DEF Standing
<1>8. PassedOK'
  <2>1. c.dst \notin OfKind({"AP", "FR"})
    BY <1>2, <1>3, <1>6, PhisNew DEF Standing, OfKind
  <2>. QED
    BY <1>7, <2>1 DEF PassedOK
<1>9. OldEdges'
  <2>1. EdgeOK(c)'
    BY <1>1 DEF OptInv, EdgesOK
  <2>2. c.src \notin OfKind({"AI", "FO"}) /\ c.dst \notin OfKind({"AI", "FO"})
    BY <2>1 DEF EdgeOK
  <2>3. c.src \notin OfKind({"AP", "FR"})
    BY <1>2, <1>4, <1>5, PhisNew DEF Standing, OfKind
  <2>4. OfKind({"AP", "FR", "AI", "FO"}) = OfKind({"AP", "FR"}) \cup OfKind({"AI", "FO"})
    BY DEF OfKind
  <2>. QED
    BY <2>2, <2>3, <2>4 DEF OldEdges
<1>10. IsFiniteSet(edges')
  BY FS_Singleton, FS_Union
<1>11. graph \subseteq G /\ edges \subseteq edges' /\ e \in G
  OBVIOUS
<1>12. Leads(G, d.src, e.obj, e.dst, Label(e))
  <2>1. Leads(G, d.src, e.obj, e.src, <<>>)
    BY <1>4, <1>11, LeadsMore
  <2>. HIDE DEF G
  <2>. QED
    BY <1>11, <2>1, PassedSound
<1>13. \A f \in edges' : Leads(G, Original(f.src), f.obj, Original(f.dst), Label(f))
  <2>1. ASSUME NEW f \in edges
        PROVE  Leads(G, Original(f.src), f.obj, Original(f.dst), Label(f))
    <3>1. Leads(graph, Original(f.src), f.obj, Original(f.dst), Label(f))
      BY DEF Sound
    <3>. QED
      BY <1>11, <3>1, LeadsMore
  <2>. QED
    BY <1>2, <1>5, <1>6, <1>12, <2>1
<1>14. Sound'
  BY <1>13 DEF Sound
<1>15. Over(G, S) /\ Over(graph, S) /\ Over(edges', S) /\ Over(edges, S)
  <2>1. Over(G, S)
    BY OverTags
  <2>2. ASSUME NEW f \in edges'
        PROVE  Label(f) \in Seq(S)
    <3>1. Leads(G, Original(f.src), f.obj, Original(f.dst), Label(f))
      BY <1>13
    <3>. HIDE DEF G, S
    <3>. QED
      BY <2>1, <3>1, LeadsWords
  <2>. QED
    BY <1>11, <2>1, <2>2 DEF Over
<1>16. Turns(graph) => Turns(G)
  BY <1>11, TurnsMore
<1>. HIDE DEF G, S
<1>17. ASSUME NEW x \in Staying, NEW o, NEW y \in Staying, NEW w, Leads(G, x, o, y, w)
       PROVE  \E v : Fits(Turns(G), w, v) /\ Leads(edges', Standing(x), o, Standing(y), v)
  <2>1. PICK Q : Q = edges'
    OBVIOUS
  <2>. DEFINE R == Turns(G)
              Ok(p) == \E k \in Staying, u1 \in Seq(S), u2 \in Seq(S), v \in Seq(S) :
                         /\ p[2] = u1 \o u2 /\ Leads(graph, k, o, p[1], u2)
                         /\ Fits(R, u1, v) /\ Leads(Q, Standing(x), o, Standing(k), v)
              F == {p \in Points(G, x, S) : Ok(p)}
  <2>2. ASSUME NEW k \in Staying, NEW z \in Staying, NEW u1 \in Seq(S), NEW u2 \in Seq(S), NEW v \in Seq(S),
               Leads(graph, k, o, z, u2), Fits(R, u1, v), Leads(Q, Standing(x), o, Standing(k), v)
        PROVE  \E t \in Seq(S) : Fits(R, u1 \o u2, t) /\ Leads(Q, Standing(x), o, Standing(z), t)
    <3>1. PICK v2 : Fits(Turns(graph), u2, v2) /\ Leads(edges, Standing(k), o, Standing(z), v2)
      BY <2>2 DEF Complete
    <3>2. Fits(R, u2, v2)
      BY <1>16, <3>1 DEF Fits
    <3>3. v2 \in Seq(S)
      BY <1>15, <3>1, LeadsWords
    <3>4. Leads(Q, Standing(k), o, Standing(z), v2)
      BY <1>11, <2>1, <3>1, LeadsMore
    <3>5. Over(Q, S)
      BY <1>15, <2>1
    <3>. HIDE DEF R
    <3>6. Leads(Q, Standing(x), o, Standing(z), v \o v2) /\ v \o v2 \in Seq(S)
      BY <2>2, <3>4, <3>5, LeadsJoin
    <3>7. Fits(R, u1 \o u2, v \o v2)
      BY <2>2, <3>2, <3>3, FitsJoin
    <3>. QED
      BY <3>6, <3>7
  <2>3. <<x, <<>>>> \in F
    <3>1. /\ <<>> \in Seq(S) /\ <<>> \o <<>> = <<>> /\ Fits(R, <<>>, <<>>)
          /\ Leads(graph, x, o, x, <<>>) /\ Leads(Q, Standing(x), o, Standing(x), <<>>)
      BY EmptySeq, ConcatEmptySeq, FitsItself, LeadsHere
    <3>2. Ok(<<x, <<>>>>)
      BY <3>1
    <3>. QED
      BY <3>1, <3>2 DEF Points
  <2>4. ASSUME NEW m \in {x} \cup {g.dst : g \in G}, NEW u \in Seq(S), NEW g \in G,
               <<m, u>> \in F, g.src = m, g.obj = o
        PROVE  <<g.dst, u \o Label(g)>> \in F
    <3>1. PICK k \in Staying, u1 \in Seq(S), u2 \in Seq(S), v \in Seq(S) :
            /\ u = u1 \o u2 /\ Leads(graph, k, o, m, u2)
            /\ Fits(R, u1, v) /\ Leads(Q, Standing(x), o, Standing(k), v)
      BY <2>4
    <3>2. Label(g) \in Seq(S)
      BY <1>15 DEF Over
    <3>3. u \o Label(g) \in Seq(S)
      BY <3>2, ConcatProperties
    <3>4. CASE g \in graph
      <4>1. Leads(graph, k, o, g.dst, u2 \o Label(g))
        BY <2>4, <3>1, <3>4, LeadsOn
      <4>2. u \o Label(g) = u1 \o (u2 \o Label(g)) /\ u2 \o Label(g) \in Seq(S)
        BY <3>1, <3>2, ConcatAssociative, ConcatProperties
      <4>3. Ok(<<g.dst, u \o Label(g)>>)
        BY <3>1, <4>1, <4>2
      <4>. QED
        BY <3>3, <4>3 DEF Points
    <3>5. CASE g = e
      <4>1. k # m
        BY <1>3, <2>4, <3>5 DEF Staying, MemDefs, OfKind
      <4>2. PICK h \in graph, t \in Seq(S) : h.dst = m /\ u2 = t \o Label(h) /\ Leads(graph, k, o, h.src, t)
        <5>. HIDE DEF F, R, Ok
        <5>1. PICK A, B : A = S /\ B = graph
          OBVIOUS
        <5>2. Over(B, A) /\ Leads(B, k, o, m, u2)
          BY <1>15, <3>1, <5>1
        <5>3. \E h \in B, t \in Seq(A) : h.dst = m /\ u2 = t \o Label(h) /\ Leads(B, k, o, h.src, t)
          BY <4>1, <5>2, LeadsFrom
        <5>. QED
          BY <5>1, <5>3
      <4>3. h.src = d.src /\ Label(h) = <<>>
        BY <1>5, <2>4, <3>5, <4>2
      <4>4. u2 = t
        BY <4>2, <4>3, ConcatEmptySeq
      <4>5. Leads(graph, k, o, d.src, u2) /\ d.src \in Staying
        BY <1>5, <4>2, <4>3, <4>4
      <4>6. PICK v3 \in Seq(S) : Fits(R, u, v3) /\ Leads(Q, Standing(x), o, Standing(d.src), v3)
        BY <2>2, <3>1, <4>5
      <4>7. c \in Q /\ c.src = Standing(d.src) /\ c.dst = Standing(e.dst) /\ c.obj = o /\ Label(c) = Label(g)
        BY <1>2, <1>5, <1>6, <2>1, <2>4, <3>5
      <4>8. Leads(Q, Standing(x), o, Standing(e.dst), v3 \o Label(g))
        BY <4>6, <4>7, LeadsOn
      <4>9. Fits(R, Label(g), Label(g))
        BY <3>2, FitsItself
      <4>10. Fits(R, u \o Label(g), v3 \o Label(g)) /\ v3 \o Label(g) \in Seq(S)
        <5>. HIDE DEF R
        <5>. QED
          BY <3>2, <4>6, <4>9, FitsJoin, ConcatProperties
      <4>11. /\ (u \o Label(g)) \o <<>> = u \o Label(g) /\ <<>> \in Seq(S)
             /\ Leads(graph, e.dst, o, e.dst, <<>>) /\ e.dst \in Staying
        BY <1>6, <3>3, ConcatEmptySeq, EmptySeq, LeadsHere
      <4>12. Ok(<<g.dst, u \o Label(g)>>)
        BY <3>3, <3>5, <4>8, <4>10, <4>11
      <4>. QED
        BY <3>3, <4>12 DEF Points
    <3>. QED
      BY <3>4, <3>5 DEF G
  <2>5. <<y, w>> \in F
    <3>. HIDE DEF F
    <3>. QED
      BY <1>15, <1>17, <2>3, <2>4, LeadsWithin
  <2>6. PICK k \in Staying, u1 \in Seq(S), u2 \in Seq(S), v \in Seq(S) :
            /\ w = u1 \o u2 /\ Leads(graph, k, o, y, u2)
            /\ Fits(R, u1, v) /\ Leads(Q, Standing(x), o, Standing(k), v)
    BY <2>5
  <2>. HIDE DEF F, R, Ok
  <2>7. \E t \in Seq(S) : Fits(R, w, t) /\ Leads(Q, Standing(x), o, Standing(y), t)
    BY <2>2, <2>6
  <2>. QED
    BY <2>1, <2>7 DEF R
<1>18. Complete'
  <2>1. Staying' = Staying
    BY DEF Staying
  <2>. QED
    BY <1>7, <1>17, <2>1 DEF Complete
<1>. QED
  BY <1>1, <1>8, <1>9, <1>10, <1>14, <1>18 DEF FlowInv

(* The optimisation keeps the flows between statements, in every order of the   *)
(* steps and for every program: none is made up and none is lost, also those    *)
(* through calls that are resolved later, and they pass the same calls and      *)
(* returns unless there is recursion.                                           *)
THEOREM FlowsAreKept == OptAssumption /\ OptSpec => []FlowKept
<1>. SUFFICES ASSUME OptAssumption PROVE OptSpec => []FlowKept
  OBVIOUS
<1>1. OptInit => FlowInv
  BY FlowInvInit
<1>2. FlowInv /\ [OptNext]_optVars => FlowInv'
  <2>. SUFFICES ASSUME FlowInv, [OptNext]_optVars PROVE FlowInv'
    OBVIOUS
  <2>1. CASE UNCHANGED optVars
    <3>1. OptInv'
      BY <2>1 DEF FlowInv, optVars, OptInv, ProgramOK, PhaseOK, EdgesOK, EdgeOK, DefsOK, PhisOK, DefNodes
    <3>. QED
      BY <2>1, <3>1, QuietKeeps DEF optVars
  <2>2. ASSUME NEW n \in Node, Mark(n)
        PROVE  FlowInv'
    <3>1. OptInv'
      BY <2>2, MarkKeeps DEF FlowInv
    <3>2. /\ UNCHANGED <<program, graph, edges, paramDef, defOf, removed>>
          /\ cands' \subseteq cands /\ cands \cap OfKind({"FP", "AR"}) \subseteq cands'
      BY <2>2 DEF Mark, OfKind
    <3>. QED
      BY <3>1, <3>2, QuietKeeps
  <2>3. CASE InterDone
    <3>1. OptInv'
      BY <2>3, InterDoneKeeps DEF FlowInv
    <3>. QED
      BY <2>3, <3>1, QuietKeeps DEF InterDone
  <2>4. CASE DeleteDone
    <3>1. OptInv'
      BY <2>4, DeleteDoneKeeps DEF FlowInv
    <3>. QED
      BY <2>4, <3>1, QuietKeeps DEF DeleteDone
  <2>5. CASE IntraDone
    <3>1. OptInv'
      BY <2>5, IntraDoneKeeps DEF FlowInv
    <3>. QED
      BY <2>5, <3>1, QuietKeeps DEF IntraDone
  <2>. QED
    BY <2>1, <2>2, <2>3, <2>4, <2>5, ReplaceFlows, RetargetFlows, DeleteFlows, ProcessFlows, ConnectFlows
       DEF OptNext, OptStep
<1>3. FlowInv => FlowKept
  BY FlowInvKept
<1>. QED
  BY <1>1, <1>2, <1>3, PTL DEF OptSpec
=============================================================================
