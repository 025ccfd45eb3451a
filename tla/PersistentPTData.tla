-------------------------- MODULE PersistentPTData --------------------------
(***************************************************************************)
(* The persistent backend of points-to data (PersistentPointsToCache.h and *)
(* PersistentDiffPTData of PersistentPointsToDS.h): a points-to set is an  *)
(* id, the sets behind the ids are interned, and the results of unions,    *)
(* differences and intersections are kept by the ids of their operands.    *)
(* An id stands for the same set for ever, so two sets are compared by     *)
(* comparing ids.                                                          *)
(*                                                                         *)
(* The representation of a set is a parameter; a map from sets to ids      *)
(* finds a set if it is represented the same way (its hash is computed     *)
(* from the representation).                                               *)
(***************************************************************************)
EXTENDS Naturals, Sequences, FiniteSets

CONSTANTS
  Key, Obj,
  Rep,          \* the values of the set type
  Empty,        \* the set a constructor makes
  Single(_),    \* that set with one element set
  Join(_, _), Minus(_, _), Meet(_, _),   \* operators |, - and & of two sets
  Elems(_),     \* what the iterator visits
  Rebuilt(_),   \* the set made anew by setting the elements one by one
  MaxOps        \* bound on the operations of a behaviour

VARIABLES
  cache,       \* the PersistentPointsToCache
  ptsMap,      \* points-to sets, as ids
  revPtsMap,   \* the pointers to an object
  diffPtsMap, propaPtsMap,
  result,      \* what the last operation returned
  ops

pdVars == <<cache, ptsMap, revPtsMap, diffPtsMap, propaPtsMap, result, ops>>

(* The operators of the set type are those of sets. *)
Representation ==
  /\ Empty \in Rep /\ Elems(Empty) = {}
  /\ \A o \in Obj : Single(o) \in Rep /\ Elems(Single(o)) = {o}
  /\ \A p \in Rep : Elems(p) \subseteq Obj /\ Rebuilt(p) \in Rep /\ Elems(Rebuilt(p)) = Elems(p)
  /\ \A p, q \in Rep :
       /\ Join(p, q) \in Rep /\ Elems(Join(p, q)) = Elems(p) \cup Elems(q)
       /\ Minus(p, q) \in Rep /\ Elems(Minus(p, q)) = Elems(p) \ Elems(q)
       /\ Meet(p, q) \in Rep /\ Elems(Meet(p, q)) = Elems(p) \cap Elems(q)

(* A set is represented in one way only. *)
Canonical == \A p, q \in Rep : Elems(p) = Elems(q) => p = q

PersistentAssumption == MaxOps \in Nat /\ Representation
-----------------------------------------------------------------------------
(* The cache. Ids count from 0; idToPts[i + 1] is the set of id i. *)
emptyPointsToId == 0
NoResults == [x \in {} |-> 0]

NewCache ==
  [idToPts |-> <<Empty>>, ptsToId |-> [p \in {Empty} |-> emptyPointsToId],
   union |-> NoResults, complement |-> NoResults, intersection |-> NoResults]

Id(c) == 0..(Len(c.idToPts) - 1)
getActualPts(c, id) == c.idToPts[id + 1]

minmax(i, j) == IF i <= j THEN <<i, j>> ELSE <<j, i>>
With(f, x, v) == [y \in DOMAIN f \cup {x} |-> IF y = x THEN v ELSE f[y]]

(* Cached results added in the order given, each on top of those before. *)
Known(f, x, v, b) == IF b THEN With(f, x, v) ELSE f

At(c, id) == [cache |-> c, id |-> id]

emplacePts(c, p) ==
  IF p \in DOMAIN c.ptsToId THEN At(c, c.ptsToId[p])
  ELSE At([c EXCEPT !.idToPts = Append(@, p), !.ptsToId = With(@, p, Len(c.idToPts))],
          Len(c.idToPts))

unionPts(c, i, j) ==
  LET key == minmax(i, j)
      e   == emplacePts(c, Join(getActualPts(c, i), getActualPts(c, j)))
      r   == e.id
  IN  IF key[1] = emptyPointsToId THEN At(c, key[2])
      ELSE IF i = j THEN At(c, i)
      ELSE IF key \in DOMAIN c.union THEN At(c, c.union[key])
      ELSE At([e.cache EXCEPT !.union =    \* if i | j is r, then i | r and j | r are r
                 Known(Known(With(@, key, r), minmax(i, r), r, i # r), minmax(j, r), r, j # r)], r)

(* Operands put in order, as those of a union are. *)
complementPts_Unordered(c, i, j) ==
  LET key == minmax(i, j)
      e   == emplacePts(c, Minus(getActualPts(c, i), getActualPts(c, j)))
  IN  IF i = j \/ i = emptyPointsToId THEN At(c, emptyPointsToId)
      ELSE IF j = emptyPointsToId THEN At(c, i)
      ELSE IF key \in DOMAIN c.complement THEN At(c, c.complement[key])
      ELSE At([e.cache EXCEPT !.complement = With(@, key, e.id)], e.id)

complementPts(c, i, j) ==
  LET key == <<i, j>>
      e   == emplacePts(c, Minus(getActualPts(c, i), getActualPts(c, j)))
      r   == e.id
      some == r # emptyPointsToId
  IN  IF i = j \/ i = emptyPointsToId THEN At(c, emptyPointsToId)
      ELSE IF j = emptyPointsToId THEN At(c, i)
      ELSE IF key \in DOMAIN c.complement THEN At(c, c.complement[key])
      ELSE At([e.cache EXCEPT
                 !.complement = Known(With(@, key, r), <<r, j>>, r, some),
                 !.intersection = Known(Known(@, minmax(r, j), emptyPointsToId, some),
                                        minmax(r, i), r, some)], r)

(* With i & j = r, i | r noted as r. *)
intersectPts_Smaller(c, i, j) ==
  LET key == minmax(i, j)
      e   == emplacePts(c, Meet(getActualPts(c, i), getActualPts(c, j)))
      r   == e.id
      some == r # emptyPointsToId
  IN  IF key[1] = emptyPointsToId THEN At(c, emptyPointsToId)
      ELSE IF i = j THEN At(c, i)
      ELSE IF key \in DOMAIN c.intersection THEN At(c, c.intersection[key])
      ELSE At([e.cache EXCEPT !.intersection = With(@, key, r),
                 !.union = Known(@, minmax(i, r), r, some /\ r # i)], r)

intersectPts(c, i, j) ==
  LET key == minmax(i, j)
      e   == emplacePts(c, Meet(getActualPts(c, i), getActualPts(c, j)))
      r   == e.id
      some == r # emptyPointsToId
  IN  IF key[1] = emptyPointsToId THEN At(c, emptyPointsToId)
      ELSE IF i = j THEN At(c, i)
      ELSE IF key \in DOMAIN c.intersection THEN At(c, c.intersection[key])
      ELSE At([e.cache EXCEPT
                 !.intersection = Known(Known(With(@, key, r), minmax(r, j), r, some /\ r # j),
                                        minmax(r, i), r, some /\ r # i),
                 !.union = Known(Known(@, minmax(i, r), i, some /\ r # i),
                                 minmax(j, r), j, some /\ r # j)], r)

(* Every set is made anew in the current node mapping; of equal sets the last
   id stays. *)
remapAllPts(c) ==
  LET sets == [i \in DOMAIN c.idToPts |-> Rebuilt(c.idToPts[i])]
      last(p) == CHOOSE i \in DOMAIN sets : sets[i] = p /\ \A j \in DOMAIN sets : sets[j] = p => j <= i
  IN  [c EXCEPT !.idToPts = sets,
                !.ptsToId = [p \in {sets[i] : i \in DOMAIN sets} |-> last(p) - 1]]
-----------------------------------------------------------------------------
Pts(k) == Elems(getActualPts(cache, ptsMap[k]))

Init ==
  /\ cache = NewCache
  /\ ptsMap = [k \in Key |-> emptyPointsToId] /\ revPtsMap = [o \in Obj |-> {}]
  /\ diffPtsMap = [k \in Key |-> emptyPointsToId] /\ propaPtsMap = [k \in Key |-> emptyPointsToId]
  /\ result = FALSE /\ ops = 0

Count == ops < MaxOps /\ ops' = ops + 1

(* c has the set of id src already. *)
unionPtsFromId(c, dst, src) ==
  LET u == unionPts(c, ptsMap[dst], src)
      changed == u.id # ptsMap[dst]
  IN  /\ cache' = u.cache
      /\ ptsMap' = [ptsMap EXCEPT ![dst] = u.id]
      /\ revPtsMap' = IF ~changed THEN revPtsMap
           ELSE [o \in Obj |-> IF o \in Elems(getActualPts(u.cache, src))
                               THEN revPtsMap[o] \cup {dst} ELSE revPtsMap[o]]
      /\ result' = changed
      /\ UNCHANGED <<diffPtsMap, propaPtsMap>>

AddPts(k, o) == LET e == emplacePts(cache, Single(o)) IN unionPtsFromId(e.cache, k, e.id)
UnionPts(dst, src) == unionPtsFromId(cache, dst, ptsMap[src])
(* A set some other analysis holds, or one put together on the side. *)
UnionData(dst, p) == LET e == emplacePts(cache, p) IN unionPtsFromId(e.cache, dst, e.id)

ClearPts(k, o) ==
  LET e == emplacePts(cache, Single(o))
      d == complementPts(e.cache, ptsMap[k], e.id)
  IN  /\ cache' = d.cache
      /\ ptsMap' = [ptsMap EXCEPT ![k] = d.id]
      /\ revPtsMap' = IF d.id = ptsMap[k] THEN revPtsMap ELSE [revPtsMap EXCEPT ![o] = @ \ {k}]
      /\ result' = FALSE
      /\ UNCHANGED <<diffPtsMap, propaPtsMap>>

ClearFullPts(k) ==
  /\ revPtsMap' = [o \in Obj |-> IF o \in Pts(k) THEN revPtsMap[o] \ {k} ELSE revPtsMap[o]]
  /\ ptsMap' = [ptsMap EXCEPT ![k] = emptyPointsToId]
  /\ result' = FALSE
  /\ UNCHANGED <<cache, diffPtsMap, propaPtsMap>>

ComputeDiffPts(k) ==    \* with all = getPts(k), as its callers have it
  LET all == emplacePts(cache, getActualPts(cache, ptsMap[k]))
      d   == complementPts(all.cache, all.id, propaPtsMap[k])
  IN  /\ cache' = d.cache
      /\ diffPtsMap' = [diffPtsMap EXCEPT ![k] = d.id]
      /\ propaPtsMap' = [propaPtsMap EXCEPT ![k] = all.id]
      /\ result' = (d.id # emptyPointsToId)
      /\ UNCHANGED <<ptsMap, revPtsMap>>

UpdatePropaPtsMap(src, dst) ==
  LET m == intersectPts(cache, propaPtsMap[dst], propaPtsMap[src])
  IN  /\ cache' = m.cache
      /\ propaPtsMap' = [propaPtsMap EXCEPT ![dst] = m.id]
      /\ result' = FALSE
      /\ UNCHANGED <<ptsMap, revPtsMap, diffPtsMap>>

ClearPropaPts(k) ==
  /\ propaPtsMap' = [propaPtsMap EXCEPT ![k] = emptyPointsToId]
  /\ result' = FALSE
  /\ UNCHANGED <<cache, ptsMap, revPtsMap, diffPtsMap>>

RemapAllPts ==
  /\ cache' = remapAllPts(cache)
  /\ result' = FALSE
  /\ UNCHANGED <<ptsMap, revPtsMap, diffPtsMap, propaPtsMap>>

Step ==
  /\ Count
  /\ \/ \E k \in Key, o \in Obj : AddPts(k, o) \/ ClearPts(k, o)
     \/ \E k, l \in Key : UnionPts(k, l) \/ UpdatePropaPtsMap(k, l)
     \/ \E k \in Key, o, x \in Obj : UnionData(k, Join(Single(o), Single(x)))
     \/ \E k \in Key : ClearFullPts(k) \/ ComputeDiffPts(k) \/ ClearPropaPts(k)
     \/ RemapAllPts

Spec == Init /\ [][Step]_pdVars
-----------------------------------------------------------------------------
(* The sets the ids stand for. *)
Sets(map) == [k \in Key |-> Elems(getActualPts(cache, map[k]))]

Promise == INSTANCE PointsToData WITH
  pts <- Sets(ptsMap), diff <- Sets(diffPtsMap), propa <- Sets(propaPtsMap)

(* No cached result is stale: an id a union, difference or intersection is
   remembered by stands for the union, difference or intersection of the sets
   of its operands, those noted in passing included, and the id a set is found
   by is an id of that set. *)
CacheSound ==
  LET set(i) == Elems(getActualPts(cache, i))
  IN  /\ \A k \in DOMAIN cache.union : set(cache.union[k]) = set(k[1]) \cup set(k[2])
      /\ \A k \in DOMAIN cache.complement : set(cache.complement[k]) = set(k[1]) \ set(k[2])
      /\ \A k \in DOMAIN cache.intersection : set(cache.intersection[k]) = set(k[1]) \cap set(k[2])
      /\ \A p \in DOMAIN cache.ptsToId : set(cache.ptsToId[p]) = Elems(p)

(* A set has one id, so that equal ids are equal sets and the other way round.
   "Whether diff is empty or not; just need to check against the ID since it is
   the only empty set" (PersistentPointsToDS.h). *)
OneIdPerSet ==
  \A i, j \in Id(cache) : Elems(getActualPts(cache, i)) = Elems(getActualPts(cache, j)) => i = j

(* The reverse map, which a set is searched in when an object turns field
   insensitive, has the pointers of an object and no others. *)
ReverseExact == \A o \in Obj : revPtsMap[o] = {k \in Key : o \in Pts(k)}
=============================================================================
