--------------------------- MODULE MutablePTData ---------------------------
(***************************************************************************)
(* The mutable backend of points-to data (MutablePTData and                *)
(* MutableDiffPTData of MutablePointsToDS.h): maps from keys to sets that  *)
(* are updated in place, and the map from objects to keys beside them.     *)
(***************************************************************************)
EXTENDS Naturals

CONSTANTS
  Key, Obj,
  MaxOps    \* bound on the operations of a behaviour

VARIABLES ptsMap, revPtsMap, diffPtsMap, propaPtsMap, result, ops

mdVars == <<ptsMap, revPtsMap, diffPtsMap, propaPtsMap, result, ops>>

MutableAssumption == MaxOps \in Nat

Init ==
  /\ ptsMap = [k \in Key |-> {}] /\ revPtsMap = [o \in Obj |-> {}]
  /\ diffPtsMap = [k \in Key |-> {}] /\ propaPtsMap = [k \in Key |-> {}]
  /\ result = FALSE /\ ops = 0

Count == ops < MaxOps /\ ops' = ops + 1

addRevPts(S, k) == [o \in Obj |-> IF o \in S THEN revPtsMap[o] \cup {k} ELSE revPtsMap[o]]
clearRevPts(S, k) == [o \in Obj |-> IF o \in S THEN revPtsMap[o] \ {k} ELSE revPtsMap[o]]

(* addPts, and unionPts with the set of another key or a set on the side. *)
UnionPts(k, S) ==
  /\ revPtsMap' = addRevPts(S, k)
  /\ ptsMap' = [ptsMap EXCEPT ![k] = @ \cup S]
  /\ result' = ~(S \subseteq ptsMap[k])
  /\ UNCHANGED <<diffPtsMap, propaPtsMap>>

ClearPts(k, o) ==
  /\ revPtsMap' = clearRevPts({o}, k)
  /\ ptsMap' = [ptsMap EXCEPT ![k] = @ \ {o}]
  /\ result' = FALSE
  /\ UNCHANGED <<diffPtsMap, propaPtsMap>>

ClearFullPts(k) ==
  /\ revPtsMap' = clearRevPts(ptsMap[k], k)
  /\ ptsMap' = [ptsMap EXCEPT ![k] = {}]
  /\ result' = FALSE
  /\ UNCHANGED <<diffPtsMap, propaPtsMap>>

ComputeDiffPts(k) ==    \* with all = getPts(k)
  LET diff == ptsMap[k] \ propaPtsMap[k]
  IN  /\ diffPtsMap' = [diffPtsMap EXCEPT ![k] = diff]
      /\ propaPtsMap' = [propaPtsMap EXCEPT ![k] = ptsMap[k]]
      /\ result' = (diff # {})
      /\ UNCHANGED <<ptsMap, revPtsMap>>

UpdatePropaPtsMap(src, dst) ==
  /\ propaPtsMap' = [propaPtsMap EXCEPT ![dst] = @ \cap propaPtsMap[src]]
  /\ result' = FALSE
  /\ UNCHANGED <<ptsMap, revPtsMap, diffPtsMap>>

ClearPropaPts(k) ==
  /\ propaPtsMap' = [propaPtsMap EXCEPT ![k] = {}]
  /\ result' = FALSE
  /\ UNCHANGED <<ptsMap, revPtsMap, diffPtsMap>>

Step ==
  /\ Count
  /\ \/ \E k \in Key, o \in Obj : UnionPts(k, {o}) \/ ClearPts(k, o)
     \/ \E k, l \in Key : UnionPts(k, ptsMap[l]) \/ UpdatePropaPtsMap(k, l)
     \/ \E k \in Key, o, x \in Obj : UnionPts(k, {o, x})
     \/ \E k \in Key : ClearFullPts(k) \/ ComputeDiffPts(k) \/ ClearPropaPts(k)

Spec == Init /\ [][Step]_mdVars

Promise == INSTANCE PointsToData WITH pts <- ptsMap, diff <- diffPtsMap, propa <- propaPtsMap

(* The reverse map, which a set is searched in when an object turns field
   insensitive, has the pointers of an object and no others. *)
ReverseExact == \A o \in Obj : revPtsMap[o] = {k \in Key : o \in ptsMap[k]}
=============================================================================
