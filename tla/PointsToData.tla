---------------------------- MODULE PointsToData ----------------------------
(***************************************************************************)
(* What an analysis is promised of its points-to data (the interfaces      *)
(* PTData and DiffPTData of AbstractPointsToDS.h): a points-to set for     *)
(* every key, the pointers to every object, what of a set is new since it  *)
(* was last propagated, and of every update whether it changed anything.   *)
(***************************************************************************)
CONSTANTS Key, Obj

VARIABLES
  pts,     \* points-to sets
  diff,    \* what is to be propagated
  propa,   \* what has been propagated
  result   \* what the last operation returned

vars == <<pts, diff, propa, result>>

Init ==
  /\ pts = [k \in Key |-> {}] /\ diff = [k \in Key |-> {}] /\ propa = [k \in Key |-> {}]
  /\ result = FALSE

Join(k, S) ==
  /\ pts' = [pts EXCEPT ![k] = @ \cup S]
  /\ result' = ~(S \subseteq pts[k])
  /\ UNCHANGED <<diff, propa>>

Remove(k, S) ==
  /\ pts' = [pts EXCEPT ![k] = @ \ S]
  /\ result' = FALSE
  /\ UNCHANGED <<diff, propa>>

ComputeDiff(k) ==
  /\ diff' = [diff EXCEPT ![k] = pts[k] \ propa[k]]
  /\ propa' = [propa EXCEPT ![k] = pts[k]]
  /\ result' = (pts[k] \ propa[k] # {})
  /\ UNCHANGED pts

(* dst has propagated only what src has propagated too. *)
UpdatePropa(src, dst) ==
  /\ propa' = [propa EXCEPT ![dst] = @ \cap propa[src]]
  /\ result' = FALSE
  /\ UNCHANGED <<pts, diff>>

ClearPropa(k) ==
  /\ propa' = [propa EXCEPT ![k] = {}]
  /\ result' = FALSE
  /\ UNCHANGED <<pts, diff>>

Next ==
  \/ \E k \in Key, S \in SUBSET Obj : Join(k, S) \/ Remove(k, S)
  \/ \E k \in Key : ComputeDiff(k) \/ ClearPropa(k)
  \/ \E k, l \in Key : UpdatePropa(k, l)
  \/ result' = FALSE /\ UNCHANGED <<pts, diff, propa>>

Spec == Init /\ [][Next]_vars
=============================================================================
