------------------------------ MODULE IncRound ------------------------------
(***************************************************************************)
(* What the incremental analysis promises, without any of its graphs and   *)
(* vectors. It holds a points-to assignment sol for a program base. A      *)
(* round takes a set diff of statements out and puts them in again: while  *)
(* it takes them out the assignment only shrinks, and never below what the *)
(* other statements imply; while it puts them in the assignment only       *)
(* grows, and at the end it is what an analysis from scratch computes. An  *)
(* analysis of the old version stops half-way: what it keeps for the       *)
(* smaller program is sound and may be too large.                          *)
(***************************************************************************)
EXTENDS Constraints

CONSTANTS Programs, MaxStep

VARIABLES base, diff, sol, phase

vars == <<base, diff, sol, phase>>

Assignment == [Node -> SUBSET Obj]
Below(p, q) == \A n \in Node : p[n] \subseteq q[n]

Init ==
  /\ base \in Programs
  /\ diff = {}
  /\ sol = LeastSolution(base)
  /\ phase = "idle"

Start(D) ==
  /\ phase = "idle"
  /\ diff' = D
  /\ phase' = "out"
  /\ UNCHANGED <<base, sol>>

Retract ==
  /\ phase = "out"
  /\ Below(sol', sol)
  /\ Below(LeastSolution(base \ diff), sol')
  /\ UNCHANGED <<base, diff, phase>>

Retracted ==
  /\ phase = "out"
  /\ phase' = "in"
  /\ UNCHANGED <<base, diff, sol>>

Insert ==
  /\ phase = "in"
  /\ Below(sol, sol')
  /\ Below(sol', LeastSolution(base))
  /\ UNCHANGED <<base, diff, phase>>

Restored ==
  /\ phase = "in"
  /\ sol = LeastSolution(base)
  /\ phase' = "idle"
  /\ UNCHANGED <<base, diff, sol>>

Abandon ==
  /\ phase = "in"
  /\ base' = base \ diff
  /\ diff' = {}
  /\ phase' = "over"
  /\ UNCHANGED sol

Next ==
  \/ \E D \in SUBSET base : Cardinality(D) \in 1..MaxStep /\ Start(D)
  \/ Retract \/ Retracted \/ Insert \/ Restored \/ Abandon

Spec == Init /\ [][Next]_vars
=============================================================================
