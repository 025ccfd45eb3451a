----------------------------- MODULE SuperConsG -----------------------------
(***************************************************************************)
(* The super constraint graph (SConstraintGraph, sCG): the flat graph with *)
(* every cycle of direct edges merged into a representative node. Each     *)
(* super edge keeps the set of flat edges it stands for (fEdgeSet), also   *)
(* the ones inside a merged cycle, as a self-loop of the representative,   *)
(* so that a cycle can be taken apart again when an edge in it is deleted. *)
(***************************************************************************)
EXTENDS FlatConsG

VARIABLES
  rep,       \* nodeToRepMap: sccRepNode of every node
  subs,      \* nodeToSubsMap: for a representative the nodes merged into it
  sEdges,    \* the super edges
  fEdgeSet,  \* <<s, f>>: flat edge f is in the fEdgeSet of super edge s
  rep2tempG  \* representative -> cached direct edges among its members

superVars == <<rep, subs, sEdges, fEdgeSet, rep2tempG>>

SuperTypeOK ==
  /\ rep \in [Node -> Node]
  /\ subs \in [Node -> SUBSET Node]
  /\ sEdges \subseteq Edge
  /\ fEdgeSet \subseteq Edge \X Edge
  /\ DOMAIN rep2tempG \subseteq Node
  /\ \A r \in DOMAIN rep2tempG : rep2tempG[r] \subseteq Edge

(* The super edge a flat edge belongs to, under a given node-to-rep map. *)
LiftBy(m, e) == [kind |-> e.kind, src |-> m[e.src], dst |-> m[e.dst]]
Lift(e) == LiftBy(rep, e)

sccSubNodes(r) == subs[r] \cup {r}

Reps == {n \in Node : rep[n] = n}

(* A super edge is new when no edge of its kind joins the two reps. *)
NewSEdge(e) == Lift(e) \notin sEdges

addSCGEdge(e) ==
  /\ sEdges' = sEdges \cup {Lift(e)}
  /\ fEdgeSet' = fEdgeSet \cup {<<Lift(e), e>>}

(* getFEdgeSet().empty() in fes *)
EmptySEdge(s, fes) == \A x \in fes : x[1] # s

removeSCGFlat_KeepEmpty(e, dropEmpty) ==
  fEdgeSet' = fEdgeSet \ {<<Lift(e), e>>} /\ UNCHANGED sEdges

(* removeFEdge, and removal of the super edge when that leaves it empty and
   the caller asks for it. *)
removeSCGFlat(e, dropEmpty) ==
  LET fes == fEdgeSet \ {<<Lift(e), e>>}
  IN  /\ fEdgeSet' = fes
      /\ sEdges' = IF dropEmpty /\ EmptySEdge(Lift(e), fes)
                   THEN sEdges \ {Lift(e)} ELSE sEdges

(***************************************************************************)
(* Cached member graphs                                                    *)
(***************************************************************************)
removeTempGEdge_Kept(e) == UNCHANGED rep2tempG

removeTempGEdge(e) ==
  rep2tempG' = IF rep[e.src] \in DOMAIN rep2tempG
               THEN [rep2tempG EXCEPT ![rep[e.src]] = @ \ {e}]
               ELSE rep2tempG

(* The flat direct edges of the self-loops of r. *)
buildTempG(r) ==
  {x[2] : x \in {y \in fEdgeSet : IsDirect(y[1]) /\ y[1].src = r /\ y[1].dst = r}}

TempG(r) == IF r \in DOMAIN rep2tempG THEN rep2tempG[r] ELSE buildTempG(r)

cleanRep2TempG == rep2tempG' = <<>>

(***************************************************************************)
(* The maps from the nodes of M to the representative of their class in    *)
(* partition C; which member R of a class represents it depends on the     *)
(* order the detection visits the nodes in.                                *)
(***************************************************************************)
RepMap(M, C, R) == [n \in M |-> CHOOSE k \in R : \E X \in C : {n, k} \subseteq X]

RepChoices(M, C) ==
  {m \in {RepMap(M, C, R) : R \in {S \in SUBSET M : \A X \in C : Cardinality(S \cap X) = 1}} :
     m \in [M -> M] /\ \A n \in M : m[m[n]] = m[n]}

(***************************************************************************)
(* sccBreakDetect: the members of r no longer form one component; m gives  *)
(* each its new representative. Only the flat edges that now belong to a   *)
(* representative other than r are taken from the super edges of r and     *)
(* added again (restoreEdge); super edges of r left empty are removed.     *)
(***************************************************************************)
NewRep(m) == [n \in Node |-> IF n \in DOMAIN m THEN m[n] ELSE rep[n]]
AllReps(m) == {m[n] : n \in DOMAIN m}

RestoredPairs_InOnly(r, m) ==
  {x \in fEdgeSet : x[1].dst = r /\ NewRep(m)[x[2].dst] \in AllReps(m) \ {r}}

RestoredPairs(r, m) ==
  LET moved == AllReps(m) \ {r}
      nr == NewRep(m)
  IN  {x \in fEdgeSet :
         \/ x[1].dst = r /\ nr[x[2].dst] \in moved
         \/ x[1].src = r /\ nr[x[2].src] \in moved}

sccRestore(r, m) ==
  LET out == RestoredPairs(r, m)
      kept == fEdgeSet \ out
      back == {<<LiftBy(NewRep(m), x[2]), x[2]>> : x \in out}
  IN  /\ rep' = NewRep(m)
      /\ subs' = [n \in Node |->
                    (IF n = r THEN {} ELSE subs[n]) \cup
                      {k \in DOMAIN m : n \in AllReps(m) /\ m[k] = n}]
      /\ fEdgeSet' = kept \cup back
      /\ sEdges' = {s \in sEdges : (s.src = r \/ s.dst = r) => ~EmptySEdge(s, kept)}
                     \cup {x[1] : x \in back}
      /\ rep2tempG' = [x \in DOMAIN rep2tempG \ {r} |-> rep2tempG[x]]

(***************************************************************************)
(* SCC detection on the super graph and merging of every component into    *)
(* its representative (mergeSccCycle): m maps reps to reps. All edges of a *)
(* merged node are retargeted, those inside the component too.             *)
(***************************************************************************)
MergedRep_RepsOnly(m) == [n \in Node |-> IF n \in Reps THEN m[n] ELSE rep[n]]

MergedRep(m) == [n \in Node |-> m[rep[n]]]

mergeSccCycle(m) ==
  LET lift(s) == LiftBy(m, s)
  IN  /\ rep' = MergedRep(m)
      /\ subs' = [n \in Node |->
                    IF n \in Reps /\ m[n] # n THEN {}
                    ELSE subs[n] \cup
                         UNION {sccSubNodes(k) : k \in {x \in Reps \ {n} : m[x] = n}}]
      /\ sEdges' = {lift(s) : s \in sEdges}
      /\ fEdgeSet' = {<<lift(x[1]), x[2]>> : x \in fEdgeSet}
      /\ UNCHANGED rep2tempG
=============================================================================
