--------------------------- MODULE MCAndersenInc ---------------------------
(***************************************************************************)
(* Instances of AndersenInc for TLC. The programs of a run are all the     *)
(* well-formed subsets of a small universe of constraints, so that every   *)
(* shape the universe holds is analysed.                                   *)
(***************************************************************************)
EXTENDS AndersenInc

CONSTANTS p1, p2, p3, p4,   \* pointers
          o1, o2, o3, fld   \* objects; fld is the field of o1

StepOnly == {"step"}

Id(S) == [o \in S |-> o]
E(k, x, y) == [kind |-> k, src |-> x, dst |-> y]
Subsets(U) == {B \in SUBSET U : WellFormed(B) /\ FieldsSettled(B)}

(* Cycles of copies: p1 and p2, and p1, p2 and p3, fed from p4. *)
CycleNode == {p1, p2, p3, p4, o1}
CycleObj  == {o1}
CycleId   == Id(CycleObj)
CyclePrograms == Subsets({E("Addr", o1, p4), E("Copy", p4, p1), E("Copy", p1, p2), E("Copy", p2, p1),
  E("Copy", p2, p3), E("Copy", p3, p1), E("Copy", p1, p3)})

(* The programs the liveness property is checked on: one with a cycle of
   copies, and one whose cycle goes through memory. *)
WatchedPrograms == {
  {E("Addr", o1, p3), E("Copy", p3, p1), E("Copy", p1, p2), E("Copy", p2, p1)},
  {E("Addr", o1, p1), E("Addr", o1, p2), E("Store", p2, p1), E("Load", p1, p3), E("Store", p3, p1)}}
CycleAndWatched == CyclePrograms \cup WatchedPrograms

(* Loads and stores through pointers to one or two objects; a pointer with
   two sources; and a cycle through o1 beside a shorter one, which survives
   the deletion of a copy and breaks when the load goes. *)
MemNode == {p1, p2, p3, p4, o1, o2}
MemObj  == {o1, o2}
MemId   == Id(MemObj)
MemPrograms == Subsets({
  E("Addr", o1, p1), E("Addr", o2, p2), E("Store", p2, p1), E("Load", p1, p3), E("Store", p3, p1),
  E("Store", p3, p2), E("Copy", p1, p3), E("Load", p2, p3)})
  \cup {{E("Addr", o1, p1), E("Addr", o2, p4), E("Copy", p4, p2), E("Copy", p3, p2),
         E("Load", p1, p3), E("Store", p2, p1)},
        {E("Addr", o1, p1), E("Store", p2, p1), E("Load", p1, p4), E("Copy", p4, p3),
         E("Copy", p3, p2), E("Copy", p2, p3)}}

(* Geps: o1 has the field fld, o3 is field-insensitive; and a pointer that
   reaches fld by a gep from o1 and from fld itself. *)
GepNode == {p1, p2, p3, p4, o1, o3, fld}
GepObj  == {o1, o3, fld}
Field == [o \in GepObj |-> IF o = o1 THEN fld ELSE o]
Base  == [o \in GepObj |-> IF o = fld THEN o1 ELSE o]
GepPrograms == Subsets({
  E("Addr", o1, p1), E("Addr", o3, p1), E("NormalGep", p1, p2), E("VariantGep", p1, p2),
  E("Copy", p2, p3), E("Load", p2, p3), E("Store", p1, p2), E("Store", p3, p2)})
  \cup {{E("Addr", o1, p3), E("NormalGep", p3, p2), E("Copy", p3, p1), E("Copy", p2, p1),
         E("NormalGep", p1, p4)}}

(* Both in one run; in the programs with memory no object has a field. *)
BothNode == MemNode \cup GepNode
BothObj  == MemObj \cup GepObj
BothField == [o \in BothObj |-> IF o = o1 THEN fld ELSE o]
BothBase  == [o \in BothObj |-> IF o = fld THEN o1 ELSE o]
BothPrograms == MemPrograms \cup GepPrograms

(* Programs with memory and programs with cycles, for the refinement. *)
PromisePrograms == MemPrograms \cup {B \in CyclePrograms : Cardinality(B) > 4}

-----------------------------------------------------------------------------
(* The rounds of the watched programs go on: processDeletion and
   processInsertion are loops of one thread, which nothing holds up. *)
Watched == base \in WatchedPrograms
WatchedSpec == Spec /\ WF_vars(Watched /\ (DeletionStep \/ InsertionStep))

(* A round that was started comes to an end: the propagations recurse through
   cycles, and the loops run until vectors they refill are empty. *)
RoundTerminates == Watched /\ pc # "idle" ~> pc = "idle"

=============================================================================
