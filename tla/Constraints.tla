---------------------------- MODULE Constraints ----------------------------
(***************************************************************************)
(* The vocabulary shared by the flat and the super constraint graph: node  *)
(* and object identifiers, the six kinds of constraint edge, what a direct *)
(* edge does to a points-to set, and the reference definition of what the  *)
(* analysis computes (the least solution of Andersen's constraints).       *)
(***************************************************************************)
EXTENDS Naturals, FiniteSets

CONSTANTS
  Node,       \* all node ids of the constraint graph (pointers and objects)
  Obj,        \* the memory-object nodes among them
  NonPtrObj,  \* objects skipped by load/store (isConstantObj, isNonPointerObj)
  FIObjVar,   \* getFIObjVar:  object -> its field-insensitive base object
  GepObjVar   \* getGepObjVar: object -> its field (itself for a black-hole,
              \* constant or field-insensitive object)

ASSUME ConstraintsAssumption ==
  /\ Obj \subseteq Node
  /\ NonPtrObj \subseteq Obj
  /\ FIObjVar \in [Obj -> Obj]
  /\ GepObjVar \in [Obj -> Obj]

ASSUME NodesAssumption == IsFiniteSet(Node)

Ptr == Node \ Obj

DirectKind  == {"Copy", "VariantGep", "NormalGep"}
ComplexKind == {"Load", "Store"}
Kind == {"Addr"} \cup DirectKind \cup ComplexKind

(* An edge of either graph. At most one edge exists per (kind, src, dst), so
   the triple is its identity. *)
Edge == [kind : Kind, src : Node, dst : Node]

IsDirect(e)  == e.kind \in DirectKind
IsComplex(e) == e.kind \in ComplexKind

DirectEdge == {e \in Edge : IsDirect(e)}

(* The edge of a constraint of the program: it is of objects that addresses
   are taken. *)
ProgramEdge == {e \in Edge : e.kind = "Addr" => e.src \in Obj}

CopyEdge(s, d) == [kind |-> "Copy", src |-> s, dst |-> d]

(***************************************************************************)
(* What a direct edge of kind k contributes to its target when its source  *)
(* points to S.                                                            *)
(***************************************************************************)
Transfer(k, S) ==
  CASE k = "Copy"       -> S
    [] k = "VariantGep" -> {FIObjVar[o] : o \in S}
    [] k = "NormalGep"  -> {GepObjVar[o] : o \in S}

(***************************************************************************)
(* The copy edge a load or store ce stands for when its pointer points to  *)
(* o: src --Load--> dst gives o --Copy--> dst, and src --Store--> dst      *)
(* gives src --Copy--> o.                                                  *)
(***************************************************************************)
DerivedCopy(ce, o) ==
  IF ce.kind = "Load" THEN CopyEdge(o, ce.dst) ELSE CopyEdge(ce.src, o)

(* The node whose points-to set drives a complex edge. *)
Pointer(ce) == IF ce.kind = "Load" THEN ce.src ELSE ce.dst

(***************************************************************************)
(* Constraint sets the front end can produce. Pointers are SSA values: a   *)
(* pointer is the result of one address-of, one load or one gep, or it     *)
(* collects copies (phi, select, parameter and return passing). Copies,    *)
(* geps, loads and stores join pointers; objects appear only as the source *)
(* of an address-of.                                                       *)
(***************************************************************************)
WellFormed(B) ==
  /\ B \subseteq Edge
  /\ \A e \in B :
       /\ e.dst \in Ptr
       /\ IF e.kind = "Addr" THEN e.src \in Obj ELSE e.src \in Ptr
       /\ e.kind # "Store" => e.src # e.dst
  /\ \A e, f \in {x \in B : x.kind # "Store"} :
       e.dst = f.dst /\ e # f => e.kind = "Copy" /\ f.kind = "Copy"

-----------------------------------------------------------------------------
(* The reference: the least points-to assignment closed under constraint set
   B, by iteration from the empty assignment. *)
DerivedCopies(B, p) ==
  {DerivedCopy(x[1], x[2]) : x \in {y \in {e \in B : IsComplex(e)} \X (Obj \ NonPtrObj) :
                                      y[2] \in p[Pointer(y[1])]}}

SolveStep(B, p) ==
  LET D == {e \in B : IsDirect(e)} \cup DerivedCopies(B, p)
  IN  [n \in Node |->
         p[n] \cup {e.src : e \in {x \in B : x.kind = "Addr" /\ x.dst = n}}
              \cup UNION {Transfer(e.kind, p[e.src]) : e \in {x \in D : x.dst = n}}]

LeastSolution(B) ==
  LET it[i \in Nat] ==
        IF i = 0 THEN [n \in Node |-> {}]
        ELSE LET q == it[i-1]
                 r == SolveStep(B, q)
             IN  IF r = q THEN q ELSE r
  IN  it[Cardinality(Node) * Cardinality(Obj)]

-----------------------------------------------------------------------------
(* The vertices of V reached from v along edges of E inside V, and the
   strongly connected components of the graph they make. *)
Reached(V, E, v) ==
  LET it[i \in Nat] ==
        IF i = 0 THEN {v}
        ELSE LET S == it[i-1]
             IN  S \cup {e.dst : e \in {x \in E : x.src \in S /\ x.dst \in V}}
  IN  it[Cardinality(V)]

Components(V, E) ==
  {{w \in V : w \in Reached(V, E, v) /\ v \in Reached(V, E, w)} : v \in V}

(***************************************************************************)
(* The direct edges of the solved graph, and when the fields of objects    *)
(* are settled: an object that reaches a variant gep is field-insensitive  *)
(* (the exhaustive phase has collapsed it) and no gep lies on a cycle of   *)
(* direct edges (a positive-weight cycle, which it collapses as well).     *)
(***************************************************************************)
SolvedDirect(B) == {e \in B : IsDirect(e)} \cup DerivedCopies(B, LeastSolution(B))

FieldsSettled(B) ==
  /\ \A e \in {x \in B : x.kind = "VariantGep"} :
       \A o \in LeastSolution(B)[e.src] : FIObjVar[o] = o /\ GepObjVar[o] = o
  /\ \A e \in {x \in B : x.kind \in {"VariantGep", "NormalGep"}} :
       \A C \in Components(Node, SolvedDirect(B)) : ~({e.src, e.dst} \subseteq C)
=============================================================================
