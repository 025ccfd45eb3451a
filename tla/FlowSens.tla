------------------------------ MODULE FlowSens ------------------------------
(***************************************************************************)
(* The sparse flow-sensitive points-to analysis (lib/WPA/FlowSensitive.cpp)*)
(* over its data-flow points-to data (MutableDFPTData, MutableIncDFPTData  *)
(* and their persistent counterparts).                                     *)
(*                                                                         *)
(* A node of the value flow graph is a statement or a memory SSA node. Top *)
(* level pointers have one points-to set; an object has one for every node *)
(* it is live at, before (in) and, at a store, after it (out). The         *)
(* incremental data keep, for every node, the objects whose set has grown  *)
(* since it was last passed on, and pass on no others.                     *)
(*                                                                         *)
(* The worklist is first in first out; here it gives up its nodes in any   *)
(* order, so that nothing shown depends on the order they came in.         *)
(***************************************************************************)
EXTENDS Naturals, FiniteSets

CONSTANTS
  Programs,   \* [stmt, direct, indirect, calls, inc]: see FlowAssumption
  Obj, Var,
  Strong,     \* objects that are one location: no heap, array, local of a recursive function
  FieldsOf,   \* of a field-insensitive object, its field objects
  FieldOf     \* of a field-sensitive object, the field a constant offset leads to

VARIABLES
  prog,       \* the program analysed
  direct,     \* edges from definitions to uses
  indirect,   \* edges of objects, [src, dst, pts]
  called,     \* resolved indirect calls
  pts,        \* points-to sets of top-level pointers
  in, out,    \* points-to sets of objects at nodes
  inNew, outNew,   \* in/outUpdatedVarMap
  work,       \* nodes to process
  pc

fsVars == <<prog, direct, indirect, called, pts, in, out, inNew, outNew, work, pc>>

Location == DOMAIN prog.stmt
FI == DOMAIN FieldsOf

FlowAssumption ==
  /\ \A o \in FI : FieldsOf[o] \subseteq Obj
  /\ Strong \subseteq Obj \ FI
  /\ \A p \in Programs :
       /\ \A n \in DOMAIN p.stmt : p.stmt[n].kind \in
            {"Addr", "Copy", "Phi", "Gep", "VGep", "Load", "Store", "ActualParm", "FormalRet", "Param",
             "MSSAPhi", "FormalIN", "ActualOUT", "ActualIN"}
       /\ p.direct \subseteq (DOMAIN p.stmt) \X (DOMAIN p.stmt)
       /\ \A e \in p.indirect : {e.src, e.dst} \subseteq DOMAIN p.stmt /\ e.pts \subseteq Obj
-----------------------------------------------------------------------------
(* The data-flow data. d is [pts, in, out, inNew, outNew]; an update returns
   the data and whether a set has grown. *)
Data == [pts |-> pts, in |-> in, out |-> out, inNew |-> inNew, outNew |-> outNew]
Res(d, b) == [d |-> d, changed |-> b]

setVarDFInSetUpdated(d, n, o) == [d EXCEPT !.inNew[n] = @ \cup {o}]
setVarDFOutSetUpdated(d, n, o) == [d EXCEPT !.outNew[n] = @ \cup {o}]
varHasNewDFInPts(d, n, o) == o \in d.inNew[n]
varHasNewDFOutPts(d, n, o) == o \in d.outNew[n]

JoinIn(d, n, o, S) ==
  IF S \subseteq d.in[n][o] THEN Res(d, FALSE)
  ELSE Res(setVarDFInSetUpdated([d EXCEPT !.in[n][o] = @ \cup S], n, o), TRUE)
JoinOut(d, n, o, S) ==
  IF S \subseteq d.out[n][o] THEN Res(d, FALSE)
  ELSE Res(setVarDFOutSetUpdated([d EXCEPT !.out[n][o] = @ \cup S], n, o), TRUE)
JoinTop(d, v, S) == Res([d EXCEPT !.pts[v] = @ \cup S], ~(S \subseteq d.pts[v]))

(* Along an edge that was there when the sets last grew. *)
updateDFInFromIn(d, m, n, o) ==
  IF prog.inc /\ ~varHasNewDFInPts(d, m, o) THEN Res(d, FALSE) ELSE JoinIn(d, n, o, d.in[m][o])
updateDFInFromOut(d, m, n, o) ==
  IF prog.inc /\ ~varHasNewDFOutPts(d, m, o) THEN Res(d, FALSE) ELSE JoinIn(d, n, o, d.out[m][o])
(* Along a new edge. *)
updateAllDFInFromIn(d, m, n, o) == JoinIn(d, n, o, d.in[m][o])
updateAllDFInFromOut(d, m, n, o) == JoinIn(d, n, o, d.out[m][o])

updateDFOutFromIn(d, n, o) ==
  IF prog.inc /\ ~varHasNewDFInPts(d, n, o) THEN Res(d, FALSE)
  ELSE JoinOut([d EXCEPT !.inNew[n] = @ \ {o}], n, o, d.in[n][o])
updateTLVPts(d, n, o, v) ==
  IF prog.inc /\ ~varHasNewDFInPts(d, n, o) THEN Res(d, FALSE)
  ELSE JoinTop([d EXCEPT !.inNew[n] = @ \ {o}], v, d.in[n][o])
updateATVPts(d, v, n, o) == JoinOut(d, n, o, d.pts[v])
clearAllDFOutUpdatedVar(d, n) == [d EXCEPT !.outNew[n] = {}]

(* f(d, o) for every object of S; the order does not matter, the objects'
   sets being apart and the pointer's set a union. *)
ForAll(d, S, f(_, _)) ==
  LET after[T \in SUBSET S] ==
        IF T = {} THEN Res(d, FALSE)
        ELSE LET o == CHOOSE o \in T : TRUE
                 r == after[T \ {o}]
                 x == f(r.d, o)
             IN  Res(x.d, r.changed \/ x.changed)
  IN  after[S]

updateAllDFOutFromIn(d, n, skip) ==
  LET one(e, o) == updateDFOutFromIn(e, n, o)
  IN  ForAll(d, (IF prog.inc THEN d.inNew[n] ELSE Obj) \ skip, one)

(* A field-insensitive object stands for its fields too. *)
WithFields(S) == S \cup UNION {FieldsOf[o] : o \in S \cap FI}
-----------------------------------------------------------------------------
(* What processing a node does to the data. *)
isStrongUpdate(d, s) == \E o \in Strong : d.pts[s.dst] = {o}

processStore(d, n, s) ==
  LET fromTop(e, o) == updateATVPts(e, s.src, n, o)
      written == IF d.pts[s.src] = {} THEN Res(d, FALSE) ELSE ForAll(d, d.pts[s.dst], fromTop)
      kept == updateAllDFOutFromIn(written.d, n, IF isStrongUpdate(d, s) THEN d.pts[s.dst] ELSE {})
  IN  IF d.pts[s.dst] = {} THEN Res(d, FALSE)
      ELSE Res(kept.d, written.changed \/ kept.changed)

processLoad(d, n, s) ==
  LET fromIn(e, o) == updateTLVPts(e, n, o, s.dst)
  IN  ForAll(d, WithFields(d.pts[s.src]), fromIn)

processGep(d, s) ==
  JoinTop(d, s.dst,
    IF s.kind = "VGep" THEN d.pts[s.src]   \* every object here is field-insensitive already
    ELSE {IF o \in FI THEN o ELSE FieldOf[o] : o \in d.pts[s.src]})

processSVFGNode(d, n) ==
  LET s == prog.stmt[n]
  IN  CASE s.kind = "Addr"            -> JoinTop(d, s.dst, {s.src})
        [] s.kind = "Copy"            -> JoinTop(d, s.dst, d.pts[s.src])
        [] s.kind = "Phi"             -> JoinTop(d, s.dst, UNION {d.pts[v] : v \in s.src})
        [] s.kind \in {"Gep", "VGep"} -> processGep(d, s)
        [] s.kind = "Load"            -> processLoad(d, n, s)
        [] s.kind = "Store"           -> processStore(d, n, s)
        [] OTHER                      -> Res(d, TRUE)

propAlongDirectEdge(d, e) ==
  LET s == prog.stmt[e[1]]
  IN  IF s.kind \in {"ActualParm", "FormalRet"} THEN JoinTop(d, prog.stmt[e[2]].dst, d.pts[s.src])
      ELSE Res(d, TRUE)

propVarPtsFromSrcToDst(d, o, m, n) ==
  IF prog.stmt[m].kind = "Store" THEN updateDFInFromOut(d, m, n, o) ELSE updateDFInFromIn(d, m, n, o)

propAlongIndirectEdge(d, e) ==
  LET one(f, o) == propVarPtsFromSrcToDst(f, o, e.src, e.dst)
  IN  ForAll(d, WithFields(e.pts), one)

(* Every edge out of n in turn; next is where something arrived. *)
propagate(d, n) ==
  LET outs == {[dir |-> TRUE, edge |-> e, dst |-> e[2]] : e \in {x \in direct : x[1] = n}} \cup
              {[dir |-> FALSE, edge |-> e, dst |-> e.dst] : e \in {x \in indirect : x.src = n}}
      after[T \in SUBSET outs] ==
        IF T = {} THEN [d |-> d, next |-> {}]
        ELSE LET x == CHOOSE x \in T : TRUE
                 r == after[T \ {x}]
                 p == IF x.dir THEN propAlongDirectEdge(r.d, x.edge)
                      ELSE propAlongIndirectEdge(r.d, x.edge)
             IN  [d |-> p.d, next |-> IF p.changed THEN r.next \cup {x.dst} ELSE r.next]
  IN  after[outs]
-----------------------------------------------------------------------------
Nothing(p) == [n \in DOMAIN p.stmt |-> [o \in Obj |-> {}]]

Init ==
  /\ prog \in Programs
  /\ direct = prog.direct /\ indirect = prog.indirect /\ called = {}
  /\ pts = [v \in Var |-> {}] /\ in = Nothing(prog) /\ out = Nothing(prog)
  /\ inNew = [n \in Location |-> {}] /\ outNew = [n \in Location |-> {}]
  /\ work = {} /\ pc = "iterate"

SetData(d) ==
  /\ pts' = d.pts /\ in' = d.in /\ out' = d.out /\ inNew' = d.inNew /\ outNew' = d.outNew

initWorklist ==
  /\ pc = "iterate"
  /\ work' = Location
  /\ pc' = "solve"
  /\ UNCHANGED <<prog, direct, indirect, called, pts, in, out, inNew, outNew>>

processNode ==
  /\ pc = "solve"
  /\ \E n \in work :
       LET p == processSVFGNode(Data, n)
           q == IF p.changed THEN propagate(p.d, n) ELSE [d |-> p.d, next |-> {}]
       IN  /\ SetData(clearAllDFOutUpdatedVar(q.d, n))
           /\ work' = (work \ {n}) \cup q.next
  /\ UNCHANGED <<prog, direct, indirect, called, pc>>

(* What a resolved call adds to the graph, less what the auxiliary analysis
   does not have. *)
NewCalls == {c \in DOMAIN prog.calls : c \notin called /\ c[2] \in pts[prog.calls[c].fp]}
connectCallerAndCallee(C) == {c \in C : prog.calls[c].ander}

(* The marks of the source say what was not passed on yet: to a node that was
   not there, nothing was. *)
propVarPtsAfterCGUpdated_Marked(d, o, m, n) == propVarPtsFromSrcToDst(d, o, m, n)
propVarPtsAfterCGUpdated(d, o, m, n) ==
  IF prog.stmt[m].kind = "Store" THEN updateAllDFInFromOut(d, m, n, o)
  ELSE updateAllDFInFromIn(d, m, n, o)

updateConnectedNodes(d, E) ==
  LET after[T \in SUBSET E] ==
        IF T = {} THEN d
        ELSE LET e == CHOOSE e \in T : TRUE
                 one(f, o) == propVarPtsAfterCGUpdated(f, o, e.src, e.dst)
             IN  IF prog.stmt[e.dst].kind \in {"FormalIN", "ActualOUT"}
                 THEN ForAll(after[T \ {e}], WithFields(e.pts), one).d ELSE after[T \ {e}]
  IN  after[E]

(* What updateConnectedNodes pushes is pushed again by initWorklist. *)
updateCallGraph ==
  /\ pc = "solve" /\ work = {}
  /\ LET linked == connectCallerAndCallee(NewCalls)
         E == UNION {prog.calls[c].indirect : c \in linked}
     IN  /\ called' = called \cup NewCalls
         /\ direct' = direct \cup UNION {prog.calls[c].direct : c \in linked}
         /\ indirect' = indirect \cup E
         /\ SetData(updateConnectedNodes(Data, E \ indirect))
         /\ pc' = IF NewCalls = {} THEN "done" ELSE "iterate"
  /\ UNCHANGED <<prog, work>>

Step == initWorklist \/ processNode \/ updateCallGraph

Spec == Init /\ [][Step]_fsVars /\ WF_fsVars(Step)
-----------------------------------------------------------------------------
(* The least solution over the graph the analysis ended with: all facts that
   follow in one step, until there are no more. *)
Facts(v, i, o) == [pts |-> v, in |-> i, out |-> o]
Passes(f, n, o) ==     \* a value of o gets past the store unless the store must overwrite it
  LET s == prog.stmt[n]
  IN  f.pts[s.dst] # {} /\ ~(f.pts[s.dst] = {o} /\ o \in Strong)
Follows(f) ==
  LET assigned(v) == UNION {
        LET s == prog.stmt[n]
        IN  CASE s.kind = "Addr" -> {s.src}
              [] s.kind = "Copy" -> f.pts[s.src]
              [] s.kind = "Phi" -> UNION {f.pts[x] : x \in s.src}
              [] s.kind = "VGep" -> f.pts[s.src]
              [] s.kind = "Gep" -> {IF o \in FI THEN o ELSE FieldOf[o] : o \in f.pts[s.src]}
              [] s.kind = "Load" -> UNION {f.in[n][o] : o \in WithFields(f.pts[s.src])}
              [] OTHER -> UNION {f.pts[prog.stmt[e[1]].src] : e \in
                   {e \in direct : e[2] = n /\ prog.stmt[e[1]].kind \in {"ActualParm", "FormalRet"}}}
        : n \in {n \in Location : prog.stmt[n].kind # "Store" /\ prog.stmt[n].dst = v}}
  IN  Facts(
        [v \in Var |-> assigned(v)],
        [n \in Location |-> [o \in Obj |-> UNION {
           IF prog.stmt[e.src].kind = "Store" THEN f.out[e.src][o] ELSE f.in[e.src][o] :
           e \in {e \in indirect : e.dst = n /\ o \in WithFields(e.pts)}}]],
        [n \in Location |-> [o \in Obj |->
           IF prog.stmt[n].kind # "Store" THEN {}
           ELSE (IF o \in f.pts[prog.stmt[n].dst] THEN f.pts[prog.stmt[n].src] ELSE {}) \cup
                (IF Passes(f, n, o) THEN f.in[n][o] ELSE {})]])
LeastFacts ==
  LET rounds == 2 * Cardinality(Location)      \* more than the longest way a fact takes
      from[k \in 0..rounds] ==
        IF k = 0 THEN Facts([v \in Var |-> {}], Nothing(prog), Nothing(prog))
        ELSE LET f == from[k - 1] IN Follows(f)
  IN  from[rounds]

(* When the analysis is done it has found the least solution, at every node
   and for every object, whichever order nodes were processed in, although a
   set is passed on only while it is marked as grown, marks are dropped as soon
   as a node is processed, calls add edges to nodes whose marks are gone, and a
   store is taken for a strong update until its pointer points to more. *)
SolutionExact ==
  pc = "done" => LET least == LeastFacts IN Follows(least) = least /\ Facts(pts, in, out) = least
=============================================================================
