---------------------------- MODULE MCIncrement ----------------------------
(***************************************************************************)
(* What surrounds a round of the incremental analysis, for TLC, side by    *)
(* side. A behaviour is one of one part; the variables of the others are   *)
(* at a start.                                                             *)
(***************************************************************************)
EXTENDS CallGraphInc, RoundDriver, ChangeSet, TLC

VARIABLE part

suiteVars == <<part, vars, driverVars, changeVars>>
-----------------------------------------------------------------------------
(* main calls through fp1 at s1 and through fp2 at s2, passing a; f calls its
   parameter at s3; v2 and w2 are virtual. Functions are their own objects; g2
   is a second object (a declaration) of g. *)
A(o, n) == [kind |-> "Addr", src |-> o, dst |-> n]
C(n, k) == [kind |-> "Copy", src |-> n, dst |-> k]

CgObj  == {"f", "g", "g2"}
CgNode == {"fp1", "fp2", "vp", "wp", "a", "b", "xf", "xg"}
CgFunc == {"main", "f", "g"}
CgSite == {"s1", "s2", "s3", "s4", "v2", "w2"}
CgVirtual == {"v2", "w2"}
CgCaller == [s \in CgSite |-> IF s = "s3" THEN "f" ELSE "main"]
CgFunPtr == ("s1" :> "fp1") @@ ("s2" :> "fp2") @@ ("s3" :> "xf") @@ ("v2" :> "vp") @@ ("w2" :> "wp")
CgDirect == {<<"s4", "f">>}
CgCallee == [s \in DOMAIN CgFunPtr |-> [o \in CgObj |-> IF o = "g2" THEN {"g"} ELSE {o}]]
CgParams == [x \in (DOMAIN CgFunPtr) \X CgFunc |->
  CASE x \in {<<"s1", "f">>, <<"w2", "f">>} -> {C("a", "xf")}
    [] x \in {<<"s1", "g">>, <<"w2", "g">>} -> {C("a", "xg")}
    [] x \in {<<"s2", "f">>, <<"v2", "f">>} -> {C("b", "xf")}
    [] x \in {<<"s2", "g">>, <<"v2", "g">>} -> {C("b", "xg")}
    [] x = <<"s3", "g">> -> {C("xf", "xg")}
    [] x = <<"s3", "f">> -> {C("xg", "xf")}
    [] OTHER -> {}]

(* s1 and s2, or v2, pass different arguments, s3 passes nothing but the
   result of g to b: a chain of calls in which each makes the next one possible. *)
ChainPrograms == {B \cup {A("f", "fp1"), A("g", "a"), C("a", "b")} : B \in SUBSET
  {A("f", "fp2"), A("g", "fp2"), A("f", "b"), C("fp1", "fp2"), C("xg", "a")}}
VirtualPrograms == {B \cup {A("f", "fp1"), A("g", "a"), C("a", "b")} : B \in SUBSET
  {A("g", "vp"), C("fp1", "vp"), C("xg", "a")}}

(* Everything shared: s1 and w2 pass the same argument, a direct call s4
   passes it as well, g has two objects. *)
SharedPrograms == {B \cup {A("f", "fp1"), A("g", "a")} : B \in SUBSET
  {A("f", "wp"), A("g2", "fp1"), A("g2", "a"), A("g2", "wp"), C("fp1", "wp"),
   C("a", "xf"), C("xg", "fp1")}}
LiveProgram == {A("f", "fp1"), C("fp1", "wp"), A("g", "a"), C("xg", "fp1")}

CgPrograms == {{}} \cup ChainPrograms \cup VirtualPrograms \cup SharedPrograms
CgMaxStep == [p \in CgPrograms |-> IF p \in ChainPrograms \cup {LiveProgram} THEN 2 ELSE 1]
CgMaxRounds == [p \in CgPrograms |-> IF p \in ChainPrograms \/ Cardinality(p) > 6 THEN 1 ELSE 2]
-----------------------------------------------------------------------------
(* A program in the order of the step driver: the call passes what the second
   copy copies, two stores store the same, a phi has two operands. *)
I(kind, stmt, edge) == [kind |-> kind, stmt |-> stmt, edge |-> edge]
Statements == <<
  I("Addr", 1, "a1"), I("Addr", 2, "a2"), I("Copy", 3, "c1"), I("Copy", 4, "c2"),
  I("Phi", 5, "c3"), I("Phi", 5, "c4"), I("Call", 6, "c2"), I("Fork", 7, "c5"),
  I("VGep", 8, "v1"), I("NGep", 9, "n1"), I("VGep", 10, "v2"), I("VGep", 11, "v3"),
  I("Store", 12, "s1"), I("Store", 13, "s1"), I("Store", 14, "s2"), I("Load", 15, "l1")>>

StepChoice(step, start, specific, pseudo) ==
  [driver |-> "step", items |-> Statements, pseudo |-> pseudo, step |-> step,
   start |-> start, specific |-> specific]
From(c, n) == [x \in {"addr", "copy", "vgep", "store", "load"} |-> IF x = c THEN n ELSE 1]
Only(c, n) == [From(c, n) EXCEPT !["addr"] = 0, !["load"] = 0,
  !["copy"] = IF c = "copy" THEN n ELSE 0, !["vgep"] = IF c = "vgep" THEN n ELSE 0,
  !["store"] = IF c = "store" THEN n ELSE 0]
Without(f, c) == [x \in DOMAIN f \ {c} |-> f[x]]

StepChoices == UNION {
  {StepChoice(n, From(c, m), Only("copy", 0), b) : b \in BOOLEAN, c \in {"copy", "vgep", "store"},
     m \in 1..4} \cup
  {StepChoice(n, From("copy", 1), Only(c, m), FALSE) : c \in {"copy", "vgep", "store"}, m \in 1..4}
  \cup {StepChoice(n, Without(From("copy", 1), c), Without(Only("copy", 0), c), FALSE) :
     c \in {"addr", "copy", "vgep"}} : n \in 1..6}
ProportionChoices == {
  [driver |-> "proportion", items |-> Statements, pseudo |-> b, percent |-> p, rounds |-> r] :
     b \in BOOLEAN, p \in {10, 34, 50, 70, 100}, r \in {3, 6}}

NoStatements == [StepChoice(1, From("copy", 1), Only("copy", 0), FALSE) EXCEPT !.items = <<>>]
DriverChoices == {NoStatements} \cup StepChoices \cup ProportionChoices
-----------------------------------------------------------------------------
(* Two source files, a file that is none, and a binary one; f has two returns
   and is called with an argument more than it has parameters; two stores
   store the same. The hunks are any two of four. *)
Lines(lo, hi) == [lo |-> lo, hi |-> hi]
NoLines(n) == Lines(n + 1, n)
Hunks == {
  [del |-> Lines(2, 3), ins |-> Lines(2, 2), note |-> FALSE],
  [del |-> NoLines(4), ins |-> Lines(4, 5), note |-> FALSE],
  [del |-> Lines(6, 6), ins |-> NoLines(5), note |-> FALSE],
  [del |-> Lines(7, 8), ins |-> Lines(7, 7), note |-> TRUE]}
Diffs(hunks) == <<
  [name |-> "a.c", source |-> TRUE, binary |-> FALSE, hunks |-> hunks],
  [name |-> "b.txt", source |-> FALSE, binary |-> FALSE, hunks |-> <<CHOOSE h \in Hunks : h.note>>],
  [name |-> "c.o", source |-> FALSE, binary |-> TRUE, hunks |-> <<>>],
  [name |-> "d.h", source |-> TRUE, binary |-> FALSE, hunks |-> hunks]>>

Inst(id, line, kind, res, ops) ==
  [id |-> id, file |-> "a.c", line |-> line, located |-> TRUE, kind |-> kind, res |-> res,
   ops |-> ops, constants |-> {}]
F == [params |-> <<"fp">>, vararg |-> "fv", ret |-> "fr"]
Insts(n) == {
  Inst("i1", 2, "Addr", "x", <<"ox">>), Inst("i2", n, "Store", "x", <<"y">>),
  Inst("i3", 4, "Store", "x", <<"y">>), Inst("i4", n, "Phi", "y", <<"x", "z">>),
  Inst("i5", 6, "Return", "fr", <<"y">>), Inst("i6", 7, "Return", "fr", <<"z">>),
  Inst("i8", 5, "Select", "w", <<"x", "y">>), Inst("i9", 7, "Vector", "v", <<"x">>),
  Inst("i10", 8, "Copy", "n", <<"m">>),
  Inst("i7", n, "Call", "z", <<"x", "y">>) @@ [callee |-> F],
  [Inst("i11", n, "External", "z", <<"x">>) EXCEPT
     !.constants = {[kind |-> "Gep", src |-> "x", dst |-> "c", label |-> ""]}]
  @@ [effects |-> {[kind |-> "Addr", src |-> "heap", dst |-> "z", label |-> ""]}],
  [Inst("i12", 2, "Load", "q", <<"x">>) EXCEPT !.file = "d.h"],
  [Inst("i13", 2, "Load", "p", <<"x">>) EXCEPT !.file = "b.txt"],
  [Inst("i14", 2, "Load", "r", <<"x">>) EXCEPT !.located = FALSE]}
ChangeCases == {
  [files |-> Diffs(hs), isNew |-> b, insts |-> Insts(n), scalars |-> {"n", "m"},
   globals |-> {[obj |-> "og", val |-> "g", init |-> "x"]}] :
     b \in BOOLEAN, n \in 0..8, hs \in {<<h>> : h \in Hunks} \cup {<<h, k>> : h, k \in Hunks}}
NoChange == [files |-> <<>>, isNew |-> FALSE, insts |-> {}, scalars |-> {}, globals |-> {}]
DiffCases == {NoChange} \cup ChangeCases
-----------------------------------------------------------------------------
ASSUME PartsAssumption ==
  /\ CallGraphAssumption /\ DriverAssumption /\ ChangeAssumption

CgOff == base = {} /\ Init
RdOff == choice = NoStatements /\ DriverInit

CsOff == input = NoChange /\ ChangeInit

SuiteInit ==
  \/ RdOff /\ CsOff /\ part = "calls" /\ Init
  \/ CgOff /\ CsOff /\ part = "driver" /\ DriverInit
  \/ CgOff /\ RdOff /\ part = "changes" /\ ChangeInit

SuiteNext ==
  /\ UNCHANGED part
  /\ \/ part = "calls" /\ Next /\ UNCHANGED <<driverVars, changeVars>>
     \/ part = "driver" /\ DriverNext /\ UNCHANGED <<vars, changeVars>>
     \/ part = "changes" /\ ChangeNext /\ UNCHANGED <<vars, driverVars>>

(* Steps the program goes on to take by itself. *)
Step ==
  \/ part = "calls" /\ Update /\ UNCHANGED <<part, driverVars, changeVars>>
  \/ part = "driver" /\ DriverStep /\ UNCHANGED <<part, vars, changeVars>>

SuiteSpec == SuiteInit /\ [][SuiteNext]_suiteVars /\ WF_suiteVars(Step)
-----------------------------------------------------------------------------
(* Connected calls keep their parameter copies, also where they share them. *)
SharedParamsKept == part = "calls" => ParamsConnected

(* The passes of a round come to an end, and so do the drivers. *)
Busy ==
  \/ part = "calls" /\ pc # "idle"
  \/ part = "driver" /\ drPc # "done"
Finishes == Busy ~> ~Busy
=============================================================================
