------------------------------ MODULE ChangeSet ------------------------------
(***************************************************************************)
(* From the output of `diff -N -r` over two source trees to the edges that *)
(* a round retracts or inserts: SourceDiffHandler reads the output line by *)
(* line, ModuleParser marks the instructions whose debug line was changed, *)
(* SVFIRGetter visits the marked instructions and looks up the statements  *)
(* that SVFIRBuilder made of them, getDiffSDK turns these into edges. One  *)
(* run of the tool sees one version, the old or the new one.               *)
(***************************************************************************)
EXTENDS Naturals, Sequences, FiniteSets

CONSTANT Cases   \* a change, the version that is read, and its program

(* A range of lines is empty if lo > hi. *)
LineRange == [lo : Nat, hi : Nat]
Empty(r) == r.lo > r.hi

(* A change is a sequence of files with their hunks, the lines replaced and
   the lines that replace them; note: a line without newline at its end. *)
Difference ==
  Seq([name : STRING, source : BOOLEAN, binary : BOOLEAN,
       hunks : Seq([del : LineRange, ins : LineRange, note : BOOLEAN])])

VARIABLES
  input,                \* the case
  rest,                 \* the lines of the difference that were not read
  before, after, flag,  \* the files of the last command line
  addDiff, deleteDiff,  \* ranges of lines: <<file, lo, hi>>
  built,                \* the operands of the statements of SVFIR
  marked,               \* InstAddSet or InstDeleteSet
  left,                 \* marked instructions the getter has not visited
  stmts,                \* diffStmts
  changedEdges,         \* the work vectors
  csPc

changeVars == <<input, rest, before, after, flag, addDiff, deleteDiff, built, marked, left, stmts,
                changedEdges, csPc>>
-----------------------------------------------------------------------------
(* What diff prints: a command for each file, a line for each hunk, and the
   text of its lines. *)
Joined(s) ==
  LET upto[n \in 0..Len(s)] == IF n = 0 THEN <<>> ELSE upto[n - 1] \o s[n]
  IN  upto[Len(s)]

Hunk(h) ==
  <<[tag |-> "hunk", op |-> IF Empty(h.del) THEN "a" ELSE IF Empty(h.ins) THEN "d" ELSE "c",
     del |-> h.del, ins |-> h.ins],
    [tag |-> "text"]>> \o IF h.note THEN <<[tag |-> "note"]>> ELSE <<>>

File(f) ==
  IF f.binary THEN <<[tag |-> "binary"]>>
  ELSE <<[tag |-> "command", before |-> f.name, after |-> f.name, source |-> f.source]>>
       \o Joined([n \in DOMAIN f.hunks |-> Hunk(f.hunks[n])])

Output(files) == Joined([n \in DOMAIN files |-> File(files[n])])
-----------------------------------------------------------------------------
(* The statements of an instruction, one for each operand. A statement is
   identified by its kind, its nodes and a label: stores by the instruction,
   parameters by the call. A phi or select is one statement for all operands,
   and so are the values a function returns. *)
Stmt(kind, src, dst, label) == [kind |-> kind, src |-> src, dst |-> dst, label |-> label]
Key(s) == IF s.kind \in {"Phi", "Select"} THEN [s EXCEPT !.src = ""] ELSE s

Operands(i) == {i.ops[n] : n \in DOMAIN i.ops}
Intra(i) ==
  CASE i.kind \in {"Addr", "Copy", "Load", "Gep", "Phi"} ->
         {Stmt(i.kind, o, i.res, "") : o \in Operands(i)}
    [] i.kind = "Store" -> {Stmt("Store", i.ops[1], i.res, i.id)}
    [] i.kind = "Select" -> {Stmt("Select", o, i.res, "") : o \in Operands(i)}
    [] i.kind = "Return" -> {Stmt("Phi", o, i.res, "") : o \in Operands(i)}
    [] OTHER -> {}

(* What is not understood points to the black hole. *)
Unknown(i) == IF i.kind = "Vector" THEN {Stmt("Addr", "blackhole", i.res, "")} ELSE {}

(* A direct call passes operands to as many parameters as there are, the rest
   to the variable arguments, and takes the result. *)
Parameter(callee, n) ==
  IF n <= Len(callee.params) THEN callee.params[n] ELSE callee.vararg
handleDirectCall(i) ==
  LET passed == {n \in DOMAIN i.ops : n <= Len(i.callee.params) \/ i.callee.vararg # ""}
  IN  {Stmt("Call", i.ops[n], Parameter(i.callee, n), i.id) : n \in passed}
      \cup IF i.res # "" THEN {Stmt("Ret", i.callee.ret, i.res, i.id)} ELSE {}
CallStmts(i) == IF i.kind = "Call" THEN handleDirectCall(i) ELSE {}

(* SVFIRBuilder adds the statements of constant expressions among the operands
   and of calls of external functions. *)
Constants(i) == i.constants
handleExtCall(i) == IF i.kind = "External" THEN i.effects ELSE {}
VisitOf(i) == Intra(i) \cup Unknown(i) \cup CallStmts(i)
Build(i) == VisitOf(i) \cup Constants(i) \cup handleExtCall(i)

(* One node holds what a phi or a select chooses, another what a function
   returns; nothing else is copied to them. *)
Choosing == {"Phi", "Select", "Return"}
ChosenOnce(insts) ==
  \A i, j \in insts : \A s \in Build(j) :
    i.kind \in Choosing /\ s.dst = i.res /\ s.kind \in {"Copy", "Phi", "Select", "Call", "Ret"} =>
      s \in VisitOf(j) /\ (i = j \/ (i.kind = "Return" /\ j.kind = "Return"))

ChangeAssumption ==
  \A c \in Cases :
    /\ c.isNew \in BOOLEAN /\ c.files \in Difference
    /\ \A f \in DOMAIN c.files : \A h \in DOMAIN c.files[f].hunks :
         LET x == c.files[f].hunks[h] IN ~ (Empty(x.del) /\ Empty(x.ins))
    /\ \A i, j \in c.insts : i.id = j.id => i = j
    /\ \A i \in c.insts : i.line \in Nat
    /\ \A i \in c.insts : \A s \in Constants(i) \cup handleExtCall(i) :
         s = Stmt(s.kind, s.src, s.dst, s.label)
    /\ ChosenOnce(c.insts)

Globals == {Stmt("Addr", g.obj, g.val, "") : g \in input.globals}
           \cup {Stmt("Store", g.init, g.val, "") : g \in {x \in input.globals : x.init # ""}}
-----------------------------------------------------------------------------
ChangeInit ==
  /\ input \in Cases
  /\ rest = Output(input.files)
  /\ before = "" /\ after = "" /\ flag = TRUE
  /\ addDiff = {} /\ deleteDiff = {}
  /\ built = Globals \cup UNION {Build(i) : i \in input.insts}
  /\ marked = {} /\ left = {} /\ stmts = {} /\ changedEdges = {}
  /\ csPc = "handle"

(* handle, one line. *)
Line == Head(rest)
Command ==
  /\ before' = Line.before /\ after' = Line.after
  /\ flag' = Line.source
  /\ UNCHANGED <<addDiff, deleteDiff>>

(* parse looks for the letters a, d, c in this order. The line that says that
   there is no newline has an a, too, and no number after it. *)
AddedLines(r) == addDiff' = addDiff \cup {<<after, r.lo, r.hi>>}
DeletedLines(r) == deleteDiff' = deleteDiff \cup {<<before, r.lo, r.hi>>}
NoNumber == [lo |-> 0, hi |-> 0]
parse_AddOnly(line) ==
  \/ line.tag = "hunk" /\ line.op \in {"a", "c"} /\ AddedLines(line.ins) /\ UNCHANGED deleteDiff
  \/ line.tag = "hunk" /\ line.op = "d" /\ DeletedLines(line.del) /\ UNCHANGED addDiff
  \/ line.tag = "note" /\ AddedLines(NoNumber) /\ UNCHANGED deleteDiff
parse(line) ==
  \/ line.tag = "hunk" /\ line.op = "a" /\ AddedLines(line.ins) /\ UNCHANGED deleteDiff
  \/ line.tag = "hunk" /\ line.op = "d" /\ DeletedLines(line.del) /\ UNCHANGED addDiff
  \/ line.tag = "hunk" /\ line.op = "c" /\ AddedLines(line.ins) /\ DeletedLines(line.del)
  \/ line.tag = "note" /\ AddedLines(NoNumber) /\ UNCHANGED deleteDiff

HandleLine ==
  /\ csPc = "handle" /\ rest # <<>>
  /\ rest' = Tail(rest)
  /\ CASE Line.tag = "command" -> Command
       [] Line.tag \in {"hunk", "note"} /\ flag ->
            parse(Line) /\ UNCHANGED <<before, after, flag>>
       [] OTHER -> UNCHANGED <<before, after, flag, addDiff, deleteDiff>>
  /\ UNCHANGED <<input, built, marked, left, stmts, changedEdges, csPc>>

(* IRDiffHandler::parse: only one of the maps is read. Instructions without a
   location have line none. *)
sourceInfos == IF input.isNew THEN addDiff ELSE deleteDiff
InRange(i) ==
  i.located /\ \E r \in sourceInfos : i.file = r[1] /\ r[2] <= i.line /\ i.line <= r[3]
ParseModules ==
  /\ csPc = "handle" /\ rest = <<>>
  /\ marked' = {i \in input.insts : InRange(i)}
  /\ left' = marked'
  /\ csPc' = "get"
  /\ UNCHANGED <<input, rest, before, after, flag, addDiff, deleteDiff, built, stmts, changedEdges>>

(* The getter looks the statements of an instruction up under the identity
   the builder used. *)
Find(i) == {Key(s) : s \in VisitOf(i)} \cap {Key(s) : s \in built}
VisitInst ==
  /\ csPc = "get"
  /\ \E i \in left :
       /\ left' = left \ {i}
       /\ stmts' = stmts \cup Find(i)
  /\ UNCHANGED <<input, rest, before, after, flag, addDiff, deleteDiff, built, marked, changedEdges, csPc>>

(* getDiffSDK. Edges are of flat nodes: labels are gone, copies of all sorts
   are copies. Only statements between pointers count. *)
EdgeKind(kind) == IF kind \in {"Phi", "Select", "Call", "Ret"} THEN "Copy" ELSE kind
EdgeOf(s) == [kind |-> EdgeKind(s.kind), src |-> s.src, dst |-> s.dst]
isPTAEdge(s) == {s.src, s.dst} \cap input.scalars = {}
EdgesFor(S) == {EdgeOf(s) : s \in {t \in S : isPTAEdge(t)}}
getDiffSDK ==
  /\ csPc = "get" /\ left = {}
  /\ changedEdges' = EdgesFor({s \in built : Key(s) \in stmts})
  /\ csPc' = "done"
  /\ UNCHANGED <<input, rest, before, after, flag, addDiff, deleteDiff, built, marked, left, stmts>>

ChangeStep == HandleLine \/ ParseModules \/ VisitInst \/ getDiffSDK
ChangeNext == ChangeStep
ChangeSpec == ChangeInit /\ [][ChangeNext]_changeVars /\ WF_changeVars(ChangeStep)
-----------------------------------------------------------------------------
(* The lines a version has changed, and what the note adds to them. *)
ChangedIn(f, n) ==
  f.source /\ ~ f.binary /\ \E h \in DOMAIN f.hunks :
    LET r == IF input.isNew THEN f.hunks[h].ins ELSE f.hunks[h].del
    IN  ~ Empty(r) /\ r.lo <= n /\ n <= r.hi
Noted(f) == f.source /\ ~ f.binary /\ input.isNew /\ \E h \in DOMAIN f.hunks : f.hunks[h].note

(* The instructions of exactly the changed lines are marked, with one
   exception: code without a line of its own is marked as inserted when a
   version of its file has no newline at its end. *)
MarkedExact ==
  csPc # "handle" =>
    \A i \in input.insts : i \in marked <=>
      /\ i.located
      /\ \E f \in DOMAIN input.files :
           /\ input.files[f].name = i.file
           /\ ChangedIn(input.files[f], i.line) \/ (i.line = 0 /\ Noted(input.files[f]))

(* All that changed instructions do to pointers is retracted or inserted,
   except what their constant operands and external callees stand for. *)
AllChanged ==
  csPc = "done" => \A i \in marked : EdgesFor(VisitOf(i)) \subseteq changedEdges

(* What is retracted belongs to a marked instruction, or to the returns of a
   function in which one is marked. *)
OnlyChanged ==
  csPc = "done" => \A e \in changedEdges : \E i \in marked :
    \/ e \in EdgesFor(VisitOf(i))
    \/ \E j \in input.insts : i.kind = "Return" /\ j.kind = "Return" /\ i.res = j.res
                              /\ e \in EdgesFor(VisitOf(j))

(* Edges of unmarked instructions stay, unless a marked one has the same edge
   or they return from the same function. *)
UnchangedKept ==
  csPc = "done" => \A j \in input.insts \ marked :
    \A e \in EdgesFor(Build(j)) \cap changedEdges : \E i \in marked :
      e \in EdgesFor(VisitOf(i)) \/ (i.kind = "Return" /\ j.kind = "Return" /\ i.res = j.res)

(* The changed lines, and nothing else, become the changed statements. *)
ChangesCorrect == MarkedExact /\ AllChanged /\ OnlyChanged /\ UnchangedKept
=============================================================================
