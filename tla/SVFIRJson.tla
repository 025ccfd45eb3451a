------------------------------ MODULE SVFIRJson ------------------------------
(***************************************************************************)
(* SVFIRWriter and SVFIRReader (SVFIR/SVFFileSystem): the intermediate      *)
(* representation as a JSON document and back. Objects without an id of     *)
(* their own are numbered by a pool, in the order they are first mentioned; *)
(* the reader creates all objects from the head of their record and fills   *)
(* them from the rest in a second pass, relying on the order of the fields. *)
(*                                                                          *)
(* A field holds a sequence of atoms [k, v, n, in]: a pointer ("ref" to the *)
(* object v, or "null" of pool v), a number of 64 bits ("num"), the kind of *)
(* the object ("kind"), an object written in place ("inline", its fields in *)
(* `in`), and whatever nothing depends on ("data"). Containers are          *)
(* flattened, a pair is an object of two fields; parsing, printing and the  *)
(* checks of an item's JSON type are left out.                              *)
(***************************************************************************)
EXTENDS SVFIRJsonFormat, Integers, FiniteSets, SequencesExt

CONSTANTS
  Programs,    \* the representations to write: see JsonAssumption
  Word         \* 2^64: the number of values of a 64-bit integer

VARIABLES
  prog,      \* the program that is written
  readable,  \* the option human-readable
  pools,     \* WriterPtrPool: per pool the objects numbered so far
  visited,   \* ENSURE_NOT_VISITED: the objects written in place
  doc,       \* the document: per array or object what is written, or left to read
  heap,      \* what the reader created, by pool and number
  pc

vars == <<prog, readable, pools, visited, doc, heap, pc>>
-----------------------------------------------------------------------------
(* Pools, numbers and atoms *)

\* The pool or the graph whose numbers stand for the objects of a class.
PoolOfClass ==
  LET top == [SVFType |-> "type", StInfo |-> "stInfo", SVFValue |-> "value", MemObj |-> "memObj",
        ICFGNode |-> "icfgNode", ICFGEdge |-> "icfgEdge", SVFLoop |-> "loop", CHNode |-> "chNode",
        CHEdge |-> "chEdge", SVFVar |-> "var", SVFStmt |-> "stmt"]
      pool[c \in Class \ {"GenericNode", "GenericEdge"}] ==
        IF c \in DOMAIN top THEN top[c] ELSE pool[Base[c]]
  IN pool

\* WriterPtrPool: objects that have no id of their own.
Pooled == {"type", "stInfo", "value", "loop", "icfgEdge", "chEdge", "stmt"}
NoPool == [p \in Pooled |-> <<>>]
Edges == {"icfgEdge", "chEdge", "stmt"}

PoolOf(o) == PoolOfClass[Written[prog.objs[o].kind]]
Field(o, field) == prog.objs[o].f[field]
Named(fields, name) == fields[CHOOSE i \in DOMAIN fields : fields[i].name = name].value

\* The objects a value points to, in the order they are written.
Pointers(value) ==
  LET refs == SelectSeq(value, LAMBDA a : a.k = "ref") IN [i \in DOMAIN refs |-> refs[i].v]
Mentioned(value, field) ==
  IF field \notin DOMAIN WrittenInPlace THEN Pointers(value)
  ELSE FlattenSeq([i \in DOMAIN value |->
         FlattenSeq([j \in DOMAIN WrittenInPlace[field] |->
           Pointers(Named(value[i].in, WrittenInPlace[field][j]))])])
MentionedIn(f, fields) ==
  FlattenSeq([i \in DOMAIN fields |-> Mentioned(f[fields[i]], fields[i])])
WrittenOf(o) == WrittenFields[Written[prog.objs[o].kind]]
MentionedBy(objs) ==
  FlattenSeq([i \in DOMAIN objs |-> MentionedIn(prog.objs[objs[i]].f, WrittenOf(objs[i]))])

\* WriterPtrPool::getID: the next number for an object that has none yet.
getID(ps, objs) ==
  [p \in Pooled |-> FoldLeft(LAMBDA q, o : IF PoolOf(o) = p /\ ~Contains(q, o) THEN Append(q, o) ELSE q,
                             ps[p], objs)]

Atom(k, v, n) == [k |-> k, v |-> v, n |-> n, in |-> <<>>]
IdOf(ps, o) ==
  IF PoolOf(o) \in Pooled THEN CHOOSE i \in DOMAIN ps[PoolOf(o)] : ps[PoolOf(o)][i] = o
  ELSE Field(o, IF PoolOf(o) = "memObj" THEN "symId" ELSE "id")[1].n

\* toJson: a pointer becomes a number, a number of 64 bits an unsigned one.
toJson(ps, a) ==
  CASE a.k = "ref" -> Atom(PoolOf(a.v), "", IdOf(ps, a.v))
    [] a.k = "null" -> IF a.v = "var" THEN Atom("null", "", 0) ELSE Atom(a.v, "", 0)
    [] a.k = "num" -> Atom("num", "", a.n % Word)
    [] OTHER -> a
JsonOf(ps, value) == [i \in DOMAIN value |-> toJson(ps, value[i])]
WrittenValueOf(ps, field, value) ==
  IF field \notin DOMAIN WrittenInPlace THEN JsonOf(ps, value)
  ELSE [i \in DOMAIN value |-> [value[i] EXCEPT !.v = "", !.in =
         [j \in DOMAIN WrittenInPlace[field] |->
            [name |-> WrittenInPlace[field][j],
             value |-> JsonOf(ps, Named(value[i].in, WrittenInPlace[field][j]))]]]]
contentToJson(ps, f, fields) ==
  [i \in DOMAIN fields |->
     [name |-> fields[i], value |-> WrittenValueOf(ps, fields[i], f[fields[i]])]]

\* Null pointers that toJson follows, and objects written in place.
Dereferenced(objs) ==
  \E i \in DOMAIN objs : \E x \in DOMAIN prog.objs[objs[i]].f : \E j \in DOMAIN Field(objs[i], x) :
    LET a == Field(objs[i], x)[j] IN a.k = "null" /\ a.v \in {"icfgNode", "chNode", "memObj"}
InPlace(objs) ==
  FlattenSeq([i \in DOMAIN objs |-> FlattenSeq([j \in DOMAIN WrittenOf(objs[i]) |->
    LET x == WrittenOf(objs[i])[j]
    IN IF x \in {"typeInfo", "loopAndDom"}
       THEN [n \in DOMAIN Field(objs[i], x) |-> Field(objs[i], x)[n].v] ELSE <<>>])])
-----------------------------------------------------------------------------
(* The writer *)

Tables == {"module", "symTable", "icfg", "chgraph", "irGraph", "svfir", "allocator"}

Stop(how) == pc' = how /\ UNCHANGED <<prog, readable, pools, visited, doc, heap>>

\* The pools number types and structure infos as the symbol table lists them,
\* edges as the nodes of their graph have them as outgoing edges, and loops.
SVFIRWriter ==
  LET outEdges(nodes) == FlattenSeq([i \in DOMAIN nodes |-> Pointers(Field(nodes[i], "OutEdges"))])
  IN /\ pc = "start"
     /\ pools' = getID(NoPool, prog.types \o prog.stInfos \o outEdges(prog.icfgNodes)
                 \o SelectSeq(Pointers(prog.tables["icfg"]["icfgNodeToSVFLoopVec"]),
                              LAMBDA o : PoolOf(o) = "loop")
                 \o outEdges(prog.chNodes) \o outEdges(prog.vars))
     /\ pc' = "type"
     /\ UNCHANGED <<prog, readable, visited, doc, heap>>

\* Writes objects into an array. A loop over a pool that grows meanwhile
\* walks an array that has moved.
WriteArray(array, objs, next) ==
  LET grown == getID(pools, MentionedBy(objs))
      inner == InPlace(objs)
  IN /\ pc = array
     /\ IF Dereferenced(objs) \/ (array \in Pooled \ {"value"} /\ grown[array] # pools[array])
        THEN Stop("undefined")
        ELSE IF ToSet(inner) \cap visited # {} \/ ~IsInjective(inner)
        THEN Stop("abort")
        ELSE /\ pools' = grown
             /\ visited' = visited \cup ToSet(inner)
             /\ doc' = [doc EXCEPT ![array] = @ \o
                  [i \in DOMAIN objs |-> contentToJson(pools', prog.objs[objs[i]].f, WrittenOf(objs[i]))]]
             /\ pc' = next
             /\ UNCHANGED <<prog, readable, heap>>

WriteTable(table, fields, next) ==
  /\ pc = table
  /\ pools' = getID(pools, MentionedIn(prog.tables[table], fields))
  /\ doc' = [doc EXCEPT ![table] = <<contentToJson(pools', prog.tables[table], fields)>>]
  /\ pc' = next
  /\ UNCHANGED <<prog, readable, visited, heap>>

\* The module: types and infos, the module's fields, then every value the pool
\* has or gets while values are written.
WriteModule ==
  \/ WriteArray("type", pools["type"], "stInfo")
  \/ WriteArray("stInfo", pools["stInfo"], "module")
  \/ WriteTable("module", WrittenModule, "value")
  \/ LET i == Len(doc["value"]) + 1
     IN IF i <= Len(pools["value"])
        THEN WriteArray("value", <<pools["value"][i]>>, "value")
        ELSE pc = "value" /\ Stop("memObj")

WriteSymTable ==
  \/ WriteArray("memObj", prog.memObjs, "symTable")
  \/ WriteTable("symTable", WrittenSymTable, "loop")

WriteICFG ==
  \/ WriteArray("loop", pools["loop"], "icfgNode")
  \/ WriteArray("icfgNode", prog.icfgNodes, "icfgEdge")
  \/ WriteArray("icfgEdge", pools["icfgEdge"], "icfg")
  \/ WriteTable("icfg", WrittenICFGFields, "chNode")

WriteCHGraph ==
  \/ WriteArray("chNode", prog.chNodes, "chEdge")
  \/ WriteArray("chEdge", pools["chEdge"], "chgraph")
  \/ WriteTable("chgraph", WrittenCHGFields, "var")

WriteIRGraph ==
  \/ WriteArray("var", prog.vars, "stmt")
  \/ WriteArray("stmt", pools["stmt"], "irGraph")
  \/ WriteTable("irGraph", WrittenIRGraph, "svfir")

generateJson ==
  \/ SVFIRWriter \/ WriteModule \/ WriteSymTable \/ WriteICFG \/ WriteCHGraph \/ WriteIRGraph
  \/ WriteTable("svfir", WrittenSVFIR, "allocator")
  \/ WriteTable("allocator", WrittenAllocator, "createTypes")
-----------------------------------------------------------------------------
(* The reader *)

\* getPtr: the object of a number; 0 is the null pointer of a pool.
Found(a) ==
  CASE a.k \in Pooled -> a.n = 0 \/ <<a.k, a.n>> \in DOMAIN heap
    [] a.k \in {"var", "icfgNode", "chNode", "memObj"} -> <<a.k, a.n>> \in DOMAIN heap
    [] OTHER -> TRUE
AllFound(value) == \A i \in DOMAIN value : Found(value[i])

\* JSON_READ_FIELD_FWD: one item per name; names are looked at if there are any.
KeysMatch(rec, names) ==
  /\ Len(names) <= Len(rec)
  /\ readable => \A i \in DOMAIN names : rec[i].name = names[i]
Readable(field, value) ==
  IF field \notin DOMAIN ReadInPlace THEN AllFound(value)
  ELSE \A i \in DOMAIN value :
         /\ value[i].k = "inline"
         /\ KeysMatch(value[i].in, ReadInPlace[field])
         /\ Len(value[i].in) = Len(ReadInPlace[field])
         /\ \A j \in DOMAIN value[i].in : AllFound(value[i].in[j].value)

\* An ordered set compares flag, source and target, which its edges must have.
Comparable(value) ==
  \A i \in DOMAIN value : value[i].k \in Edges =>
    value[i].n # 0 /\ {"src", "dst"} \subseteq DOMAIN heap[<<value[i].k, value[i].n>>].f
Duplicated(value) ==
  LET key(a) == LET f == heap[<<a.k, a.n>>].f IN <<f["edgeFlag"], f["src"], f["dst"]>>
      edges == {i \in DOMAIN value : value[i].k \in Edges}
  IN \E i, j \in edges : i # j /\ key(value[i]) = key(value[j])

\* What becomes of reading the fields names from the head of a record.
Outcome(rec, names) ==
  IF ~KeysMatch(rec, names) \/ \E i \in DOMAIN names : ~Readable(names[i], rec[i].value)
  THEN "abort"
  ELSE LET sets == {i \in DOMAIN names : names[i] \in OrderedSets}
       IN IF \E i \in sets : ~Comparable(rec[i].value) THEN "undefined"
          ELSE IF \E i \in sets : Duplicated(rec[i].value) THEN "abort" ELSE "ok"

\* readBigNumber: strtoll ends at the largest signed number.
readNumber(field, a) ==
  IF a.k = "num" /\ field \in Signed /\ a.n >= Word \div 2 THEN [a EXCEPT !.n = Word \div 2 - 1]
  ELSE a
ReadValueOf(field, value) ==
  IF field \notin DOMAIN ReadInPlace THEN [i \in DOMAIN value |-> readNumber(field, value[i])]
  ELSE [i \in DOMAIN value |-> [value[i] EXCEPT !.in = [j \in DOMAIN @ |->
         LET x == ReadInPlace[field][j]
         IN [name |-> x, value |-> [n \in DOMAIN @[j].value |-> readNumber(x, @[j].value[n])]]]]]
ReadFields(rec, names) ==
  [x \in ToSet(names) |-> ReadValueOf(x, rec[CHOOSE i \in DOMAIN names : names[i] = x].value)]
Left(rec, names) == SubSeq(rec, Len(names) + 1, Len(rec))

\* The kind that createObjs passes to the creator, and the number of the object.
KindRead(pool, rec) ==
  CASE pool = "stInfo" -> "StInfo" [] pool = "memObj" -> "MemObj" [] pool = "loop" -> "SVFLoop"
    [] OTHER -> rec[CHOOSE i \in 1..2 : Created[pool][i] \in {"kind", "nodeKind", "edgeFlag"}].value[1].v
NumberRead(pool, i) == IF pool \in Pooled THEN i ELSE doc[pool][i][1].value[1].n
Mistyped(pool, rec) ==
  \/ KindRead(pool, rec) \notin DOMAIN Creator
  \/ pool = "type" /\ rec[2].value[1].n \notin SingleValued[KindRead(pool, rec)]

\* ReaderPtrPool and ReaderIDToObjMap: createObjs.
CreateObjs(at, pool, next) ==
  LET recs == doc[pool]
      names == Created[pool]
      outcomes == {Outcome(recs[i], names) : i \in DOMAIN recs}
      twice == \E i, j \in DOMAIN recs : i # j /\ NumberRead(pool, i) = NumberRead(pool, j)
  IN /\ pc = at
     /\ IF "undefined" \in outcomes THEN Stop("undefined")
        ELSE IF "abort" \in outcomes \/ (\E i \in DOMAIN recs : Mistyped(pool, recs[i])) \/ twice
        THEN Stop("abort")
        ELSE /\ heap' = heap @@ [a \in {<<pool, NumberRead(pool, i)>> : i \in DOMAIN recs} |->
                  LET rec == recs[CHOOSE i \in DOMAIN recs : NumberRead(pool, i) = a[2]]
                  IN [class |-> Creator[KindRead(pool, rec)], kind |-> KindRead(pool, rec),
                      f |-> ReadFields(rec, names), rest |-> Left(rec, names)]]
             /\ doc' = [doc EXCEPT ![pool] = <<>>]
             /\ pc' = next
             /\ UNCHANGED <<prog, readable, pools, visited>>

\* fillObjs: the rest of the record, all of it.
FillObjs(at, pool, next) ==
  LET objs == {a \in DOMAIN heap : a[1] = pool}
      names(a) == FilledFields[VirtFill[heap[a].kind]]
      outcomes == {Outcome(heap[a].rest, names(a)) : a \in objs}
  IN /\ pc = at
     /\ IF "undefined" \in outcomes THEN Stop("undefined")
        ELSE IF "abort" \in outcomes \/ \E a \in objs : Left(heap[a].rest, names(a)) # <<>>
        THEN Stop("abort")
        ELSE /\ heap' = [a \in objs |-> [heap[a] EXCEPT !.rest = <<>>,
                                           !.f = ReadFields(heap[a].rest, names(a)) @@ @]] @@ heap
             /\ pc' = next
             /\ UNCHANGED <<prog, readable, pools, visited, doc>>

\* readJson of a graph or table; two of them accept no further field, and the
\* map of values to edges must have an entry without edges for no value.
ReadTable(at, table, names, next) ==
  LET rec == doc[table][1]
      f == ReadFields(rec, names)
      nullEntry(a) ==
        Named(a.in, "key")[1] = Atom("value", "", 0) /\ Named(a.in, "edges") = <<>>
  IN /\ pc = at
     /\ IF Outcome(rec, names) # "ok" THEN Stop(Outcome(rec, names))
        ELSE IF \/ table \in {"symTable", "allocator"} /\ Left(rec, names) # <<>>
                \/ table = "irGraph" /\ \A i \in DOMAIN f["valueToEdgeMap"] : ~nullEntry(f["valueToEdgeMap"][i])
        THEN Stop("abort")
        ELSE /\ heap' = heap @@ (<<table, 0>> :> [class |-> table, kind |-> table, f |-> f, rest |-> <<>>])
             /\ doc' = [doc EXCEPT ![table] = <<>>]
             /\ pc' = next
             /\ UNCHANGED <<prog, readable, pools, visited>>

\* createObjs: types before the infos that point to them, and both before they
\* are filled; all objects of the graphs before any of them is filled.
createObjs ==
  \/ CreateObjs("createTypes", "type", "createStInfos")
  \/ CreateObjs("createStInfos", "stInfo", "fillTypes")
  \/ FillObjs("fillTypes", "type", "createValues")
  \/ CreateObjs("createValues", "value", "fillValues")
  \/ FillObjs("fillValues", "value", "createMemObjs")
  \/ CreateObjs("createMemObjs", "memObj", "createICFGNodes")
  \/ CreateObjs("createICFGNodes", "icfgNode", "createICFGEdges")
  \/ CreateObjs("createICFGEdges", "icfgEdge", "createLoops")
  \/ CreateObjs("createLoops", "loop", "createCHNodes")
  \/ CreateObjs("createCHNodes", "chNode", "createCHEdges")
  \/ CreateObjs("createCHEdges", "chEdge", "createVars")
  \/ CreateObjs("createVars", "var", "createStmts")
  \/ CreateObjs("createStmts", "stmt", "fillICFGEdges")

\* Nodes before edges, as the comment at SVFFileSystem.h:893 has it.
fillObjs_NodesFirst ==
  \/ FillObjs("fillICFGEdges", "icfgNode", "fillICFGNodes")
  \/ FillObjs("fillICFGNodes", "icfgEdge", "fillLoops")
  \/ FillObjs("fillLoops", "loop", "fillCHEdges")
  \/ FillObjs("fillCHEdges", "chNode", "fillCHNodes")
  \/ FillObjs("fillCHNodes", "chEdge", "fillStmts")
  \/ FillObjs("fillStmts", "var", "fillVars")
  \/ FillObjs("fillVars", "stmt", "readSymTable")

\* Edges before nodes: the ordered sets of a node compare filled edges.
fillObjs ==
  \/ FillObjs("fillICFGEdges", "icfgEdge", "fillICFGNodes")
  \/ FillObjs("fillICFGNodes", "icfgNode", "fillLoops")
  \/ FillObjs("fillLoops", "loop", "fillCHEdges")
  \/ FillObjs("fillCHEdges", "chEdge", "fillCHNodes")
  \/ FillObjs("fillCHNodes", "chNode", "fillStmts")
  \/ FillObjs("fillStmts", "stmt", "fillVars")
  \/ FillObjs("fillVars", "var", "readSymTable")

read ==
  \/ createObjs \/ fillObjs
  \/ ReadTable("readSymTable", "symTable", ReadSymTable, "readIRGraph")
  \/ ReadTable("readIRGraph", "irGraph", ReadIRGraph, "readICFG")
  \/ ReadTable("readICFG", "icfg", ReadICFG, "readCHG")
  \/ ReadTable("readCHG", "chgraph", ReadCHG, "readModule")
  \/ ReadTable("readModule", "module", ReadModule, "readSVFIR")
  \/ ReadTable("readSVFIR", "svfir", ReadSVFIR, "readAllocator")
  \/ ReadTable("readAllocator", "allocator", ReadAllocator, "done")
-----------------------------------------------------------------------------
Init ==
  /\ prog \in Programs /\ readable \in BOOLEAN
  /\ pools = NoPool /\ visited = {}
  /\ doc = [x \in (Pooled \cup {"memObj", "icfgNode", "chNode", "var"} \cup Tables) |-> <<>>]
  /\ heap = <<>> /\ pc = "start"

Next == generateJson \/ read

Spec == Init /\ [][Next]_vars /\ WF_vars(Next)
-----------------------------------------------------------------------------
(* Properties *)

AddressOf(o) == <<PoolOf(o), IdOf(pools, o)>>

\* Whether a value read is the value written: pointers lead to the objects that
\* stand for the objects written. A negative number is not kept.
SamePlain(value, got) ==
  /\ Len(value) = Len(got)
  /\ \A i \in DOMAIN value :
       CASE value[i].k = "ref" -> <<got[i].k, got[i].n>> = AddressOf(value[i].v)
         [] value[i].k = "null" -> got[i].k = "null" \/ (got[i].k = value[i].v /\ got[i].n = 0)
         [] value[i].k = "num" -> value[i].n >= 0 => got[i].n = value[i].n
         [] OTHER -> got[i] = value[i]
Same(value, got) ==
  /\ Len(value) = Len(got)
  /\ \A i \in DOMAIN value :
       IF value[i].k # "inline" THEN SamePlain(<<value[i]>>, <<got[i]>>)
       ELSE \A j \in DOMAIN value[i].in :
              SamePlain(value[i].in[j].value, Named(got[i].in, value[i].in[j].name))

\* All objects that the document has a record of.
Recorded ==
  UNION {ToSet(pools[p]) : p \in Pooled}
  \cup ToSet(prog.memObjs) \cup ToSet(prog.icfgNodes) \cup ToSet(prog.chNodes) \cup ToSet(prog.vars)

\* What is read is what was written, object by object and table by table: as
\* many objects, each of the class and with the fields of the one it stands for.
Kept ==
  pc = "done" =>
    /\ DOMAIN heap = {AddressOf(o) : o \in Recorded} \cup (Tables \X {0})
    /\ \A o, p \in Recorded : AddressOf(o) = AddressOf(p) => o = p
    /\ \A o \in Recorded :
         LET cell == heap[AddressOf(o)]
         IN /\ cell.kind = prog.objs[o].kind
            /\ DOMAIN cell.f = DOMAIN prog.objs[o].f
            /\ \A x \in DOMAIN cell.f : Same(Field(o, x), cell.f[x])
    /\ \A t \in Tables :
         /\ DOMAIN heap[<<t, 0>>].f = DOMAIN prog.tables[t]
         /\ \A x \in DOMAIN prog.tables[t] : Same(prog.tables[t][x], heap[<<t, 0>>].f[x])

(* What a program must be for its document to be readable. *)
Values(f) == UNION {ToSet(Mentioned(f[x], x)) : x \in DOMAIN f}
InModule ==
  LET valuesOf(f) == {o \in Values(f) : PoolOf(o) = "value"}
      reach[n \in 0..Cardinality(DOMAIN prog.objs)] ==
        IF n = 0 THEN valuesOf(prog.tables["module"])
        ELSE LET r == reach[n - 1] IN r \cup UNION {valuesOf(prog.objs[o].f) : o \in r}
  IN reach[Cardinality(DOMAIN prog.objs)]
Outgoing(nodes) == UNION {ToSet(Pointers(Field(nodes[i], "OutEdges"))) : i \in DOMAIN nodes}

\* Types and infos are in the symbol table, values can be reached from the
\* module, edges leave a node of their graph, nodes and objects are in theirs;
\* no pointer to a node is null; what is written in place has one owner.
Closed ==
  LET known == ToSet(prog.types) \cup ToSet(prog.stInfos) \cup InModule \cup ToSet(prog.memObjs)
        \cup ToSet(prog.icfgNodes) \cup Outgoing(prog.icfgNodes) \cup ToSet(prog.chNodes)
        \cup Outgoing(prog.chNodes) \cup ToSet(prog.vars) \cup Outgoing(prog.vars)
        \cup {o \in ToSet(Pointers(prog.tables["icfg"]["icfgNodeToSVFLoopVec"])) : PoolOf(o) = "loop"}
      mentioned == UNION ({Values(prog.objs[o].f) : o \in known} \cup {Values(prog.tables[t]) : t \in Tables})
      owned == {<<o, x>> : o \in known, x \in {"typeInfo", "loopAndDom"}}
      owns(ox, a) == ox[2] \in DOMAIN prog.objs[ox[1]].f /\ a \in ToSet(Field(ox[1], ox[2]))
  IN /\ mentioned \subseteq known
     /\ \A o \in known : ~Dereferenced(<<o>>)
     /\ \A ox, py \in owned : ox # py =>
          ~\E a \in (IF ox[2] \in DOMAIN prog.objs[ox[1]].f THEN ToSet(Field(ox[1], ox[2])) ELSE {}) : owns(py, a)
     /\ \E i \in DOMAIN prog.tables["irGraph"]["valueToEdgeMap"] :
          LET entry == prog.tables["irGraph"]["valueToEdgeMap"][i].in
          IN Named(entry, "key")[1].k = "null" /\ Named(entry, "edges") = <<>>

\* The document of a closed program is written to the end and read to the end.
NeverRefused == pc \in {"abort", "undefined"} => ~Closed

\* Reading back gives the program written, whether names are written or not;
\* no program whose tables are complete is refused (SVFFileSystem.cpp:1015, 1349).
JsonCorrect == Kept /\ NeverRefused

\* Programs are records of objects, in the order their containers have them.
JsonAssumption ==
  /\ Word \in Nat /\ Word % 2 = 0 /\ Word > 0
  /\ \A p \in Programs :
       /\ DOMAIN p = {"objs", "types", "stInfos", "memObjs", "icfgNodes", "chNodes", "vars", "tables"}
       /\ \A o \in DOMAIN p.objs : p.objs[o].kind \in Kind
=============================================================================
