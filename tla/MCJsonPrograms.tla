--------------------------- MODULE MCJsonPrograms ---------------------------
(***************************************************************************)
(* Programs to write as JSON, for TLC: one object of every kind, most of    *)
(* them plain, and a closed program made to lose one property or another.   *)
(***************************************************************************)
EXTENDS SVFIRJsonFormat, Integers, FiniteSets, SequencesExt

Ref(o) == [k |-> "ref", v |-> o, n |-> 0, in |-> <<>>]
Refs(os) == [i \in DOMAIN os |-> Ref(os[i])]
Null(pool) == <<[k |-> "null", v |-> pool, n |-> 0, in |-> <<>>]>>
Num(n) == <<[k |-> "num", v |-> "", n |-> n, in |-> <<>>]>>
Data(x) == <<[k |-> "data", v |-> x, n |-> 0, in |-> <<>>]>>
KindOf(kind) == <<[k |-> "kind", v |-> kind, n |-> 0, in |-> <<>>]>>
Inline(name, fields) == [k |-> "inline", v |-> name, n |-> 0, in |-> fields]
In(x, value) == [name |-> x, value |-> value]
Record(names, f) == [x \in ToSet(names) |-> IF x \in DOMAIN f THEN f[x] ELSE Data(x)]
JsonObject(kind, f) == [kind |-> kind, f |-> Record(WrittenFields[Written[kind]], f @@
  [kind |-> KindOf(kind), nodeKind |-> KindOf(kind), edgeFlag |-> KindOf(kind)])]

None0 == [x \in {} |-> <<>>]

AccessPath(i) == <<Inline("ap", <<In("fldIdx", Num(i)),
  In("offsetVarAndGepTypePairs", Refs(<<"ValNode", "SVFArrayTy">>))>>)>>
ObjTypeInfo(name) == <<Inline(name, <<In("type", Refs(<<"SVFStructTy">>)), In("flags", Data("flags")),
  In("maxOffsetLimit", Data("limit")), In("elemNum", Data("elem"))>>)>>
LoopAndDom == <<Inline("dom", <<In("reachableBBs", Refs(<<"SVFBB">>)), In("dtBBsMap", Data("dt")),
  In("pdtBBsMap", Data("pdt")), In("dfBBsMap", Data("df")),
  In("bb2LoopMap", Refs(<<"SVFBB", "SVFBB">>))>>)>>
Entry(key, stmts) == Inline("", <<In("key", key), In("edges", Refs(stmts))>>)

(* The types; t.strayType: a function type returns a type of no table. *)
TypeFields(t) == [
  SVFPointerTy  |-> [ptrElementType |-> Refs(<<"SVFIntegerTy">>)],
  SVFIntegerTy  |-> [getPointerToTy |-> Refs(<<"SVFPointerTy">>)],
  SVFFunctionTy |-> [retTy |-> Refs(<<IF t.strayType THEN "Stray" ELSE "SVFPointerTy">>)],
  SVFStructTy   |-> None0,
  SVFArrayTy    |-> [typeOfElement |-> Refs(<<"SVFStructTy">>)],
  SVFOtherTy    |-> None0]
TypeNames == <<"SVFStructTy", "SVFArrayTy", "SVFPointerTy", "SVFOtherTy", "SVFIntegerTy", "SVFFunctionTy">>
TypeObject(kind, f) == JsonObject(kind, f @@ [getPointerToTy |-> Null("type"), typeinfo |-> Refs(<<"StInfo">>),
  isSingleValTy |-> Num(IF kind \in {"SVFPointerTy", "SVFIntegerTy"} THEN 1 ELSE 0)])

(* The values; t.number: a constant; t.strayValue: one that only the symbol
   table knows. *)
ValueFields(t) == [
  SVFFunc  |-> [funcType |-> Refs(<<"SVFFunctionTy">>), realDefFun |-> Null("value"),
                loopAndDom |-> LoopAndDom, allBBs |-> Refs(<<"SVFBB">>), allArgs |-> Refs(<<"SVFArg">>)],
  SVFBB    |-> [allInsts |-> Refs(<<"SVFInst", "SVFCall", "SVFVCall">>), succBBs |-> Refs(<<"SVFBB">>),
                fun |-> Refs(<<"SVFFunc">>)],
  SVFInst  |-> [bb |-> Refs(<<"SVFBB">>), succInsts |-> Refs(<<"SVFCall">>)],
  SVFCall  |-> [bb |-> Refs(<<"SVFBB">>), args |-> Refs(<<"SVFConstInt", "SVFMetaAsValue">>),
                calledVal |-> Refs(<<"SVFFunc">>), predInsts |-> Refs(<<"SVFInst">>)],
  SVFVCall |-> [bb |-> Refs(<<"SVFBB">>), args |-> Refs(<<"SVFArg", "SVFOther">>),
                vCallVtblPtr |-> Refs(<<"SVFInst">>)],
  SVFGlob  |-> [realDefGlobal |-> Null("value")],
  SVFArg   |-> [fun |-> Refs(<<"SVFFunc">>)],
  SVFConst |-> None0, SVFConstData |-> None0,
  SVFConstInt |-> [zval |-> Num(13), sval |-> Num(t.number)],
  SVFConstFP |-> None0, SVFNullPtr |-> None0, SVFBlackHole |-> None0,
  SVFMetaAsValue |-> None0, SVFOther |-> None0]

(* The statements all lead from one variable to another; t.strayStmt: the last
   is no edge of the graph. *)
StmtNames == <<"Addr", "Copy", "Store", "Load", "Call", "Ret", "Gep", "Phi", "Select", "Cmp",
  "BinaryOp", "UnaryOp", "ThreadFork", "ThreadJoin", "Branch">>
GraphStmts(t) == SubSeq(StmtNames, 1, IF t.strayStmt THEN 14 ELSE 15)
StmtFields(s) ==
  CASE s = "Gep" -> [ap |-> AccessPath(3)]
    [] s \in {"Call", "ThreadFork"} ->
         [call |-> Refs(<<"FunCallBlock">>), entry |-> Refs(<<"FunEntryBlock">>)]
    [] s \in {"Ret", "ThreadJoin"} ->
         [call |-> Refs(<<"FunCallBlock">>), exit |-> Refs(<<"FunExitBlock">>)]
    [] s = "Phi" -> [opVars |-> Refs(<<"ValNode", "RetNode">>), opICFGNodes |-> Refs(<<"IntraBlock">>)]
    [] s = "Branch" -> [cond |-> Refs(<<"ValNode">>), brInst |-> Null("var")]
    [] OTHER -> None0
StmtObject(s) == JsonObject(s, StmtFields(s) @@ [value |-> Refs(<<"SVFInst">>),
  basicBlock |-> Refs(<<"SVFBB">>), icfgNode |-> Refs(<<"IntraBlock">>),
  src |-> Refs(<<"ValNode">>), dst |-> Refs(<<"RetNode">>)])

VarNames == <<"RetNode", "ObjNode", "ValNode", "VarargNode", "GepValNode", "GepObjNode", "FIObjNode",
  "DummyValNode", "DummyObjNode">>
VarFields(v, t) ==
  CASE v = "ValNode" -> [OutEdges |-> Refs(GraphStmts(t)), OutEdgeKindToSetMap |-> Refs(<<"Copy", "Addr">>)]
    [] v = "RetNode" -> [InEdges |-> Refs(GraphStmts(t)), InEdgeKindToSetMap |-> Refs(<<"Load">>)]
    [] v = "GepValNode" -> [ap |-> AccessPath(2), gepValType |-> Refs(<<"SVFPointerTy">>)]
    [] v = "GepObjNode" -> [apOffset |-> Num(7), mem |-> Refs(<<"MemObj">>)]
    [] v \in {"ObjNode", "FIObjNode", "DummyObjNode"} -> [mem |-> Refs(<<"MemObj">>)]
    [] OTHER -> None0

(* Two blocks of each function and the call between them. *)
ICFGNames == <<"GlobalBlock", "FunEntryBlock", "FunExitBlock", "FunCallBlock", "FunRetBlock", "IntraBlock">>
ICFGFields(n, t) ==
  CASE n = "FunCallBlock" -> [cs |-> Refs(<<"SVFCall">>), ret |-> Refs(<<"FunRetBlock">>),
         APNodes |-> Refs(<<"ValNode">>), OutEdges |-> Refs(<<"CallCF">>), InEdges |-> Refs(<<"IntraCF">>)]
    [] n = "FunRetBlock" -> [cs |-> Refs(<<"SVFCall">>), actualRet |-> Null("var"), InEdges |-> Refs(<<"RetCF">>),
         callBlockNode |-> IF t.nullNode THEN Null("icfgNode") ELSE Refs(<<"FunCallBlock">>)]
    [] n = "FunEntryBlock" -> [InEdges |-> Refs(<<"CallCF">>), FPNodes |-> Refs(<<"RetNode">>)]
    [] n = "FunExitBlock" -> [OutEdges |-> Refs(<<"RetCF">>), formalRet |-> Refs(<<"RetNode">>)]
    [] n = "IntraBlock" -> [OutEdges |-> Refs(<<"IntraCF">>), inst |-> Refs(<<"SVFInst">>),
         pagEdges |-> Refs(<<"Load", "Addr">>)]
    [] OTHER -> None0
ICFGEdges == [
  IntraCF |-> [src |-> Refs(<<"IntraBlock">>), dst |-> Refs(<<"FunCallBlock">>), conditionVar |-> Null("value")],
  CallCF  |-> [src |-> Refs(<<"FunCallBlock">>), dst |-> Refs(<<"FunEntryBlock">>), callPEs |-> Refs(<<"Call">>)],
  RetCF   |-> [src |-> Refs(<<"FunExitBlock">>), dst |-> Refs(<<"FunRetBlock">>), retPE |-> Null("stmt")]]

Numbered(names, f(_), other) ==
  [o \in ToSet(names) |-> JsonObject(o, f(o) @@ [id |-> Num(CHOOSE i \in DOMAIN names : names[i] = o),
     InEdges |-> <<>>, OutEdges |-> <<>>] @@ other)]

Objects(t) ==
  [o \in DOMAIN TypeFields(t) |-> TypeObject(o, TypeFields(t)[o])]
  @@ ("Stray" :> TypeObject("SVFOtherTy", None0))
  @@ ("StInfo" :> JsonObject("StInfo", [flattenElementTypes |-> Refs(<<"SVFIntegerTy", "SVFPointerTy">>)]))
  @@ [o \in DOMAIN ValueFields(t) |-> JsonObject(o, ValueFields(t)[o] @@ [type |-> Refs(<<"SVFOtherTy">>)])]
  @@ ("Second" :> JsonObject("SVFFunc", [type |-> Refs(<<"SVFOtherTy">>), loopAndDom |-> <<>>,
                     realDefFun |-> Refs(<<"SVFFunc">>)]))
  @@ ("MemObj" :> JsonObject("MemObj", [symId |-> Num(4), typeInfo |-> ObjTypeInfo("info"),
                     refVal |-> Refs(<<"SVFGlob">>)]))
  @@ ("MemObj2" :> JsonObject("MemObj", [symId |-> Num(9), refVal |-> Null("value"),
                     typeInfo |-> ObjTypeInfo(IF t.sharedInfo THEN "info" ELSE "info2")]))
  @@ [o \in ToSet(StmtNames) |-> StmtObject(o)]
  @@ Numbered(VarNames, LAMBDA v : VarFields(v, t), [value |-> Refs(<<"SVFArg">>)])
  @@ Numbered(ICFGNames, LAMBDA n : ICFGFields(n, t), [fun |-> Refs(<<"SVFFunc">>), bb |-> Refs(<<"SVFBB">>)])
  @@ [o \in DOMAIN ICFGEdges |-> JsonObject(o, ICFGEdges[o])]
  @@ ("SVFLoop" :> JsonObject("SVFLoop", [backICFGEdges |-> Refs(<<"RetCF", "IntraCF">>),
                     icfgNodes |-> Refs(<<"FunCallBlock">>)]))
  @@ ("Sub" :> JsonObject("CHNode", [id |-> Num(1), InEdges |-> <<>>, OutEdges |-> Refs(<<"CHEdge">>)]))
  @@ ("CHNode" :> JsonObject("CHNode", [id |-> Num(2), InEdges |-> Refs(<<"CHEdge">>), OutEdges |-> <<>>,
                     virtualFunctionVectors |-> Refs(<<"SVFFunc">>)]))
  @@ ("CHEdge" :> JsonObject("CHEdge", [src |-> Refs(<<"Sub">>), dst |-> Refs(<<"CHNode">>)]))

JsonProgram(t) == [
  objs |-> Objects(t), types |-> TypeNames, stInfos |-> <<"StInfo">>, memObjs |-> <<"MemObj2", "MemObj">>,
  icfgNodes |-> ICFGNames, chNodes |-> <<"Sub", "CHNode">>, vars |-> VarNames,
  tables |-> [
    module |-> Record(WrittenModule, [
      FunctionSet |-> Refs(IF t.swapped THEN <<"Second", "SVFFunc">> ELSE <<"SVFFunc", "Second">>),
      GlobalSet |-> Refs(<<"SVFGlob">>), ConstantSet |-> Refs(<<"SVFConst", "SVFConstData", "SVFConstFP",
        "SVFNullPtr">> \o IF t.strayValue THEN <<>> ELSE <<"SVFBlackHole">>)]),
    symTable |-> Record(WrittenSymTable, [valSymMap |-> Refs(<<"SVFInst", "SVFBlackHole">>)]),
    icfg |-> Record(WrittenICFGFields, [globalBlockNode |-> Refs(<<"GlobalBlock">>),
      icfgNodeToSVFLoopVec |-> Refs(<<"FunCallBlock", "SVFLoop">>)]),
    chgraph |-> Record(WrittenCHGFields, [classNameToNodeMap |-> Refs(<<"CHNode", "Sub">>)]),
    irGraph |-> Record(WrittenIRGraph, [KindToSVFStmtSetMap |-> Refs(GraphStmts(t)), valueToEdgeMap |->
      <<Entry(Refs(<<"SVFInst">>), GraphStmts(t)), Entry(Null("value"), IF t.nullEdges THEN <<"Copy">> ELSE <<>>)>>]),
    svfir |-> Record(WrittenSVFIR, [globSVFStmtSet |-> Refs(<<"Addr", "Branch">>),
      funRetMap |-> Refs(<<"SVFFunc", "RetNode">>)]),
    allocator |-> Record(WrittenAllocator, None0)]]

(* At most one of the faults at a time, every order and number with each. *)
Faults == {"strayType", "strayValue", "strayStmt", "sharedInfo", "nullNode", "nullEdges"}
JsonPrograms == {JsonProgram([x \in Faults |-> x = fault] @@ [swapped |-> b, number |-> n]) :
  fault \in Faults \cup {""}, b \in BOOLEAN, n \in {-3, 5}}
=============================================================================
