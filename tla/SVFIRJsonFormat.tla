--------------------------- MODULE SVFIRJsonFormat ---------------------------
(***************************************************************************)
(* The fields of SVFIR's JSON document (SVFIR/SVFFileSystem): for every     *)
(* class what the writer writes and what the reader reads to create and to  *)
(* fill an object. The two sides are separate code in the source and are    *)
(* separate tables here; nothing but their order ties them together.        *)
(***************************************************************************)
EXTENDS Sequences, TLC

(* The classes *)

\* The base class of a class; "" of a class at the top.
Base == [
  GenericNode |-> "", GenericEdge |-> "",
  SVFVar |-> "GenericNode", ValVar |-> "SVFVar", ObjVar |-> "SVFVar", GepValVar |-> "ValVar",
  GepObjVar |-> "ObjVar", FIObjVar |-> "ObjVar", RetPN |-> "ValVar", VarArgPN |-> "ValVar",
  DummyValVar |-> "ValVar", DummyObjVar |-> "ObjVar",
  SVFStmt |-> "GenericEdge", AssignStmt |-> "SVFStmt", AddrStmt |-> "AssignStmt",
  CopyStmt |-> "AssignStmt", StoreStmt |-> "AssignStmt", LoadStmt |-> "AssignStmt",
  GepStmt |-> "AssignStmt", CallPE |-> "AssignStmt", RetPE |-> "AssignStmt",
  TDForkPE |-> "CallPE", TDJoinPE |-> "RetPE", MultiOpndStmt |-> "SVFStmt",
  PhiStmt |-> "MultiOpndStmt", SelectStmt |-> "MultiOpndStmt", CmpStmt |-> "MultiOpndStmt",
  BinaryOPStmt |-> "MultiOpndStmt", UnaryOPStmt |-> "SVFStmt", BranchStmt |-> "SVFStmt",
  ICFGNode |-> "GenericNode", GlobalICFGNode |-> "ICFGNode", IntraICFGNode |-> "ICFGNode",
  InterICFGNode |-> "ICFGNode", FunEntryICFGNode |-> "InterICFGNode",
  FunExitICFGNode |-> "InterICFGNode", CallICFGNode |-> "InterICFGNode",
  RetICFGNode |-> "InterICFGNode",
  ICFGEdge |-> "GenericEdge", IntraCFGEdge |-> "ICFGEdge", CallCFGEdge |-> "ICFGEdge",
  RetCFGEdge |-> "ICFGEdge", SVFLoop |-> "",
  CHNode |-> "GenericNode", CHEdge |-> "GenericEdge", MemObj |-> "", StInfo |-> "",
  SVFType |-> "", SVFPointerType |-> "SVFType", SVFIntegerType |-> "SVFType",
  SVFFunctionType |-> "SVFType", SVFStructType |-> "SVFType", SVFArrayType |-> "SVFType",
  SVFOtherType |-> "SVFType",
  SVFValue |-> "", SVFFunction |-> "SVFValue", SVFBasicBlock |-> "SVFValue",
  SVFInstruction |-> "SVFValue", SVFCallInst |-> "SVFInstruction",
  SVFVirtualCallInst |-> "SVFCallInst", SVFConstant |-> "SVFValue",
  SVFGlobalValue |-> "SVFConstant", SVFArgument |-> "SVFValue",
  SVFConstantData |-> "SVFConstant", SVFConstantInt |-> "SVFConstantData",
  SVFConstantFP |-> "SVFConstantData", SVFConstantNullPtr |-> "SVFConstantData",
  SVFBlackHoleValue |-> "SVFConstantData", SVFOtherValue |-> "SVFValue",
  SVFMetadataAsValue |-> "SVFOtherValue"]
Class == DOMAIN Base

\* The fields of every class: those of its base, then those own names it has.
WithBases(own) ==
  LET all[c \in Class] ==
        LET mine == IF c \in DOMAIN own THEN own[c] ELSE <<>>
        IN IF Base[c] = "" THEN mine ELSE all[Base[c]] \o mine
  IN all
-----------------------------------------------------------------------------
(* What the writer writes: the virtual dispatch on the kind, and the fields a
   class adds to those of its base, in the order they are written. *)

\* virtToJson: the class whose contentToJson writes an object of a kind.
Written == [
  SVFPointerTy |-> "SVFPointerType", SVFIntegerTy |-> "SVFIntegerType",
  SVFFunctionTy |-> "SVFFunctionType", SVFStructTy |-> "SVFStructType",
  SVFArrayTy |-> "SVFArrayType", SVFOtherTy |-> "SVFOtherType",
  SVFFunc |-> "SVFFunction", SVFBB |-> "SVFBasicBlock", SVFInst |-> "SVFInstruction",
  SVFCall |-> "SVFCallInst", SVFVCall |-> "SVFVirtualCallInst", SVFGlob |-> "SVFGlobalValue",
  SVFArg |-> "SVFArgument", SVFConst |-> "SVFConstant", SVFConstData |-> "SVFConstantData",
  SVFConstInt |-> "SVFConstantInt", SVFConstFP |-> "SVFConstantFP",
  SVFNullPtr |-> "SVFConstantNullPtr", SVFBlackHole |-> "SVFBlackHoleValue",
  SVFMetaAsValue |-> "SVFMetadataAsValue", SVFOther |-> "SVFOtherValue",
  ValNode |-> "ValVar", ObjNode |-> "ObjVar", RetNode |-> "RetPN", VarargNode |-> "VarArgPN",
  GepValNode |-> "GepValVar", GepObjNode |-> "GepObjVar", FIObjNode |-> "FIObjVar",
  DummyValNode |-> "DummyValVar", DummyObjNode |-> "DummyObjVar",
  Addr |-> "AddrStmt", Copy |-> "CopyStmt", Store |-> "StoreStmt", Load |-> "LoadStmt",
  Call |-> "CallPE", Ret |-> "RetPE", Gep |-> "GepStmt", Phi |-> "PhiStmt",
  Select |-> "SelectStmt", Cmp |-> "CmpStmt", BinaryOp |-> "BinaryOPStmt",
  UnaryOp |-> "UnaryOPStmt", Branch |-> "BranchStmt", ThreadFork |-> "TDForkPE",
  ThreadJoin |-> "TDJoinPE",
  IntraBlock |-> "IntraICFGNode", FunEntryBlock |-> "FunEntryICFGNode",
  FunExitBlock |-> "FunExitICFGNode", FunCallBlock |-> "CallICFGNode",
  FunRetBlock |-> "RetICFGNode", GlobalBlock |-> "GlobalICFGNode",
  IntraCF |-> "IntraCFGEdge", CallCF |-> "CallCFGEdge", RetCF |-> "RetCFGEdge",
  CHNode |-> "CHNode", CHEdge |-> "CHEdge",
  StInfo |-> "StInfo", MemObj |-> "MemObj", SVFLoop |-> "SVFLoop"]
Kind == DOMAIN Written

WrittenVar == [
  SVFVar    |-> <<"value", "InEdgeKindToSetMap", "OutEdgeKindToSetMap", "isPtr">>,
  ObjVar    |-> <<"mem">>,
  GepValVar |-> <<"ap", "gepValType">>,
  GepObjVar |-> <<"apOffset", "base">>]

WrittenICFG == [
  ICFGNode         |-> <<"fun", "bb", "pagEdges">>,
  IntraICFGNode    |-> <<"inst">>,
  FunEntryICFGNode |-> <<"FPNodes">>,
  FunExitICFGNode  |-> <<"formalRet">>,
  CallICFGNode     |-> <<"cs", "ret", "APNodes">>,
  RetICFGNode      |-> <<"cs", "actualRet", "callBlockNode">>,
  IntraCFGEdge     |-> <<"conditionVar", "branchCondVal">>,
  CallCFGEdge      |-> <<"cs", "callPEs">>,
  RetCFGEdge       |-> <<"cs", "retPE">>]

WrittenCHG == [
  CHNode |-> <<"vtable", "className", "flags", "virtualFunctionVectors">>,
  CHEdge |-> <<"edgeType">>]

WrittenType == [
  SVFType         |-> <<"kind", "isSingleValTy", "getPointerToTy", "typeinfo">>,
  SVFPointerType  |-> <<"ptrElementType">>,
  SVFIntegerType  |-> <<"signAndWidth">>,
  SVFFunctionType |-> <<"retTy">>,
  SVFStructType   |-> <<"name">>,
  SVFArrayType    |-> <<"numOfElement", "typeOfElement">>,
  SVFOtherType    |-> <<"repr">>]

WrittenValue == [
  SVFValue           |-> <<"kind", "type", "name", "ptrInUncalledFun", "constDataOrAggData",
                           "sourceLoc">>,
  SVFFunction        |-> <<"isDecl", "intrinsic", "addrTaken", "isUncalled", "isNotRet", "varArg",
                           "funcType", "loopAndDom", "realDefFun", "allBBs", "allArgs",
                           "annotations">>,
  SVFBasicBlock      |-> <<"allInsts", "succBBs", "predBBs", "fun">>,
  SVFInstruction     |-> <<"bb", "terminator", "ret", "succInsts", "predInsts">>,
  SVFCallInst        |-> <<"args", "varArg", "calledVal">>,
  SVFVirtualCallInst |-> <<"vCallVtblPtr", "virtualFunIdx", "funNameOfVcall">>,
  SVFGlobalValue     |-> <<"realDefGlobal">>,
  SVFArgument        |-> <<"fun", "argNo", "uncalled">>,
  SVFConstantInt     |-> <<"zval", "sval">>,
  SVFConstantFP      |-> <<"dval">>]

WrittenStmt == [
  SVFStmt       |-> <<"value", "basicBlock", "icfgNode", "edgeId">>,
  SVFLoop       |-> <<"entryICFGEdges", "backICFGEdges", "inICFGEdges", "outICFGEdges",
                      "icfgNodes", "loopBound">>,
  GepStmt       |-> <<"ap", "variantField">>,
  CallPE        |-> <<"call", "entry">>,
  RetPE         |-> <<"call", "exit">>,
  MultiOpndStmt |-> <<"opVars">>,
  PhiStmt       |-> <<"opICFGNodes">>,
  SelectStmt    |-> <<"condition">>,
  CmpStmt       |-> <<"predicate">>,
  BinaryOPStmt  |-> <<"opcode">>,
  UnaryOPStmt   |-> <<"opcode">>,
  BranchStmt    |-> <<"successors", "cond", "brInst">>]

WrittenMemory == [
  MemObj |-> <<"symId", "typeInfo", "refVal">>,
  StInfo |-> <<"stride", "numOfFlattenElements", "numOfFlattenFields", "fldIdxVec", "elemIdxVec",
               "fldIdx2TypeMap", "finfo", "flattenElementTypes">>]

WrittenGeneric == [
  GenericNode |-> <<"id", "nodeKind", "InEdges", "OutEdges">>,
  GenericEdge |-> <<"edgeFlag", "src", "dst">>]

\* The objects that are written where they are mentioned, by the field.
WrittenInPlace == [
  typeInfo   |-> <<"type", "flags", "maxOffsetLimit", "elemNum">>,
  loopAndDom |-> <<"reachableBBs", "dtBBsMap", "pdtBBsMap", "dfBBsMap", "bb2LoopMap">>,
  ap         |-> <<"fldIdx", "offsetVarAndGepTypePairs">>,
  valueToEdgeMap |-> <<"key", "edges">>]

\* The fields of the graphs and tables, written after the objects in them.
WrittenModule == <<"pagReadFromTxt", "moduleIdentifier", "FunctionSet", "GlobalSet", "AliasSet",
  "ConstantSet", "OtherValueSet">>
WrittenSymTable == <<"valSymMap", "objSymMap", "returnSymMap", "varargSymMap", "modelConstants",
  "totalSymNum", "maxStruct", "maxStSize">>
WrittenICFGFields == <<"totalICFGNode", "FunToFunEntryNodeMap", "FunToFunExitNodeMap",
  "CSToCallNodeMap", "CSToRetNodeMap", "InstToBlockNodeMap", "globalBlockNode",
  "icfgNodeToSVFLoopVec">>
WrittenCHGFields == <<"classNum", "vfID", "classNameToNodeMap", "classNameToDescendantsMap",
  "classNameToAncestorsMap", "classNameToInstAndDescsMap", "templateNameToInstancesMap",
  "csToClassesMap", "virtualFunctionToIDMap", "csToCHAVtblsMap", "csToCHAVFnsMap">>
WrittenIRGraph == <<"KindToSVFStmtSetMap", "KindToPTASVFStmtSetMap", "fromFile",
  "nodeNumAfterPAGBuild", "totalPTAPAGEdge", "valueToEdgeMap">>
WrittenSVFIR == <<"icfgNode2SVFStmtsMap", "icfgNode2PTASVFStmtsMap", "GepValObjMap",
  "typeLocSetsMap", "GepObjVarMap", "memToFieldsMap", "globSVFStmtSet", "phiNodeMap",
  "funArgsListMap", "callSiteArgsListMap", "callSiteRetMap", "funRetMap",
  "indCallSiteToFunPtrMap", "funPtrToCallSitesMap", "candidatePointers", "callSiteSet">>
WrittenAllocator == <<"strategy", "numObjects", "numValues", "numSymbols", "numNodes">>

WrittenFields == WithBases(WrittenVar @@ WrittenICFG @@ WrittenCHG @@ WrittenType @@ WrittenValue
  @@ WrittenStmt @@ WrittenMemory @@ WrittenGeneric)
-----------------------------------------------------------------------------
(* What the reader reads: the class it creates for a kind, the fields it reads
   to create an object, and the fields it fills in later. *)

TypeCreator == [
  SVFPointerTy |-> "SVFPointerType", SVFIntegerTy |-> "SVFIntegerType",
  SVFFunctionTy |-> "SVFFunctionType", SVFStructTy |-> "SVFStructType",
  SVFArrayTy |-> "SVFArrayType", SVFOtherTy |-> "SVFOtherType"]
SingleValued == [SVFPointerTy |-> {1}, SVFIntegerTy |-> {1}, SVFFunctionTy |-> {0},
  SVFStructTy |-> {0}, SVFArrayTy |-> {0}, SVFOtherTy |-> {0, 1}]

ValueCreator == [
  SVFFunc |-> "SVFFunction", SVFBB |-> "SVFBasicBlock", SVFInst |-> "SVFInstruction",
  SVFCall |-> "SVFCallInst", SVFVCall |-> "SVFVirtualCallInst", SVFGlob |-> "SVFGlobalValue",
  SVFArg |-> "SVFArgument", SVFConst |-> "SVFConstant", SVFConstData |-> "SVFConstantData",
  SVFConstInt |-> "SVFConstantInt", SVFConstFP |-> "SVFConstantFP",
  SVFNullPtr |-> "SVFConstantNullPtr", SVFBlackHole |-> "SVFBlackHoleValue",
  SVFMetaAsValue |-> "SVFMetadataAsValue", SVFOther |-> "SVFOtherValue"]

GraphCreator == [
  IntraBlock |-> "IntraICFGNode", FunEntryBlock |-> "FunEntryICFGNode",
  FunExitBlock |-> "FunExitICFGNode", FunCallBlock |-> "CallICFGNode",
  FunRetBlock |-> "RetICFGNode", GlobalBlock |-> "GlobalICFGNode",
  IntraCF |-> "IntraCFGEdge", CallCF |-> "CallCFGEdge", RetCF |-> "RetCFGEdge",
  CHNode |-> "CHNode", CHEdge |-> "CHEdge",
  ValNode |-> "ValVar", RetNode |-> "RetPN", ObjNode |-> "ObjVar", VarargNode |-> "VarArgPN",
  GepValNode |-> "GepValVar", GepObjNode |-> "GepObjVar", FIObjNode |-> "FIObjVar",
  DummyValNode |-> "DummyValVar", DummyObjNode |-> "DummyObjVar",
  Addr |-> "AddrStmt", Copy |-> "CopyStmt", Store |-> "StoreStmt", Load |-> "LoadStmt",
  Call |-> "CallPE", Ret |-> "RetPE", Gep |-> "GepStmt", Phi |-> "PhiStmt",
  Select |-> "SelectStmt", Cmp |-> "CmpStmt", BinaryOp |-> "BinaryOPStmt",
  UnaryOp |-> "UnaryOPStmt", Branch |-> "BranchStmt", ThreadFork |-> "TDForkPE",
  ThreadJoin |-> "TDJoinPE"]

Creator == TypeCreator @@ ValueCreator @@ GraphCreator
  @@ [StInfo |-> "StInfo", MemObj |-> "MemObj", SVFLoop |-> "SVFLoop"]

\* The creators of createObjs, by pool; an StInfo and a MemObj are read at once.
Created == [
  type |-> <<"kind", "isSingleValTy">>, value |-> <<"kind", "type", "name">>,
  stInfo |-> <<"stride", "numOfFlattenElements", "numOfFlattenFields", "fldIdxVec", "elemIdxVec",
               "fldIdx2TypeMap", "finfo", "flattenElementTypes">>,
  memObj |-> <<"symId", "typeInfo", "refVal">>, loop |-> <<>>,
  icfgNode |-> <<"id", "nodeKind">>, icfgEdge |-> <<"edgeFlag">>,
  chNode |-> <<"id", "nodeKind">>, chEdge |-> <<"edgeFlag">>,
  var |-> <<"id", "nodeKind">>, stmt |-> <<"edgeFlag">>]

\* virtFill: the class whose fill reads an object of a kind.
VirtFillVar == [
  ValNode |-> "ValVar", ObjNode |-> "ObjVar", RetNode |-> "RetPN", VarargNode |-> "VarArgPN",
  GepValNode |-> "GepValVar", GepObjNode |-> "GepObjVar", FIObjNode |-> "FIObjVar",
  DummyValNode |-> "DummyValVar", DummyObjNode |-> "DummyObjVar"]
VirtFillStmt == [
  Addr |-> "AddrStmt", Copy |-> "CopyStmt", Store |-> "StoreStmt", Load |-> "LoadStmt",
  Call |-> "CallPE", Ret |-> "RetPE", Gep |-> "GepStmt", Phi |-> "PhiStmt",
  Select |-> "SelectStmt", Cmp |-> "CmpStmt", BinaryOp |-> "BinaryOPStmt",
  UnaryOp |-> "UnaryOPStmt", Branch |-> "BranchStmt", ThreadFork |-> "TDForkPE",
  ThreadJoin |-> "TDJoinPE"]
VirtFillICFGNode == [
  IntraBlock |-> "IntraICFGNode", FunEntryBlock |-> "FunEntryICFGNode",
  FunExitBlock |-> "FunExitICFGNode", FunCallBlock |-> "CallICFGNode",
  FunRetBlock |-> "RetICFGNode", GlobalBlock |-> "GlobalICFGNode"]
VirtFillICFGEdge == [IntraCF |-> "IntraCFGEdge", CallCF |-> "CallCFGEdge", RetCF |-> "RetCFGEdge"]
VirtFillValue == [
  SVFFunc |-> "SVFFunction", SVFBB |-> "SVFBasicBlock", SVFInst |-> "SVFInstruction",
  SVFCall |-> "SVFCallInst", SVFVCall |-> "SVFVirtualCallInst", SVFGlob |-> "SVFGlobalValue",
  SVFArg |-> "SVFArgument", SVFConst |-> "SVFConstant", SVFConstData |-> "SVFConstantData",
  SVFConstInt |-> "SVFConstantInt", SVFConstFP |-> "SVFConstantFP",
  SVFNullPtr |-> "SVFConstantNullPtr", SVFBlackHole |-> "SVFBlackHoleValue",
  SVFMetaAsValue |-> "SVFMetadataAsValue", SVFOther |-> "SVFOtherValue"]
VirtFillType == [
  SVFPointerTy |-> "SVFPointerType", SVFIntegerTy |-> "SVFIntegerType",
  SVFFunctionTy |-> "SVFFunctionType", SVFStructTy |-> "SVFStructType",
  SVFArrayTy |-> "SVFArrayType", SVFOtherTy |-> "SVFOtherType"]

VirtFill == VirtFillVar @@ VirtFillStmt @@ VirtFillICFGNode @@ VirtFillICFGEdge @@ VirtFillValue
  @@ VirtFillType @@ [CHNode |-> "CHNode", CHEdge |-> "CHEdge", SVFLoop |-> "SVFLoop"]

FilledVar == [
  SVFVar    |-> <<"value", "InEdgeKindToSetMap", "OutEdgeKindToSetMap", "isPtr">>,
  ObjVar    |-> <<"mem">>,
  GepValVar |-> <<"ap", "gepValType">>,
  GepObjVar |-> <<"apOffset", "base">>]

FilledStmt == [
  SVFStmt       |-> <<"value", "basicBlock", "icfgNode", "edgeId">>,
  GepStmt       |-> <<"ap", "variantField">>,
  CallPE        |-> <<"call", "entry">>,
  RetPE         |-> <<"call", "exit">>,
  MultiOpndStmt |-> <<"opVars">>,
  PhiStmt       |-> <<"opICFGNodes">>,
  SelectStmt    |-> <<"condition">>,
  CmpStmt       |-> <<"predicate">>,
  BinaryOPStmt  |-> <<"opcode">>,
  UnaryOPStmt   |-> <<"opcode">>,
  BranchStmt    |-> <<"successors", "cond", "brInst">>]

FilledICFG == [
  ICFGNode         |-> <<"fun", "bb", "pagEdges">>,
  IntraICFGNode    |-> <<"inst">>,
  FunEntryICFGNode |-> <<"FPNodes">>,
  FunExitICFGNode  |-> <<"formalRet">>,
  CallICFGNode     |-> <<"cs", "ret", "APNodes">>,
  RetICFGNode      |-> <<"cs", "actualRet", "callBlockNode">>,
  IntraCFGEdge     |-> <<"conditionVar", "branchCondVal">>,
  CallCFGEdge      |-> <<"cs", "callPEs">>,
  RetCFGEdge       |-> <<"cs", "retPE">>,
  SVFLoop          |-> <<"entryICFGEdges", "backICFGEdges", "inICFGEdges", "outICFGEdges",
                         "icfgNodes", "loopBound">>]

FilledCHG == [
  CHNode |-> <<"vtable", "className", "flags", "virtualFunctionVectors">>,
  CHEdge |-> <<"edgeType">>]

FilledValue == [
  SVFValue           |-> <<"ptrInUncalledFun", "constDataOrAggData", "sourceLoc">>,
  SVFFunction        |-> <<"isDecl", "intrinsic", "addrTaken", "isUncalled", "isNotRet", "varArg",
                           "funcType", "loopAndDom", "realDefFun", "allBBs", "allArgs",
                           "annotations">>,
  SVFBasicBlock      |-> <<"allInsts", "succBBs", "predBBs", "fun">>,
  SVFInstruction     |-> <<"bb", "terminator", "ret", "succInsts", "predInsts">>,
  SVFCallInst        |-> <<"args", "varArg", "calledVal">>,
  SVFVirtualCallInst |-> <<"vCallVtblPtr", "virtualFunIdx", "funNameOfVcall">>,
  SVFGlobalValue     |-> <<"realDefGlobal">>,
  SVFArgument        |-> <<"fun", "argNo", "uncalled">>,
  SVFConstantInt     |-> <<"zval", "sval">>,
  SVFConstantFP      |-> <<"dval">>]

FilledType == [
  SVFType         |-> <<"getPointerToTy", "typeinfo">>,
  SVFPointerType  |-> <<"ptrElementType">>,
  SVFIntegerType  |-> <<"signAndWidth">>,
  SVFFunctionType |-> <<"retTy">>,
  SVFStructType   |-> <<"name">>,
  SVFArrayType    |-> <<"numOfElement", "typeOfElement">>,
  SVFOtherType    |-> <<"repr">>]

FilledGeneric == [
  GenericNode |-> <<"InEdges", "OutEdges">>,
  GenericEdge |-> <<"src", "dst">>]

FilledFields == WithBases(FilledVar @@ FilledStmt @@ FilledICFG @@ FilledCHG @@ FilledValue
  @@ FilledType @@ FilledGeneric)

ReadInPlace == [
  typeInfo   |-> <<"type", "flags", "maxOffsetLimit", "elemNum">>,
  loopAndDom |-> <<"reachableBBs", "dtBBsMap", "pdtBBsMap", "dfBBsMap", "bb2LoopMap">>,
  ap         |-> <<"fldIdx", "offsetVarAndGepTypePairs">>,
  valueToEdgeMap |-> <<"key", "edges">>]

ReadSymTable == <<"valSymMap", "objSymMap", "returnSymMap", "varargSymMap", "modelConstants",
  "totalSymNum", "maxStruct", "maxStSize">>
ReadIRGraph == <<"KindToSVFStmtSetMap", "KindToPTASVFStmtSetMap", "fromFile",
  "nodeNumAfterPAGBuild", "totalPTAPAGEdge", "valueToEdgeMap">>
ReadICFG == <<"totalICFGNode", "FunToFunEntryNodeMap", "FunToFunExitNodeMap", "CSToCallNodeMap",
  "CSToRetNodeMap", "InstToBlockNodeMap", "globalBlockNode", "icfgNodeToSVFLoopVec">>
ReadCHG == <<"classNum", "vfID", "classNameToNodeMap", "classNameToDescendantsMap",
  "classNameToAncestorsMap", "classNameToInstAndDescsMap", "templateNameToInstancesMap",
  "csToClassesMap", "virtualFunctionToIDMap", "csToCHAVtblsMap", "csToCHAVFnsMap">>
ReadModule == <<"pagReadFromTxt", "moduleIdentifier", "FunctionSet", "GlobalSet", "AliasSet",
  "ConstantSet", "OtherValueSet">>
ReadSVFIR == <<"icfgNode2SVFStmtsMap", "icfgNode2PTASVFStmtsMap", "GepValObjMap",
  "typeLocSetsMap", "GepObjVarMap", "memToFieldsMap", "globSVFStmtSet", "phiNodeMap",
  "funArgsListMap", "callSiteArgsListMap", "callSiteRetMap", "funRetMap",
  "indCallSiteToFunPtrMap", "funPtrToCallSitesMap", "candidatePointers", "callSiteSet">>
ReadAllocator == <<"strategy", "numObjects", "numValues", "numSymbols", "numNodes">>

\* Fields that are sets ordered by flag, source and target of their edges.
OrderedSets == {"InEdges", "OutEdges", "InEdgeKindToSetMap", "OutEdgeKindToSetMap",
  "KindToSVFStmtSetMap", "KindToPTASVFStmtSetMap"}
\* Fields of a signed type of 64 bits.
Signed == {"sval", "apOffset", "fldIdx"}
=============================================================================
