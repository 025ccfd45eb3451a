--------------------------- MODULE IntervalState ---------------------------
(***************************************************************************)
(* The abstract execution of SVFIR statements on intervals and addresses    *)
(* (SVFIR2ItvExeState, IntervalExeState, ExeState): a state has four        *)
(* tables, of variables and of memory, with intervals and with addresses,   *)
(* and what is not in them is looked up, and written, in a global state     *)
(* that all states share. A concrete run of the statements goes along.      *)
(*                                                                          *)
(* The functions that call the operations are outside of this code: a       *)
(* program is a sequence of statements and of operations on states that     *)
(* are in the order a client may use them (see IntervalAssumption). The     *)
(* elements of arrays are told apart (-model-arrays), and a base object and *)
(* its first field are one (-ff-eq-base); numbers are signed.               *)
(***************************************************************************)
EXTENDS IntervalBits, Sequences, TLC

CONSTANTS
  Programs,        \* sequences of instructions
  Inputs,          \* the integers an input may be
  Undefined,       \* what an undefined operation of C++ may give
  MaxFieldLimit,
  MaxOffset,       \* of each object the number of its fields, 0 if it is field-insensitive
  NullPtr,         \* the variable, and the object, of null
  BlkPtr           \* the variable of unknown values

VARIABLES
  prog, at,        \* the program, and how much of it is executed
  es, globalES,    \* the current state and the one all states share
  saved,           \* a state that was put aside: the other branch, or the loop head
  conc, mem,       \* the concrete run: values of variables and of memory
  taken,           \* the branch the concrete run takes
  trusted          \* the run met no operation that is unsound (see Reliable)

vars == <<prog, at, es, globalES, saved, conc, mem, taken, trusted>>
-----------------------------------------------------------------------------
(* States: an address is an object and a field of it. The objects, which are
   variables too, have their own address, as initSVFVar gives it to them; it
   is not kept here. *)

Tables == {"varItv", "locItv", "varAddrs", "locAddrs"}
Null == <<NullPtr, 0>>
NoState == [t \in Tables |-> IF t = "varAddrs" THEN NullPtr :> {Null} ELSE <<>>]
State == [l |-> es, g |-> globalES]

Has(s, table, id) == id \in DOMAIN s.l[table] \/ id \in DOMAIN s.g[table]
Local(s, table, id, value) == [s EXCEPT !.l[table] = (id :> value) @@ @]
Global(s, table, id, value) == [s EXCEPT !.g[table] = (id :> value) @@ @]

\* operator[] and getVAddrs: a reference into the local table, else into the
\* global one; what is in neither is made there, top or no address.
Made(table) == IF table \in {"varItv", "locItv"} THEN top ELSE {}
Get(s, table, id) ==
  IF id \in DOMAIN s.l[table] THEN s.l[table][id]
  ELSE IF id \in DOMAIN s.g[table] THEN s.g[table][id] ELSE Made(table)
Put(s, table, id, value) ==
  IF id \in DOMAIN s.l[table] THEN Local(s, table, id, value) ELSE Global(s, table, id, value)

JoinInto(s, table, id, value, both(_, _)) ==
  Put(s, table, id, IF Has(s, table, id) THEN both(Get(s, table, id), value) ELSE value)

IsInt(s, v) == Has(s, "varItv", v)
IsAddr(s, v) == Has(s, "varAddrs", v)

\* Union of two maps, with both(a, b) where they have the same key.
Merged(f, g, both(_, _)) ==
  [k \in DOMAIN f \cup DOMAIN g |->
     IF k \notin DOMAIN g THEN f[k] ELSE IF k \notin DOMAIN f THEN g[k] ELSE both(f[k], g[k])]
Touched(f, g, both(_, _)) ==
  [k \in DOMAIN f |-> IF k \in DOMAIN g THEN both(f[k], g[k]) ELSE f[k]]

joinWith(e, other) ==
  [t \in Tables |-> IF t \in {"varItv", "locItv"} THEN Merged(e[t], other[t], JoinWith)
                    ELSE Merged(e[t], other[t], \cup)]

\* The field that is offset from an address: one of the object's (getModulusOffset;
\* an object with more than MaxFieldLimit fields wraps around). Null has none.
FieldOf(a, offset) ==
  LET n == MaxOffset[a[1]]
      sum == IF a[2] + offset < 0 THEN -(a[2] + offset) ELSE a[2] + offset
  IN IF a = Null THEN Null
     ELSE <<a[1], IF n = 0 THEN 0 ELSE IF MaxFieldLimit < n THEN sum % n
                  ELSE IF sum < n THEN sum ELSE n - 1>>

\* Addresses are widened apart from the state, by every field of a new one.
AllFields(a) == {FieldOf(a, i) : i \in 0..(MaxFieldLimit - 1)}
WidenAddrs(A, B) == A \cup UNION {AllFields(a) : a \in B \ A}
widenWith(e, other) ==
  [t \in Tables |-> IF t \in {"varItv", "locItv"} THEN Touched(e[t], other[t], WidenWith)
                    ELSE Touched(e[t], other[t], WidenAddrs)]
narrowWith(e, other) ==
  [t \in Tables |-> IF t \in {"varItv", "locItv"} THEN Touched(e[t], other[t], NarrowWith)
                    ELSE Touched(e[t], other[t], LAMBDA A, B : IF A \subseteq B THEN A ELSE B)]

\* The local state becomes global where the global one has no entry.
moveToGlobal(s) ==
  LET grown == [t \in Tables |-> s.g[t] @@ s.l[t]]
  IN [g |-> [grown EXCEPT !["varItv"] = [v \in DOMAIN @ \ {BlkPtr} |-> @[v]]],
      l |-> [t \in Tables |-> IF t = "varItv" THEN BlkPtr :> top ELSE <<>>]]
applySummary(e, summary) == [t \in Tables |-> summary[t] @@ e[t]]
cpyItvToLocal(s, v) ==
  IF v \notin DOMAIN s.l["varItv"] /\ v \in DOMAIN s.g["varItv"]
  THEN Local(s, "varItv", v, s.g["varItv"][v]) ELSE s
-----------------------------------------------------------------------------
(* Statements *)

\* A variable is unknown, or null.
initSVFVar(s, v) ==
  IF IsInt(s, v) \/ IsAddr(s, v) THEN s
  ELSE Put(s, "varItv", v, IF v = NullPtr THEN Only(0) ELSE top)

\* An object is its address, and a constant its value: one that is an integer as
\* a double, one that has a fraction without it.
initObjVar(s, i, undef) ==
  LET value(v) == Global(s, "varItv", i.obj, v)
      number(n) == value(Only(ToLong(n, undef)))
  IN CASE i.data.kind \in {"object", "global"} -> Global(s, "varAddrs", i.obj, {<<i.obj, 0>>})
       [] i.data.kind = "int" -> number(Doubled(i.data.n))
       [] i.data.kind = "float" -> number(i.data.n)
       [] i.data.kind = "null" -> value(Only(0))
       [] i.data.kind = "aggregate" -> value(top)

translateAddr(s, i, undef) ==
  LET made == IF IsInt(s, i.obj) \/ IsAddr(s, i.obj) THEN s ELSE initObjVar(s, i, undef)
  IN IF IsInt(made, i.obj) THEN Global(made, "varItv", i.res, made.g["varItv"][i.obj])
     ELSE Global(made, "varAddrs", i.res, made.g["varAddrs"][i.obj])

Apply(op, v, w, undef) ==
  CASE op = "Add" -> Add(v, w) [] op = "Sub" -> Sub(v, w) [] op = "Mul" -> Mul(v, w)
    [] op = "Div" -> Div(v, w) [] op = "Rem" -> Rem(v, w) [] op = "And" -> And(v, w)
    [] op = "Xor" -> Xor(v, w, undef) [] op = "Or" -> Or(v, w, undef)
    [] op = "Shr" -> Shr(v, w, undef) [] op = "Shl" -> Shl(v, w, undef)
    [] op = "==" -> Equal(v, w) [] op = "!=" -> NotEqual(v, w) [] op = ">" -> Greater(v, w)
    [] op = "<" -> Less(v, w) [] op = ">=" -> GreaterEqual(v, w) [] op = "<=" -> LessEqual(v, w)

\* An operand that is not in a table becomes unknown, for all states.
translateBinary(s, i, undef) ==
  LET known(t, v) == IF IsInt(t, v) THEN t ELSE Put(t, "varItv", v, top)
      both == known(known(s, i.x), i.y)
      operand(v) == Get(both, "varItv", v)
  IN Put(both, "varItv", i.res, Apply(i.fun, operand(i.x), operand(i.y), undef))

\* Addresses are compared if both sides have one only, by the numbers they got.
CompareAddrs(fun, A, B, above) ==
  IF Cardinality(A) = 1 /\ Cardinality(B) = 1
  THEN TruthOf(IF fun \in {"==", "!="} THEN (A = B) <=> (fun = "==") ELSE above)
  ELSE IF fun \in {"==", "!="} /\ A \cap B = {} THEN TruthOf(fun = "!=") ELSE top

translateCmp(s, i, above) ==
  IF IsInt(s, i.x) /\ IsInt(s, i.y)
  THEN Put(s, "varItv", i.res, Apply(i.fun, Get(s, "varItv", i.x), Get(s, "varItv", i.y), 0))
  ELSE IF IsAddr(s, i.x) /\ IsAddr(s, i.y)
  THEN Put(s, "varItv", i.res, CompareAddrs(i.fun, Get(s, "varAddrs", i.x), Get(s, "varAddrs", i.y), above))
  ELSE s

\* The content of the objects is joined into the result, whose entry is emptied
\* first if the object that comes first has content of that kind.
translateLoad(s, i, first) ==
  LET objs == Get(s, "varAddrs", i.x)
      emptied == IF Has(s, "locItv", first) THEN Put(s, "varItv", i.res, bottom)
                 ELSE IF Has(s, "locAddrs", first) THEN Put(s, "varAddrs", i.res, {}) ELSE s
      into(o, t) ==
        IF Has(s, "locItv", o) THEN JoinInto(t, "varItv", i.res, Get(s, "locItv", o), JoinWith)
        ELSE IF Has(s, "locAddrs", o) THEN JoinInto(t, "varAddrs", i.res, Get(s, "locAddrs", o), \cup)
        ELSE t
  IN IF IsAddr(s, i.x) THEN FoldSet(into, emptied, objs) ELSE s

\* Every object is overwritten, however many the pointer may point to; null is not.
translateStore(s, i) ==
  LET objs == Get(s, "varAddrs", i.x) \ {Null}
      over(table, value) == [s EXCEPT !.l[table] = [o \in objs |-> value] @@ @]
  IN IF ~IsAddr(s, i.x) THEN s
     ELSE IF IsInt(s, i.y) THEN over("locItv", Get(s, "varItv", i.y))
     ELSE IF IsAddr(s, i.y) THEN over("locAddrs", Get(s, "varAddrs", i.y))
     ELSE s

\* translateCopy, translateCall, translateRet
translateCopy(s, i) ==
  IF i.res = BlkPtr THEN Put(s, "varItv", i.res, top)
  ELSE IF IsInt(s, i.x) THEN Put(s, "varItv", i.res, Get(s, "varItv", i.x))
  ELSE IF IsAddr(s, i.x) THEN Put(s, "varAddrs", i.res, Get(s, "varAddrs", i.x))
  ELSE s

\* The fields an index may select: clamped to the limit, both ends. A step of a
\* pointer counts elements; an index into a struct or an array is the number of
\* the element in what it is flattened to, unless there is none such.
Reshaped(n) == IF n < 0 THEN 0 ELSE IF n > MaxFieldLimit THEN MaxFieldLimit ELSE n
getIndexfromGepTypePair(s, p) ==
  LET index == IF p.var = "" THEN Only(p.const) ELSE Get(s, "varItv", p.var)
      lb == Reshaped(Numeral(index.lb))
      ub == Reshaped(Numeral(index.ub))
  IN IF IsBottom(index) \/ IsTop(index) THEN <<0, MaxFieldLimit>>
     ELSE CASE p.type = "none" -> <<lb, ub>>
            [] p.type = "pointer" -> <<lb * p.elems[1], ub * p.elems[1]>>
            [] p.type = "aggregate" ->
                 IF {lb + 1, ub + 1} \subseteq DOMAIN p.elems THEN <<p.elems[lb + 1], p.elems[ub + 1]>>
                 ELSE <<0, MaxFieldLimit>>
getGepOffset(s, i) ==
  LET clamp(n) == IF n > MaxFieldLimit - 1 THEN MaxFieldLimit - 1 ELSE n
      sum[n \in 0..Len(i.offsets)] ==
        IF n = 0 THEN <<0, 0>>
        ELSE LET pair == getIndexfromGepTypePair(s, i.offsets[Len(i.offsets) + 1 - n])
                 before == sum[n - 1]
             IN <<clamp(before[1] + pair[1]), clamp(before[2] + pair[2])>>
  IN IF i.offsets = <<>> THEN <<i.field, i.field>> ELSE sum[Len(i.offsets)]

\* A constant field of -1 is taken for no offset. An index that is in no table
\* becomes unknown, for all states.
translateGep(s, i) ==
  LET range == getGepOffset(s, i)
      last == IF range[2] > MaxFieldLimit - 1 THEN MaxFieldLimit - 1 ELSE range[2]
      fields == {FieldOf(a, k) : a \in Get(s, "varAddrs", i.x), k \in range[1]..last}
      new == {v \in {i.offsets[n].var : n \in DOMAIN i.offsets} \ {""} : ~IsInt(s, v)}
      known == [s EXCEPT !.g["varItv"] = @ @@ [v \in new |-> top]]
  IN IF ~IsAddr(s, i.x) THEN s
     ELSE IF range = <<-1, -1>> \/ fields = {} THEN known
     ELSE Put(known, "varAddrs", i.res, fields)

\* Without a definite condition the result is the condition, or unset.
translateSelect(s, i) ==
  LET cond == Get(s, "varItv", i.cond)
      chosen == IF is_zero(cond) THEN i.y ELSE i.x
  IN IF ~IsInt(s, i.cond) THEN s
     ELSE IF IsInt(s, i.x) /\ IsInt(s, i.y)
     THEN Put(s, "varItv", i.res, IF is_numeral(cond) THEN Get(s, "varItv", chosen) ELSE cond)
     ELSE IF IsAddr(s, i.x) /\ IsAddr(s, i.y) /\ is_numeral(cond)
     THEN Put(s, "varAddrs", i.res, Get(s, "varAddrs", chosen))
     ELSE s

translatePhi_Overwrites(s, i) ==
  LET step(t, v) ==
        IF IsInt(t, v) THEN Put(t, "varItv", i.res, Get(t, "varItv", v))
        ELSE IF IsAddr(t, v) THEN Put(t, "varAddrs", i.res, Get(t, "varAddrs", v)) ELSE t
  IN step(step(s, i.x), i.y)

\* The operands are joined into what the result has.
translatePhi(s, i) ==
  LET step(t, v) ==
        IF IsInt(t, v) THEN JoinInto(t, "varItv", i.res, Get(t, "varItv", v), JoinWith)
        ELSE IF IsAddr(t, v) THEN JoinInto(t, "varAddrs", i.res, Get(t, "varAddrs", v), \cup) ELSE t
  IN step(step(s, i.x), i.y)
-----------------------------------------------------------------------------
(* The concrete run: a value is an integer of LongBits bits, a fraction, or an
   address, which is an object and the number of an element of it. *)

Int2(n) == <<"int", n>>
Wrapped(n) == Int2(Wrap(LongBits, n))
Truth(p) == Int2(IF p THEN 1 ELSE 0)
Whole(v) == v[1] = "int"

\* The field that stands for the element.
FieldAt(a) == FieldOf(<<a[1], 0>>, a[2])

\* The quotient of C, towards zero.
Quotient(x, y) ==
  LET size(n) == IF n < 0 THEN -n ELSE n
      q == size(x) \div size(y)
  IN IF (x < 0) = (y < 0) THEN q ELSE -q

\* What an operation is on the integers, where it is defined.
Value(fun, x, y) ==
  CASE fun = "Add" -> x + y [] fun = "Sub" -> x - y [] fun = "Mul" -> x * y
    [] fun = "Div" -> Quotient(x, y) [] fun = "Rem" -> x - y * Quotient(x, y)
    [] fun = "And" -> NumberOf(BitsOf(x) \cap BitsOf(y))
    [] fun = "Or" -> NumberOf(BitsOf(x) \cup BitsOf(y))
    [] fun = "Xor" -> NumberOf((BitsOf(x) \ BitsOf(y)) \cup (BitsOf(y) \ BitsOf(x)))
    [] fun = "Shl" -> x * 2 ^ y [] fun = "Shr" -> x \div 2 ^ y
Defined(fun, y) ==
  /\ fun \in {"Div", "Rem"} => y # 0
  /\ fun \in {"Shl", "Shr"} => y \in 0..(LongBits - 1)

\* The results of an operation: none if it has none.
Results(fun, v, w) ==
  LET x == v[2]
      y == w[2]
  IN CASE fun = "==" -> {Truth(v = w)} [] fun = "!=" -> {Truth(v # w)}
       [] ~Whole(v) \/ ~Whole(w) -> {Truth(TRUE), Truth(FALSE)}
       [] fun = ">" -> {Truth(x > y)} [] fun = "<" -> {Truth(x < y)}
       [] fun = ">=" -> {Truth(x >= y)} [] fun = "<=" -> {Truth(x <= y)}
       [] OTHER -> IF Defined(fun, y) THEN {Wrapped(Value(fun, x, y))} ELSE {}

Index(p) == IF p.var = "" THEN p.const ELSE conc[p.var][2]
InAggregate(p) == p.type = "aggregate" => Index(p) + 1 \in DOMAIN p.elems
Selected(i) ==
  LET step(p) == CASE p.type = "none" -> Index(p) [] p.type = "pointer" -> Index(p) * p.elems[1]
                   [] p.type = "aggregate" -> p.elems[Index(p) + 1]
      sum[n \in 0..Len(i.offsets)] == IF n = 0 THEN 0 ELSE sum[n - 1] + step(i.offsets[n])
  IN IF i.offsets = <<>> THEN i.field ELSE sum[Len(i.offsets)]
Element(a, n) == IF a = Null THEN Null ELSE <<a[1], a[2] + n>>

\* The values the instruction may give its result in the concrete run.
Outcomes(i) ==
  CASE i.op = "input" -> {Int2(n) : n \in Inputs}
    [] i.op = "addr" -> {CASE i.data.kind = "int" -> Int2(i.data.n)
                           [] i.data.kind = "float" -> <<IF i.data.exact THEN "int" ELSE "fraction", i.data.n>>
                           [] i.data.kind = "null" -> Int2(0)
                           [] OTHER -> <<"addr", <<i.obj, 0>>>>}
    [] i.op \in {"binary", "cmp"} -> Results(i.fun, conc[i.x], conc[i.y])
    [] i.op = "load" -> IF conc[i.x][2] \in DOMAIN mem THEN {mem[conc[i.x][2]]} ELSE {}
    [] i.op = "copy" -> {conc[i.x]}
    [] i.op = "gep" ->
         IF \A n \in DOMAIN i.offsets : InAggregate(i.offsets[n])
         THEN {<<"addr", Element(conc[i.x][2], Selected(i))>>} ELSE {}
    [] i.op = "select" -> {IF conc[i.cond] = Int2(0) THEN conc[i.y] ELSE conc[i.x]}
    [] i.op = "phi" -> {IF i.y \in DOMAIN conc THEN conc[i.y] ELSE conc[i.x]}
    [] OTHER -> {}

\* Where an arithmetic operation does not promise its result: an interval is of
\* integers, which do not overflow; Z3 divides differently if the dividend is
\* negative; shifts are of ints; the power of two above the bounds of a
\* disjunction is an int that may overflow too.
ReliableBinary(i) ==
  LET v == Get(State, "varItv", i.x)
      w == Get(State, "varItv", i.y)
      x == conc[i.x][2]
      y == conc[i.y][2]
      above == litMax(v.ub, w.ub)
      limit == 2 ^ (IntBits - 1)
      inInt(a) == ~IsInf(a) /\ a.n \in -limit..(limit - 1)
  IN CASE i.fun \in {"Add", "Sub", "Mul"} -> InLong(Value(i.fun, x, y))
       [] i.fun \in {"Div", "Rem"} -> x >= 0
       [] i.fun = "Shl" -> /\ inInt(w.ub) /\ w.ub.n < IntBits - 1
                           /\ Defined("Shl", y) => InLong(Value("Shl", x, y))
       [] i.fun = "Shr" -> inInt(v.lb) /\ inInt(v.ub) /\ inInt(w.ub) /\ w.ub.n < IntBits
       [] i.fun \in {"Or", "Xor"} -> \/ is_numeral(v) /\ is_numeral(w)
                                     \/ IsInf(above) \/ above.n + 1 < limit \div 2
       [] OTHER -> TRUE

\* Where a statement does not promise its result: a number is rounded to a
\* double, and a fraction or an aggregate is none; equal intervals are not
\* equal numbers, and an integer is not compared with an address; a store
\* overwrites all objects, and all elements of an object without fields, and is
\* hidden by a number where it puts an address; a selection by an unknown
\* condition is that condition; an index out of bounds is clamped, and -1 is
\* no index.
Reliable(i) ==
  CASE i.op = "addr" /\ i.data.kind = "int" -> Doubled(i.data.n) = i.data.n
    [] i.op = "addr" -> i.data.exact /\ i.data.kind # "aggregate"
    [] i.op \in {"binary", "cmp"} /\ Whole(conc[i.x]) # Whole(conc[i.y]) -> FALSE
    [] i.op = "binary" -> ReliableBinary(i)
    [] i.op = "cmp" /\ ~Whole(conc[i.x]) ->
         i.fun \in {"==", "!="} /\ ~(IsInt(State, i.x) /\ IsInt(State, i.y))
    [] i.op = "cmp" /\ i.fun \in {">=", "<="} ->
         LET v == Get(State, "varItv", i.x) IN is_numeral(v) \/ v # Get(State, "varItv", i.y)
    [] i.op = "store" ->
         \E o \in Get(State, "varAddrs", i.x) \ {Null} :
           /\ Get(State, "varAddrs", i.x) = {o} /\ MaxOffset[o[1]] # 0
           /\ ~Has(State, IF Whole(conc[i.y]) THEN "locAddrs" ELSE "locItv", o)
    [] i.op = "select" -> is_numeral(Get(State, "varItv", i.cond)) /\ Whole(conc[i.x]) = Whole(conc[i.y])
    [] i.op = "gep" /\ Outcomes(i) # {} ->
         LET a == conc[i.x][2] IN
         /\ a = Null \/ MaxOffset[a[1]] = 0 \/ a[2] + Selected(i) \in 0..(MaxOffset[a[1]] - 1)
         /\ Selected(i) \in 0..(MaxFieldLimit - 1)
         /\ \A n \in DOMAIN i.offsets : Index(i.offsets[n]) \in 0..MaxFieldLimit
    [] OTHER -> TRUE
-----------------------------------------------------------------------------
Init ==
  /\ prog \in Programs /\ at = 0
  /\ es = NoState /\ globalES = NoState /\ saved = NoState
  /\ conc = NullPtr :> <<"addr", Null>> /\ mem = <<>>
  /\ taken \in {1, 2} /\ trusted = TRUE

\* A branch of 0 is code that every run executes.
OnPath(i) == i.branch \in {0, taken}

\* The state after an instruction that works on one state.
Translated(s, i, first, above, undef) ==
  CASE i.op = "input" -> initSVFVar(s, i.res)
    [] i.op = "addr" -> translateAddr(s, i, undef)
    [] i.op = "binary" -> translateBinary(s, i, undef)
    [] i.op = "cmp" -> translateCmp(s, i, above) [] i.op = "load" -> translateLoad(s, i, first)
    [] i.op = "store" -> translateStore(s, i) [] i.op = "copy" -> translateCopy(s, i)
    [] i.op = "gep" -> translateGep(s, i) [] i.op = "select" -> translateSelect(s, i)
    [] i.op = "phi" -> translatePhi(s, i) [] i.op = "local" -> cpyItvToLocal(s, i.res)
    [] i.op = "toGlobal" -> moveToGlobal(s)

\* An instruction is translated, and executed if the run comes along it.
Translate ==
  LET i == prog[at + 1]
      firsts == IF i.op = "load" /\ Get(State, "varAddrs", i.x) # {} THEN Get(State, "varAddrs", i.x) ELSE {<<>>}
  IN /\ i.op \notin {"put", "swap", "join", "widen", "narrow", "summary"}
     /\ \E first \in firsts, above \in BOOLEAN, undef \in Undefined :
          LET s == Translated(State, i, first, above, undef) IN es' = s.l /\ globalES' = s.g
     /\ IF i.op \in {"local", "toGlobal"} \/ ~OnPath(i)
        THEN UNCHANGED <<conc, mem, trusted>>
        ELSE /\ trusted' = (trusted /\ Reliable(i))
             /\ IF i.op = "store"
                THEN mem' = (conc[i.x][2] :> conc[i.y]) @@ mem /\ UNCHANGED conc
                ELSE /\ \E value \in Outcomes(i) : conc' = (i.res :> value) @@ conc
                     /\ UNCHANGED mem
     /\ at' = at + 1
     /\ UNCHANGED <<prog, saved, taken>>

\* setEs, getEs and the operations on two states.
Combine ==
  LET op == prog[at + 1].op
  IN /\ op \in {"put", "swap", "join", "widen", "narrow", "summary"}
     /\ es' = CASE op = "put" -> es [] op = "swap" -> saved [] op = "join" -> joinWith(es, saved)
                [] op = "widen" -> widenWith(saved, es) [] op = "narrow" -> narrowWith(saved, es)
                [] op = "summary" -> applySummary(saved, es)
     /\ saved' = IF op \in {"put", "swap"} THEN es ELSE saved
     /\ at' = at + 1
     /\ UNCHANGED <<prog, globalES, conc, mem, taken, trusted>>

Next == at < Len(prog) /\ (Translate \/ Combine)

Spec == Init /\ [][Next]_vars
-----------------------------------------------------------------------------
(* Properties *)

\* Whether a table lookup has a concrete value.
Holds(s, kind, id, value) ==
  LET table == kind \o IF Whole(value) THEN "Itv" ELSE "Addrs"
  IN /\ Has(s, table, id)
     /\ IF Whole(value) THEN contains(Get(s, table, id), value[2]) ELSE FieldAt(value[2]) \in Get(s, table, id)

\* The state of the branch the run takes has every value of the run, also while
\* the other branch is translated (SVFIR2ItvExeState.cpp, IntervalExeState.cpp).
AbstractSound ==
  LET branch == IF at = 0 THEN 0 ELSE prog[at].branch
      s == [l |-> IF branch \in {0, taken} THEN es ELSE saved, g |-> globalES]
  IN trusted => /\ \A v \in DOMAIN conc : Holds(s, "var", v, conc[v])
                /\ \A o \in DOMAIN mem : Holds(s, "loc", FieldAt(o), mem[o])

IntervalAssumption ==
  /\ BitsAssumption /\ MaxFieldLimit \in Nat \ {0}
  /\ \A n \in Inputs \cup Undefined : n \in Int /\ InLong(n)
  /\ \A o \in DOMAIN MaxOffset : MaxOffset[o] \in Nat
  /\ \A p \in Programs : \A n \in DOMAIN p : p[n].branch \in {0, 1, 2}
=============================================================================
