------------------------------ MODULE Interval ------------------------------
(***************************************************************************)
(* The interval domain of the abstract execution: NumericLiteral (an        *)
(* unbounded integer of Z3, or an infinity) and IntervalValue. An operation *)
(* is a function of intervals; what it promises is that it contains every   *)
(* result of the operation on the integers in them.                         *)
(***************************************************************************)
EXTENDS Integers

-----------------------------------------------------------------------------
(* NumericLiteral *)

\* The sign of an infinity and 0, or 0 and the number.
Lit == [inf : {0}, n : Int] \cup [inf : {-1, 1}, n : {0}]

Fin(n) == [inf |-> 0, n |-> n]
PlusInf == [inf |-> 1, n |-> 0]
MinusInf == [inf |-> -1, n |-> 0]
IsInf(a) == a.inf # 0
IsZero(a) == a = Fin(0)

\* A finite literal is between the infinities, which equal themselves.
leq(a, b) == a.inf < b.inf \/ (a.inf = b.inf /\ a.n <= b.n)
geq(a, b) == leq(b, a)
litMin(a, b) == IF leq(a, b) THEN a ELSE b
litMax(a, b) == IF leq(a, b) THEN b ELSE a

Neg(a) == [inf |-> -a.inf, n |-> -a.n]

\* The sum of opposite infinities is an assertion failure.
Plus(a, b) ==
  IF ~IsInf(a) /\ ~IsInf(b) THEN Fin(a.n + b.n) ELSE IF ~IsInf(a) THEN b ELSE a
Minus(a, b) ==
  IF ~IsInf(a) /\ ~IsInf(b) THEN Fin(a.n - b.n) ELSE IF ~IsInf(a) THEN Neg(b) ELSE a

Times(a, b) ==
  IF IsZero(a) \/ IsZero(b) THEN Fin(0)
  ELSE IF IsInf(a) /\ IsInf(b) THEN (IF a = b THEN PlusInf ELSE MinusInf)
  ELSE IF IsInf(a) THEN (IF leq(b, Fin(0)) THEN Neg(a) ELSE a)
  ELSE IF IsInf(b) THEN (IF leq(a, Fin(0)) THEN Neg(b) ELSE b)
  ELSE Fin(a.n * b.n)
-----------------------------------------------------------------------------
(* IntervalValue *)

Itv == [lb : Lit, ub : Lit]
Between(l, u) == [lb |-> l, ub |-> u]
Only(n) == Between(Fin(n), Fin(n))
top == Between(MinusInf, PlusInf)
bottom == Between(Fin(1), Fin(0))

IsBottom(v) == ~geq(v.ub, v.lb)
IsTop(v) == v.lb = MinusInf /\ v.ub = PlusInf
is_numeral(v) == v.lb = v.ub
is_zero(v) == IsZero(v.lb) /\ IsZero(v.ub)
contains(v, n) == leq(v.lb, Fin(n)) /\ geq(v.ub, Fin(n))

Leq(v, w) == IsBottom(v) \/ (~IsBottom(w) /\ leq(w.lb, v.lb) /\ leq(v.ub, w.ub))
equals(v, w) == IF IsBottom(v) THEN IsBottom(w) ELSE ~IsBottom(w) /\ v = w

JoinWith(v, w) ==
  IF IsBottom(w) THEN v ELSE IF IsBottom(v) THEN w
  ELSE Between(litMin(v.lb, w.lb), litMax(v.ub, w.ub))

MeetWith(v, w) ==
  LET both == Between(litMax(v.lb, w.lb), litMin(v.ub, w.ub))
  IN IF IsBottom(v) \/ IsBottom(w) \/ IsBottom(both) THEN bottom ELSE both

\* A bound that moved outwards goes to infinity.
WidenWith(v, w) ==
  IF IsBottom(v) THEN w ELSE IF IsBottom(w) THEN v
  ELSE Between(IF leq(v.lb, w.lb) THEN v.lb ELSE MinusInf,
               IF geq(v.ub, w.ub) THEN v.ub ELSE PlusInf)

\* An infinite bound is replaced by the other interval's.
NarrowWith(v, w) ==
  IF IsBottom(v) \/ IsBottom(w) THEN bottom
  ELSE Between(IF IsInf(v.lb) THEN w.lb ELSE v.lb, IF IsInf(v.ub) THEN w.ub ELSE v.ub)

AnyBottom(v, w) == IsBottom(v) \/ IsBottom(w)

Add(v, w) ==
  IF AnyBottom(v, w) THEN bottom ELSE IF IsTop(v) \/ IsTop(w) THEN top
  ELSE Between(Plus(v.lb, w.lb), Plus(v.ub, w.ub))

Sub_SameBounds(v, w) ==
  IF AnyBottom(v, w) THEN bottom ELSE IF IsTop(v) \/ IsTop(w) THEN top
  ELSE Between(Minus(v.lb, w.lb), Minus(v.ub, w.ub))

Sub(v, w) ==
  IF AnyBottom(v, w) THEN bottom ELSE IF IsTop(v) \/ IsTop(w) THEN top
  ELSE Between(Minus(v.lb, w.ub), Minus(v.ub, w.lb))

\* The least and the greatest of four results at the bounds.
Hull(a, b, c, d) ==
  Between(litMin(litMin(a, b), litMin(c, d)), litMax(litMax(a, b), litMax(c, d)))

Mul(v, w) ==
  IF AnyBottom(v, w) THEN bottom
  ELSE Hull(Times(v.lb, w.lb), Times(v.lb, w.ub), Times(v.ub, w.lb), Times(v.ub, w.ub))
-----------------------------------------------------------------------------
(* Comparisons: [1, 1] if they hold of all numbers, [0, 0] if of none. *)

Maybe == Between(Fin(0), Fin(1))
TruthOf(p) == IF p THEN Only(1) ELSE Only(0)

Equal(v, w) ==
  IF AnyBottom(v, w) THEN bottom ELSE IF IsTop(v) \/ IsTop(w) THEN top
  ELSE IF is_numeral(v) /\ is_numeral(w) THEN TruthOf(v.lb = w.lb)
  ELSE IF IsBottom(MeetWith(v, w)) THEN Only(0) ELSE Maybe

NotEqual(v, w) ==
  IF AnyBottom(v, w) THEN bottom ELSE IF IsTop(v) \/ IsTop(w) THEN top
  ELSE IF is_numeral(v) /\ is_numeral(w) THEN TruthOf(v.lb # w.lb)
  ELSE IF IsBottom(MeetWith(v, w)) THEN Only(1) ELSE Maybe

\* The test for top looks at the left operand twice.
Greater(v, w) ==
  IF AnyBottom(v, w) THEN bottom ELSE IF IsTop(v) THEN top
  ELSE IF is_numeral(v) /\ is_numeral(w) THEN TruthOf(~leq(v.lb, w.lb))
  ELSE IF ~leq(v.lb, w.ub) THEN Only(1) ELSE IF ~geq(v.ub, w.lb) THEN Only(0) ELSE Maybe

Less(v, w) ==
  IF AnyBottom(v, w) THEN bottom ELSE IF IsTop(v) THEN top
  ELSE IF is_numeral(v) /\ is_numeral(w) THEN TruthOf(~geq(v.lb, w.lb))
  ELSE IF ~geq(v.ub, w.lb) THEN Only(1) ELSE IF ~leq(v.lb, w.ub) THEN Only(0) ELSE Maybe

\* Equal intervals are taken for equal numbers.
GreaterEqual(v, w) ==
  IF AnyBottom(v, w) THEN bottom ELSE IF IsTop(v) THEN top
  ELSE IF is_numeral(v) /\ is_numeral(w) THEN TruthOf(geq(v.lb, w.lb))
  ELSE IF geq(v.lb, w.ub) THEN Only(1) ELSE IF ~geq(v.ub, w.lb) THEN Only(0)
  ELSE IF equals(v, w) THEN Only(1) ELSE Maybe

LessEqual(v, w) ==
  IF AnyBottom(v, w) THEN bottom ELSE IF IsTop(v) THEN top
  ELSE IF is_numeral(v) /\ is_numeral(w) THEN TruthOf(leq(v.lb, w.lb))
  ELSE IF leq(v.ub, w.lb) THEN Only(1) ELSE IF ~leq(v.lb, w.ub) THEN Only(0)
  ELSE IF equals(v, w) THEN Only(1) ELSE Maybe
=============================================================================
