---------------------------- MODULE IntervalBits ----------------------------
(***************************************************************************)
(* The operations of IntervalValue that divide, shift and combine bits:     *)
(* division is that of Z3 (the remainder is not negative), bitwise          *)
(* operations are of signed numbers of LongBits bits, and shifts go through *)
(* C++ ints of IntBits bits. What C++ does not define gives some number     *)
(* undef, one for all the undefined steps of an operation.                  *)
(***************************************************************************)
EXTENDS Interval, FiniteSets, FiniteSetsExt

CONSTANTS IntBits, LongBits, DoubleBits    \* 32, 64 and 53

BitsAssumption ==
  /\ {IntBits, LongBits, DoubleBits} \subseteq Nat \ {0}
  /\ IntBits <= LongBits

\* What a number of so many bits is: as unsigned bits, and read as signed.
Wrap(bits, n) == ((n + 2 ^ (bits - 1)) % 2 ^ bits) - 2 ^ (bits - 1)
BitsOf(n) == {i \in 0..(LongBits - 1) : (n \div 2 ^ i) % 2 = 1}
NumberOf(S) == Wrap(LongBits, SumSet({2 ^ i : i \in S}))

InLong(n) == n \in -(2 ^ (LongBits - 1))..(2 ^ (LongBits - 1) - 1)

\* getNumeral: what is below or above every long is the least or the greatest.
Numeral(a) ==
  IF ~IsInf(a) /\ InLong(a.n) THEN a.n
  ELSE IF leq(a, Fin(0)) THEN -(2 ^ (LongBits - 1)) ELSE 2 ^ (LongBits - 1) - 1

\* The double next to an integer: DoubleBits digits, half-way to the even one.
Doubled(n) ==
  LET size == IF n < 0 THEN -n ELSE n
      digits == Min({k \in 0..LongBits : size < 2 ^ k})
      unit == IF digits <= DoubleBits THEN 1 ELSE 2 ^ (digits - DoubleBits)
      down == size \div unit
      up == 2 * (size % unit) > unit \/ (2 * (size % unit) = unit /\ down % 2 = 1)
      near == (IF up THEN down + 1 ELSE down) * unit
  IN IF n < 0 THEN -near ELSE near
\* A double made a long: undefined if it is none.
ToLong(n, undef) == IF InLong(n) THEN n ELSE undef

zdiv(x, y) == IF y > 0 THEN x \div y ELSE -(x \div (-y))
zmod(x, y) == x - y * zdiv(x, y)

\* The quotient of two literals, and their remainder, for a divisor that is not 0.
Over(a, b) ==
  IF ~IsInf(a) /\ ~IsInf(b) THEN Fin(zdiv(a.n, b.n))
  ELSE IF ~IsInf(a) THEN Fin(0)
  ELSE IF ~IsInf(b) THEN (IF leq(b, Fin(0)) THEN Neg(a) ELSE a)
  ELSE IF a = b THEN PlusInf ELSE MinusInf
Modulo(a, b) ==
  IF ~IsInf(a) /\ ~IsInf(b) THEN Fin(zmod(a.n, b.n))
  ELSE IF ~IsInf(a) THEN Fin(0)
  ELSE IF ~IsInf(b) THEN (IF leq(b, Fin(0)) THEN Neg(a) ELSE a)
  ELSE IF a = b THEN PlusInf ELSE MinusInf

\* An int shifted by an int: undefined for a count that is not below IntBits.
AsInt(a) == Wrap(IntBits, Numeral(a))
ShiftRight(a, b, undef) ==
  IF IsZero(a) \/ IsInf(a) THEN a
  ELSE IF IsInf(b) THEN (IF geq(a, Fin(0)) THEN Fin(0) ELSE Fin(-1))
  ELSE Fin(IF AsInt(b) \in 0..(IntBits - 1) THEN AsInt(a) \div 2 ^ AsInt(b) ELSE undef)
OneShifted(n, undef) == IF n \in 0..(IntBits - 1) THEN Wrap(IntBits, 2 ^ n) ELSE undef

litAbs(a) == IF leq(a, Fin(0)) THEN Neg(a) ELSE a
-----------------------------------------------------------------------------
Div_IgnoreZero(v, w) ==
  IF AnyBottom(v, w) THEN bottom
  ELSE IF is_zero(w) THEN top
  ELSE Hull(Over(v.lb, IF IsZero(w.lb) THEN Fin(1) ELSE w.lb),
            Over(v.lb, IF IsZero(w.ub) THEN Fin(-1) ELSE w.ub),
            Over(v.ub, IF IsZero(w.lb) THEN Fin(1) ELSE w.lb),
            Over(v.ub, IF IsZero(w.ub) THEN Fin(-1) ELSE w.ub))

Div(v, w) ==
  IF AnyBottom(v, w) THEN bottom
  ELSE IF contains(w, 0) THEN (IF is_zero(v) THEN Only(0) ELSE top)
  ELSE Hull(Over(v.lb, w.lb), Over(v.lb, w.ub), Over(v.ub, w.lb), Over(v.ub, w.ub))

Rem(v, w) ==
  LET n == litMax(litAbs(v.lb), litAbs(v.ub))
      d == Minus(litMax(litAbs(w.lb), w.ub), Fin(1))
      bound == litMin(n, d)
  IN IF AnyBottom(v, w) THEN bottom
     ELSE IF contains(w, 0) THEN (IF is_zero(v) THEN Only(0) ELSE top)
     ELSE IF is_numeral(v) /\ is_numeral(w)
     THEN Between(Modulo(v.lb, w.lb), Modulo(v.lb, w.lb))
     ELSE IF Numeral(v.lb) < 0
     THEN Between(Neg(bound), IF Numeral(v.ub) > 0 THEN bound ELSE Fin(0))
     ELSE Between(Fin(0), bound)

NotNegative == Between(Fin(0), PlusInf)

Shl(v, w, undef) ==
  LET shift == MeetWith(w, NotNegative)
      coeff(a) == Fin(OneShifted(AsInt(a), undef))
  IN IF AnyBottom(v, w) THEN bottom ELSE IF IsTop(v) /\ IsTop(w) THEN top
     ELSE IF IsBottom(shift) THEN bottom
     ELSE Mul(v, Between(coeff(shift.lb), IF IsInf(shift.ub) THEN PlusInf ELSE coeff(shift.ub)))

\* A range with 0 in it is shifted in two parts; an empty part stays empty.
Shr(v, w, undef) ==
  LET shift == MeetWith(w, NotNegative)
      to(a, b) == ShiftRight(a, b, undef)
      part(u) ==
        IF AnyBottom(u, w) THEN bottom
        ELSE Hull(to(u.lb, shift.lb), to(u.lb, shift.ub), to(u.ub, shift.lb), to(u.ub, shift.ub))
  IN IF AnyBottom(v, w) THEN bottom ELSE IF IsTop(v) /\ IsTop(w) THEN top
     ELSE IF IsBottom(shift) THEN bottom
     ELSE IF contains(v, 0)
     THEN JoinWith(JoinWith(part(Between(v.lb, Fin(-1))), part(Between(Fin(1), v.ub))), Only(0))
     ELSE part(v)

And(v, w) ==
  IF AnyBottom(v, w) THEN bottom
  ELSE IF is_numeral(v) /\ is_numeral(w)
  THEN (IF IsInf(v.lb) \/ IsInf(w.lb) THEN top   \* a bit vector of an unknown constant
        ELSE Only(NumberOf(BitsOf(v.lb.n) \cap BitsOf(w.lb.n))))
  ELSE IF Numeral(v.lb) >= 0 /\ Numeral(w.lb) >= 0 THEN Between(Fin(0), litMin(v.ub, w.ub))
  ELSE IF Numeral(v.lb) >= 0 THEN Between(Fin(0), v.ub)
  ELSE IF Numeral(w.lb) >= 0 THEN Between(Fin(0), w.ub)
  ELSE top

\* The first power of two above n, at least 2: 1 shifted as an int, so it is
\* negative at the sign bit. Undefined also if n + 1 was no long.
next_power_of_2(n, undef) ==
  IF ~InLong(n) THEN undef ELSE OneShifted(Min({i \in 1..LongBits : n < 2 ^ i}), undef)

\* Or and Xor: the interval up to the power of two that is above both bounds.
Bitwise2(v, w, f(_, _), undef) ==
  IF AnyBottom(v, w) THEN bottom
  ELSE IF is_numeral(v) /\ is_numeral(w)
  THEN (IF IsInf(v.lb) \/ IsInf(w.lb) THEN top
        ELSE Only(NumberOf(f(BitsOf(v.lb.n), BitsOf(w.lb.n)))))
  ELSE IF Numeral(v.lb) >= 0 /\ ~IsInf(v.ub) /\ Numeral(w.lb) >= 0 /\ ~IsInf(w.ub)
  THEN Between(Fin(0), Fin(next_power_of_2(Numeral(litMax(v.ub, w.ub)) + 1, undef)))
  ELSE top
Or(v, w, undef) == Bitwise2(v, w, \cup, undef)
Xor(v, w, undef) ==
  LET apart(S, T) == (S \ T) \cup (T \ S) IN Bitwise2(v, w, apart, undef)
=============================================================================
