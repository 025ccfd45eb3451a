-------------------------- MODULE SparseBitVector --------------------------
(***************************************************************************)
(* The sparse bit vector, the default behind points-to sets and NodeBS     *)
(* (include/Util/SparseBitVector.h): a list of the elements that have a    *)
(* bit set, ordered by index, and an iterator to the element last looked   *)
(* at, from which the next search starts. The iterator is a position in    *)
(* the list, one past its end for end(), or Dangling when its element is   *)
(* gone or lives in another list.                                          *)
(*                                                                         *)
(* As in CoreBitVector, held is what sets would hold, flag what the last   *)
(* operation returned and changed whether the set changed.                 *)
(***************************************************************************)
EXTENDS Integers, Sequences, FiniteSets, SequencesExt

CONSTANTS
  WordSize,      \* bits of a word
  ElementSize,   \* bits of an element, a multiple of it
  Bit            \* the bits the runs set

VARIABLES reg, held, flag, changed

vars == <<reg, held, flag, changed>>

SparseAssumption ==
  /\ {WordSize, ElementSize} \subseteq Nat \ {0} /\ ElementSize % WordSize = 0
  /\ Bit \subseteq Nat
-----------------------------------------------------------------------------
Dangling == 0
Vector(elems) == [elems |-> elems, cur |-> 1]      \* CurrElementIter = Elements.begin()
EmptyVector == Vector(<<>>)
End(v) == Len(v.elems) + 1
ElementOf(bit) == bit \div ElementSize
Least(S) == CHOOSE x \in S : \A y \in S : x <= y

(* Searching forward stops at the first element that is not below the index,
   searching backward at the first that is not above it, or at the front. *)
FindLowerBound(v, index) ==
  LET start == IF v.cur = End(v) THEN v.cur - 1 ELSE v.cur
      here  == v.elems[start].index
  IN  IF v.elems = <<>> THEN 1
      ELSE IF here = index THEN start
      ELSE IF here > index
      THEN LET back == {i \in 1..start : v.elems[i].index <= index}
           IN  IF back = {} THEN 1 ELSE CHOOSE i \in back : \A j \in back : j <= i
      ELSE Least({i \in start..Len(v.elems) : v.elems[i].index >= index} \cup {End(v)})

Moved(v, at) == [v EXCEPT !.cur = at]
At(v, at, index) == at # End(v) /\ v.elems[at].index = index

test(v, bit) ==
  /\ v.elems # <<>>
  /\ LET at == FindLowerBound(v, ElementOf(bit))
     IN  At(v, at, ElementOf(bit)) /\ bit % ElementSize \in v.elems[at].bits

(* A test, too, moves the cached iterator. *)
Tested(v, bit) == IF v.elems = <<>> THEN v ELSE Moved(v, FindLowerBound(v, ElementOf(bit)))

Insert(v, bit) ==      \* set
  LET index == ElementOf(bit)
      at    == FindLowerBound(v, index)
      spot  == IF at # End(v) /\ v.elems[at].index < index THEN at + 1 ELSE at
      one   == {bit % ElementSize}
  IN  IF v.elems # <<>> /\ At(v, at, index)
      THEN [Moved(v, at) EXCEPT !.elems[at].bits = @ \cup one]
      ELSE [elems |-> InsertAt(v.elems, spot, [index |-> index, bits |-> one]), cur |-> spot]

(* The element that loses its last bit is erased, and the iterator, which the
   search has put on it, is moved to the next one before. *)
Reset(v, bit) ==
  LET at == FindLowerBound(v, ElementOf(bit))
  IN  IF v.elems = <<>> THEN v
      ELSE IF ~At(v, at, ElementOf(bit)) THEN Moved(v, at)
      ELSE IF v.elems[at].bits = {bit % ElementSize}
      THEN [elems |-> RemoveAt(v.elems, at), cur |-> at]
      ELSE [Moved(v, at) EXCEPT !.elems[at].bits = @ \ {bit % ElementSize}]

clear(v) == [elems |-> <<>>, cur |-> IF v.cur = End(v) THEN 1 ELSE Dangling]
-----------------------------------------------------------------------------
(* The operations on two vectors walk both lists at once; each step puts an
   element in front of what the rest of the walk leaves, and says whether it
   changed anything. An element that becomes zero is dropped. *)
Rest(elems, b) == [elems |-> elems, changed |-> b]
Keep(elem, b, rest) ==
  Rest(IF elem.bits = {} THEN rest.elems ELSE <<elem>> \o rest.elems, b \/ rest.changed)

UnionWith(v, w) ==     \* operator|=
  LET walk[i \in 1..End(v), j \in 1..End(w)] ==
        IF j = End(w) THEN Rest(SubSeq(v.elems, i, Len(v.elems)), FALSE)
        ELSE IF i = End(v) \/ v.elems[i].index > w.elems[j].index
        THEN Keep(w.elems[j], TRUE, walk[i, j + 1])
        ELSE IF v.elems[i].index = w.elems[j].index
        THEN LET both == v.elems[i].bits \cup w.elems[j].bits
             IN  Keep([v.elems[i] EXCEPT !.bits = both], both # v.elems[i].bits, walk[i + 1, j + 1])
        ELSE Keep(v.elems[i], FALSE, walk[i + 1, j])
      all == walk[1, 1]
  IN  IF w.elems = <<>> THEN [vec |-> v, changed |-> FALSE]
      ELSE [vec |-> Vector(all.elems), changed |-> all.changed]

IntersectWith(v, w) ==  \* operator&=
  LET walk[i \in 1..End(v), j \in 1..End(w)] ==
        IF i = End(v) THEN Rest(<<>>, FALSE)
        ELSE IF j = End(w) THEN Rest(<<>>, TRUE)       \* erase what is left
        ELSE IF v.elems[i].index > w.elems[j].index THEN walk[i, j + 1]
        ELSE IF v.elems[i].index = w.elems[j].index
        THEN LET both == v.elems[i].bits \cap w.elems[j].bits
             IN  Keep([v.elems[i] EXCEPT !.bits = both], both # v.elems[i].bits, walk[i + 1, j + 1])
        ELSE Rest(walk[i + 1, j].elems, TRUE)
      all == walk[1, 1]
  IN  IF v.elems = <<>> /\ w.elems = <<>> THEN [vec |-> v, changed |-> FALSE]
      ELSE [vec |-> Vector(all.elems), changed |-> all.changed]

(* What the walk of both forms of intersectWithComplement leaves. *)
Difference(v, w) ==
  LET walk[i \in 1..End(v), j \in 1..End(w)] ==
        IF i = End(v) THEN Rest(<<>>, FALSE)
        ELSE IF j = End(w) THEN Rest(SubSeq(v.elems, i, Len(v.elems)), FALSE)
        ELSE IF v.elems[i].index > w.elems[j].index THEN walk[i, j + 1]
        ELSE IF v.elems[i].index = w.elems[j].index
        THEN LET left == v.elems[i].bits \ w.elems[j].bits
             IN  Keep([v.elems[i] EXCEPT !.bits = left], left # v.elems[i].bits, walk[i + 1, j + 1])
        ELSE Keep(v.elems[i], FALSE, walk[i + 1, j])
  IN  walk[1, 1]

Subtract(v, w) ==       \* intersectWithComplement(RHS)
  IF v.elems = <<>> \/ w.elems = <<>> THEN [vec |-> v, changed |-> FALSE]
  ELSE LET all == Difference(v, w) IN [vec |-> Vector(all.elems), changed |-> all.changed]

(* v becomes w - u. The iterator is set to begin() while the list is empty,
   which is end(), and the elements are appended before it. *)
SubtractInto(w, u) == LET all == Difference(w, u).elems IN [elems |-> all, cur |-> Len(all) + 1]

Equal(v, w) == v.elems = w.elems
contains(v, w) == Equal(IntersectWith(v, w).vec, w)

intersects(v, w) ==
  LET walk[i \in 1..End(v), j \in 1..End(w)] ==
        /\ i # End(v) /\ j # End(w)
        /\ IF v.elems[i].index > w.elems[j].index THEN walk[i, j + 1]
           ELSE IF v.elems[i].index = w.elems[j].index
           THEN v.elems[i].bits \cap w.elems[j].bits # {} \/ walk[i + 1, j + 1]
           ELSE walk[i + 1, j]
  IN  walk[1, 1]
-----------------------------------------------------------------------------
(* find_first and find_last of the vector, count, and the bit iterator: the
   element it is in, its bit number and what is left of the word, shifted so
   that the current bit is bit 0. *)
find_first(v) ==
  IF v.elems = <<>> THEN -1 ELSE Head(v.elems).index * ElementSize + Least(Head(v.elems).bits)
find_last(v) ==
  IF v.elems = <<>> THEN -1
  ELSE LET bits == Last(v.elems).bits
       IN  Last(v.elems).index * ElementSize + CHOOSE b \in bits : \A a \in bits : a <= b
count(v) == FoldLeft(LAMBDA n, elem : n + Cardinality(elem.bits), 0, v.elems)

StandAt(v, at, pos) ==
  [elem |-> at, number |-> v.elems[at].index * ElementSize + pos,
   bits |-> {b - pos : b \in {a \in v.elems[at].bits :
                               a >= pos /\ a \div WordSize = pos \div WordSize}}]
EnterElement(v, at) ==
  IF at = End(v) THEN [elem |-> at, number |-> 0, bits |-> {}]
  ELSE StandAt(v, at, Least(v.elems[at].bits))

AdvanceToNextNonZero(v, p) ==
  LET pos  == p.number % ElementSize
      next == {b \in v.elems[p.elem].bits : b >= pos}      \* find_next
  IN  IF p.bits # {}
      THEN LET skip == Least(p.bits)
           IN  [p EXCEPT !.number = @ + skip, !.bits = {b - skip : b \in @}]
      ELSE IF next = {} \/ pos = 0 THEN EnterElement(v, p.elem + 1)
      ELSE StandAt(v, p.elem, Least(next))
Increment(v, p) ==      \* operator++
  AdvanceToNextNonZero(v, [p EXCEPT !.number = @ + 1, !.bits = {b - 1 : b \in @ \ {0}}])

Visited(v) ==
  LET from[n \in 0..count(v)] ==       \* one step more than there are elements is taken
        IF n = 0 THEN <<EnterElement(v, 1)>>
        ELSE LET seen == from[n - 1]
             IN  IF Last(seen).elem = End(v) THEN seen ELSE Append(seen, Increment(v, Last(seen)))
      all == from[count(v)]
      stood == SelectSeq(all, LAMBDA p : p.elem # End(v))
  IN  [i \in DOMAIN stood |-> stood[i].number]
-----------------------------------------------------------------------------
Reg == {"x", "y"}

Init ==
  /\ reg = [r \in Reg |-> EmptyVector] /\ held = [r \in Reg |-> {}]
  /\ flag = FALSE /\ changed = FALSE

Update(r, v, elems, b) ==
  /\ reg' = [reg EXCEPT ![r] = v]
  /\ held' = [held EXCEPT ![r] = elems]
  /\ flag' = b
  /\ changed' = (elems # held[r])

TestAndSet(r, bit) ==
  LET tested == Tested(reg[r], bit)
  IN  Update(r, IF test(reg[r], bit) THEN tested ELSE Insert(tested, bit), held[r] \cup {bit},
             ~test(reg[r], bit))
ResetBit(r, bit) ==     \* returns nothing
  Update(r, Reset(reg[r], bit), held[r] \ {bit}, bit \in held[r])
Clear(r) == Update(r, clear(reg[r]), {}, held[r] # {})
SubtractSelf(r) == Update(r, clear(reg[r]), {}, reg[r].elems # <<>>)
Or(r, q) == LET o == UnionWith(reg[r], reg[q]) IN Update(r, o.vec, held[r] \cup held[q], o.changed)
And(r, q) == LET o == IntersectWith(reg[r], reg[q]) IN Update(r, o.vec, held[r] \cap held[q], o.changed)
Minus(r, q) == LET o == Subtract(reg[r], reg[q]) IN Update(r, o.vec, held[r] \ held[q], o.changed)
(* x.intersectWithComplement(y, x), which copies x first; it returns nothing. *)
MinusFrom(r, q) ==
  Update(r, SubtractInto(reg[q], reg[r]), held[q] \ held[r], held[q] \ held[r] # held[r])
Copy(r, q) == Update(r, Vector(reg[q].elems), held[q], held[q] # held[r])
(* The vector that is moved from keeps its iterator, which now points into the
   other list, or stays at its own end. *)
Move(r, q) ==
  /\ reg' = [reg EXCEPT ![r] = Vector(reg[q].elems), ![q] = clear(reg[q])]
  /\ held' = [held EXCEPT ![r] = held[q], ![q] = {}]
  /\ flag' = TRUE /\ changed' = TRUE

Step ==
  \E r, q \in Reg :
    \/ \E bit \in Bit : TestAndSet(r, bit) \/ ResetBit(r, bit)
    \/ Clear(r) \/ SubtractSelf(r)
    \/ r # q /\ (Or(r, q) \/ And(r, q) \/ Minus(r, q) \/ MinusFrom(r, q) \/ Copy(r, q) \/ Move(r, q))
-----------------------------------------------------------------------------
(* The list holds what a set would, each element once, in order and never
   empty; a bit is found from wherever the last search ended, and the iterator
   that remembers this is valid whenever the list has an element; the bit
   iterator visits every bit once and in order; the comparisons agree with
   those of sets; and an operation reports a change exactly when there is one. *)
SetsExact ==
  /\ \A r \in Reg :
       LET v == reg[r] IN
       /\ \A i \in DOMAIN v.elems : v.elems[i].bits # {}
       /\ v.elems # <<>> => v.cur \in 1..End(v)
       /\ \A bit \in Bit : test(v, bit) <=> bit \in held[r]
       /\ LET seen == Visited(v)
          IN  /\ {seen[i] : i \in DOMAIN seen} = held[r]
              /\ \A i, j \in DOMAIN seen : i < j => seen[i] < seen[j]
              /\ held[r] # {} => find_first(v) = seen[1] /\ find_last(v) = Last(seen)
       /\ count(v) = Cardinality(held[r])
  /\ \A r, q \in Reg :
       /\ Equal(reg[r], reg[q]) <=> held[r] = held[q]
       /\ contains(reg[r], reg[q]) <=> held[q] \subseteq held[r]
       /\ intersects(reg[r], reg[q]) <=> held[r] \cap held[q] # {}
  /\ changed <=> flag
=============================================================================
