--------------------------- MODULE CoreBitVector ---------------------------
(***************************************************************************)
(* The dynamic bit vector behind a points-to set of type CBV or BV         *)
(* (lib/Util/CoreBitVector.cpp): a run of words that starts at the bit     *)
(* offset and grows at both ends. A word is the set of its bits.           *)
(*                                                                         *)
(* Two registers take every operation the set interface offers; held is   *)
(* what sets would hold and flag what the last operation returned.         *)
(***************************************************************************)
EXTENDS Integers, Sequences, FiniteSets, SequencesExt

CONSTANTS
  WordSize,   \* bits of a word
  Bit         \* the bits the runs set

VARIABLES reg, held, flag, changed

vars == <<reg, held, flag, changed>>

CoreAssumption == WordSize \in Nat \ {0} /\ Bit \subseteq Nat
-----------------------------------------------------------------------------
EmptyVector == [offset |-> 0, words |-> <<>>]
Zeros(n) == [i \in 1..n |-> {}]
StartOf(bit) == (bit \div WordSize) * WordSize     \* of the word that holds bit
EndOf(c) == c.offset + Len(c.words) * WordSize

canHold(c, bit) == bit >= c.offset /\ bit < EndOf(c)
indexForBit(c, bit) == (bit - c.offset) \div WordSize + 1
finalBit(c) == EndOf(c) - 1

extendBackward(c, bit) ==
  IF StartOf(bit) >= c.offset THEN c
  ELSE [offset |-> StartOf(bit),
        words |-> Zeros((c.offset - StartOf(bit)) \div WordSize) \o c.words]

extendForward(c, bit) ==
  IF bit < c.offset \/ canHold(c, bit) THEN c
  ELSE [c EXCEPT !.words = @ \o Zeros(1 + (StartOf(bit) - EndOf(c)) \div WordSize)]

extendTo(c, bit) ==
  IF c.offset = 0 /\ c.words = <<>> THEN [offset |-> StartOf(bit), words |-> <<{}>>]
  ELSE IF bit < c.offset THEN extendBackward(c, bit)
  ELSE extendForward(c, bit)
-----------------------------------------------------------------------------
test(c, bit) == canHold(c, bit) /\ bit % WordSize \in c.words[indexForBit(c, bit)]

Insert(c, bit) ==     \* set
  LET e == extendTo(c, bit)
  IN  [e EXCEPT !.words[indexForBit(e, bit)] = @ \cup {bit % WordSize}]

Reset(c, bit) ==
  IF canHold(c, bit) THEN [c EXCEPT !.words[indexForBit(c, bit)] = @ \ {bit % WordSize}] ELSE c

IsEmpty(c) == \A i \in DOMAIN c.words : c.words[i] = {}

(* operator==: the words that are not zero, and where they begin. *)
NonZeroWords(c) ==
  {<<c.offset + (i - 1) * WordSize, c.words[i]>> : i \in {j \in DOMAIN c.words : c.words[j] # {}}}
Equal(c, d) == NonZeroWords(c) = NonZeroWords(d)

(* The hash is computed from the words, their number and the offset: vectors
   of one hash are taken to be those of one layout. *)
hash(c) == c

(* What the iterator visits. It starts at bit 0 of the first word, moves on if
   that is not set, and moves to the next word that is not zero when no bit at
   or above the current one is left. *)
NextBit(c, p) ==
  LET after == {i \in DOMAIN c.words : i > p.word /\ c.words[i] # {}}
      rest  == IF p.bit + 1 = WordSize THEN {} ELSE {b \in c.words[p.word] : b >= p.bit + 1}
      least(S) == CHOOSE x \in S : \A y \in S : x <= y
  IN  IF rest # {} THEN [word |-> p.word, bit |-> least(rest)]
      ELSE IF after = {} THEN [word |-> Len(c.words) + 1, bit |-> 0]
      ELSE [word |-> least(after), bit |-> least(c.words[least(after)])]
FirstBit(c) ==
  LET start == [word |-> 1, bit |-> 0]
  IN  IF c.words # <<>> /\ 0 \notin c.words[1] THEN NextBit(c, start) ELSE start
Visited(c) ==
  LET from[n \in 0..(Len(c.words) * WordSize)] ==   \* the first n positions after begin()
        IF n = 0 THEN <<FirstBit(c)>>
        ELSE LET p == Last(from[n - 1])
             IN  IF p.word > Len(c.words) THEN from[n - 1]
                 ELSE Append(from[n - 1], NextBit(c, p))
      all == from[Len(c.words) * WordSize]
  IN  [i \in 1..(Len(all) - 1) |-> c.offset + (all[i].word - 1) * WordSize + all[i].bit]

Elements(c) == {c.offset + (i - 1) * WordSize + b : i \in DOMAIN c.words, b \in 0..(WordSize - 1)}
                 \cap {bit \in 0..EndOf(c) : test(c, bit)}
-----------------------------------------------------------------------------
(* The operations on two vectors return the vector and whether it changed. *)
Out(c, b) == [vec |-> c, changed |-> b]

UnionWith(c, d) ==      \* operator|=
  IF c.words = <<>> THEN Out(d, d.words # <<>>)
  ELSE IF d.words = <<>> THEN Out(c, FALSE)
  ELSE LET e  == IF finalBit(c) < finalBit(d) THEN extendForward(c, finalBit(d)) ELSE c
           f  == IF e.offset > d.offset THEN extendBackward(e, d.offset) ELSE e
           at == indexForBit(f, d.offset) - 1
           u  == [f EXCEPT !.words = [i \in DOMAIN @ |->
                    IF i - at \in DOMAIN d.words THEN @[i] \cup d.words[i - at] ELSE @[i]]]
       IN  Out(u, u.words # f.words)

Greater(c, d) == IF c.offset > d.offset THEN c.offset ELSE d.offset
Overlap(c, d) == canHold(c, Greater(c, d)) /\ canHold(d, Greater(c, d))
Shift(c, d) == indexForBit(c, Greater(c, d)) - indexForBit(d, Greater(c, d))

IntersectWith(c, d) ==  \* operator&=
  LET r == [c EXCEPT !.words = [i \in DOMAIN @ |->
              IF /\ Overlap(c, d)
                 /\ i >= indexForBit(c, Greater(c, d))
                 /\ i - Shift(c, d) \in DOMAIN d.words
              THEN @[i] \cap d.words[i - Shift(c, d)] ELSE {}]]
  IN  Out(r, r.words # c.words)

Subtract(c, d) ==       \* operator-=
  LET r == IF ~Overlap(c, d) THEN c
           ELSE [c EXCEPT !.words = [i \in DOMAIN @ |->
              IF /\ i >= indexForBit(c, Greater(c, d))
                 /\ i - Shift(c, d) \in DOMAIN d.words
              THEN @[i] \ d.words[i - Shift(c, d)] ELSE @[i]]]
  IN  Out(r, r.words # c.words)

contains(c, d) == Equal(IntersectWith(c, d).vec, d)

intersects(c, d) ==
  LET e == IF c.offset <= d.offset THEN c ELSE d
      l == IF c.offset <= d.offset THEN d ELSE c
      gap == (l.offset - e.offset) \div WordSize
  IN  \E i \in DOMAIN l.words : gap + i \in DOMAIN e.words /\ e.words[gap + i] \cap l.words[i] # {}
-----------------------------------------------------------------------------
Reg == {"x", "y"}

Init ==
  /\ reg = [r \in Reg |-> EmptyVector] /\ held = [r \in Reg |-> {}]
  /\ flag = FALSE /\ changed = FALSE

Update(r, c, elems, b) ==
  /\ reg' = [reg EXCEPT ![r] = c]
  /\ held' = [held EXCEPT ![r] = elems]
  /\ flag' = b
  /\ changed' = (elems # held[r])

TestAndSet(r, bit) ==
  Update(r, IF test(reg[r], bit) THEN reg[r] ELSE Insert(reg[r], bit), held[r] \cup {bit},
         ~test(reg[r], bit))
ResetBit(r, bit) ==     \* returns nothing
  Update(r, Reset(reg[r], bit), held[r] \ {bit}, bit \in held[r])
Clear(r) == Update(r, EmptyVector, {}, held[r] # {})
Or(r, q) == LET o == UnionWith(reg[r], reg[q]) IN Update(r, o.vec, held[r] \cup held[q], o.changed)
And(r, q) == LET o == IntersectWith(reg[r], reg[q]) IN Update(r, o.vec, held[r] \cap held[q], o.changed)
Minus(r, q) == LET o == Subtract(reg[r], reg[q]) IN Update(r, o.vec, held[r] \ held[q], o.changed)
(* The assignment a = b - c; a moved vector keeps its offset and no words. *)
Copy(r, q) == Update(r, reg[q], held[q], held[q] # held[r])
Move(r, q) ==
  /\ reg' = [reg EXCEPT ![r] = reg[q], ![q] = [reg[q] EXCEPT !.words = <<>>]]
  /\ held' = [held EXCEPT ![r] = held[q], ![q] = {}]
  /\ flag' = TRUE /\ changed' = TRUE

Step ==
  \E r, q \in Reg :
    \/ \E bit \in Bit : TestAndSet(r, bit) \/ ResetBit(r, bit)
    \/ Clear(r)
    \/ r # q /\ (Or(r, q) \/ And(r, q) \/ Minus(r, q) \/ Copy(r, q) \/ Move(r, q))
-----------------------------------------------------------------------------
(* Whatever words lie before, behind and between the bits that are set: the
   registers hold what sets would, the iterator visits every element once and
   in order, the comparisons agree with those of sets, and no change goes
   unreported. (A change that is none is reported: a vector without words takes
   the zero words of another for one.) *)
SetsExact ==
  /\ \A r \in Reg :
       /\ Elements(reg[r]) = held[r]
       /\ IsEmpty(reg[r]) <=> held[r] = {}
       /\ LET v == Visited(reg[r])
          IN  /\ {v[i] : i \in DOMAIN v} = held[r]
              /\ \A i, j \in DOMAIN v : i < j => v[i] < v[j]
  /\ \A r, q \in Reg :
       /\ Equal(reg[r], reg[q]) <=> held[r] = held[q]
       /\ contains(reg[r], reg[q]) <=> held[q] \subseteq held[r]
       /\ intersects(reg[r], reg[q]) <=> held[r] \cap held[q] # {}
  /\ changed => flag

(* "The only empty set", as the persistent store takes it (its test for an
   empty difference compares with the id of the empty set): equal vectors hash
   alike, so that a map from sets to ids has one entry for each set. *)
EqualHashAlike == \A r, q \in Reg : Equal(reg[r], reg[q]) => hash(reg[r]) = hash(reg[q])
=============================================================================
