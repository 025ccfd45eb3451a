----------------------------- MODULE MCPrograms -----------------------------
(***************************************************************************)
(* Programs for TLC: statements to execute on intervals, and programs with *)
(* threads.                                                                *)
(***************************************************************************)
EXTENDS Integers, Sequences, FiniteSets, TLC

-----------------------------------------------------------------------------
(* Statements on intervals: a branch gives two operands two values each, or
   two objects two contents, and what is joined is computed with, loaded,
   indexed, selected, widened and made global. *)

Blank == [op |-> "", branch |-> 0, res |-> "", x |-> "", y |-> "", fun |-> "", cond |-> "",
          obj |-> "", data |-> [kind |-> "object", n |-> 0, exact |-> TRUE], offsets |-> <<>>, field |-> 0]
Do(op) == [Blank EXCEPT !.op = op]
On(branch, code) == [n \in DOMAIN code |-> [code[n] EXCEPT !.branch = branch]]

DataOf(res, obj, kind, n, exact) ==
  [Do("addr") EXCEPT !.res = res, !.obj = obj, !.data = [kind |-> kind, n |-> n, exact |-> exact]]
ConstOf(res, n) == DataOf(res, "#" \o ToString(n), "int", n, TRUE)
AddrOf(res, o) == [Do("addr") EXCEPT !.res = res, !.obj = o]
Phi(res, x, y) == [Do("phi") EXCEPT !.res = res, !.x = x, !.y = y]
BinOf(op, res, f, x, y) == [Do(op) EXCEPT !.res = res, !.fun = f, !.x = x, !.y = y]
LoadTo(res, p) == [Do("load") EXCEPT !.res = res, !.x = p]
StoreTo(p, v) == [Do("store") EXCEPT !.x = p, !.y = v]
CopyTo(res, x) == [Do("copy") EXCEPT !.res = res, !.x = x]
GepTo(res, p, offsets) == [Do("gep") EXCEPT !.res = res, !.x = p, !.offsets = offsets]
SelectTo(res, c, x, y) == [Do("select") EXCEPT !.res = res, !.cond = c, !.x = x, !.y = y]
FieldTo(res, p, n) == [Do("gep") EXCEPT !.res = res, !.x = p, !.field = n]
At(v) == [var |-> v, const |-> 0, type |-> "none", elems |-> <<>>]
Plain(n, elems) == [var |-> "", const |-> n, type |-> "pointer", elems |-> <<elems>>]
Within(v, elems) == [var |-> v, const |-> 0, type |-> "aggregate", elems |-> elems]

\* Two branches: the state is put aside for the second, and joined with it.
Fork(one, two) ==
  <<Do("put")>> \o On(1, one) \o On(2, <<Do("swap")>> \o two) \o <<Do("join")>>

Funs == {"Add", "Sub", "Mul", "Div", "Rem", "And", "Or", "Xor", "Shl", "Shr"}
Compares == {"==", "!=", ">", "<", ">=", "<="}
Consts == {-3, 0, 2}
Later == {1, 3}

\* Every operation on two ranges, and on an unknown value.
Arithmetic ==
  {Fork(<<ConstOf("a1", m), ConstOf("b1", k)>>, <<ConstOf("a2", n), ConstOf("b2", l)>>)
   \o <<Phi("a", "a1", "a2"), Phi("b", "b1", "b2"),
        BinOf(IF f \in Funs THEN "binary" ELSE "cmp", "r", f, "a", "b")>> :
     m \in Consts, k \in Consts, n \in Later, l \in Later, f \in Funs \cup Compares} \cup
  {<<[Do("input") EXCEPT !.res = "a"], ConstOf("b", k),
     BinOf("binary", "r", f, x[1], x[2]), BinOf("cmp", "s", c, "r", "b")>> :
     k \in Later, f \in {"Add", "Mul", "Sub", "And", "Div"}, c \in {"==", "<", ">="},
     x \in {<<"a", "b">>, <<"b", "a">>}}

\* Pointers to one object, or to two fields of it, and to another.
Pointers == <<ConstOf("one", 1), ConstOf("two", 2), AddrOf("p", "o"), AddrOf("q", "u"),
              StoreTo("p", "one"), StoreTo("q", "p")>>
Memory ==
  {Pointers \o Fork(<<StoreTo(s[1], s[2])>>, <<StoreTo(t[1], t[2])>>)
   \o <<LoadTo("v", "q"), LoadTo("w", "v"), Phi("z", "p", "q"), LoadTo("y", "z"),
        BinOf("cmp", "r", c, "z", "v")>> :
     s \in {<<"p", "two">>, <<"q", "q">>}, t \in {<<"p", "one">>, <<"p", "two">>, <<"q", "p">>},
     c \in {"==", "!="}} \cup
  {Pointers \o Fork(<<ConstOf("i1", 0)>>, <<ConstOf("i2", n)>>) \o <<Phi("i", "i1", "i2"),
     GepTo("f", "p", <<x, At("i")>>), GepTo("g", "f", <<Plain(1, 1)>>), StoreTo("g", "two"),
     LoadTo("v", "g"), BinOf("cmp", "r", "==", "f", "g")>> :
     n \in {0, 1}, x \in {Plain(0, 2), Plain(1, 1)}}

\* The limits of ints, doubles and longs, and constants that are no integers.
Near == {6, 7, 15, 16, -16, 127}
Limits ==
  {Fork(<<ConstOf("a1", 1), ConstOf("b1", 2)>>, <<ConstOf("a2", n), ConstOf("b2", l)>>)
   \o <<Phi("a", "a1", "a2"), Phi("b", "b1", "b2"), BinOf("binary", "r", f, "a", "b")>> :
     n \in Near, l \in Near, f \in {"Or", "Xor", "Shl", "Shr", "Add", "Mul"}} \cup
  {<<ConstOf("a", m), ConstOf("b", n), BinOf("binary", "r", f, "a", "b"), BinOf("binary", "s", f, "r", "b")>> :
     m \in {12, 33, 35, 64, 101, 127, -128}, n \in {3, 4, 6, 64},
     f \in {"Add", "Sub", "Or", "And", "Rem", "Shl", "Shr"}} \cup
  {<<DataOf("a", "k", d[1], d[2], d[3]), ConstOf("b", 2), BinOf("cmp", "r", "<", "a", "b"), CopyTo("c", "a")>> :
     d \in {<<"float", 1, TRUE>>, <<"float", 1, FALSE>>, <<"null", 0, TRUE>>, <<"aggregate", 0, TRUE>>,
           <<"global", 0, TRUE>>}}

\* The fields of a struct in an array, of an object without fields, of one with
\* more than the limit, and of what may be null; indices that are unknown, or
\* negative; what may be a number or a pointer; and a pointer that a loop moves.
Indexed(base, more) ==
  <<ConstOf("one", 1), AddrOf("q", "u"), AddrOf("p", base), StoreTo("q", "p")>> \o more
Fields ==
  {Indexed(base, Fork(<<ConstOf("i1", m)>>, <<ConstOf("i2", n)>>) \o <<Phi("i", "i1", "i2"),
     GepTo("f", "p", <<Plain(0, 2), Within("i", elems)>>), StoreTo("f", "one"), LoadTo("v", "f"),
     GepTo("g", "f", <<At("one")>>), BinOf("cmp", "r", "==", "f", "g")>>) :
     base \in {"o", "fi", "big"}, m \in {0, 1}, n \in {0, 1, 2}, elems \in {<<0, 2>>, <<0, 1, 2>>}} \cup
  {Indexed(base, <<FieldTo("f", "p", n), FieldTo("g", "f", 2), FieldTo("h", "g", 1), StoreTo("g", "one"),
     LoadTo("v", "g")>>) : base \in {"o", "fi", "big"}, n \in {-2, -1, 0, 1, 2, 3}} \cup
  {Indexed("o", Fork(<<CopyTo("b1", "null")>>, <<CopyTo("b2", x)>>) \o <<Phi("b", "b1", "b2"),
     FieldTo("f", "b", 1), GepTo("g", "b", <<At("one")>>), BinOf("cmp", "r", "!=", "g", "null"),
     FieldTo("h", "null", 1)>>) : x \in {"null", "p"}} \cup
  {Indexed("o", <<BinOf("cmp", "r", "==", "p", "one"), GepTo("f", "p", <<At("r")>>)>>),
   Indexed("o", <<GepTo("f", "p", <<Plain(-1, 1), Plain(2, 1)>>)>>),
   Indexed("o", Fork(<<CopyTo("i1", "one")>>, <<ConstOf("i2", 0)>>) \o <<Phi("i", "i1", "i2"),
     StoreTo("p", "one"), GepTo("f", "p", <<At("i")>>), ConstOf("two", 2), StoreTo("f", "two")>>),
   Indexed("o", Fork(<<CopyTo("b1", "one")>>, <<CopyTo("b2", "p")>>)
     \o Fork(<<CopyTo("c1", "one")>>, <<CopyTo("c2", "q")>>)
     \o <<Phi("b", "b1", "b2"), Phi("c", "c1", "c2"), BinOf("cmp", "r", "==", "b", "c")>>)} \cup
  {LET body == <<LoadTo("v", "q"), FieldTo("w", "v", 1), StoreTo("q", "w")>>
       turn == <<Do("put")>> \o body \o <<Do("widen")>>
   IN Indexed(base, turn \o turn \o <<LoadTo("z", "q"), Do("put")>> \o body \o <<Do("narrow")>>) :
     base \in {"o", "big", "fi"}}

\* A selection, of numbers and of pointers, by a condition that is known or not.
Selecting ==
  {Pointers \o Fork(<<ConstOf("c1", m)>>, <<ConstOf("c2", n)>>) \o <<Phi("c", "c1", "c2"),
     SelectTo("r", "c", x[1], x[2]), CopyTo("s", "r"), CopyTo("blk", "c")>> :
     m \in {0, 1}, n \in {0, 1}, x \in {<<"one", "two">>, <<"p", "q">>, <<"one", "p">>}}

\* A loop that counts: the head is widened by the body, twice, and narrowed.
Count(f, n, narrow) ==
  LET body == <<BinOf("binary", "j", f, "i", "step"), Phi("i", "j", "j")>>
      turn == <<Do("put")>> \o body \o <<Do("widen")>>
  IN <<ConstOf("i0", 0), ConstOf("step", n), Phi("i", "i0", "i0"), [Do("local") EXCEPT !.res = "i"]>>
     \o turn \o turn \o IF narrow THEN <<Do("put")>> \o body \o <<Do("narrow")>> ELSE <<>>
Counting == {Count(f, n, narrow) : f \in {"Add", "Sub"}, n \in {0, 1, 2}, narrow \in BOOLEAN}

\* Globals are put aside, overwritten in a function, and summarised.
Globals ==
  {Pointers \o <<Do("toGlobal"), [Do("local") EXCEPT !.res = "one"], Do("put"), StoreTo("p", v),
     Do("summary"), LoadTo("w", "p"), CopyTo("c", v), BinOf("binary", "r", "Sub", "one", "two")>> :
     v \in {"two", "q"}}

IntervalPrograms == Arithmetic \cup Limits \cup Memory \cup Fields \cup Selecting \cup Counting \cup Globals
-----------------------------------------------------------------------------
(* Programs with threads. A function is a sequence of statements; each goes on
   to the next one and, if it branches, to another place. *)

Step == [kind |-> "plain", to |-> {}, callees |-> <<>>, handle |-> "", lock |-> "", exits |-> {}]
Ret == [Step EXCEPT !.kind = "ret"]
Ext == [Step EXCEPT !.kind = "call"]
Br(n) == [Step EXCEPT !.to = {n}]
Call(f) == [Step EXCEPT !.kind = "call", !.callees = <<f>>]
CallAny(f, g) == [Step EXCEPT !.kind = "call", !.callees = <<f, g>>]
Start(h, f) == [Step EXCEPT !.kind = "fork", !.handle = h, !.callees = <<f>>]
Join(h) == [Step EXCEPT !.kind = "join", !.handle = h]
JoinIn(h, exit) == [Join(h) EXCEPT !.exits = {exit}]
Lock(k) == [Step EXCEPT !.kind = "lock", !.lock = k]
Unlock(k) == [Step EXCEPT !.kind = "unlock", !.lock = k]

\* bodies is a sequence of [fun, code, loop]; loop is the places in a loop, and
\* a branch back makes one.
Fun_(f, stmts) == [fun |-> f, code |-> stmts, loop |-> {}]
Looping(f, stmts, loop) == [fun |-> f, code |-> stmts, loop |-> loop]
Name(f, n) == f \o ToString(n)
Places(b) == DOMAIN b.code
AllPlaces(bodies) == UNION {{<<bodies[k], n>> : n \in Places(bodies[k])} : k \in DOMAIN bodies}
InstOf(b, n) ==
  LET s == b.code[n]
      next == IF s.kind = "ret" THEN {} ELSE {n + 1} \cup s.to
  IN [fun |-> b.fun, kind |-> s.kind, next |-> {Name(b.fun, m) : m \in next},
      callees |-> s.callees, handle |-> s.handle, lock |-> s.lock, inLoop |-> n \in b.loop,
      exits |-> {Name(b.fun, m) : m \in s.exits}]
ByFun(bodies, value(_)) ==
  [f \in {bodies[k].fun : k \in DOMAIN bodies} |->
     value(CHOOSE b \in {bodies[k] : k \in DOMAIN bodies} : b.fun = f)]
\* The end of the entry block is the first branch, or the end.
EntryEnd(b) ==
  CHOOSE n \in Places(b) : /\ b.code[n].to # {} \/ n = Len(b.code)
                           /\ \A m \in 1..(n - 1) : b.code[m].to = {}
Program(bodies, scev) ==
  [funs |-> [k \in DOMAIN bodies |-> bodies[k].fun],
   at |-> [i \in {Name(x[1].fun, x[2]) : x \in AllPlaces(bodies)} |->
             LET x == CHOOSE y \in AllPlaces(bodies) : Name(y[1].fun, y[2]) = i
             IN InstOf(x[1], x[2])],
   body |-> ByFun(bodies, LAMBDA b : [n \in Places(b) |-> Name(b.fun, n)]),
   first |-> ByFun(bodies, LAMBDA b : Name(b.fun, 1)),
   last |-> ByFun(bodies, LAMBDA b : Name(b.fun, Len(b.code))),
   entryEnd |-> ByFun(bodies, LAMBDA b : Name(b.fun, EntryEnd(b))),
   sameSCEV |-> scev]

Plainly(f) == Fun_(f, <<Step, Ret>>)
-----------------------------------------------------------------------------
\* A thread and what its parent does before, during and after it.
OneThread ==
  {Program(<<Fun_("main", <<Step, Start("h", "w"), Step, Join("h"), Step, Ret>>),
             Fun_("w", w), Plainly("g")>>, scev) :
     w \in {<<Step, Ret>>, <<Call("g"), Step, Ret>>, <<Br(3), Call("g"), Ret>>},
     scev \in {{}, {<<"main2", "main4">>}}}

\* A thread that starts another; siblings, one after the other or not. Joins
\* are matched only if the thread that is joined has joined its own: a thread
\* that outlives its joined parent is not told from one that is over.
FamilyOf(x, y, z, scev) ==
  Program(<<Fun_("main", <<Start("h", "w"), Step, x, Start("k", "v"), Step, y, Step, Ret>>),
            Fun_("w", <<Start("l", "u"), Step, z, Step, Ret>>), Plainly("v"), Plainly("u")>>,
          scev)
Family ==
  {FamilyOf(x, y, z, {}) :
     x \in {Ext, Join("h")}, y \in {Join("k"), Br(8)}, z \in {Ext, Join("l")}} \cup
  {FamilyOf(x, y, Join("l"), {<<"main1", "main3">>, <<"main4", "main6">>, <<"w1", "w3">>}) :
     x \in {Ext, Join("h")}, y \in {Join("k"), Br(8)}}

\* Forks in a function that is called twice, in a loop, in a recursion.
Repeated ==
  {Program(<<Fun_("main", <<Step, Call("s"), Step, Call("s"), Step, Ret>>),
             Fun_("s", <<Start("h", "w"), Step, x, Ret>>), Plainly("w")>>, {}) :
     x \in {Ext, Join("h")}} \cup
  {Program(<<Looping("main", <<Step, Start("h", "w"), Step, Br(2), x, Step, Ret>>, 2..4),
             Plainly("w")>>, {}) : x \in {Ext, Join("h")}} \cup
  {Program(<<Looping("main", <<Start("h", "w"), Step, Br(1), JoinIn("h", 6), Br(4), Step, Ret>>,
                     {1, 2, 3, 4, 5}), Plainly("w")>>, scev) :
     scev \in {{}, {<<"main1", "main4">>}}} \cup
  {Program(<<Fun_("main", <<Call("s"), Step, Ret>>),
             Fun_("s", <<Start("h", "w"), Br(5), Call("s"), Step, Step, Ret>>), Plainly("w")>>,
           {}),
   Program(<<Fun_("main", <<Start("h", "s"), Step, Ret>>),
             Fun_("s", <<Br(4), Start("k", "s"), Step, Step, Ret>>)>>, {})}

\* Functions that fork nothing, called from threads; calls with two targets.
Helpers ==
  {Program(<<Fun_("main", <<Start("h", "w"), x, Step, Join("h"), Step, Ret>>),
             Fun_("w", <<y, Step, Ret>>), Plainly("f"), Fun_("g", <<Step, Call("f"), Ret>>),
             Fun_("k", <<Start("l", "f"), Step, Ret>>)>>, {}) :
     x \in {Call("f"), Call("g"), CallAny("f", "g")}, y \in {Call("g"), CallAny("g", "f"), Ext}}

\* Locks in one function, across calls, on some paths only, around forks.
WithLocks ==
  {Program(<<Fun_("main", <<Start("h", "w"), Lock("a"), Step, Unlock("a"), Step, Ret>>),
             Fun_("w", w), Fun_("f", <<Lock("a"), Step, Ret>>)>>, {}) :
     w \in {<<Lock("a"), Step, Unlock("a"), Ret>>, <<Lock("b"), Step, Unlock("b"), Ret>>,
            <<Step, Br(5), Lock("a"), Step, Step, Unlock("a"), Ret>>,
            <<Lock("a"), Br(4), Step, Step, Unlock("a"), Ret>>,
            <<Call("f"), Step, Unlock("a"), Ret>>,
            <<Br(3), Lock("a"), Step, Step, Unlock("a"), Ret>>}} \cup
  {Program(<<Fun_("main", <<Start("h", "w"), Call("f"), Step, Unlock("a"), Step, Ret>>),
             Fun_("w", w), Fun_("f", <<Lock("a"), Step, Ret>>)>>, {}) :
     w \in {<<Call("f"), Step, Ret>>, <<Lock("b"), Call("f"), Step, Unlock("b"), Step, Ret>>,
            <<Br(4), Call("f"), Step, Step, Ret>>}} \cup
  {Program(<<Fun_("main", <<Lock("a"), Start("h", "w"), Step, Unlock("a"), Ret>>),
             Fun_("w", <<Step, Lock("a"), Step, Unlock("a"), Ret>>)>>, {})} \cup
  \* one function as several threads
  {Program(<<main, Fun_("w", w), Fun_("f", <<Lock("a"), Step, Ret>>)>>, {}) :
     main \in {Fun_("main", <<Start("h", "w"), Start("k", "w"), Step, Ret>>),
               Looping("main", <<Start("h", "w"), Br(1), Step, Ret>>, 1..2)},
     w \in {<<Step, Lock("a"), Step, Unlock("a"), Ret>>, <<Call("f"), Step, Ret>>}}

\* What WithLocks has none of: a lock on one of two paths that meet right
\* after it and not released in its function; the use of what the thread
\* that is started under a lock does; a function with a lock, started in a
\* loop, with a statement outside of the lock (the case of LeftAlone).
Unprotected ==
  {Program(<<Fun_("main", <<Start("h", "w"), Lock("a"), Step, Unlock("a"), Ret>>),
             Fun_("w", <<Br(3), Lock("a"), Step, Ret>>)>>, {}),
   Program(<<Fun_("main", <<Lock("a"), Start("h", "w"), Step, Unlock("a"), Ret>>),
             Plainly("w")>>, {}),
   Program(<<Looping("main", <<Start("h", "w"), Br(1), Ret>>, 1..2),
             Fun_("w", <<Step, Lock("a"), Step, Unlock("a"), Ret>>)>>, {})}

ThreadCases == OneThread \cup Family \cup Repeated \cup Helpers \cup WithLocks
=============================================================================
