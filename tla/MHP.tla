-------------------------------- MODULE MHP --------------------------------
(***************************************************************************)
(* Which statements may happen in parallel (MHP). From each fork the        *)
(* thread is followed through what its parent does next, to find where it   *)
(* is joined (ForkJoinAnalysis); then every statement in its context gets   *)
(* the threads it interleaves with, from the ancestors and siblings of      *)
(* each thread on, until nothing changes. What runs in a function that      *)
(* neither forks nor joins is told by its first statement.                  *)
(*                                                                          *)
(* A fork and a join belong together if the handles alias and have the same *)
(* scalar evolution. isSameSCEV answers false since the scalar evolution of *)
(* LLVM is no longer at hand: this is code.sameSCEV = {}. Other values are  *)
(* what its comment describes.                                              *)
(***************************************************************************)
EXTENDS TCT, TLC

VARIABLES
  root,              \* the thread whose turn it is
  cxtStmtList,       \* the work list
  aliveFlag,         \* whether the root is alive at a statement in a context
  pairs,             \* [HB, HP, full, partial, joined, inLoop]
  interleav          \* threadStmtToTheadInterLeav

mhpVars == <<root, cxtStmtList, aliveFlag, pairs, interleav>>

isSameSCEV(fork, join) == <<fork, join>> \in code.sameSCEV

\* A statement in its context, <<cxt, inst>>, and what follows it.
Intra(cs) == {<<cs[1], n>> : n \in Next_(cs[2])}
CallTargets(cs) ==
  {<<pushCxt(cs[1], cs[2], g), code.first[g]>> : g \in Callees(cs[2])}
RetTargets(cs) ==
  UNION {UNION {{<<c, n>> : n \in Next_(j)} : c \in matchCxt(cs[1], j, FunOf(cs[2]))} :
           j \in RetSites(FunOf(cs[2]))}
LoopExits(cs) == {<<cs[1], n>> : n \in code.at[cs[2]].exits}
Forked(cs) == {IdOf(tct, pushCxt(cs[1], cs[2], g), cs[2]) : g \in Callees(cs[2])}
-----------------------------------------------------------------------------
(* ForkJoinAnalysis: w is [flag, list]. Alive is stronger than dead.        *)

MarkAs(w, tgr, flag) ==
  IF tgr \in DOMAIN w.flag /\ w.flag[tgr] = flag THEN w
  ELSE [flag |-> (tgr :> flag) @@ w.flag, list |-> Push(w.list, tgr)]
MarkFrom(w, tgr, src) ==
  IF tgr \in DOMAIN w.flag /\ (w.flag[tgr] = "alive" \/ w.flag[src] = "dead") THEN w
  ELSE MarkAs(w, tgr, w.flag[src])
MarkAll(w, tgrs, src) == FoldSet(LAMBDA t, u : MarkFrom(u, t, src), w, tgrs)

StartForkJoin ==
  /\ stage = "forkjoin" /\ cxtStmtList = <<>> /\ root < Len(tct.nodes)
  /\ root' = root + 1
  /\ LET node == tct.nodes[root + 1]
         none == [flag |-> <<>>, list |-> <<>>]
         w == IF node.fork = NoFork THEN none
              ELSE FoldSet(LAMBDA n, u : MarkAs(u, <<node.forkCxt, n>>, "alive"),
                           none, Next_(node.fork))
     IN aliveFlag' = w.flag /\ cxtStmtList' = w.list
  /\ UNCHANGED <<code, stage, tct, multiforked, pairs, interleav>>

\* A join of the root ends it, here or at the exits of the loop; another join
\* is passed.
JoinMarks(w, cs) ==
  IF isSameSCEV(tct.nodes[root].fork, cs[2])
  THEN IF hasJoinLoop(cs[2])
       THEN FoldSet(LAMBDA t, u : MarkAs(u, t, "dead"), w, LoopExits(cs))
       ELSE MarkAs(w, cs, "dead")
  ELSE MarkAll(w, LoopExits(cs), cs)

Marks(w, cs) ==
  LET i == cs[2]
  IN CASE Is("join", i) -> LET u == JoinMarks(w, cs) IN MarkAll(u, Intra(cs), cs)
       [] Is("call", i) /\ \E g \in Callees(i) : isCandidateFun(g) ->
            MarkAll(w, CallTargets(cs), cs)
       [] Is("ret", i) -> MarkAll(w, RetTargets(cs), cs)
       [] OTHER -> MarkAll(w, Intra(cs), cs)

ForkJoinStep ==
  /\ stage = "forkjoin" /\ cxtStmtList # <<>>
  /\ LET cs == Head(cxtStmtList)
         i == cs[2]
         w == Marks([flag |-> aliveFlag, list |-> Tail(cxtStmtList)], cs)
         parent == getParentThread(root)
         forked == IF Is("fork", i) THEN {<<root, t>> : t \in Forked(cs)} ELSE {}
         isEnd == i = code.last[tct.nodes[parent].routine]
         isJoin == Is("join", i) /\ isSameSCEV(tct.nodes[root].fork, i)
         before == aliveFlag[cs] # "alive"
     IN /\ aliveFlag' = w.flag /\ cxtStmtList' = w.list
        /\ pairs' = [pairs EXCEPT
             !.HB = IF before THEN @ \cup forked ELSE @,
             !.HP = IF before THEN @ ELSE @ \cup forked \cup {<<e[2], e[1]>> : e \in forked},
             !.joined = IF isJoin THEN @ \cup {<<cs, root>>} ELSE @,
             !.inLoop = IF isJoin /\ hasJoinLoop(i) THEN @ \cup {cs} ELSE @,
             !.full = IF isEnd /\ w.flag[cs] # "alive" THEN @ \cup {<<parent, root>>} ELSE @,
             !.partial = IF isEnd /\ w.flag[cs] = "alive" THEN @ \cup {<<parent, root>>} ELSE @]
  /\ UNCHANGED <<code, stage, tct, multiforked, root, interleav>>

ForkJoinDone ==
  /\ stage = "forkjoin" /\ cxtStmtList = <<>> /\ root = Len(tct.nodes)
  /\ stage' = "mhp" /\ root' = 0
  /\ UNCHANGED <<code, tct, multiforked, cxtStmtList, aliveFlag, pairs, interleav>>

isHBPair(t, u) == <<t, u>> \in pairs.HB \ pairs.HP
isFullJoin(t, u) == <<t, u>> \in pairs.full \ pairs.partial
Joined(cs) == {t \in Tid : <<cs, t>> \in pairs.joined}
getDirAndIndJoinedTid(cs) ==
  LET down[n \in Nat] ==
        IF n = 0 THEN Joined(cs)
        ELSE LET S == down[n - 1]
             IN S \cup UNION {{u \in Children(t) : isFullJoin(t, u)} : t \in S}
  IN down[Len(tct.nodes)]

\* Every parent on the way up joins its child, as far as parentTid.
isRecurFullJoin(parentTid, curTid) ==
  LET up[n \in Nat, t \in Tid] ==
        \/ t = parentTid
        \/ /\ n > 0
           /\ \A u \in Parents(t) : isFullJoin(u, t)
           /\ \E u \in Parents(t) : up[n - 1, u]
  IN up[Len(tct.nodes), curTid]
isMustJoin(tid, joinsite) == tid \notin multiforked /\ ~isInRecursion(joinsite)
-----------------------------------------------------------------------------
(* MHP: m is [il, list]; a statement of a thread is <<tid, cxt, inst>>. *)

getInterleavingThreads(il, ts) == IF ts \in DOMAIN il THEN il[ts] ELSE {}
AddTo(m, tgr, tids) ==
  LET now == getInterleavingThreads(m.il, tgr)
  IN IF tids \subseteq now THEN m
     ELSE [il |-> (tgr :> (now \cup tids)) @@ m.il, list |-> Push(m.list, tgr)]
AddAll(m, tgrs, src) == FoldSet(LAMBDA t, u : AddTo(u, t, u.il[src]), m, tgrs)
rmInterleavingThread(m, tgr, tids, joinsite) ==
  LET gone == IF isMustJoin(tgr[1], joinsite) THEN m.il[tgr] \cap tids ELSE {}
  IN IF gone = {} THEN m
     ELSE [il |-> [m.il EXCEPT ![tgr] = @ \ gone], list |-> Push(m.list, tgr)]
OfThread(tid, css) == {<<tid, cs[1], cs[2]>> : cs \in css}

StartOf(tid) == <<tid, tct.nodes[tid].cxt, code.first[tct.nodes[tid].routine]>>
AncestorThreads_Own(tid) ==
  {<<getParentThread(tid), tct.nodes[tid].forkCxt, n>> :
     n \in IF tct.nodes[tid].fork = NoFork THEN {} ELSE Next_(tct.nodes[tid].fork)}
\* What the ancestors of a thread, and it itself, do after the fork below.
AncestorThreads(tid) ==
  UNION {{<<getParentThread(t), tct.nodes[t].forkCxt, n>> : n \in Next_(tct.nodes[t].fork)} :
           t \in {u \in getAncestorThread(tid) \cup {tid} : tct.nodes[u].fork # NoFork}}
SiblingThreads(tid) ==
  UNION {{StartOf(s) : s \in {u \in getSiblingThread(t) :
                               ~(isHBPair(t, u) /\ isRecurFullJoin(t, tid)) /\ ~isHBPair(u, t)}} :
           t \in getAncestorThread(tid) \cup {tid}}

StartInterleaving ==
  /\ stage = "mhp" /\ cxtStmtList = <<>> /\ root < Len(tct.nodes)
  /\ root' = root + 1
  /\ LET m == FoldSet(LAMBDA t, u : AddTo(u, t, {root + 1}),
                      [il |-> interleav, list |-> <<>>],
                      {StartOf(root + 1)} \cup AncestorThreads(root + 1)
                        \cup SiblingThreads(root + 1))
     IN interleav' = m.il /\ cxtStmtList' = m.list
  /\ UNCHANGED <<code, stage, tct, multiforked, aliveFlag, pairs>>

handleNonCandidateFun(m, ts) ==
  AddAll(m, {<<ts[1], ts[2], code.first[g]>> :
               g \in UNION {Callees(j) : j \in Range(code.body[FunOf(ts[3])])}}, ts)
handleFork(m, ts, cs) ==
  AddAll(m, {StartOf(t) : t \in Forked(cs)} \cup OfThread(ts[1], Intra(cs)), ts)
handleJoin(m, ts, cs) ==
  LET joined == getDirAndIndJoinedTid(cs)
      exits == OfThread(ts[1], LoopExits(cs))
      out == AddAll(m, exits, ts)
      cut == IF joined = {} THEN out
             ELSE IF ~hasJoinLoop(cs[2]) THEN rmInterleavingThread(m, ts, joined, cs[2])
             ELSE IF cs \notin pairs.inLoop THEN out
             ELSE FoldSet(LAMBDA t, u : rmInterleavingThread(u, t, joined, cs[2]), out, exits)
  IN AddAll(cut, OfThread(ts[1], Intra(cs)), ts)
\* A call of functions none of which is relevant is also passed.
handleCall(m, ts, cs) ==
  AddAll(m, OfThread(ts[1], CallTargets(cs) \cup
              (IF \E g \in Callees(cs[2]) : isCandidateFun(g) THEN {} ELSE Intra(cs))), ts)

InterleavingStep ==
  /\ stage = "mhp" /\ cxtStmtList # <<>>
  /\ LET ts == Head(cxtStmtList)
         cs == <<ts[2], ts[3]>>
         m == [il |-> interleav, list |-> Tail(cxtStmtList)]
         n == CASE ~isCandidateFun(FunOf(ts[3])) -> handleNonCandidateFun(m, ts)
                [] Is("fork", ts[3]) -> handleFork(m, ts, cs)
                [] Is("join", ts[3]) -> handleJoin(m, ts, cs)
                [] Is("call", ts[3]) -> handleCall(m, ts, cs)
                [] Is("ret", ts[3]) -> AddAll(m, OfThread(ts[1], RetTargets(cs)), ts)
                [] OTHER -> AddAll(m, OfThread(ts[1], Intra(cs)), ts)
     IN interleav' = n.il /\ cxtStmtList' = n.list
  /\ UNCHANGED <<code, stage, tct, multiforked, root, aliveFlag, pairs>>

\* updateNonCandidateFunInterleaving: all statements are as the first one.
InterleavingDone ==
  /\ stage = "mhp" /\ cxtStmtList = <<>> /\ root = Len(tct.nodes)
  /\ stage' = "locks"
  /\ LET entries == {ts \in DOMAIN interleav :
                       /\ ~isCandidateFun(FunOf(ts[3])) /\ ts[3] = code.first[FunOf(ts[3])]}
         inside == UNION {{<<ts[1], ts[2], i>> : i \in Range(code.body[FunOf(ts[3])])} : ts \in entries}
         entryOf(ts) == <<ts[1], ts[2], code.first[FunOf(ts[3])]>>
     IN interleav' = [ts \in DOMAIN interleav \cup inside |->
                        getInterleavingThreads(interleav, ts) \cup
                        (IF ts \in inside THEN interleav[entryOf(ts)] ELSE {})]
  /\ UNCHANGED <<code, tct, multiforked, root, cxtStmtList, aliveFlag, pairs>>
-----------------------------------------------------------------------------
(* Queries *)

ThreadStmts(i) == {ts \in DOMAIN interleav : ts[3] = i}
mayHappenInParallelInst(i, j) ==
  \E ts \in ThreadStmts(i), us \in ThreadStmts(j) :
    IF ts[1] # us[1] THEN us[1] \in interleav[ts] /\ ts[1] \in interleav[us]
    ELSE ts[1] \in multiforked

\* Answers for functions that are not relevant are remembered for the two
\* functions: an answer is that of any two statements of them.
mayHappenInParallel(i, j) ==
  IF isCandidateFun(FunOf(i)) \/ isCandidateFun(FunOf(j)) THEN {mayHappenInParallelInst(i, j)}
  ELSE {mayHappenInParallelInst(k, l) :
          k \in Range(code.body[FunOf(i)]), l \in Range(code.body[FunOf(j)])}

executedByTheSameThread(i, j) ==
  \A ts \in ThreadStmts(i), us \in ThreadStmts(j) : ts[1] = us[1] /\ ts[1] \notin multiforked
=============================================================================
