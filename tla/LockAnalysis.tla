---------------------------- MODULE LockAnalysis ----------------------------
(***************************************************************************)
(* Which statements are protected by a common lock. A lock that is released *)
(* on every path in the same function protects what lies between; the other *)
(* statements get, in each context, the locks that are held on all paths to *)
(* them. Locks are compared by what their arguments may point to; here two  *)
(* sites alias if they name the same lock.                                  *)
(***************************************************************************)
EXTENDS TCT, TLC

VARIABLES
  lockList,          \* cxtStmtList of this analysis
  lockSets           \* cxtStmtToCxtLockSet: the lock sites in context held at <<cxt, inst>>

lockVars == <<lockList, lockSets>>

Locks == {i \in Inst : Is("lock", i)}
Unlocks == {i \in Inst : Is("unlock", i)}
isAliasedLocks(i, j) == code.at[i].lock = code.at[j].lock
lockcandidateFuncSet == Backward({FunOf(i) : i \in Locks \cup Unlocks})

\* All contexts count here.
AnyCaller(f) == TRUE
pushLockCxt(cxt, call, callee) == PushOn(cxt, call, callee, AnyCaller)
matchLockCxt(cxt, call, callee) == MatchOn(cxt, call, callee, AnyCaller)
-----------------------------------------------------------------------------
(* Locks inside a function *)

Within(start, next(_)) ==
  LET reach[n \in Nat] ==
        IF n = 0 THEN start ELSE LET S == reach[n - 1] IN S \cup UNION {next(i) : i \in S}
  IN reach[Cardinality(Inst)]
Releases(lock, i) == Is("unlock", i) /\ isAliasedLocks(lock, i)
PredOf(i) == {j \in Inst : i \in Next_(j)}

\* From the lock as far as its releases; it fails if the function may end first.
Forward(lock) == Within({lock}, LAMBDA i : IF Releases(lock, i) THEN {} ELSE Next_(i))
intraForwardTraverse(lock) == code.last[FunOf(lock)] \notin Forward(lock)
\* From the releases back as far as a lock; it fails if the end of the entry
\* block is met on the way.
Back(unlocks) ==
  Within(unlocks, LAMBDA i : IF Is("lock", i) /\ \E u \in unlocks : isAliasedLocks(u, i)
                             THEN {} ELSE PredOf(i))
intraBackwardTraverse(lock) ==
  LET unlocks == {u \in Forward(lock) : Releases(lock, u)}
  IN code.entryEnd[FunOf(lock)] \notin Back(unlocks)

IntraLocks == {k \in Locks : intraForwardTraverse(k) /\ intraBackwardTraverse(k)}
CondIntraLocks == {k \in Locks : intraForwardTraverse(k) /\ ~intraBackwardTraverse(k)}
getIntraLockSet(i) == {k \in IntraLocks : i \in Forward(k)}
isInsideCondIntraLock(i) == \E k \in CondIntraLocks : i \in Forward(k)
isInsideIntraLock(i) == getIntraLockSet(i) # {} \/ isInsideCondIntraLock(i)
-----------------------------------------------------------------------------
(* Locks in context: w is [sets, list]. A statement without a lock set takes *)
(* the locks of the one before it, and later gives up those that another one *)
(* does not hold. It has no set before it is taken from the list as long as  *)
(* those before it held no lock.                                             *)

MarkLocked(w, tgr, src) ==
  IF tgr \notin DOMAIN w.sets
  THEN [sets |-> IF w.sets[src] = {} THEN w.sets ELSE (tgr :> w.sets[src]) @@ w.sets,
        list |-> Push(w.list, tgr)]
  ELSE IF w.sets[tgr] \subseteq w.sets[src] THEN w
  ELSE [sets |-> [w.sets EXCEPT ![tgr] = @ \cap w.sets[src]], list |-> Push(w.list, tgr)]

\* collectCxtLock: the contexts in which a lock site is reached along calls.
cxtLockset ==
  LET procs[n \in Nat] ==
        IF n = 0 THEN {<<<<>>, f>> : f \in lockcandidateFuncSet \cap Range(EntryFuns)}
        ELSE LET S == procs[n - 1]
             IN S \cup {<<pushLockCxt(x[1], c.call, c.callee), c.callee>> :
                  <<x, c>> \in UNION {{y} \X Range(CallsOf(y[2])) :
                                     y \in {z \in S : z[2] \in lockcandidateFuncSet}}}
  IN {<<x[1], i>> : <<x, i>> \in {y \in procs[Cardinality(Fun)] \X Locks : FunOf(y[2]) = y[1][2]}}

LockTargets(cs) ==
  LET i == cs[2]
      after == {<<cs[1], n>> : n \in Next_(i)}
      entries == {<<pushLockCxt(cs[1], i, g), code.first[g]>> : g \in Callees(i)}
  IN CASE Is("fork", i) -> entries \cup after
       [] Is("call", i) /\ Callees(i) # {} -> entries
       [] Is("ret", i) ->
            UNION {UNION {{<<c, n>> : n \in Next_(j)} :
                            c \in matchLockCxt(cs[1], j, FunOf(i))} : j \in RetSites(FunOf(i))}
       [] OTHER -> after

LockInit == lockSets = <<>> /\ lockList = <<>>

StartLocks ==
  /\ stage = "locks"
  /\ stage' = "spans"
  /\ lockList' = FoldLeft(LAMBDA q, f : IF f \in lockcandidateFuncSet
                                        THEN Push(q, <<<<>>, code.first[f]>>) ELSE q,
                          <<>>, EntryFuns)
  /\ UNCHANGED <<code, tct, multiforked, lockSets>>

\* A lock site holds itself from here on. A release takes away the lock that
\* is filed under the release, and goes on only if there was one.
LockStep ==
  /\ stage = "spans" /\ lockList # <<>>
  /\ LET cs == Head(lockList)
         held == IF cs \in DOMAIN lockSets THEN lockSets[cs] ELSE {}
         now == IF Is("lock", cs[2]) THEN held \cup {cs}
                ELSE IF Is("unlock", cs[2]) THEN held \ {cs} ELSE held
         goesOn == Is("lock", cs[2]) \/ Is("unlock", cs[2]) => now # held
         w == FoldSet(LAMBDA t, u : MarkLocked(u, t, cs),
                      [sets |-> (cs :> now) @@ lockSets, list |-> Tail(lockList)],
                      IF goesOn THEN LockTargets(cs) ELSE {})
     IN lockSets' = w.sets /\ lockList' = w.list
  /\ UNCHANGED <<code, stage, tct, multiforked>>

LocksDone ==
  /\ stage = "spans" /\ lockList = <<>>
  /\ stage' = "run"
  /\ UNCHANGED <<code, tct, multiforked, lockSets, lockList>>
-----------------------------------------------------------------------------
(* Queries *)

InContext(i) == {cs \in DOMAIN lockSets : cs[2] = i}
isProtectedByCommonCILock(i, j) ==
  /\ ~isInsideCondIntraLock(i) /\ ~isInsideCondIntraLock(j)
  /\ \E k \in getIntraLockSet(i), l \in getIntraLockSet(j) : isAliasedLocks(k, l)
isProtectedByCommonCxtLock(i, j) ==
  /\ InContext(i) # {} /\ InContext(j) # {}
  /\ \A cs \in InContext(i), ds \in InContext(j) :
       cs # ds => \E k \in lockSets[cs], l \in lockSets[ds] : isAliasedLocks(k[2], l[2])
isProtectedByCommonLock(i, j) ==
  IF isInsideIntraLock(i) /\ isInsideIntraLock(j) THEN isProtectedByCommonCILock(i, j)
  ELSE isProtectedByCommonCxtLock(i, j)

isInSameCISpan(i, j) ==
  /\ ~isInsideCondIntraLock(i) /\ ~isInsideCondIntraLock(j)
  /\ getIntraLockSet(i) \cap getIntraLockSet(j) # {}
isInSameCSSpan(i, j) ==
  /\ InContext(i) # {} /\ InContext(j) # {}
  /\ \A cs \in InContext(i), ds \in InContext(j) : cs # ds => lockSets[cs] \cap lockSets[ds] # {}
isInSameSpan(i, j) ==
  IF isInsideIntraLock(i) /\ isInsideIntraLock(j) THEN isInSameCISpan(i, j)
  ELSE isInSameCSSpan(i, j)
=============================================================================
