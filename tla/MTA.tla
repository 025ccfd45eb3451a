-------------------------------- MODULE MTA --------------------------------
(***************************************************************************)
(* The multi-threaded analysis (MTA): the thread tree, what happens in       *)
(* parallel and the locks, one after the other, and then the program itself *)
(* runs, with its threads interleaved in every way, to be held against what *)
(* the analyses have said.                                                  *)
(***************************************************************************)
EXTENDS MHP, LockAnalysis

CONSTANTS MaxThreads, MaxDepth   \* bounds of a run: threads started, calls active

VARIABLES
  threads,      \* of each thread that was started its stack of instructions, the next one last
  handles,      \* the thread last started under each handle
  holds,        \* the thread that holds each lock
  clean         \* threads for which nothing was done that LockAnalysis leaves out (see Locked)

runVars == <<threads, handles, holds, clean>>
mtaVars == <<code, stage, tct, multiforked, mhpVars, lockVars, runVars>>

MTAInit ==
  /\ TCTInit /\ LockInit
  /\ root = 0 /\ cxtStmtList = <<>> /\ aliveFlag = <<>> /\ interleav = <<>>
  /\ pairs = [HB |-> {}, HP |-> {}, full |-> {}, partial |-> {}, joined |-> {}, inLoop |-> {}]
  /\ threads = <<<<code.first["main"]>>>> /\ clean = {1}
  /\ handles = <<>> /\ holds = <<>>
-----------------------------------------------------------------------------
(* The program runs: thread t is at i and goes on at n. *)

At(t) == Last(threads[t])
Alive == {t \in DOMAIN threads : threads[t] # <<>>}
GoTo(t, n) == [threads EXCEPT ![t] = Append(Front(@), n)]

RunPlain(t, n) ==
  /\ At(t) \in {i \in Inst : Is("plain", i) \/ (Is("call", i) /\ Callees(i) = {})}
  /\ threads' = GoTo(t, n)
  /\ UNCHANGED <<handles, holds, clean>>

RunFork(t, n) ==
  /\ Is("fork", At(t)) /\ Len(threads) < MaxThreads
  /\ \E g \in Callees(At(t)) : threads' = Append(GoTo(t, n), <<code.first[g]>>)
  /\ handles' = (code.at[At(t)].handle :> Len(threads) + 1) @@ handles
  \* the child is taken to hold what the parent holds
  /\ clean' = IF t \in clean /\ t \notin Range(holds) THEN clean \cup {Len(threads) + 1} ELSE clean
  /\ UNCHANGED holds

\* A join waits for the thread; a handle that is not set makes it return.
RunJoin(t, n) ==
  LET h == code.at[At(t)].handle
  IN /\ Is("join", At(t))
     /\ h \in DOMAIN handles => handles[h] \notin Alive
     /\ threads' = GoTo(t, n)
     /\ UNCHANGED <<handles, holds, clean>>

RunLock(t, n) ==
  LET k == code.at[At(t)].lock
  IN /\ Is("lock", At(t)) /\ k \notin DOMAIN holds
     /\ holds' = (k :> t) @@ holds
     /\ threads' = GoTo(t, n)
     /\ UNCHANGED <<handles, clean>>

RunUnlock(t, n) ==
  LET k == code.at[At(t)].lock
  IN /\ Is("unlock", At(t))
     /\ holds' = [l \in {m \in DOMAIN holds : m # k \/ holds[m] # t} |-> holds[l]]
     /\ threads' = GoTo(t, n)
     /\ clean' = clean \ {t}     \* nothing after a release was analysed
     /\ UNCHANGED handles

RunCall(t) ==
  /\ Is("call", At(t)) /\ Len(threads[t]) < MaxDepth
  /\ \E g \in Callees(At(t)) : threads' = [threads EXCEPT ![t] = Append(@, code.first[g])]
  /\ UNCHANGED <<handles, holds, clean>>

RunRet(t) ==
  /\ Is("ret", At(t))
  /\ LET rest == Front(threads[t])
     IN IF rest = <<>> THEN threads' = [threads EXCEPT ![t] = <<>>]
        ELSE \E n \in Next_(Last(rest)) : threads' = [threads EXCEPT ![t] = Append(Front(rest), n)]
  /\ UNCHANGED <<handles, holds, clean>>

Run ==
  /\ stage = "run"
  /\ \E t \in Alive :
       \/ RunCall(t) \/ RunRet(t)
       \/ \E n \in Next_(At(t)) :
            RunPlain(t, n) \/ RunFork(t, n) \/ RunJoin(t, n) \/ RunLock(t, n) \/ RunUnlock(t, n)
  /\ UNCHANGED <<code, stage, tct, multiforked, mhpVars, lockVars>>

MTANext ==
  \/ (Build \/ collectMultiForkedThreads) /\ UNCHANGED <<mhpVars, lockVars, runVars>>
  \/ /\ \/ StartForkJoin \/ ForkJoinStep \/ ForkJoinDone
        \/ StartInterleaving \/ InterleavingStep \/ InterleavingDone
     /\ UNCHANGED <<lockVars, runVars>>
  \/ (StartLocks \/ LockStep \/ LocksDone) /\ UNCHANGED <<mhpVars, runVars>>
  \/ Run
-----------------------------------------------------------------------------
\* Two threads that are about to execute statements at the same time.
Together ==
  {x \in Alive \X Alive : x[1] # x[2] /\ Is("plain", At(x[1])) /\ Is("plain", At(x[2]))}

(* Statements that two threads are about to execute at the same time may     *)
(* happen in parallel (mayHappenInParallel), whatever was asked before, and  *)
(* are not executed by one thread only (executedByTheSameThread).            *)
ParallelFound ==
  stage = "run" =>
    \A x \in Together :
      /\ mayHappenInParallel(At(x[1]), At(x[2])) = {TRUE}
      /\ ~executedByTheSameThread(At(x[1]), At(x[2]))

\* The same statement, analysed in one context only and with no lock in it: the
\* loop over the pairs of contexts passes over equal ones, finds no other, and
\* answers that the statement is protected from itself (LockAnalysis.cpp:619).
LeftAlone(i) == \E cs \in InContext(i) : InContext(i) = {cs} /\ lockSets[cs] = {}

(* Statements that are said to be protected by a common lock                 *)
(* (isProtectedByCommonLock) are not executed at the same time by two        *)
(* threads: always if both lie inside locks of their functions, else as long *)
(* as both threads were started outside of locks and have released none, and *)
(* it is not one statement that is left alone. AlwaysExclude is the claim    *)
(* without these exceptions, and it fails.                                   *)
Locked(x) ==
  \/ isInsideIntraLock(At(x[1])) /\ isInsideIntraLock(At(x[2]))
  \/ /\ x[1] \in clean /\ x[2] \in clean
     /\ At(x[1]) = At(x[2]) => ~LeftAlone(At(x[1]))
LocksExclude ==
  stage = "run" =>
    \A x \in Together : Locked(x) => ~isProtectedByCommonLock(At(x[1]), At(x[2]))

(* As LocksExclude, for all statements.                                      *)
AlwaysExclude ==
  stage = "run" =>
    \A x \in Together : ~isProtectedByCommonLock(At(x[1]), At(x[2]))

(* A lock that is met on the way was collected before in the same context    *)
(* (the assertion of analyzeLockSpanCxtStmt, LockAnalysis.cpp:359).          *)
LocksCollected ==
  stage = "run" => \A cs \in DOMAIN lockSets : Is("lock", cs[2]) => cs \in cxtLockset

ThreadsCorrect == ParallelFound /\ LocksExclude /\ LocksCollected
=============================================================================
