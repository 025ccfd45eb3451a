-------------------------------- MODULE TCT --------------------------------
(***************************************************************************)
(* The thread creation tree (TCT): which threads a program may create, in   *)
(* which calling context, and which of them more than once. It is built     *)
(* along the call graph, in which a fork site has an edge to the routine    *)
(* it starts (ThreadCallGraph).                                             *)
(*                                                                          *)
(* A context is a sequence of call sites with their callees; calls inside   *)
(* a component of the call graph are left out of it, and so are those of    *)
(* functions that have nothing to do with forks and joins.                  *)
(***************************************************************************)
EXTENDS Integers, Sequences, FiniteSets, SequencesExt, Functions

CONSTANTS
  ThreadPrograms,   \* programs (see IsThreadProgram)
  NoFork            \* the fork site of the main thread

VARIABLES
  code,             \* the program
  stage,            \* what is going on
  tct,              \* the threads: [nodes, edges, list, visited], see build
  multiforked       \* threads that stand for several

Kinds == {"plain", "call", "ret", "fork", "join", "lock", "unlock"}
IsThreadProgram(P) ==
  /\ DOMAIN P.first = Range(P.funs) /\ DOMAIN P.last = Range(P.funs)
  /\ DOMAIN P.body = Range(P.funs) /\ DOMAIN P.entryEnd = Range(P.funs)
  /\ \A f \in Range(P.funs) :
       /\ P.first[f] \in Range(P.body[f]) /\ P.last[f] \in Range(P.body[f])
       /\ P.at[P.last[f]].kind = "ret"
       /\ \A i \in Range(P.body[f]) : P.at[i].fun = f /\ P.at[i].next \subseteq Range(P.body[f])
  /\ \A i \in DOMAIN P.at :
       /\ P.at[i].kind \in Kinds /\ Range(P.at[i].callees) \subseteq Range(P.funs)
       /\ P.at[i].kind \notin {"call", "fork"} => P.at[i].callees = <<>>
  /\ P.sameSCEV \subseteq (DOMAIN P.at) \X (DOMAIN P.at)
TCTAssumption == \A P \in ThreadPrograms : IsThreadProgram(P)
-----------------------------------------------------------------------------
(* The call graph, fork edges included. Calls of functions without a body   *)
(* have no callee here; they change no context.                             *)

Inst == DOMAIN code.at
Fun == Range(code.funs)
Is(kind, i) == code.at[i].kind = kind
FunOf(i) == code.at[i].fun
Next_(i) == code.at[i].next
Callees(i) == Range(code.at[i].callees)

CallSites(f) == {i \in Inst : f \in Callees(i)}
Callers(f) == {FunOf(i) : i \in CallSites(f)}
RetSites(f) == {i \in CallSites(f) : Is("call", i)}

Backward(S) ==
  LET grow[n \in Nat] ==
        IF n = 0 THEN S ELSE LET T == grow[n - 1] IN T \cup UNION {Callers(f) : f \in T}
  IN grow[Cardinality(Fun)]
CallersOf(f) == Backward({f})                               \* with f itself
InCycle(f) == f \in Backward(Callers(f))
inSameCallGraphSCC(f, g) == f \in CallersOf(g) /\ g \in CallersOf(f)

\* markRelProcs: functions from which a fork or join is reached, and routines.
Forks == {i \in Inst : Is("fork", i)}
Joins == {i \in Inst : Is("join", i)}
candidateFuncSet ==
  Backward({FunOf(i) : i \in Forks \cup Joins}) \cup UNION {Callees(i) : i \in Forks}
isCandidateFun(f) == f \in candidateFuncSet
EntryFuns == SelectSeq(code.funs, LAMBDA f : CallSites(f) = {})

\* The function of the instruction, or a function that calls it, is in a loop
\* or a cycle.
isInLoopInstruction(i) ==
  \E j \in {i} \cup UNION {CallSites(f) : f \in CallersOf(FunOf(i))} : code.at[j].inLoop
isInRecursion(i) == \E f \in CallersOf(FunOf(i)) : InCycle(f)

\* A join in a loop it is not left without: the loop's exits are where the
\* threads are joined.
hasJoinLoop(i) == code.at[i].exits # {}
-----------------------------------------------------------------------------
(* Contexts: relevant says which callers count. *)

PushOn(cxt, call, callee, relevant(_)) ==
  IF relevant(FunOf(call)) /\ ~inSameCallGraphSCC(FunOf(call), callee)
  THEN Append(cxt, <<call, callee>>) ELSE cxt
\* The contexts, one or none, in which a callee returns to the call.
MatchOn(cxt, call, callee, relevant(_)) ==
  IF ~relevant(FunOf(call)) \/ cxt = <<>> \/ inSameCallGraphSCC(FunOf(call), callee) THEN {cxt}
  ELSE IF Last(cxt) = <<call, callee>> THEN {Front(cxt)} ELSE {}

pushCxt(cxt, call, callee) == PushOn(cxt, call, callee, isCandidateFun)
matchCxt(cxt, call, callee) == MatchOn(cxt, call, callee, isCandidateFun)
-----------------------------------------------------------------------------
(* build: the tree grows as pairs of a thread with a context and a function *)
(* are taken from a list; a pair that is visited is not taken again.        *)

Tid == DOMAIN tct.nodes
Push(queue, x) == IF x \in Range(queue) THEN queue ELSE Append(queue, x)
pushToCTPWorkList(t, ctp) ==
  IF ctp \in t.visited THEN t
  ELSE [t EXCEPT !.list = Push(@, ctp), !.visited = @ \cup {ctp}]

IdOf(t, cxt, fork) == CHOOSE n \in DOMAIN t.nodes : t.nodes[n].cxt = cxt /\ t.nodes[n].fork = fork
getOrCreateTCTNode(t, cxt, fork, oldCxt, routine) ==
  IF \E n \in DOMAIN t.nodes : t.nodes[n].cxt = cxt /\ t.nodes[n].fork = fork THEN t
  ELSE [t EXCEPT !.nodes = Append(@, [cxt |-> cxt, fork |-> fork, forkCxt |-> oldCxt,
          routine |-> routine, inloop |-> fork # NoFork /\ isInLoopInstruction(fork),
          incycle |-> fork # NoFork /\ isInRecursion(fork)])]

handleCallRelation(t, ctp, call, callee) ==
  LET cxt == pushCxt(ctp.cxt, call, callee)
      made == getOrCreateTCTNode(t, cxt, call, ctp.cxt, callee)
      spawnee == [tid |-> IdOf(made, cxt, call), cxt |-> cxt, proc |-> callee]
      seen == spawnee \in made.visited
  IN IF Is("call", call)
     THEN pushToCTPWorkList(t, [tid |-> ctp.tid, cxt |-> cxt, proc |-> callee])
     ELSE IF seen THEN made
     ELSE [pushToCTPWorkList(made, spawnee) EXCEPT !.edges = @ \cup {<<ctp.tid, spawnee.tid>>}]

\* Call sites of a function with their callees, in order.
CallsOf(f) ==
  FlattenSeq([n \in DOMAIN code.body[f] |->
    [k \in DOMAIN code.at[code.body[f][n]].callees |->
       [call |-> code.body[f][n], callee |-> code.at[code.body[f][n]].callees[k]]]])

\* Entry functions share the thread without a fork site; its routine is the
\* first of them.
NoThreads == [nodes |-> <<>>, edges |-> {}, list |-> <<>>, visited |-> {}]
MainThread ==
  FoldLeft(LAMBDA t, f :
             IF ~isCandidateFun(f) THEN t
             ELSE LET made == getOrCreateTCTNode(t, <<>>, NoFork, <<>>, f)
                  IN pushToCTPWorkList(made,
                       [tid |-> IdOf(made, <<>>, NoFork), cxt |-> <<>>, proc |-> f]),
           NoThreads, EntryFuns)

TCTInit ==
  /\ code \in ThreadPrograms
  /\ stage = "tct" /\ tct = MainThread /\ multiforked = {}

Build ==
  /\ stage = "tct" /\ tct.list # <<>>
  /\ LET ctp == Head(tct.list)
     IN tct' = FoldLeft(LAMBDA t, c : handleCallRelation(t, ctp, c.call, c.callee),
                        [tct EXCEPT !.list = Tail(@)],
                        IF isCandidateFun(ctp.proc) THEN CallsOf(ctp.proc) ELSE <<>>)
  /\ UNCHANGED <<code, stage, multiforked>>

\* From the first thread down; every thread below a multiforked one is one.
MultiForked ==
  LET below[n \in Nat] ==
        IF n = 0 THEN {1} ELSE below[n - 1] \cup {e[2] : e \in {x \in tct.edges : x[1] \in below[n - 1]}}
      repeated == {n \in below[Len(tct.nodes)] : tct.nodes[n].inloop \/ tct.nodes[n].incycle}
      under[n \in Nat] ==
        IF n = 0 THEN repeated
        ELSE under[n - 1] \cup {e[2] : e \in {x \in tct.edges : x[1] \in under[n - 1]}}
  IN under[Len(tct.nodes)]
collectMultiForkedThreads ==
  /\ stage = "tct" /\ tct.list = <<>>
  /\ stage' = "forkjoin"
  /\ multiforked' = IF tct.nodes = <<>> THEN {} ELSE MultiForked
  /\ UNCHANGED <<code, tct>>
-----------------------------------------------------------------------------
Parents(tid) == {e[1] : e \in {x \in tct.edges : x[2] = tid}}
Children(tid) == {e[2] : e \in {x \in tct.edges : x[1] = tid}}
hasParentThread(tid) == Cardinality(Parents(tid)) = 1
getParentThread(tid) == CHOOSE n \in Parents(tid) : TRUE
getAncestorThread(tid) ==
  LET up[S \in SUBSET Tid] ==
        LET more == {getParentThread(n) : n \in {m \in S \cup {tid} : hasParentThread(m)}} \ S
        IN IF more = {} THEN S ELSE up[S \cup more]
  IN up[{}]
getSiblingThread(tid) ==
  IF hasParentThread(tid) THEN Children(getParentThread(tid)) \ {tid} ELSE {}
=============================================================================
