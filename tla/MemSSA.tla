------------------------------- MODULE MemSSA -------------------------------
(***************************************************************************)
(* Memory SSA of one function after the other: every load, store and call  *)
(* site has the regions it uses (mu) and may define (chi); phis are placed  *)
(* by dominance frontiers, and a walk down the dominator tree names the     *)
(* version each use reads. The stacks of versions belong to regions, which  *)
(* functions share, and outlive the function.                               *)
(***************************************************************************)
EXTENDS Naturals, Sequences, FiniteSets, SequencesExt

CONSTANTS
  Block, Entry,   \* basic blocks, the first one
  Region,         \* memory regions
  Functions,      \* [succ: [Block -> SUBSET Block], exit: SUBSET Block,
                  \*  stmts: [Block -> Seq([mu, chi: SUBSET Region])]]
  MaxFunctions    \* how many are built

MemSSAAssumption ==
  /\ Entry \in Block /\ IsFiniteSet(Block) /\ MaxFunctions \in Nat
  /\ \A f \in Functions : /\ \A b \in Block : Entry \notin f.succ[b]
                          /\ Cardinality(f.exit) <= 1

VARIABLES
  phase,       \* "idle", "phi", "rename"
  built,       \* the number of functions begun
  fun,         \* the function
  dom,         \* its [kids, frontier], as LLVM gives them
  usedRegs,    \* regions that are used before they are killed in some block
  work,        \* reg2BBMap, the blocks whose frontiers are still to visit
  phis,        \* the blocks that have a phi of a region
  stack,       \* mr2VerStackMap
  frames,      \* the calls of SSARenameBB: [bb, kids, pushed]
  reads,       \* the version of each mu and each operand of a chi
  phiOps       \* the operands of each phi, [bb, reg, pred, ver]

vars == <<phase, built, fun, dom, usedRegs, work, phis, stack, frames, reads, phiOps>>
-----------------------------------------------------------------------------
(* What LLVM computes: reachable blocks, the dominator tree, frontiers. *)
ReachWithout(f, avoid) ==
  LET more(S) == S \cup (UNION {f.succ[b] : b \in S} \ avoid)
      it[i \in Nat] == IF i = 0 THEN {Entry} \ avoid ELSE more(it[i-1])
  IN  it[Cardinality(Block)]
ReachableBBs(f) == ReachWithout(f, {})

Dominated(f, d) == ReachableBBs(f) \ ReachWithout(f, {d})
Strictly(f, d) == Dominated(f, d) \ {d}
Kids(f, d) == {b \in Strictly(f, d) : \A c \in Strictly(f, d) : b \notin Strictly(f, c)}
Frontier(f, d) == UNION {f.succ[b] : b \in Dominated(f, d)} \ Strictly(f, d)

DomInfo(f) ==
  LET R == ReachableBBs(f)
  IN  [kids |-> [b \in Block |-> IF b \in R THEN Kids(f, b) ELSE {}],
       frontier |-> [b \in Block |-> IF b \in R THEN Frontier(f, b) ELSE {}]]
-----------------------------------------------------------------------------
(* A version is named by the definition it comes from. *)
Version(kind, b, n) == [fun |-> built, kind |-> kind, bb |-> b, n |-> n]
NoVersion == [fun |-> 0, kind |-> "none", bb |-> Entry, n |-> 0]

TopStackVer(s) == IF s = <<>> THEN NoVersion ELSE Last(s)

NoFun == [succ |-> [b \in Block |-> {}], exit |-> {}, stmts |-> [b \in Block |-> <<>>]]

Init ==
  /\ phase = "idle" /\ built = 0 /\ fun = NoFun /\ dom = DomInfo(NoFun)
  /\ usedRegs = {} /\ frames = <<>> /\ reads = {} /\ phiOps = {}
  /\ work = [r \in Region |-> <<>>] /\ phis = [r \in Region |-> {}]
  /\ stack = [r \in Region |-> <<>>]

Stmts(f, b) == DOMAIN f.stmts[b]
Accessed(s) == s.mu \cup s.chi
Defs(f, b, r) == {i \in Stmts(f, b) : r \in f.stmts[b][i].chi}

(* The regions some block uses before it kills them. The operand of a chi is a
   use, so this is every region the function accesses. *)
UsedRegs_MuOnly(f) ==
  {r \in Region : \E b \in ReachableBBs(f) : \E i \in Stmts(f, b) :
     /\ r \in f.stmts[b][i].mu /\ \A j \in Defs(f, b, r) : j >= i}
UsedRegs(f) ==
  {r \in Region : \E b \in ReachableBBs(f) : \E i \in Stmts(f, b) :
     /\ r \in Accessed(f.stmts[b][i]) /\ \A j \in Defs(f, b, r) : j >= i}

(* The stack of a region when the function begins: its entry chi alone. *)
Entered_Stale(r, old) ==
  IF old # <<>> THEN old
  ELSE <<[fun |-> built + 1, kind |-> "entry", bb |-> Entry, n |-> 0]>>
Entered(r, old) == <<[fun |-> built + 1, kind |-> "entry", bb |-> Entry, n |-> 0]>>

(* createMUCHI. *)
CreateMUCHI(f) ==
  /\ phase = "idle" /\ built < MaxFunctions
  /\ built' = built + 1 /\ fun' = f /\ dom' = DomInfo(f) /\ phase' = "phi"
  /\ usedRegs' = UsedRegs(f)
  /\ work' = [r \in Region |->
       SetToSeq({b \in ReachableBBs(f) : Defs(f, b, r) # {}})]
  /\ stack' = [r \in Region |-> IF r \in UsedRegs(f) THEN Entered(r, stack[r]) ELSE stack[r]]
  /\ phis' = [r \in Region |-> {}] /\ reads' = {} /\ phiOps' = {} /\ frames' = <<>>

(* insertPHI: the frontier of one block. A block that gets a phi is a
   definition too, and its own frontier is visited. *)
NewPhis_Again(r, b) == dom.frontier[b]
NewPhis_Succ(r, b) == fun.succ[b] \ phis[r]
NewPhis(r, b) == dom.frontier[b] \ phis[r]

More_None(r, rest, new) == rest
More(r, rest, new) == rest \o SetToSeq(new)

InsertPHI(r) ==
  /\ phase = "phi" /\ r \in usedRegs /\ work[r] # <<>>
  /\ LET new == NewPhis(r, Last(work[r]))
     IN  /\ phis' = [phis EXCEPT ![r] = @ \cup new]
         /\ work' = [work EXCEPT ![r] = More(r, Front(@), new)]
  /\ UNCHANGED <<phase, built, fun, dom, usedRegs, stack, frames, reads, phiOps>>

(* What block b pushes for r before statement i: its phi and its chis. *)
Pushed(b, i, r) ==
  (IF b \in phis[r] THEN <<Version("phi", b, 0)>> ELSE <<>>)
  \o [k \in 1..Cardinality({j \in Defs(fun, b, r) : j < i}) |->
        Version("chi", b, SetToSortSeq(Defs(fun, b, r), <)[k])]

PushedAll(b, r) == Pushed(b, Len(fun.stmts[b]) + 1, r)

(* The versions that block b reads, given the stacks on entry to it. *)
Reads(b) ==
  {[bb |-> b, n |-> i, reg |-> r, ver |-> TopStackVer(stack[r] \o Pushed(b, i, r))] :
     <<i, r>> \in {x \in Stmts(fun, b) \X Region : x[2] \in Accessed(fun.stmts[b][x[1]])}}

(* The mu at the return has the version at the end of its block. *)
ReturnReads(b) ==
  {[bb |-> b, n |-> 0, reg |-> r, ver |-> TopStackVer(stack[r] \o PushedAll(b, r))] :
     r \in IF b \in fun.exit THEN usedRegs ELSE {}}

PhiOps_Early(b) ==
  {[bb |-> x[1], reg |-> x[2], pred |-> b, ver |-> TopStackVer(stack[x[2]])] :
     x \in {y \in fun.succ[b] \X Region : y[1] \in phis[y[2]]}}
PhiOps(b) ==
  {[bb |-> x[1], reg |-> x[2], pred |-> b,
    ver |-> TopStackVer(stack[x[2]] \o PushedAll(b, x[2]))] :
     x \in {y \in fun.succ[b] \X Region : y[1] \in phis[y[2]]}}

(* SSARenameBB down to the recursive calls. *)
Enter(b, outer) ==
  /\ reads' = reads \cup Reads(b) \cup ReturnReads(b)
  /\ phiOps' = phiOps \cup PhiOps(b)
  /\ stack' = [r \in Region |-> stack[r] \o PushedAll(b, r)]
  /\ frames' = Append(outer, [bb |-> b, kids |-> dom.kids[b],
                              pushed |-> [r \in Region |-> Len(PushedAll(b, r))]])

SSARename ==
  /\ phase = "phi" /\ \A r \in usedRegs : work[r] = <<>>
  /\ phase' = "rename"
  /\ Enter(Entry, <<>>)
  /\ UNCHANGED <<built, fun, dom, usedRegs, work, phis>>

Top == Last(frames)
Visit(b) ==
  /\ phase = "rename" /\ b \in Top.kids
  /\ Enter(b, [frames EXCEPT ![Len(frames)].kids = @ \ {b}])
  /\ UNCHANGED <<phase, built, fun, dom, usedRegs, work, phis>>

(* A block is left: what it pushed is popped. *)
Popped_One(r) == IF stack[r] = <<>> THEN <<>> ELSE Front(stack[r])
Popped(r) == SubSeq(stack[r], 1, Len(stack[r]) - Top.pushed[r])

Leave ==
  /\ phase = "rename" /\ Top.kids = {}
  /\ stack' = [r \in Region |-> IF Top.pushed[r] = 0 THEN stack[r] ELSE Popped(r)]
  /\ frames' = Front(frames)
  /\ phase' = IF Len(frames) = 1 THEN "idle" ELSE phase
  /\ UNCHANGED <<built, fun, dom, usedRegs, work, phis, reads, phiOps>>

Step == (\E r \in Region : InsertPHI(r)) \/ SSARename \/ (\E b \in Block : Visit(b)) \/ Leave
Begin == \E f \in Functions : CreateMUCHI(f)
Next == Step \/ Begin

Spec == Init /\ [][Next]_vars
FairSpec == Spec /\ WF_vars(Step)
-----------------------------------------------------------------------------
VersionOK(v) ==
  /\ v.fun \in 0..MaxFunctions /\ v.kind \in {"none", "entry", "phi", "chi"}
  /\ v.bb \in Block /\ v.n \in Nat

TypeOK ==
  /\ phase \in {"idle", "phi", "rename"} /\ built \in 0..MaxFunctions
  /\ usedRegs \subseteq Region /\ phis \in [Region -> SUBSET Block]
  /\ \A r \in Region : /\ \A i \in DOMAIN work[r] : work[r][i] \in Block
                       /\ \A i \in DOMAIN stack[r] : VersionOK(stack[r][i])
  /\ \A x \in reads \cup phiOps : VersionOK(x.ver)
  /\ phase = "rename" <=> frames # <<>>
  /\ \A r \in usedRegs : Len(stack[r]) = 1 + FoldFunction(+, 0,
       [i \in DOMAIN frames |-> frames[i].pushed[r]])

(* getTopStackVer: "stack is empty!!" is never the case, and what is on the
   stack belongs to the function being renamed. *)
StackNotEmpty == \A x \in reads \cup phiOps : x.ver.fun = built

Done == phase = "idle" /\ built > 0

(* The definitions other than phis that a version stands for. *)
Standing(r, v) ==
  LET more(S) == S \cup {p.ver : p \in {q \in phiOps : q.reg = r /\
                     \E w \in S : w.kind = "phi" /\ w.bb = q.bb}}
      it[i \in Nat] == IF i = 0 THEN {v} ELSE more(it[i-1])
  IN  {w \in it[Cardinality(Block) + 1] : w.kind # "phi"}

(* The definitions of r that reach the end of each block, along all paths. *)
Reaching(r) ==
  LET gen(b) == {Version("chi", b, i) :
                   i \in {j \in Defs(fun, b, r) : \A k \in Defs(fun, b, r) : k <= j}}
      R == ReachableBBs(fun)
      in(out, b) == (IF b = Entry THEN {Version("entry", Entry, 0)} ELSE {})
                    \cup UNION {out[p] : p \in {q \in R : b \in fun.succ[q]}}
      it[i \in Nat] == IF i = 0 THEN [b \in Block |-> {}]
                       ELSE [b \in Block |-> IF Defs(fun, b, r) # {} THEN gen(b)
                                             ELSE in(it[i-1], b)]
      out == it[Cardinality(Block) + 1]
  IN  [in |-> [b \in Block |-> in(out, b)], out |-> out]

(* Every use is given exactly the definitions that reach it: no store that may
   be seen is lost at a join or round a loop, and none that is hidden shows. *)
ReachingDefs ==
  Done => \A r \in usedRegs : LET RD == Reaching(r) IN
    \A x \in {y \in reads : y.reg = r} :
      LET D == {j \in Defs(fun, x.bb, r) : x.n > 0 => j < x.n}
      IN  Standing(r, x.ver) =
            IF D # {} THEN {Version("chi", x.bb, i) : i \in {j \in D : \A k \in D : k <= j}}
            ELSE RD.in[x.bb]

(* Every access and every phi of a reachable block has been named, a phi once
   for each way into it, and the definition read dominates the reader. *)
DefsDominateUses ==
  Done =>
    /\ \A x \in reads : x.bb \in Dominated(fun, x.ver.bb)
    /\ \A p \in phiOps : p.pred \in Dominated(fun, p.ver.bb)
    /\ \A b \in ReachableBBs(fun) : \A i \in Stmts(fun, b) :
         \A r \in Accessed(fun.stmts[b][i]) :
           Cardinality({x \in reads : x.bb = b /\ x.n = i /\ x.reg = r}) = 1
    /\ \A r \in usedRegs : \A b \in phis[r] :
         \A p \in {q \in ReachableBBs(fun) : b \in fun.succ[q]} :
           Cardinality({x \in phiOps : x.bb = b /\ x.reg = r /\ x.pred = p}) = 1

(* A phi is only where different definitions meet: nothing is joined where the
   same version comes in on every way. *)
PhisJoin ==
  Done => \A r \in usedRegs : \A b \in phis[r] :
    Cardinality({p.ver : p \in {x \in phiOps : x.bb = b /\ x.reg = r}}) > 1

(* Phis are inserted and blocks are renamed until the function is done. *)
Finishes == phase # "idle" ~> phase = "idle"
=============================================================================
