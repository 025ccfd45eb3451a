----------------------------- MODULE RoundDriver -----------------------------
(***************************************************************************)
(* How AndersenInc divides the statements of a program into rounds when it *)
(* measures itself: each round deletes some statements and inserts them    *)
(* again. The step driver (analyze) fills the work vectors statement by    *)
(* statement and runs a round whenever it has counted `step` of them; the  *)
(* proportion driver (changeProportionInc) takes one slice of every kind   *)
(* of statement per round. A statement is its position in the program; its *)
(* constraint edge may be that of another statement, too.                  *)
(***************************************************************************)
EXTENDS Naturals, Sequences, FiniteSets

CONSTANTS
  Options,   \* programs with the options they are analysed under
  Word       \* 2^32: u32_t counters

(* The order of the step driver, and the kinds that share one counter. *)
Counters == [
  Addr |-> "addr", Copy |-> "copy", Phi |-> "copy", Select |-> "copy", Call |-> "copy",
  Ret |-> "copy", Fork |-> "copy", Join |-> "copy", VGep |-> "vgep", NGep |-> "ngep",
  Store |-> "store", Load |-> "load"]

(* A program is a sequence of items in the order of the step driver, one for
   each operand of a phi or select: stmt numbers the statements. *)
DriverAssumption ==
  /\ Word \in Nat \ {0}
  /\ \A c \in Options :
       /\ c.items \in Seq([kind : DOMAIN Counters, stmt : Nat, edge : STRING])
       /\ \A i, j \in DOMAIN c.items :
            c.items[i].stmt = c.items[j].stmt => c.items[i].kind = c.items[j].kind
       /\ c.driver \in {"step", "proportion"} /\ c.pseudo \in BOOLEAN
       /\ c.driver = "step" => c.step \in Nat \ {0} /\ DOMAIN c.start = DOMAIN c.specific
       /\ c.driver = "proportion" => c.percent \in 0..100 /\ c.rounds \in 1..(Word - 1)

VARIABLES
  choice,
  pos,                          \* the item the step driver looks at next
  stepCount,
  delVec,                       \* delEdgeVec and delDirectEdgeVec
  insVec,                       \* insEdgeVec and insDirectEdgeVec
  graph,                        \* the edges of the constraint graph
  roundcount, incRound,         \* of the proportion driver
  rounds,                       \* the rounds so far, each the set of its items
  drPc

driverVars == <<choice, pos, stepCount, delVec, insVec, graph, roundcount, incRound, rounds, drPc>>
-----------------------------------------------------------------------------
items == choice.items
Items == DOMAIN items
EdgesOf(I) == {items[i].edge : i \in I}
Program == EdgesOf(Items)

(* Copies and geps go to the direct vectors. *)
GoesDirect(i) == Counters[items[i].kind] \in {"copy", "vgep"}

DriverInit ==
  /\ choice \in Options
  /\ pos = 1 /\ stepCount = 0 /\ delVec = {} /\ insVec = {}
  /\ graph = Program
  /\ roundcount = 0 /\ incRound = IF choice.driver = "step" THEN 0 ELSE choice.rounds
  /\ rounds = <<>>
  /\ drPc = "drive"

(* The counters of the kinds run over the items of that kind, normal geps have
   no round; start and specific are those of the kind. *)
Count(i) == Cardinality({j \in 1..i : Counters[items[j].kind] = Counters[items[i].kind]})
Enabled(i) == Counters[items[i].kind] \in DOMAIN choice.start
Wanted_From1(i) ==
  LET c == Counters[items[i].kind]
  IN  Count(i) > choice.start[c] /\ choice.specific[c] \in {0, Count(i)}
Wanted(i) ==
  LET c == Counters[items[i].kind]
  IN  Count(i) >= choice.start[c] /\ choice.specific[c] \in {0, Count(i)}

(* A variant gep is counted before it is found to be unwanted. *)
Counted(i) == Enabled(i) /\ (Wanted(i) \/ items[i].kind = "VGep")

(* The rounds of the step driver begin when the count is reached by a wanted
   statement, and once more when statements were counted since. *)
Visit ==
  /\ drPc = "drive" /\ choice.driver = "step" /\ pos \in Items
  /\ LET n == IF Counted(pos) THEN stepCount + 1 ELSE stepCount
         wanted == Enabled(pos) /\ Wanted(pos)
     IN  /\ IF wanted
            THEN delVec' = delVec \cup {pos} /\ insVec' = insVec \cup {pos}
            ELSE UNCHANGED <<delVec, insVec>>
         /\ IF wanted /\ n = choice.step
            THEN stepCount' = 0 /\ drPc' = "delete"
            ELSE stepCount' = n /\ UNCHANGED drPc
  /\ pos' = pos + 1
  /\ UNCHANGED <<choice, graph, roundcount, incRound, rounds>>

LastRound_None(n) == FALSE
LastRound(n) == n # 0

StepDone ==
  /\ drPc = "drive" /\ choice.driver = "step" /\ pos \notin Items
  /\ drPc' = IF LastRound(stepCount) THEN "delete" ELSE "done"
  /\ stepCount' = 0
  /\ UNCHANGED <<choice, pos, delVec, insVec, graph, roundcount, incRound, rounds>>

(* A slice: its size is a product truncated to an integer, its ends are word
   arithmetic. Forks and joins are in none, a normal gep in no round. *)
Stmts(k) == {items[i].stmt : i \in {j \in Items : items[j].kind = k}}
Number(s, S) == Cardinality({t \in S : t <= s})
SliceStep(n) == IF n * choice.percent <= 100 THEN 1 ELSE (n * choice.percent) \div 100

Slice_Overlap(r, S) ==
  LET step == SliceStep(Cardinality(S))
      begin == (r * step) % Word
  IN  {s \in S : Number(s, S) >= begin /\ Number(s, S) <= (r * step) % Word}
Slice(r, S) ==
  LET step == SliceStep(Cardinality(S))
      begin == ((r - 1) * step + 1) % Word
      end == (r * step) % Word
  IN  {s \in S : Number(s, S) >= begin /\ Number(s, S) <= end}

(* The sets a slice is taken of: geps of both kinds are one set. *)
StmtSets == {Stmts(k) : k \in {"Addr", "Copy", "Phi", "Select", "Call", "Ret", "Store", "Load"}}
            \cup {Stmts("VGep") \cup Stmts("NGep")}

Sliced(r) ==
  LET S == UNION {Slice(r, T) : T \in StmtSets}
  IN  {i \in Items : items[i].stmt \in S /\ items[i].kind # "NGep"}

(* The loop condition compares two counters that grow together. *)
ProportionRound ==
  /\ drPc = "drive" /\ choice.driver = "proportion" /\ roundcount < incRound
  /\ roundcount' = (roundcount + 1) % Word
  /\ incRound' = (incRound + 1) % Word
  /\ delVec' = delVec \cup Sliced(roundcount')
  /\ insVec' = insVec \cup Sliced(roundcount')
  /\ drPc' = "delete"
  /\ UNCHANGED <<choice, pos, stepCount, graph, rounds>>

ProportionDone ==
  /\ drPc = "drive" /\ choice.driver = "proportion" /\ roundcount >= incRound
  /\ drPc' = "done"
  /\ UNCHANGED <<choice, pos, stepCount, delVec, insVec, graph, roundcount, incRound, rounds>>

(* stepIncremental: deletion empties its vectors; insertion empties both of
   its own, the pseudo insertion only that of address-ofs, loads and stores. *)
Delete ==
  /\ drPc = "delete"
  /\ graph' = graph \ EdgesOf(delVec)
  /\ rounds' = Append(rounds, delVec)
  /\ delVec' = {}
  /\ drPc' = "insert"
  /\ UNCHANGED <<choice, pos, stepCount, insVec, roundcount, incRound>>

Taken == IF choice.pseudo THEN {i \in insVec : ~ GoesDirect(i)} ELSE insVec

Insert ==
  /\ drPc = "insert"
  /\ graph' = graph \cup EdgesOf(Taken)
  /\ insVec' = insVec \ Taken
  /\ drPc' = "drive"
  /\ UNCHANGED <<choice, pos, stepCount, delVec, roundcount, incRound, rounds>>

DriverStep == Visit \/ StepDone \/ ProportionRound \/ ProportionDone \/ Delete \/ Insert
DriverNext == DriverStep
DriverSpec == DriverInit /\ [][DriverNext]_driverVars /\ WF_driverVars(DriverStep)
-----------------------------------------------------------------------------
(* Types. *)
DriverTypeOK ==
  /\ choice \in Options /\ pos \in 1..(Len(items) + 1) /\ stepCount \in Nat
  /\ delVec \subseteq Items /\ insVec \subseteq Items /\ graph \subseteq Program
  /\ roundcount \in 0..(Word - 1) /\ incRound \in 0..(Word - 1)
  /\ \A r \in DOMAIN rounds : rounds[r] \subseteq Items
  /\ drPc \in {"drive", "delete", "insert", "done"}

(* Between rounds the graph is that of the program again, whatever edges the
   statements of one round or of several share. What the pseudo insertion
   leaves in insDirectEdgeVec is all that is missing. *)
ProgramKept ==
  drPc \in {"drive", "done"} =>
    /\ graph \cup EdgesOf(insVec \ delVec) = Program
    /\ choice.pseudo \/ graph = Program

RoundsOf(i) == {r \in DOMAIN rounds : i \in rounds[r]}

(* The step driver handles each statement it is to handle in one round, and
   no other, also the last ones, which are fewer than a step. *)
EachInOneRound ==
  drPc = "done" /\ choice.driver = "step" =>
    \A i \in Items : Cardinality(RoundsOf(i)) = IF Enabled(i) /\ Wanted(i) THEN 1 ELSE 0

(* "The number of statements processed per incremental anaylsis round"
   (Options.cpp:1010): a round has no more than that, provided no variant gep
   is filtered out: those are counted without being processed. *)
RoundSize ==
  choice.driver = "step" /\ (\A i \in Items : Counted(i) => Wanted(i)) =>
    \A r \in DOMAIN rounds : Cardinality(rounds[r]) \in 1..choice.step

(* The slices of the proportion driver are disjoint until a product exceeds
   the word, and when enough rounds have passed they were all statements but
   normal geps, forks and joins. *)
Largest == CHOOSE n \in {Cardinality(S) : S \in StmtSets} :
             \A S \in StmtSets : Cardinality(S) <= n
NoWrap == roundcount * SliceStep(Largest) < Word
SlicesPartition ==
  choice.driver = "proportion" /\ NoWrap =>
    \A i \in Items :
      /\ Cardinality(RoundsOf(i)) <= 1
      /\ \A S \in StmtSets :
           /\ items[i].stmt \in S /\ items[i].kind # "NGep"
           /\ drPc = "drive" /\ roundcount * SliceStep(Cardinality(S)) >= Cardinality(S)
           => RoundsOf(i) # {}

(* The operands of a phi or a select change together. *)
OperandsTogether ==
  choice.driver = "proportion" =>
    \A i, j \in Items : items[i].stmt = items[j].stmt => RoundsOf(i) = RoundsOf(j)

(* The drivers: the program is itself again between rounds (stepIncremental),
   each statement is in one round, and rounds are of the size asked for. *)
RoundsCorrect ==
  DriverTypeOK /\ ProgramKept /\ EachInOneRound /\ RoundSize /\ SlicesPartition /\ OperandsTogether

(* The driver comes to an end; that of the proportion driver is the overflow
   of incRound. *)
Ends == <>(drPc = "done")
=============================================================================
