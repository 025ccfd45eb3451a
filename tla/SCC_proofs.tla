----------------------------- MODULE SCC_proofs -----------------------------
(***************************************************************************)
(* The cycle detection finds the cycles, for every finite graph, every     *)
(* choice of nodes to start from and every order of nodes and children.    *)
(***************************************************************************)
EXTENDS SCC, Iteration_proofs, SequenceTheorems

(* S has the successors of its nodes. *)
Closed(E, S) == \A e \in E : e[1] \in S => e[2] \in S

(* The nodes along a path of edges E in V from n, n among them: those in every
   closed set that has n. *)
Reach(V, E, n) == {k \in V : \A S \in SUBSET V : n \in S /\ Closed(E, S) => k \in S}

(* The nodes that find(n) would visit. *)
From(n) == Reach(search.nodes, search.edges, n)

(* Nodes of the active calls, nodes on _SS, and both. *)
Calling == {calls[i].v : i \in DOMAIN calls}
Waiting == {SS[i] : i \in DOMAIN SS}
Open == visited \ inSCC

-----------------------------------------------------------------------------
(* The invariant *)

(* An active call of visit. *)
Call == [v : Nodes, todo : SUBSET Nodes, w : Nodes \cup {Unset}]

(* The types of the variables. *)
Types ==
  /\ search \in Searches
  /\ scI \in Nat /\ scD \in [Nodes -> Nat]
  /\ rep \in [Nodes -> Nodes \cup {Unset}] /\ subNodes \in [Nodes -> SUBSET Nodes]
  /\ visited \subseteq Nodes /\ inSCC \subseteq visited
  /\ calls \in Seq(Call)
  /\ SS \in Seq(Nodes) /\ topo \in Seq(Nodes)

(* Visit numbers are those of visited nodes, each is given once. *)
Numbered ==
  /\ \A n \in Nodes : scD[n] <= scI /\ (scD[n] > 0 <=> n \in visited)
  /\ \A n, k \in visited : scD[n] = scD[k] => n = k

(* A visited node is in a component, on _SS or in an active call; inner calls
   came later; each was made for the child its caller is at. *)
Stacked ==
  /\ Open = Calling \cup Waiting /\ Calling \cap Waiting = {}
  /\ \A i, j \in DOMAIN calls : i < j => scD[calls[j].v] < scD[calls[i].v]
  /\ \A i \in DOMAIN calls : i + 1 \in DOMAIN calls => calls[i + 1].w = calls[i].v
  /\ \A i, j \in DOMAIN SS : SS[i] = SS[j] => i = j

(* On _SS the nodes visited after the node of an active call lie above those
   visited before. *)
Sorted ==
  \A u \in Calling : \A i, j \in DOMAIN SS :
    i < j /\ scD[u] < scD[SS[j]] => scD[u] < scD[SS[i]]

(* A call is yet to visit children of its node. *)
Pending == \A i \in DOMAIN calls : calls[i].todo \subseteq Children(calls[i].v)

(* The child k is accounted for in the representative of n. *)
Handled(n, k) == k \in visited /\ (k \in inSCC \/ scD[rep[n]] <= scD[k])

(* So are the children an active call is through with, the one it is at apart,
   and those of the nodes on _SS. *)
ChildrenHandled ==
  /\ \A i \in DOMAIN calls :
       /\ calls[i].w # Unset => calls[i].w \in Children(calls[i].v) \cap visited
       /\ \A k \in Children(calls[i].v) \ calls[i].todo : k = calls[i].w \/ Handled(calls[i].v, k)
  /\ \A p \in Waiting : \A k \in Children(p) : Handled(p, k)

(* The representative of an open node is an open node it reaches, not visited
   after it; on _SS, before it. *)
Led ==
  /\ \A n \in Open : rep[n] \in Open /\ scD[rep[n]] <= scD[n] /\ rep[n] \in From(n)
  /\ \A p \in Waiting : rep[p] # p

(* The node of an active call reaches the open nodes visited after it. *)
Leading == \A u \in Calling : \A p \in Open : scD[u] <= scD[p] => p \in From(u)

(* The innermost active call that p was visited in has a representative as old
   as that of p, at the latest when it compares itself with the child it is at. *)
Within(u, p) == /\ scD[u] < scD[p]
                /\ \A x \in Calling : scD[u] < scD[x] => scD[p] < scD[x]
Compared(p, u) ==
  \/ scD[rep[u]] <= scD[rep[p]]
  \/ /\ u = calls[1].v /\ calls[1].w \in Waiting
     /\ scD[calls[1].w] <= scD[p] /\ scD[rep[calls[1].w]] <= scD[rep[p]]
Lowered == \A u \in Calling : \A p \in Waiting : Within(u, p) => Compared(p, u)

(* Complete components are closed, and each is one cycle with one
   representative. *)
Components ==
  /\ Closed(search.edges, inSCC)
  /\ \A n \in inSCC : rep[n] \in inSCC /\ rep[rep[n]] = rep[n]
  /\ \A n, k \in inSCC : rep[n] = rep[k] <=> k \in From(n) /\ n \in From(k)

(* Sub nodes are right where the component is complete; before, they may be
   stale, but reach their representative. *)
SubsRight ==
  /\ \A n \in inSCC : subNodes[n] = IF rep[n] = n THEN {k \in inSCC : rep[k] = n} ELSE {}
  /\ \A r \in Open : /\ rep[r] = r => r \in subNodes[r]
                     /\ \A n \in subNodes[r] : n \in Open /\ scD[r] <= scD[n] /\ r \in From(n)
  /\ \A n \in Nodes \ visited : subNodes[n] = {}

(* The stack of representatives has those of the complete components, sources
   of edges above. *)
Ordered ==
  /\ \A i, j \in DOMAIN topo : topo[i] = topo[j] => i = j
  /\ {topo[i] : i \in DOMAIN topo} = {n \in inSCC : rep[n] = n}
  /\ \A i, j \in DOMAIN topo : \A n, k \in inSCC :
       rep[n] = topo[i] /\ rep[k] = topo[j] /\ <<n, k>> \in search.edges => i <= j

(* Nothing is visited but what can be reached. *)
Sought == \A n \in visited : \E k \in search.from : n \in From(k)

(* The invariant of the search. *)
Inv ==
  /\ Types /\ Numbered /\ Stacked /\ Sorted /\ Pending /\ ChildrenHandled /\ Led /\ Leading
  /\ Lowered /\ Components /\ SubsRight /\ Ordered /\ Sought
-----------------------------------------------------------------------------
(* Paths *)

(* The nodes reached are the least closed set. *)
LEMMA ReachFacts ==
  ASSUME NEW V, NEW E \in SUBSET (V \X V), NEW n \in V
  PROVE  /\ n \in Reach(V, E, n) /\ Reach(V, E, n) \subseteq V
         /\ Closed(E, Reach(V, E, n))
         /\ \A S \in SUBSET V : n \in S /\ Closed(E, S) => Reach(V, E, n) \subseteq S
<1>1. Closed(E, Reach(V, E, n))
  <2>1. SUFFICES ASSUME NEW e \in E, e[1] \in Reach(V, E, n), NEW S \in SUBSET V, n \in S, Closed(E, S)
                 PROVE  e[2] \in V /\ e[2] \in S
    BY DEF Closed, Reach
  <2> QED BY <2>1 DEF Closed, Reach
<1> QED BY <1>1 DEF Reach

(* What is reached from a node reached is reached. *)
LEMMA ReachTransitive ==
  ASSUME NEW V, NEW E \in SUBSET (V \X V), NEW n \in V, NEW k \in Reach(V, E, n)
  PROVE  Reach(V, E, k) \subseteq Reach(V, E, n)
<1>1. k \in V /\ Reach(V, E, n) \in SUBSET V
  BY ReachFacts
<1> QED BY <1>1, ReachFacts

(* What is assumed of a search. *)
LEMMA SearchFacts ==
  ASSUME SCCAssumption, Types
  PROVE  /\ IsFiniteSet(Nodes) /\ Unset \notin Nodes /\ search.edges \in SUBSET (Nodes \X Nodes)
         /\ search.from \subseteq Nodes
         /\ \A n : Children(n) \subseteq Nodes
         /\ \A n : \A k : k \in Children(n) <=> <<n, k>> \in search.edges
<1>1. /\ IsFiniteSet(Nodes) /\ Unset \notin Nodes /\ search.edges \in SUBSET (Nodes \X Nodes)
      /\ search.from \subseteq Nodes
  BY DEF SCCAssumption, Types, Nodes
<1>2. \A n : Children(n) \subseteq Nodes
  BY DEF Children
<1>3. ASSUME NEW n, NEW k PROVE k \in Children(n) <=> <<n, k>> \in search.edges
  BY <1>1 DEF Children
<1> QED BY <1>1, <1>2, <1>3

(* What a node reaches. *)
LEMMA FromFacts ==
  ASSUME SCCAssumption, Types, NEW n \in Nodes
  PROVE  /\ n \in From(n) /\ From(n) \subseteq Nodes
         /\ \A k \in From(n) : From(k) \subseteq From(n) /\ Children(k) \subseteq From(n)
         /\ \A S \in SUBSET Nodes : n \in S /\ Closed(search.edges, S) => From(n) \subseteq S
<1>1. search.edges \in SUBSET (Nodes \X Nodes)
  BY SearchFacts
<1>2. /\ n \in From(n) /\ From(n) \subseteq Nodes /\ Closed(search.edges, From(n))
      /\ \A S \in SUBSET Nodes : n \in S /\ Closed(search.edges, S) => From(n) \subseteq S
  BY <1>1, ReachFacts DEF From, Nodes
<1>3. ASSUME NEW k \in From(n) PROVE From(k) \subseteq From(n)
  BY <1>1, <1>3, ReachTransitive DEF From, Nodes
<1>4. ASSUME NEW k \in From(n), NEW c \in Children(k) PROVE c \in From(n)
  <2>1. <<k, c>> \in search.edges
    BY <1>4 DEF Children
  <2> QED BY <1>2, <2>1 DEF Closed
<1> QED BY <1>2, <1>3, <1>4

-----------------------------------------------------------------------------
(* Sequences *)

(* One element put in front of a sequence. *)
LEMMA PushedFacts ==
  ASSUME NEW S, NEW s \in Seq(S), NEW x \in S, NEW t, t = <<x>> \o s
  PROVE  /\ t \in Seq(S) /\ Len(s) \in Nat /\ DOMAIN s = 1..Len(s) /\ DOMAIN t = 1..(Len(s) + 1)
         /\ t[1] = x /\ \A i \in DOMAIN s : t[i + 1] = s[i]
         /\ \A i \in DOMAIN t : i = 1 \/ (i - 1 \in DOMAIN s /\ t[i] = s[i - 1])
<1>1. /\ t \in Seq(S) /\ Len(s) \in Nat /\ DOMAIN s = 1..Len(s) /\ DOMAIN t = 1..(Len(s) + 1)
      /\ t[1] = x /\ \A i \in 1..Len(s) : t[i + 1] = s[i]
  OBVIOUS
<1>2. ASSUME NEW i \in DOMAIN t, i # 1 PROVE i - 1 \in DOMAIN s /\ t[i] = s[i - 1]
  <2>1. i - 1 \in 1..Len(s) /\ (i - 1) + 1 = i
    BY <1>1, <1>2
  <2> QED BY <1>1, <2>1
<1> QED BY <1>1, <1>2

(* The first element taken off a sequence. *)
LEMMA PoppedFacts ==
  ASSUME NEW S, NEW s \in Seq(S), s # <<>>
  PROVE  /\ Tail(s) \in Seq(S) /\ Head(s) = s[1] /\ Len(s) \in Nat \ {0} /\ DOMAIN s = 1..Len(s)
         /\ DOMAIN Tail(s) = 1..(Len(s) - 1)
         /\ \A i \in DOMAIN Tail(s) : i + 1 \in DOMAIN s /\ Tail(s)[i] = s[i + 1]
         /\ s[1] \in S
OBVIOUS

-----------------------------------------------------------------------------
(* Consequences of the invariant *)

(* Nodes of calls, nodes on _SS and open nodes are visited, and not complete. *)
LEMMA OpenFacts ==
  ASSUME SCCAssumption, Types, Numbered, Stacked
  PROVE  /\ Calling \subseteq Open /\ Waiting \subseteq Open /\ Open \subseteq visited
         /\ visited \subseteq Nodes /\ Open \cap inSCC = {} /\ visited = Open \cup inSCC
         /\ \A i \in DOMAIN calls : calls[i] \in Call /\ calls[i].v \in Calling
         /\ \A i \in DOMAIN SS : SS[i] \in Waiting
         /\ \A n \in Nodes : scD[n] \in Nat
<1> QED BY DEF Types, Stacked, Calling, Waiting, Open

(* The innermost call is the last that was made. *)
LEMMA TopFacts ==
  ASSUME SCCAssumption, Types, Numbered, Stacked, Active
  PROVE  /\ 1 \in DOMAIN calls /\ Top = calls[1] /\ Top \in Call /\ Top.v \in Calling
         /\ \A u \in Calling : scD[u] <= scD[Top.v]
         /\ \A u \in Calling : u = Top.v \/ scD[u] < scD[Top.v]
<1>1. /\ 1 \in DOMAIN calls /\ Top = calls[1] /\ DOMAIN calls = 1..Len(calls) /\ Len(calls) \in Nat
  BY PoppedFacts DEF Types, Active, Top
<1>2. Top \in Call /\ Top.v \in Calling
  BY <1>1, OpenFacts
<1>3. ASSUME NEW u \in Calling PROVE u = Top.v \/ scD[u] < scD[Top.v]
  <2>1. PICK i \in DOMAIN calls : u = calls[i].v
    BY DEF Calling
  <2>2. i = 1 \/ 1 < i
    BY <1>1
  <2> QED BY <1>1, <2>1, <2>2 DEF Stacked
<1>4. \A u \in Calling : scD[u] \in Nat
  BY OpenFacts
<1> QED BY <1>1, <1>2, <1>3, <1>4

-----------------------------------------------------------------------------
(* The start of a call *)

(* The calls under one of v: the innermost is at v. *)
CallersOf(callers, v) ==
  /\ callers \in Seq(Call) /\ DOMAIN callers = DOMAIN calls
  /\ \A i \in DOMAIN calls : callers[i].v = calls[i].v /\ (i # 1 => callers[i] = calls[i])
  /\ 1 \in DOMAIN calls =>
       /\ calls[1].w = Unset /\ v \in Children(calls[1].v)
       /\ callers[1].w = v /\ callers[1].todo = calls[1].todo \ {v}

(* They are those NextChild leaves. *)
LEMMA NextCallers ==
  ASSUME SCCAssumption, Inv, Active, Top.w = Unset, NEW w \in Top.todo, w \in Children(Top.v)
  PROVE  CallersOf(<<[Top EXCEPT !.todo = @ \ {w}, !.w = w]>> \o Tail(calls), w)
<1> DEFINE top == [Top EXCEPT !.todo = @ \ {w}, !.w = w]
           cs == <<top>> \o Tail(calls)
<1>1. Types /\ 1 \in DOMAIN calls /\ Top = calls[1] /\ Top \in Call
  BY TopFacts DEF Inv
<1>2. top \in Call /\ top.v = Top.v /\ top.w = w /\ top.todo = Top.todo \ {w}
  BY <1>1 DEF Call
<1>3. /\ Tail(calls) \in Seq(Call) /\ Len(calls) \in Nat \ {0} /\ DOMAIN calls = 1..Len(calls)
      /\ DOMAIN Tail(calls) = 1..(Len(calls) - 1)
      /\ \A i \in DOMAIN Tail(calls) : i + 1 \in DOMAIN calls /\ Tail(calls)[i] = calls[i + 1]
  BY <1>1, PoppedFacts DEF Types, Active
<1> HIDE DEF top
<1>4. /\ cs \in Seq(Call) /\ Len(Tail(calls)) \in Nat /\ DOMAIN Tail(calls) = 1..Len(Tail(calls))
      /\ DOMAIN cs = 1..(Len(Tail(calls)) + 1) /\ cs[1] = top
      /\ \A i \in DOMAIN cs : i = 1 \/ (i - 1 \in DOMAIN Tail(calls) /\ cs[i] = Tail(calls)[i - 1])
  BY <1>2, <1>3, PushedFacts
<1> HIDE DEF cs
<1>5. Len(Tail(calls)) = Len(calls) - 1
  BY <1>3, <1>4
<1>6. DOMAIN cs = DOMAIN calls
  BY <1>3, <1>4, <1>5
<1>7. ASSUME NEW i \in DOMAIN calls, i # 1 PROVE cs[i] = calls[i]
  <2>1. i - 1 \in DOMAIN Tail(calls) /\ cs[i] = Tail(calls)[i - 1] /\ (i - 1) + 1 = i
    BY <1>3, <1>4, <1>6, <1>7
  <2> QED BY <1>3, <2>1
<1>8. CallersOf(cs, w)
  BY <1>1, <1>2, <1>4, <1>6, <1>7 DEF CallersOf
<1> QED BY <1>8 DEF cs, top

(* v is visited: nothing else about the visited nodes changes. *)
LEMMA EnterInv ==
  ASSUME SCCAssumption, Inv, NEW v \in Nodes, v \notin visited, NEW callers, CallersOf(callers, v),
         Enter(v, callers), UNCHANGED <<search, inSCC, SS, topo>>,
         \E k \in search.from : v \in From(k)
  PROVE  Inv'
<1> USE DEF Nodes
<1> DEFINE new == [v |-> v, todo |-> Children(v), w |-> Unset]
<1>1. /\ Types /\ Numbered /\ Stacked /\ Sorted /\ Pending /\ ChildrenHandled /\ Led /\ Leading
      /\ Lowered /\ Components /\ SubsRight /\ Ordered /\ Sought
  BY DEF Inv
<1>2. /\ search' = search /\ inSCC' = inSCC /\ SS' = SS /\ topo' = topo
      /\ scI' = scI + 1 /\ scD' = [scD EXCEPT ![v] = scI + 1] /\ rep' = [rep EXCEPT ![v] = v]
      /\ subNodes' = SubNodesWith(v, v) /\ visited' = visited \cup {v}
      /\ calls' = <<new>> \o callers
  BY DEF Enter
<1>3. /\ Unset \notin search.nodes /\ \A n : Children(n) \subseteq search.nodes
      /\ \A n : Children(n)' = Children(n)
      /\ \A n : From(n)' = From(n)
  BY <1>1, <1>2, SearchFacts DEF Children, From
<1>4. /\ scI \in Nat /\ scI' \in Nat /\ scI' > scI /\ scD'[v] = scI' /\ rep'[v] = v
      /\ \A n \in search.nodes : n # v => scD'[n] = scD[n] /\ rep'[n] = rep[n]
      /\ \A n \in search.nodes : scD[n] \in Nat /\ scD[n] <= scI
  BY <1>1, <1>2 DEF Types, Numbered
<1>5. /\ Calling \subseteq Open /\ Waiting \subseteq Open /\ Open \subseteq visited
      /\ visited \subseteq search.nodes /\ Open \cap inSCC = {} /\ visited = Open \cup inSCC
      /\ \A i \in DOMAIN calls : calls[i] \in Call /\ calls[i].v \in Calling
      /\ \A i \in DOMAIN SS : SS[i] \in Waiting
  BY <1>1, OpenFacts
<1>6. /\ new \in Call /\ callers \in Seq(Call) /\ DOMAIN callers = DOMAIN calls
      /\ \A i \in DOMAIN calls : callers[i].v = calls[i].v /\ (i # 1 => callers[i] = calls[i])
      /\ 1 \in DOMAIN calls =>
           /\ calls[1].w = Unset /\ v \in Children(calls[1].v)
           /\ callers[1].w = v /\ callers[1].todo = calls[1].todo \ {v}
  BY <1>1, <1>3 DEF CallersOf, Call
<1>7. /\ calls' \in Seq(Call) /\ Len(callers) \in Nat /\ DOMAIN calls = 1..Len(callers)
      /\ DOMAIN calls' = 1..(Len(callers) + 1) /\ calls'[1] = new
      /\ \A i \in DOMAIN calls : calls'[i + 1] = callers[i]
      /\ \A i \in DOMAIN calls' : i = 1 \/ (i - 1 \in DOMAIN calls /\ calls'[i] = callers[i - 1])
  BY <1>2, <1>6, PushedFacts
<1>8. new.v = v /\ new.todo = Children(v) /\ new.w = Unset
  OBVIOUS
<1> HIDE DEF new
<1>9. Calling' = Calling \cup {v} /\ Waiting' = Waiting /\ Open' = Open \cup {v} /\ v \notin Open
  <2>1. Calling' \subseteq Calling \cup {v}
    BY <1>5, <1>6, <1>7, <1>8 DEF Calling
  <2>2. Calling \subseteq Calling' /\ v \in Calling'
    <3>1. 1 \in DOMAIN calls' /\ \A i \in DOMAIN calls : i + 1 \in DOMAIN calls'
      BY <1>7
    <3> QED BY <1>6, <1>7, <1>8, <3>1 DEF Calling
  <2>3. v \notin inSCC
    BY <1>1 DEF Types
  <2> QED BY <1>2, <1>5, <2>1, <2>2, <2>3 DEF Waiting, Open
<1>10. Types'
  <2>1. subNodes' \in [search.nodes -> SUBSET search.nodes]
    BY <1>1, <1>2 DEF SubNodesWith, Types
  <2>2. rep' \in [search.nodes -> search.nodes \cup {Unset}] /\ scD' \in [search.nodes -> Nat]
    BY <1>1, <1>2, <1>4 DEF Types
  <2>3. Call' = Call
    BY <1>2 DEF Call
  <2> QED BY <1>1, <1>2, <1>4, <1>7, <2>1, <2>2, <2>3 DEF Types
<1>11. Numbered'
  BY <1>1, <1>2, <1>4, <1>5 DEF Numbered
<1>12. Stacked'
  <2>1. ASSUME NEW i \in DOMAIN calls', NEW j \in DOMAIN calls', i < j
        PROVE  scD'[calls'[j].v] < scD'[calls'[i].v]
    <3>1. j # 1 /\ j - 1 \in DOMAIN calls /\ calls'[j].v = calls[j - 1].v /\ calls[j - 1].v \in Calling
      BY <1>5, <1>6, <1>7, <2>1
    <3>2. CASE i = 1
      BY <1>4, <1>5, <1>7, <1>8, <1>9, <3>1, <3>2
    <3>3. CASE i # 1
      <4>1. i - 1 \in DOMAIN calls /\ calls'[i].v = calls[i - 1].v /\ calls[i - 1].v \in Calling /\ i - 1 < j - 1
        BY <1>5, <1>6, <1>7, <2>1, <3>3
      <4>2. scD[calls[j - 1].v] < scD[calls[i - 1].v]
        BY <1>1, <3>1, <4>1 DEF Stacked
      <4> QED BY <1>4, <1>5, <1>9, <3>1, <4>1, <4>2
    <3> QED BY <3>2, <3>3
  <2>2. ASSUME NEW i \in DOMAIN calls', i + 1 \in DOMAIN calls'
        PROVE  calls'[i + 1].w = calls'[i].v
    <3>1. i \in DOMAIN calls /\ calls'[i + 1] = callers[i]
      BY <1>7, <2>2
    <3>2. CASE i = 1
      BY <1>6, <1>7, <1>8, <3>1, <3>2
    <3>3. CASE i # 1
      <4>1. i - 1 \in DOMAIN calls /\ (i - 1) + 1 = i /\ calls'[i].v = calls[i - 1].v /\ calls'[i + 1] = calls[i]
        BY <1>6, <1>7, <3>1, <3>3
      <4> QED BY <1>1, <3>1, <4>1 DEF Stacked
    <3> QED BY <3>2, <3>3
  <2>3. Calling' \cap Waiting' = {} /\ Open' = Calling' \cup Waiting'
    BY <1>1, <1>5, <1>9 DEF Stacked
  <2> QED BY <1>1, <1>2, <2>1, <2>2, <2>3 DEF Stacked
<1>13. Sorted'
  <2>1. ASSUME NEW u \in Calling', NEW i \in DOMAIN SS, NEW j \in DOMAIN SS, i < j, scD'[u] < scD'[SS[j]]
        PROVE  scD'[u] < scD'[SS[i]]
    <3>1. /\ SS[i] \in search.nodes /\ scD'[SS[i]] = scD[SS[i]]
          /\ SS[j] \in search.nodes /\ scD'[SS[j]] = scD[SS[j]] /\ scD[SS[j]] <= scI
      BY <1>4, <1>5, <1>9
    <3>2. u \in Calling /\ scD'[u] = scD[u]
      BY <1>4, <1>5, <1>9, <2>1, <3>1
    <3> QED BY <1>1, <2>1, <3>1, <3>2 DEF Sorted
  <2> QED BY <1>2, <2>1 DEF Sorted
<1> DEFINE HandledNow(n, k) == k \in visited' /\ (k \in inSCC' \/ scD'[rep'[n]] <= scD'[k])
<1>14. ASSUME NEW n \in Open, NEW k, Handled(n, k) PROVE HandledNow(n, k)
  BY <1>1, <1>2, <1>4, <1>5, <1>9, <1>14 DEF Handled, Led
<1> HIDE DEF HandledNow
<1>15. ChildrenHandled'
  <2>1. ASSUME NEW i \in DOMAIN calls'
        PROVE  /\ calls'[i].w # Unset => calls'[i].w \in Children(calls'[i].v) \cap visited'
               /\ \A k \in Children(calls'[i].v) \ calls'[i].todo :
                    k = calls'[i].w \/ HandledNow(calls'[i].v, k)
    <3>1. CASE i = 1
      BY <1>7, <1>8, <3>1
    <3>2. CASE i # 1
      <4>1. i - 1 \in DOMAIN calls /\ calls'[i] = callers[i - 1] /\ calls'[i].v = calls[i - 1].v
            /\ calls[i - 1].v \in Open
        BY <1>5, <1>6, <1>7, <3>2
      <4>2. /\ calls[i - 1].w # Unset => calls[i - 1].w \in Children(calls[i - 1].v) \cap visited
            /\ \A k \in Children(calls[i - 1].v) \ calls[i - 1].todo :
                 k = calls[i - 1].w \/ HandledNow(calls[i - 1].v, k)
        BY <1>1, <1>14, <4>1 DEF ChildrenHandled
      <4>3. CASE i - 1 = 1
        <5>1. /\ calls'[i].w = v /\ calls'[i].todo = calls[1].todo \ {v} /\ v \in Children(calls[1].v)
              /\ calls[1].w = Unset /\ calls'[i].v = calls[1].v
          BY <1>6, <4>1, <4>3
        <5>2. \A k \in Children(calls[1].v) \ calls[1].todo : HandledNow(calls[1].v, k)
          BY <1>3, <4>2, <4>3, <5>1
        <5>3. v \in visited'
          BY <1>2
        <5> QED BY <5>1, <5>2, <5>3
      <4>4. CASE i - 1 # 1
        <5>1. calls'[i] = calls[i - 1]
          BY <1>6, <4>1, <4>4
        <5> QED BY <1>2, <4>2, <5>1
      <4> QED BY <4>3, <4>4
    <3> QED BY <3>1, <3>2
  <2>2. \A p \in Waiting' : \A k \in Children(p) : HandledNow(p, k)
    BY <1>1, <1>5, <1>9, <1>14 DEF ChildrenHandled
  <2> QED BY <1>3, <2>1, <2>2 DEF ChildrenHandled, Handled, HandledNow
<1>16. Led'
  <2>1. v \in From(v)
    BY <1>1, FromFacts
  <2>2. \A n \in Open : n # v /\ rep[n] # v /\ n \in search.nodes /\ rep[n] \in search.nodes
    BY <1>1, <1>5, <1>9 DEF Led
  <2>3. v \in Open' /\ rep'[v] \in Open' /\ scD'[rep'[v]] <= scD'[v] /\ rep'[v] \in From(v)
    BY <1>4, <1>9, <2>1
  <2>4. ASSUME NEW n \in Open
        PROVE  rep'[n] \in Open' /\ scD'[rep'[n]] <= scD'[n] /\ rep'[n] \in From(n) /\ rep'[n] = rep[n]
    BY <1>1, <1>4, <1>9, <2>2 DEF Led
  <2> QED BY <1>1, <1>3, <1>5, <1>9, <2>3, <2>4 DEF Led
<1>17. Leading'
  <2>1. ASSUME NEW u \in Calling PROVE v \in From(u)
    <3>1. 1 \in DOMAIN calls
      BY <1>7, <2>1 DEF Calling
    <3>2. Active /\ Top = calls[1]
      BY <1>1, <3>1, PoppedFacts DEF Types, Active, Top
    <3>3. Top.v \in Open /\ scD[u] <= scD[Top.v]
      BY <1>1, <1>5, <3>2, TopFacts
    <3>4. Top.v \in From(u)
      BY <1>1, <2>1, <3>3 DEF Leading
    <3> QED BY <1>1, <1>5, <1>6, <2>1, <3>1, <3>2, <3>4, FromFacts
  <2>2. v \in From(v)
    BY <1>1, FromFacts
  <2>3. ASSUME NEW u \in Calling', NEW p \in Open', scD'[u] <= scD'[p] PROVE p \in From(u)
    <3>1. CASE p = v
      BY <1>9, <2>1, <2>2, <3>1
    <3>2. CASE p # v
      <4>1. p \in Open /\ p \in search.nodes /\ scD'[p] = scD[p] /\ scD[p] <= scI
        BY <1>4, <1>5, <1>9, <3>2
      <4>2. u # v
        BY <1>4, <2>3, <4>1
      <4>3. u \in Calling /\ scD'[u] = scD[u]
        BY <1>4, <1>5, <1>9, <4>2
      <4> QED BY <1>1, <2>3, <4>1, <4>3 DEF Leading
    <3> QED BY <3>1, <3>2
  <2> QED BY <1>3, <2>3 DEF Leading
<1>18. Lowered'
  <2>1. SUFFICES ASSUME NEW u \in Calling', NEW p \in Waiting', Within(u, p)' PROVE Compared(p, u)'
    BY DEF Lowered
  <2>2. p \in Waiting /\ p \in search.nodes /\ p # v /\ scD'[p] = scD[p] /\ scD[p] <= scI
    BY <1>4, <1>5, <1>9
  <2>3. u # v
    BY <1>4, <2>1, <2>2 DEF Within
  <2>4. u \in Calling /\ scD'[u] = scD[u]
    BY <1>4, <1>5, <1>9, <2>3
  <2>5. Within(u, p)
    BY <1>4, <1>5, <1>9, <2>1, <2>2, <2>4 DEF Within
  <2>6. 1 \in DOMAIN calls
    BY <1>7, <2>4 DEF Calling
  <2>7. scD[rep[u]] <= scD[rep[p]]
    <3>1. Unset \notin Waiting
      BY <1>3, <1>5
    <3> QED BY <1>1, <1>6, <2>2, <2>4, <2>5, <2>6, <3>1 DEF Lowered, Compared
  <2>8. /\ rep'[u] = rep[u] /\ rep'[p] = rep[p] /\ rep[u] \in Open /\ rep[p] \in Open
    BY <1>1, <1>4, <1>5, <2>2, <2>3, <2>4 DEF Led
  <2>9. scD'[rep'[u]] = scD[rep[u]] /\ scD'[rep'[p]] = scD[rep[p]]
    BY <1>4, <1>5, <1>9, <2>8
  <2> QED BY <2>7, <2>9 DEF Compared
<1>19. \A n \in inSCC : n # v /\ n \in search.nodes /\ rep'[n] = rep[n]
  BY <1>4, <1>5
<1>20. Components'
  <2>1. \A n \in inSCC : rep'[rep'[n]] = rep[rep[n]]
    BY <1>1, <1>19 DEF Components
  <2> QED BY <1>1, <1>2, <1>3, <1>19, <2>1 DEF Components
<1>21. SubsRight'
  <2>1. /\ subNodes'[v] = {v} /\ \A k \in search.nodes : k # v => subNodes'[k] = subNodes[k]
    BY <1>1, <1>2 DEF SubNodesWith, SubsRight, Types
  <2>2. ASSUME NEW n \in inSCC
        PROVE  subNodes'[n] = IF rep'[n] = n THEN {k \in inSCC : rep'[k] = n} ELSE {}
    <3>1. {k \in inSCC : rep'[k] = n} = {k \in inSCC : rep[k] = n}
      BY <1>19
    <3>2. subNodes[n] = IF rep[n] = n THEN {k \in inSCC : rep[k] = n} ELSE {}
      BY <1>1 DEF SubsRight
    <3> QED BY <1>19, <2>1, <3>1, <3>2
  <2>3. ASSUME NEW r \in Open'
        PROVE  /\ rep'[r] = r => r \in subNodes'[r]
               /\ \A n \in subNodes'[r] : n \in Open' /\ scD'[r] <= scD'[n] /\ r \in From(n)
    <3>1. CASE r = v
      <4>1. v \in From(v)
        BY <1>1, FromFacts
      <4> QED BY <1>4, <1>9, <2>1, <3>1, <4>1
    <3>2. CASE r # v
      <4>1. r \in Open /\ r \in search.nodes /\ subNodes'[r] = subNodes[r] /\ rep'[r] = rep[r] /\ scD'[r] = scD[r]
        BY <1>4, <1>5, <1>9, <2>1, <3>2
      <4>2. \A n \in subNodes[r] : n \in Open /\ scD[r] <= scD[n] /\ r \in From(n)
        BY <1>1, <4>1 DEF SubsRight
      <4>3. \A n \in Open : scD'[n] = scD[n] /\ n \in Open'
        BY <1>4, <1>5, <1>9
      <4> QED BY <1>1, <4>1, <4>2, <4>3 DEF SubsRight
    <3> QED BY <3>1, <3>2
  <2>4. \A n \in search.nodes \ visited' : subNodes'[n] = {}
    BY <1>1, <1>2, <2>1 DEF SubsRight
  <2>5. \A n : From(n)' = From(n)
    BY <1>3
  <2> QED BY <1>2, <2>2, <2>3, <2>4, <2>5 DEF SubsRight
<1>22. Ordered'
  <2>1. {n \in inSCC : rep'[n] = n} = {n \in inSCC : rep[n] = n}
    BY <1>19
  <2> QED BY <1>1, <1>2, <1>19, <2>1 DEF Ordered
<1>23. Sought'
  BY <1>1, <1>2, <1>3 DEF Sought
<1>24. Pending'
  <2>1. ASSUME NEW i \in DOMAIN calls' PROVE calls'[i].todo \subseteq Children(calls'[i].v)
    <3>1. CASE i = 1
      BY <1>7, <1>8, <3>1
    <3>2. CASE i # 1
      <4>1. i - 1 \in DOMAIN calls /\ calls'[i] = callers[i - 1] /\ calls'[i].v = calls[i - 1].v
        BY <1>6, <1>7, <3>2
      <4> QED BY <1>1, <1>6, <4>1 DEF Pending
    <3> QED BY <3>1, <3>2
  <2> QED BY <1>3, <2>1 DEF Pending
<1> QED BY <1>10, <1>11, <1>12, <1>13, <1>15, <1>16, <1>17, <1>18, <1>20, <1>21, <1>22, <1>23, <1>24
    DEF Inv

-----------------------------------------------------------------------------
(* The other steps of a call *)

(* The child was visited before: only the call changes. *)
LEMMA VisitedInv ==
  ASSUME SCCAssumption, Inv, NEW w \in visited, NEW callers, CallersOf(callers, w), Active,
         calls' = callers, UNCHANGED <<search, scI, scD, rep, subNodes, visited, inSCC, SS, topo>>
  PROVE  Inv'
<1> USE DEF Nodes
<1>1. /\ Types /\ Numbered /\ Stacked /\ Sorted /\ Pending /\ ChildrenHandled /\ Led /\ Leading
      /\ Lowered /\ Components /\ SubsRight /\ Ordered /\ Sought
  BY DEF Inv
<1>2. /\ search' = search /\ inSCC' = inSCC /\ SS' = SS /\ topo' = topo
      /\ scI' = scI /\ scD' = scD /\ rep' = rep /\ subNodes' = subNodes /\ visited' = visited
      /\ calls' = callers
  OBVIOUS
<1>3. /\ Unset \notin search.nodes /\ \A n : Children(n) \subseteq search.nodes
      /\ \A n : Children(n)' = Children(n)
      /\ \A n : From(n)' = From(n)
  BY <1>1, <1>2, SearchFacts DEF Children, From
<1>4. /\ Waiting \subseteq search.nodes /\ \A i \in DOMAIN calls : calls[i].v \in Calling
  BY <1>1, OpenFacts
<1>5. /\ calls' \in Seq(Call) /\ DOMAIN calls' = DOMAIN calls /\ 1 \in DOMAIN calls
      /\ \A i \in DOMAIN calls : calls'[i].v = calls[i].v /\ (i # 1 => calls'[i] = calls[i])
      /\ calls[1].w = Unset /\ w \in Children(calls[1].v)
      /\ calls'[1].w = w /\ calls'[1].todo = calls[1].todo \ {w}
  BY <1>1, <1>2, TopFacts DEF CallersOf
<1>6. Calling' = Calling /\ Waiting' = Waiting /\ Open' = Open
  BY <1>2, <1>5 DEF Calling, Waiting, Open
<1>7. Types'
  <2>1. Call' = Call
    BY <1>2 DEF Call
  <2> QED BY <1>1, <1>2, <1>5, <2>1 DEF Types
<1>8. Stacked'
  <2>1. \A i \in DOMAIN calls : i + 1 \in DOMAIN calls => calls'[i + 1].w = calls[i].v
    <3>1. DOMAIN calls = 1..Len(calls)
      BY <1>1 DEF Types
    <3>2. ASSUME NEW i \in DOMAIN calls, i + 1 \in DOMAIN calls PROVE calls'[i + 1].w = calls[i].v
      <4>1. i + 1 # 1
        BY <3>1
      <4> QED BY <1>1, <1>5, <3>2, <4>1 DEF Stacked
    <3> QED BY <3>2
  <2> QED BY <1>1, <1>2, <1>5, <1>6, <2>1 DEF Stacked
<1>9. ChildrenHandled'
  <2>1. ASSUME NEW i \in DOMAIN calls
        PROVE  /\ calls'[i].w # Unset => calls'[i].w \in Children(calls[i].v) \cap visited
               /\ \A k \in Children(calls[i].v) \ calls'[i].todo :
                    k = calls'[i].w \/ Handled(calls[i].v, k)
    <3>1. /\ calls[i].w # Unset => calls[i].w \in Children(calls[i].v) \cap visited
          /\ \A k \in Children(calls[i].v) \ calls[i].todo : k = calls[i].w \/ Handled(calls[i].v, k)
      BY <1>1 DEF ChildrenHandled
    <3>2. CASE i = 1
      BY <1>3, <1>5, <3>1, <3>2
    <3>3. CASE i # 1
      BY <1>5, <3>1, <3>3
    <3> QED BY <3>2, <3>3
  <2> QED BY <1>1, <1>2, <1>3, <1>5, <1>6, <2>1 DEF ChildrenHandled, Handled
<1>10. Lowered'
  <2>1. ASSUME NEW u \in Calling, NEW p \in Waiting, Within(u, p) PROVE scD[rep[u]] <= scD[rep[p]]
    BY <1>1, <1>3, <1>4, <1>5, <2>1 DEF Lowered, Compared
  <2> QED BY <1>2, <1>6, <2>1 DEF Lowered, Within, Compared
<1>11. Numbered' /\ Sorted' /\ SubsRight' /\ Ordered'
  <2>1. \A n : From(n)' = From(n)
    BY <1>3
  <2>2. Numbered' /\ Sorted' /\ Ordered'
    BY <1>1, <1>2, <1>6 DEF Numbered, Sorted, Ordered
  <2> QED BY <1>1, <1>2, <1>6, <2>1, <2>2 DEF SubsRight
<1>12. Led' /\ Leading' /\ Components' /\ Sought'
  <2>1. \A n : From(n)' = From(n)
    BY <1>3
  <2> QED BY <1>1, <1>2, <1>6, <2>1 DEF Led, Leading, Components, Sought
<1>13. Pending'
  BY <1>1, <1>3, <1>5 DEF Pending
<1> QED BY <1>7, <1>8, <1>9, <1>10, <1>11, <1>12, <1>13 DEF Inv

(* A step of a caller to its next child. *)
LEMMA NextChildInv ==
  ASSUME SCCAssumption, Inv, NEW w \in Nodes, NextChild(w)
  PROVE  Inv'
<1> DEFINE callers == <<[Top EXCEPT !.todo = @ \ {w}, !.w = w]>> \o Tail(calls)
<1>1. /\ Active /\ Top.w = Unset /\ w \in Top.todo
      /\ IF w \in visited
         THEN calls' = callers /\ UNCHANGED <<scI, scD, rep, subNodes, visited>>
         ELSE Enter(w, callers)
      /\ UNCHANGED <<search, inSCC, SS, topo>>
  BY DEF NextChild
<1>2. /\ Types /\ Numbered /\ Stacked /\ Pending /\ Sought
  BY DEF Inv
<1>3. 1 \in DOMAIN calls /\ Top = calls[1] /\ Top.v \in visited /\ Top.v \in Nodes
  BY <1>1, <1>2, OpenFacts, TopFacts
<1>4. w \in Children(Top.v)
  BY <1>1, <1>2, <1>3 DEF Pending
<1>5. CallersOf(callers, w)
  BY <1>1, <1>4, NextCallers
<1> HIDE DEF callers
<1>6. CASE w \in visited
  BY <1>1, <1>5, <1>6, VisitedInv
<1>7. CASE w \notin visited
  <2>1. PICK k \in search.from : Top.v \in From(k)
    BY <1>2, <1>3 DEF Sought
  <2>2. k \in Nodes
    BY <1>2, SearchFacts
  <2>3. w \in From(k)
    BY <1>2, <1>4, <2>1, <2>2, FromFacts
  <2> QED BY <1>1, <1>5, <1>7, <2>3, EnterInv
<1> QED BY <1>6, <1>7

(* The first call, at a node find() goes through. *)
LEMMA FindInv ==
  ASSUME SCCAssumption, Inv, NEW n \in Nodes, Find(n)
  PROVE  Inv'
<1>1. /\ calls = <<>> /\ n \in search.from /\ n \notin visited /\ Enter(n, <<>>)
      /\ UNCHANGED <<search, inSCC, SS, topo>>
  BY DEF Find
<1>2. CallersOf(<<>>, n)
  BY <1>1 DEF CallersOf
<1>3. n \in From(n)
  BY FromFacts DEF Inv
<1> QED BY <1>1, <1>2, <1>3, EnterInv

(* Back from a child, the representative of the node is as old as that of the
   child. *)
LEMMA CompareInv ==
  ASSUME SCCAssumption, Inv, CompareChild
  PROVE  Inv'
<1> USE DEF Nodes
<1> DEFINE v == Top.v
           w == Top.w
           top == [Top EXCEPT !.w = Unset]
<1>1. /\ Types /\ Numbered /\ Stacked /\ Sorted /\ Pending /\ ChildrenHandled /\ Led /\ Leading
      /\ Lowered /\ Components /\ SubsRight /\ Ordered /\ Sought
  BY DEF Inv
<1>2. /\ search' = search /\ inSCC' = inSCC /\ SS' = SS /\ topo' = topo
      /\ scI' = scI /\ scD' = scD /\ visited' = visited /\ calls' = <<top>> \o Tail(calls)
      /\ Active /\ w # Unset
  BY DEF CompareChild
<1>3. /\ Unset \notin search.nodes /\ \A n : Children(n) \subseteq search.nodes
      /\ \A n : Children(n)' = Children(n)
      /\ \A n : From(n)' = From(n)
  BY <1>1, <1>2, SearchFacts DEF Children, From
<1>4. /\ Calling \subseteq Open /\ Waiting \subseteq Open /\ Open \subseteq visited
      /\ visited \subseteq search.nodes /\ Open \cap inSCC = {} /\ visited = Open \cup inSCC
      /\ \A i \in DOMAIN calls : calls[i] \in Call /\ calls[i].v \in Calling
      /\ \A n \in search.nodes : scD[n] \in Nat
  BY <1>1, OpenFacts
<1>5. /\ 1 \in DOMAIN calls /\ v = calls[1].v /\ w = calls[1].w /\ v \in Calling
      /\ top \in Call /\ top.v = v /\ top.w = Unset /\ top.todo = calls[1].todo
  BY <1>1, <1>2, TopFacts DEF Call
<1>6. w \in Children(v) /\ w \in visited
  BY <1>1, <1>2, <1>5 DEF ChildrenHandled
<1> HIDE DEF v, w, top
<1>7. /\ calls' \in Seq(Call) /\ DOMAIN calls' = DOMAIN calls /\ calls'[1] = top
      /\ \A i \in DOMAIN calls : i # 1 => calls'[i] = calls[i]
  <2>1. /\ Tail(calls) \in Seq(Call) /\ Len(calls) \in Nat \ {0} /\ DOMAIN calls = 1..Len(calls)
        /\ DOMAIN Tail(calls) = 1..(Len(calls) - 1)
        /\ \A i \in DOMAIN Tail(calls) : i + 1 \in DOMAIN calls /\ Tail(calls)[i] = calls[i + 1]
    BY <1>1, <1>2, PoppedFacts DEF Types, Active
  <2>2. /\ calls' \in Seq(Call) /\ Len(Tail(calls)) \in Nat /\ DOMAIN Tail(calls) = 1..Len(Tail(calls))
        /\ DOMAIN calls' = 1..(Len(Tail(calls)) + 1) /\ calls'[1] = top
        /\ \A i \in DOMAIN calls' : i = 1 \/ (i - 1 \in DOMAIN Tail(calls) /\ calls'[i] = Tail(calls)[i - 1])
    BY <1>2, <1>5, <2>1, PushedFacts
  <2>3. Len(Tail(calls)) = Len(calls) - 1
    BY <2>1, <2>2
  <2>4. DOMAIN calls' = DOMAIN calls
    BY <2>1, <2>2, <2>3
  <2>5. ASSUME NEW i \in DOMAIN calls, i # 1 PROVE calls'[i] = calls[i]
    <3>1. i - 1 \in DOMAIN Tail(calls) /\ calls'[i] = Tail(calls)[i - 1] /\ (i - 1) + 1 = i
      BY <2>1, <2>2, <2>4, <2>5
    <3> QED BY <2>1, <3>1
  <2> QED BY <2>2, <2>4, <2>5
<1>8. \A i \in DOMAIN calls : calls'[i].v = calls[i].v /\ calls'[i].todo = calls[i].todo
  BY <1>5, <1>7
<1>9. Calling' = Calling /\ Waiting' = Waiting /\ Open' = Open
  BY <1>2, <1>7, <1>8 DEF Calling, Waiting, Open
<1>10. /\ v \in Open /\ v \notin Waiting /\ v \in search.nodes /\ v \notin inSCC
       /\ \A n \in Open : rep[n] \in Open /\ scD[rep[n]] \in Nat /\ scD[rep[n]] <= scD[n]
  BY <1>1, <1>4, <1>5 DEF Stacked, Led
<1> DEFINE r == Lower(v, w)
<1>11. IF w \in inSCC THEN rep' = rep /\ subNodes' = subNodes
       ELSE rep' = [rep EXCEPT ![v] = r] /\ subNodes' = SubNodesWith(v, r)
  BY DEF CompareChild, v, w
<1>12. ASSUME w \notin inSCC
       PROVE  r \in Open /\ scD[r] <= scD[rep[v]] /\ scD[r] <= scD[rep[w]] /\ r \in From(v)
  <2>1. w \in Open
    BY <1>6, <1>12 DEF Open
  <2>2. (r = rep[v] \/ r = rep[w]) /\ scD[r] <= scD[rep[v]] /\ scD[r] <= scD[rep[w]]
    BY <1>10, <2>1 DEF Lower
  <2>3. rep[v] \in From(v) /\ rep[w] \in From(w)
    BY <1>1, <1>10, <2>1 DEF Led
  <2>4. From(w) \subseteq From(v)
    BY <1>1, <1>6, <1>10, FromFacts
  <2> QED BY <1>10, <2>1, <2>2, <2>3, <2>4
<1> HIDE DEF r
<1>13. /\ rep' \in [search.nodes -> search.nodes \cup {Unset}]
       /\ \A n \in search.nodes : n # v => rep'[n] = rep[n]
       /\ rep'[v] \in Open /\ scD[rep'[v]] <= scD[rep[v]] /\ rep'[v] \in From(v)
       /\ w \in inSCC \/ scD[rep'[v]] <= scD[rep[w]]
  <2>1. CASE w \in inSCC
    <3>1. rep[v] \in Open /\ rep[v] \in From(v) /\ scD[rep[v]] \in Nat
      BY <1>1, <1>10 DEF Led
    <3> QED BY <1>1, <1>11, <2>1, <3>1 DEF Types
  <2>2. CASE w \notin inSCC
    <3>1. rep'[v] = r /\ \A n \in search.nodes : n # v => rep'[n] = rep[n]
      BY <1>1, <1>10, <1>11, <2>2 DEF Types
    <3>2. r \in search.nodes
      BY <1>4, <1>12, <2>2
    <3> QED BY <1>1, <1>11, <1>12, <2>2, <3>1, <3>2 DEF Types
  <2> QED BY <2>1, <2>2
<1>14. Types'
  <2>1. Call' = Call
    BY <1>2 DEF Call
  <2>2. subNodes' \in [search.nodes -> SUBSET search.nodes]
    <3>1. subNodes' = subNodes \/ subNodes' = SubNodesWith(v, r)
      BY <1>11
    <3>2. subNodes \in [search.nodes -> SUBSET search.nodes]
      BY <1>1 DEF Types
    <3>3. SubNodesWith(v, r) \in [search.nodes -> SUBSET search.nodes]
      BY <1>10, <3>2 DEF SubNodesWith
    <3> QED BY <3>1, <3>2, <3>3
  <2> QED BY <1>1, <1>2, <1>7, <1>13, <2>1, <2>2 DEF Types
<1>15. Numbered' /\ Sorted' /\ Pending' /\ Leading' /\ Sought'
  <2>1. (\A n : From(n)' = From(n)) /\ (\A n : Children(n)' = Children(n))
    BY <1>3
  <2>2. Pending'
    BY <1>1, <1>7, <1>8, <2>1 DEF Pending
  <2> QED BY <1>1, <1>2, <1>9, <2>1, <2>2 DEF Numbered, Sorted, Leading, Sought
<1>16. Stacked'
  <2>1. ASSUME NEW i \in DOMAIN calls, i + 1 \in DOMAIN calls PROVE calls'[i + 1].w = calls[i].v
    <3>1. DOMAIN calls = 1..Len(calls)
      BY <1>1 DEF Types
    <3>2. i + 1 # 1
      BY <3>1
    <3> QED BY <1>1, <1>7, <2>1, <3>2 DEF Stacked
  <2>2. \A i, j \in DOMAIN calls : i < j => scD[calls'[j].v] < scD[calls'[i].v]
    BY <1>1, <1>8 DEF Stacked
  <2> QED BY <1>1, <1>2, <1>7, <1>8, <1>9, <2>1, <2>2 DEF Stacked
<1>17. Led'
  <2>1. ASSUME NEW n \in Open
        PROVE  rep'[n] \in Open /\ scD[rep'[n]] <= scD[n] /\ rep'[n] \in From(n)
    <3>1. CASE n = v
      BY <1>4, <1>10, <1>13, <3>1
    <3>2. CASE n # v
      BY <1>1, <1>4, <1>13, <3>2 DEF Led
    <3> QED BY <3>1, <3>2
  <2>2. \A p \in Waiting : rep'[p] # p
    BY <1>1, <1>4, <1>10, <1>13 DEF Led
  <2>3. \A n : From(n)' = From(n)
    BY <1>3
  <2> QED BY <1>2, <1>9, <2>1, <2>2, <2>3 DEF Led
<1> DEFINE HandledNow(n, k) == k \in visited /\ (k \in inSCC \/ scD[rep'[n]] <= scD[k])
<1>18. ASSUME NEW n \in Open, NEW k, Handled(n, k) PROVE HandledNow(n, k)
  <2>1. scD[rep'[n]] \in Nat /\ scD[rep'[n]] <= scD[rep[n]] /\ scD[rep[n]] \in Nat
    <3>1. CASE n = v
      BY <1>4, <1>10, <1>13, <3>1
    <3>2. CASE n # v
      BY <1>4, <1>10, <1>13, <3>2
    <3> QED BY <3>1, <3>2
  <2> QED BY <1>4, <1>18, <2>1 DEF Handled
<1>19. HandledNow(v, w)
  <2>1. CASE w \in inSCC
    BY <1>6, <2>1
  <2>2. CASE w \notin inSCC
    <3>1. w \in Open /\ w \in search.nodes
      BY <1>4, <1>6, <2>2
    <3>2. scD[rep'[v]] \in Nat /\ scD[rep[w]] \in Nat /\ scD[w] \in Nat
          /\ scD[rep'[v]] <= scD[rep[w]] /\ scD[rep[w]] <= scD[w]
      BY <1>4, <1>10, <1>13, <2>2, <3>1
    <3> QED BY <1>6, <3>2
  <2> QED BY <2>1, <2>2
<1> HIDE DEF HandledNow
<1>20. ChildrenHandled'
  <2>1. ASSUME NEW i \in DOMAIN calls
        PROVE  /\ calls'[i].w # Unset => calls'[i].w \in Children(calls[i].v) \cap visited
               /\ \A k \in Children(calls[i].v) \ calls[i].todo :
                    k = calls'[i].w \/ HandledNow(calls[i].v, k)
    <3>1. /\ calls[i].w # Unset => calls[i].w \in Children(calls[i].v) \cap visited
          /\ \A k \in Children(calls[i].v) \ calls[i].todo :
               k = calls[i].w \/ HandledNow(calls[i].v, k)
      BY <1>1, <1>4, <1>18 DEF ChildrenHandled
    <3>2. CASE i = 1
      BY <1>5, <1>7, <1>19, <3>1, <3>2
    <3>3. CASE i # 1
      BY <1>7, <3>1, <3>3
    <3> QED BY <3>2, <3>3
  <2>2. \A p \in Waiting : \A k \in Children(p) : HandledNow(p, k)
    BY <1>1, <1>4, <1>18 DEF ChildrenHandled
  <2>3. ASSUME NEW i \in DOMAIN calls'
        PROVE  /\ calls'[i].w # Unset => calls'[i].w \in Children(calls'[i].v) \cap visited
               /\ \A k \in Children(calls'[i].v) \ calls'[i].todo :
                    k = calls'[i].w \/ HandledNow(calls'[i].v, k)
    BY <1>7, <1>8, <2>1
  <2> QED BY <1>2, <1>3, <1>9, <2>2, <2>3 DEF ChildrenHandled, Handled, HandledNow
<1>21. Lowered'
  <2>1. ASSUME NEW u \in Calling, NEW p \in Waiting, Within(u, p)
        PROVE  scD[rep'[u]] <= scD[rep'[p]]
    <3>1. /\ p \in Open /\ u \in Open /\ p # v /\ rep'[p] = rep[p]
          /\ scD[rep[p]] \in Nat /\ scD[rep[u]] \in Nat /\ scD[rep[v]] \in Nat /\ scD[rep'[v]] \in Nat
      BY <1>4, <1>10, <1>13
    <3>2. Compared(p, u)
      BY <1>1, <2>1 DEF Lowered
    <3>3. CASE scD[rep[u]] <= scD[rep[p]]
      BY <1>4, <1>13, <3>1, <3>3
    <3>4. CASE u = v /\ w \in Waiting /\ scD[rep[w]] <= scD[rep[p]]
      <4>1. w \notin inSCC /\ scD[rep[w]] \in Nat
        BY <1>4, <1>10, <3>4
      <4> QED BY <1>13, <3>1, <3>4, <4>1
    <3> QED BY <1>5, <3>2, <3>3, <3>4 DEF Compared
  <2> QED BY <1>2, <1>9, <2>1 DEF Lowered, Within, Compared
<1>22. \A n \in inSCC : n # v /\ n \in search.nodes /\ rep'[n] = rep[n]
  BY <1>4, <1>10, <1>13
<1>23. Components'
  <2>1. \A n \in inSCC : rep'[rep'[n]] = rep[rep[n]]
    BY <1>1, <1>22 DEF Components
  <2> QED BY <1>1, <1>2, <1>3, <1>22, <2>1 DEF Components
<1>24. SubsRight'
  <2>1. CASE w \in inSCC
    <3>1. \A n : From(n)' = From(n)
      BY <1>3
    <3>2. rep' = rep /\ subNodes' = subNodes
      BY <1>11, <2>1
    <3> QED BY <1>1, <1>2, <1>9, <3>1, <3>2 DEF SubsRight
  <2>2. CASE w \notin inSCC
    <3>1. r \in Open /\ r \in search.nodes /\ scD[r] <= scD[v] /\ r \in From(v) /\ rep'[v] = r
      BY <1>1, <1>4, <1>10, <1>11, <1>12, <2>2 DEF Types
    <3>2. \A k \in search.nodes :
            subNodes'[k] = IF k = r THEN subNodes[k] \cup {v} ELSE IF k = v THEN {} ELSE subNodes[k]
      BY <1>11, <2>2 DEF SubNodesWith
    <3>3. ASSUME NEW n \in inSCC
          PROVE  subNodes'[n] = IF rep'[n] = n THEN {k \in inSCC : rep'[k] = n} ELSE {}
      <4>1. {k \in inSCC : rep'[k] = n} = {k \in inSCC : rep[k] = n}
        BY <1>22
      <4>2. subNodes[n] = IF rep[n] = n THEN {k \in inSCC : rep[k] = n} ELSE {}
        BY <1>1 DEF SubsRight
      <4>3. subNodes'[n] = subNodes[n]
        BY <1>4, <1>22, <3>1, <3>2
      <4> QED BY <1>22, <4>1, <4>2, <4>3
    <3>4. ASSUME NEW k \in Open
          PROVE  /\ rep'[k] = k => k \in subNodes'[k]
                 /\ \A n \in subNodes'[k] : n \in Open /\ scD[k] <= scD[n] /\ k \in From(n)
      <4>1. /\ k \in search.nodes
            /\ rep[k] = k => k \in subNodes[k]
            /\ \A n \in subNodes[k] : n \in Open /\ scD[k] <= scD[n] /\ k \in From(n)
        BY <1>1, <1>4 DEF SubsRight
      <4>2. k = v \/ rep'[k] = rep[k]
        BY <1>13, <4>1
      <4> QED BY <1>10, <3>1, <3>2, <4>1, <4>2
    <3>5. \A n \in search.nodes \ visited : subNodes'[n] = {}
      BY <1>1, <1>4, <1>10, <3>1, <3>2 DEF SubsRight
    <3>6. \A n : From(n)' = From(n)
      BY <1>3
    <3> QED BY <1>2, <1>9, <3>3, <3>4, <3>5, <3>6 DEF SubsRight
  <2> QED BY <2>1, <2>2
<1>25. Ordered'
  <2>1. {n \in inSCC : rep'[n] = n} = {n \in inSCC : rep[n] = n}
    BY <1>22
  <2> QED BY <1>1, <1>2, <1>22, <2>1 DEF Ordered
<1> QED BY <1>14, <1>15, <1>16, <1>17, <1>20, <1>21, <1>23, <1>24, <1>25 DEF Inv

-----------------------------------------------------------------------------
(* The end of a call *)

(* The calls without the innermost, whose children are through. *)
LEMMA LeftCalls ==
  ASSUME SCCAssumption, Inv, Active, Top.w = Unset, Top.todo = {}, calls' = Tail(calls)
  PROVE  /\ Top.v \in Calling /\ Calling' = Calling \ {Top.v} /\ calls' \in Seq(Call)
         /\ \A u \in Calling' : scD[u] < scD[Top.v]
         /\ \A i \in DOMAIN calls' : calls'[i].v \in Calling'
         /\ \A i \in DOMAIN calls' : i + 1 \in DOMAIN calls /\ calls'[i] = calls[i + 1]
         /\ \A i, j \in DOMAIN calls' : i < j => scD[calls'[j].v] < scD[calls'[i].v]
         /\ \A i \in DOMAIN calls' : i + 1 \in DOMAIN calls' => calls'[i + 1].w = calls'[i].v
         /\ \A u \in Calling' : scD[u] <= scD[calls'[1].v] /\ calls'[1].v \in Calling' /\ calls'[1].w = Top.v
         /\ \A k \in Children(Top.v) : Handled(Top.v, k)
         /\ \A u \in Calling : \A p \in Waiting : Within(u, p) => scD[rep[u]] <= scD[rep[p]]
<1>1. /\ Types /\ Numbered /\ Stacked /\ ChildrenHandled /\ Lowered
      /\ \A n : Children(n) \subseteq Nodes /\ Unset \notin Nodes
  BY SearchFacts DEF Inv
<1>2. /\ Calling \subseteq Nodes /\ Waiting \subseteq Nodes /\ \A n \in Nodes : scD[n] \in Nat
      /\ \A i \in DOMAIN calls : calls[i] \in Call /\ calls[i].v \in Calling
  BY <1>1, OpenFacts
<1>3. /\ 1 \in DOMAIN calls /\ Top = calls[1] /\ Top.v \in Calling
      /\ \A u \in Calling : u = Top.v \/ scD[u] < scD[Top.v]
  BY <1>1, TopFacts
<1>4. /\ calls' \in Seq(Call) /\ Len(calls) \in Nat \ {0} /\ DOMAIN calls = 1..Len(calls)
      /\ DOMAIN calls' = 1..(Len(calls) - 1)
      /\ \A i \in DOMAIN calls' : i + 1 \in DOMAIN calls /\ calls'[i] = calls[i + 1]
  BY <1>1, PoppedFacts DEF Types, Active
<1>5. \A i, j \in DOMAIN calls : i < j => scD[calls[j].v] < scD[calls[i].v]
  BY <1>1 DEF Stacked
<1>6. Calling' = Calling \ {Top.v}
  <2>1. ASSUME NEW i \in DOMAIN calls' PROVE calls'[i].v \in Calling \ {Top.v}
    <3>1. i + 1 \in DOMAIN calls /\ calls'[i] = calls[i + 1] /\ 1 < i + 1
      BY <1>4
    <3>2. scD[calls[i + 1].v] < scD[Top.v]
      BY <1>3, <1>5, <3>1
    <3> QED BY <1>2, <1>3, <3>1, <3>2
  <2>2. ASSUME NEW i \in DOMAIN calls, calls[i].v # Top.v PROVE calls[i].v \in Calling'
    <3>1. i - 1 \in DOMAIN calls' /\ (i - 1) + 1 = i
      BY <1>3, <1>4, <2>2
    <3>2. calls'[i - 1] = calls[i]
      BY <1>4, <3>1
    <3> QED BY <3>1, <3>2 DEF Calling
  <2> QED BY <2>1, <2>2 DEF Calling
<1>7. \A u \in Calling' : scD[u] < scD[Top.v]
  BY <1>3, <1>6
<1>8. ASSUME NEW i \in DOMAIN calls', NEW j \in DOMAIN calls', i < j
      PROVE  scD[calls'[j].v] < scD[calls'[i].v]
  <2>1. i + 1 \in DOMAIN calls /\ j + 1 \in DOMAIN calls /\ i + 1 < j + 1
    BY <1>4, <1>8
  <2> QED BY <1>4, <1>5, <2>1
<1>9. ASSUME NEW i \in DOMAIN calls', i + 1 \in DOMAIN calls' PROVE calls'[i + 1].w = calls'[i].v
  <2>1. i + 1 \in DOMAIN calls /\ (i + 1) + 1 \in DOMAIN calls
    BY <1>4, <1>9
  <2> QED BY <1>1, <1>4, <1>9, <2>1 DEF Stacked
<1>10. ASSUME NEW u \in Calling'
       PROVE  scD[u] <= scD[calls'[1].v] /\ calls'[1].v \in Calling' /\ calls'[1].w = Top.v
  <2>1. PICK i \in DOMAIN calls' : u = calls'[i].v
    BY <1>10 DEF Calling
  <2>2. 1 \in DOMAIN calls' /\ (i = 1 \/ 1 < i) /\ 1 + 1 \in DOMAIN calls /\ calls'[1] = calls[1 + 1]
    BY <1>4
  <2>3. calls'[1].v \in Calling'
    BY <2>2 DEF Calling
  <2>4. scD[u] <= scD[calls'[1].v]
    <3>1. scD[u] \in Nat /\ scD[calls'[1].v] \in Nat
      BY <1>2, <1>6, <1>10, <2>3
    <3>2. i # 1 => scD[calls'[i].v] < scD[calls'[1].v]
      BY <1>8, <2>2
    <3> QED BY <2>1, <3>1, <3>2
  <2>5. calls'[1].w = Top.v
    BY <1>1, <1>3, <2>2 DEF Stacked
  <2> QED BY <2>3, <2>4, <2>5
<1>11. \A k \in Children(Top.v) : Handled(Top.v, k)
  <2>1. \A k \in Children(calls[1].v) \ calls[1].todo : k = calls[1].w \/ Handled(calls[1].v, k)
    BY <1>1, <1>3 DEF ChildrenHandled
  <2> QED BY <1>1, <1>3, <2>1
<1>12. \A u \in Calling : \A p \in Waiting : Within(u, p) => scD[rep[u]] <= scD[rep[p]]
  BY <1>1, <1>2, <1>3 DEF Lowered, Compared
<1>13. \A i \in DOMAIN calls' : calls'[i].v \in Calling'
  BY DEF Calling
<1> QED BY <1>3, <1>4, <1>6, <1>7, <1>8, <1>9, <1>10, <1>11, <1>12, <1>13

(* The node of the call has a representative visited before it, and waits on
   _SS. *)
LEMMA WaitInv ==
  ASSUME SCCAssumption, Inv, Leave, rep[Top.v] # Top.v
  PROVE  Inv'
<1> USE DEF Nodes
<1> DEFINE v == Top.v
<1>1. /\ Types /\ Numbered /\ Stacked /\ Sorted /\ Pending /\ ChildrenHandled /\ Led /\ Leading
      /\ Lowered /\ Components /\ SubsRight /\ Ordered /\ Sought
  BY DEF Inv
<1>2. /\ search' = search /\ inSCC' = inSCC /\ topo' = topo /\ scI' = scI /\ scD' = scD
      /\ rep' = rep /\ subNodes' = subNodes /\ visited' = visited
      /\ calls' = Tail(calls) /\ SS' = <<v>> \o SS
      /\ Active /\ Top.w = Unset /\ Top.todo = {} /\ rep[v] # v
  BY DEF Leave
<1>3. /\ \A n : Children(n)' = Children(n)
      /\ \A n : From(n)' = From(n)
  BY <1>2 DEF Children, From
<1>4. /\ Calling \subseteq Open /\ Waiting \subseteq Open /\ Open \subseteq visited
      /\ visited \subseteq search.nodes
      /\ \A i \in DOMAIN calls : calls[i] \in Call /\ calls[i].v \in Calling
      /\ \A i \in DOMAIN SS : SS[i] \in Waiting
      /\ \A n \in search.nodes : scD[n] \in Nat
  BY <1>1, OpenFacts
<1>5. /\ v \in Calling /\ Calling' = Calling \ {v} /\ calls' \in Seq(Call)
      /\ \A u \in Calling' : scD[u] < scD[v]
      /\ \A i \in DOMAIN calls' : calls'[i].v \in Calling'
      /\ \A i \in DOMAIN calls' : i + 1 \in DOMAIN calls /\ calls'[i] = calls[i + 1]
      /\ \A i, j \in DOMAIN calls' : i < j => scD[calls'[j].v] < scD[calls'[i].v]
      /\ \A i \in DOMAIN calls' : i + 1 \in DOMAIN calls' => calls'[i + 1].w = calls'[i].v
      /\ \A u \in Calling' : scD[u] <= scD[calls'[1].v] /\ calls'[1].v \in Calling' /\ calls'[1].w = v
      /\ \A k \in Children(v) : Handled(v, k)
      /\ \A u \in Calling : \A p \in Waiting : Within(u, p) => scD[rep[u]] <= scD[rep[p]]
  BY <1>2, LeftCalls
<1> HIDE DEF v
<1>6. /\ SS' \in Seq(search.nodes) /\ Len(SS) \in Nat /\ DOMAIN SS = 1..Len(SS)
      /\ DOMAIN SS' = 1..(Len(SS) + 1) /\ SS'[1] = v /\ \A i \in DOMAIN SS : SS'[i + 1] = SS[i]
      /\ \A i \in DOMAIN SS' : i = 1 \/ (i - 1 \in DOMAIN SS /\ SS'[i] = SS[i - 1])
  <2> DEFINE N == search.nodes
  <2>1. v \in N /\ SS \in Seq(N) /\ SS' = <<v>> \o SS
    BY <1>1, <1>2, <1>4, <1>5 DEF Types
  <2> HIDE DEF N
  <2>2. /\ SS' \in Seq(N) /\ Len(SS) \in Nat /\ DOMAIN SS = 1..Len(SS)
        /\ DOMAIN SS' = 1..(Len(SS) + 1) /\ SS'[1] = v /\ \A i \in DOMAIN SS : SS'[i + 1] = SS[i]
        /\ \A i \in DOMAIN SS' : i = 1 \/ (i - 1 \in DOMAIN SS /\ SS'[i] = SS[i - 1])
    BY <2>1, PushedFacts
  <2> QED BY <2>2 DEF N
<1>7. Waiting' = Waiting \cup {v}
  <2>1. Waiting' \subseteq Waiting \cup {v}
    BY <1>4, <1>6 DEF Waiting
  <2>2. 1 \in DOMAIN SS' /\ \A i \in DOMAIN SS : i + 1 \in DOMAIN SS'
    BY <1>6
  <2> QED BY <1>6, <2>1, <2>2 DEF Waiting
<1>8. Open' = Open /\ v \notin Waiting
  BY <1>1, <1>2, <1>5 DEF Open, Stacked
<1>9. Types'
  <2>1. Call' = Call
    BY <1>2 DEF Call
  <2> QED BY <1>1, <1>2, <1>5, <1>6, <2>1 DEF Types
<1>10. Numbered' /\ Leading' /\ Components' /\ SubsRight' /\ Ordered' /\ Sought'
  <2>1. \A n : From(n)' = From(n)
    BY <1>3
  <2>2. Calling' \subseteq Calling
    BY <1>5
  <2>3. Numbered' /\ Components' /\ Ordered'
    BY <1>1, <1>2, <2>1 DEF Numbered, Components, Ordered
  <2>4. SubsRight'
    BY <1>1, <1>2, <1>8, <2>1 DEF SubsRight
  <2> QED BY <1>1, <1>2, <1>8, <2>1, <2>2, <2>3, <2>4 DEF Leading, Sought
<1>11. Stacked'
  <2>1. Open' = Calling' \cup Waiting' /\ Calling' \cap Waiting' = {}
    BY <1>1, <1>5, <1>7, <1>8 DEF Stacked
  <2>2. ASSUME NEW i \in DOMAIN SS', NEW j \in DOMAIN SS', SS'[i] = SS'[j] PROVE i = j
    <3>1. CASE i = 1
      BY <1>4, <1>6, <1>8, <2>2, <3>1
    <3>2. CASE j = 1
      BY <1>4, <1>6, <1>8, <2>2, <3>2
    <3>3. CASE i # 1 /\ j # 1
      <4>1. /\ i - 1 \in DOMAIN SS /\ j - 1 \in DOMAIN SS /\ SS[i - 1] = SS[j - 1]
        BY <1>6, <2>2, <3>3
      <4>2. i - 1 = j - 1
        BY <1>1, <4>1 DEF Stacked
      <4> QED BY <1>6, <4>2
    <3> QED BY <3>1, <3>2, <3>3
  <2> QED BY <1>2, <1>5, <2>1, <2>2 DEF Stacked
<1>12. Sorted'
  <2>1. ASSUME NEW u \in Calling', NEW i \in DOMAIN SS', NEW j \in DOMAIN SS', i < j, scD[u] < scD[SS'[j]]
        PROVE  scD[u] < scD[SS'[i]]
    <3>1. j - 1 \in DOMAIN SS /\ SS'[j] = SS[j - 1] /\ u \in Calling
      BY <1>5, <1>6, <2>1
    <3>2. CASE i = 1
      BY <1>5, <1>6, <3>2
    <3>3. CASE i # 1
      <4>1. i - 1 \in DOMAIN SS /\ SS'[i] = SS[i - 1] /\ i - 1 < j - 1
        BY <1>6, <2>1, <3>3
      <4> QED BY <1>1, <2>1, <3>1, <4>1 DEF Sorted
    <3> QED BY <3>2, <3>3
  <2> QED BY <1>2, <2>1 DEF Sorted
<1>13. Pending'
  BY <1>1, <1>3, <1>5 DEF Pending
<1>14. ChildrenHandled'
  <2>1. ASSUME NEW i \in DOMAIN calls'
        PROVE  /\ calls'[i].w # Unset => calls'[i].w \in Children(calls'[i].v) \cap visited
               /\ \A k \in Children(calls'[i].v) \ calls'[i].todo :
                    k = calls'[i].w \/ Handled(calls'[i].v, k)
    BY <1>1, <1>5 DEF ChildrenHandled
  <2>2. \A p \in Waiting' : \A k \in Children(p) : Handled(p, k)
    BY <1>1, <1>5, <1>7 DEF ChildrenHandled
  <2> QED BY <1>2, <1>3, <2>1, <2>2 DEF ChildrenHandled, Handled
<1>15. Led'
  <2>1. \A n : From(n)' = From(n)
    BY <1>3
  <2> QED BY <1>1, <1>2, <1>7, <1>8, <2>1 DEF Led
<1>16. Lowered'
  <2>1. ASSUME NEW u \in Calling', NEW p \in Waiting', scD[u] < scD[p],
               \A x \in Calling' : scD[u] < scD[x] => scD[p] < scD[x]
        PROVE  \/ scD[rep[u]] <= scD[rep[p]]
               \/ /\ u = calls'[1].v /\ calls'[1].w \in Waiting'
                  /\ scD[calls'[1].w] <= scD[p] /\ scD[rep[calls'[1].w]] <= scD[rep[p]]
    <3>1. /\ u \in Calling /\ v \in search.nodes /\ u \in search.nodes /\ p \in search.nodes
          /\ scD[u] \in Nat /\ scD[v] \in Nat /\ scD[p] \in Nat
      BY <1>4, <1>5, <1>7, <2>1
    <3>2. CASE scD[p] < scD[v]
      <4>1. p \in Waiting
        BY <1>7, <3>1, <3>2
      <4>2. Within(u, p)
        BY <1>5, <2>1, <3>2 DEF Within
      <4> QED BY <1>5, <3>1, <4>1, <4>2
    <3>3. CASE scD[v] <= scD[p]
      <4>1. /\ calls'[1].v \in Calling' /\ calls'[1].v \in search.nodes /\ scD[calls'[1].v] \in Nat
            /\ scD[calls'[1].v] < scD[v] /\ scD[u] <= scD[calls'[1].v] /\ calls'[1].w = v
        BY <1>4, <1>5
      <4>2. scD[u] = scD[calls'[1].v]
        BY <2>1, <3>1, <3>3, <4>1
      <4>3. u = calls'[1].v
        BY <1>1, <1>4, <1>5, <3>1, <4>1, <4>2 DEF Numbered
      <4>4. scD[rep[v]] <= scD[rep[p]]
        <5>1. CASE p = v
          <6>1. rep[v] \in Open
            BY <1>1, <1>4, <1>5 DEF Led
          <6> QED BY <1>4, <5>1, <6>1
        <5>2. CASE p # v
          <6>1. p \in Waiting
            BY <1>7, <5>2
          <6>2. scD[v] # scD[p]
            BY <1>1, <1>4, <1>5, <5>2, <6>1 DEF Numbered
          <6>3. \A x \in Calling : ~ (scD[v] < scD[x])
            BY <1>4, <1>5, <3>1
          <6>4. Within(v, p)
            BY <3>1, <3>3, <6>2, <6>3 DEF Within
          <6> QED BY <1>5, <6>1, <6>4
        <5> QED BY <5>1, <5>2
      <4> QED BY <1>7, <3>3, <4>1, <4>3, <4>4
    <3> QED BY <3>1, <3>2, <3>3
  <2> QED BY <1>2, <2>1 DEF Lowered, Within, Compared
<1> QED BY <1>9, <1>10, <1>11, <1>12, <1>13, <1>14, <1>15, <1>16 DEF Inv

-----------------------------------------------------------------------------
(* A root takes its component off _SS *)

(* The first indices are 1..m. *)
LEMMA PrefixIsInterval ==
  ASSUME NEW l \in Nat, NEW J \in SUBSET (1..l), \A j \in J : \A i \in 1..j : i \in J
  PROVE  \E m \in 0..l : J = 1..m
<1> DEFINE First == [n \in Nat |-> {j \in J : j <= n}]
           T == {n \in Nat : n <= l => \E m \in 0..n : First[n] = 1..m}
<1>1. J \subseteq Nat /\ \A j \in J : j >= 1 /\ j <= l
  OBVIOUS
<1>2. /\ \A n \in Nat : First[n] \subseteq Nat
      /\ \A n \in Nat : \A j \in Nat : j \in First[n] <=> j \in J /\ j <= n
  BY <1>1
<1> HIDE DEF First
<1>3. 0 \in T
  <2>1. \A j \in Nat : j \notin First[0]
    BY <1>1, <1>2
  <2>2. First[0] = 1..0
    BY <1>2, <2>1
  <2>3. 0 \in 0..0 /\ 0 \in Nat
    OBVIOUS
  <2>4. \E m \in 0..0 : First[0] = 1..m
    BY <2>2, <2>3
  <2> QED BY <2>3, <2>4
<1>4. ASSUME NEW n \in Nat, n \in T PROVE n + 1 \in T
  <2>1. SUFFICES ASSUME n + 1 <= l PROVE \E m \in 0..(n + 1) : First[n + 1] = 1..m
    OBVIOUS
  <2>2. PICK m \in 0..n : First[n] = 1..m
    BY <1>4, <2>1
  <2>3. CASE n + 1 \in J
    <3>1. \A j \in 1..(n + 1) : j \in J
      BY <2>3
    <3>2. \A j \in Nat : j \in First[n + 1] <=> j \in 1..(n + 1)
      BY <1>1, <1>2, <3>1
    <3>3. First[n + 1] = 1..(n + 1)
      <4>1. First[n + 1] \subseteq Nat /\ 1..(n + 1) \subseteq Nat
        BY <1>2
      <4> QED BY <3>2, <4>1
    <3> QED BY <3>3
  <2>4. CASE n + 1 \notin J
    <3>1. ASSUME NEW j \in Nat PROVE j \in First[n + 1] <=> j \in First[n]
      <4>1. j \in J /\ j <= n + 1 <=> j \in J /\ j <= n
        BY <2>4
      <4> QED BY <1>2, <4>1
    <3>2. First[n + 1] = First[n]
      BY <1>2, <3>1
    <3> QED BY <2>2, <3>2
  <2> QED BY <2>3, <2>4
<1>5. l \in T
  <2> HIDE DEF T
  <2> QED BY <1>3, <1>4, NatWithSuccessors
<1>6. First[l] = J
  <2>1. \A j \in Nat : j \in First[l] <=> j \in J
    BY <1>1, <1>2
  <2> QED BY <1>1, <1>2, <2>1
<1> QED BY <1>5, <1>6

(* t is what is left of s without the first elements, those at J. *)
Cut(S, s, J, m, t) ==
  /\ m \in 0..Len(s) /\ Len(s) \in Nat /\ DOMAIN s = 1..Len(s) /\ J = 1..m
  /\ t \in Seq(S) /\ DOMAIN t = 1..(Len(s) - m)
  /\ \A i \in DOMAIN t : i + m \in DOMAIN s /\ t[i] = s[i + m]
  /\ \A i \in DOMAIN s \ J : i - m \in DOMAIN t /\ t[i - m] = s[i]

(* As many are taken off as there are in P. *)
LEMMA CutFacts ==
  ASSUME NEW S, NEW s \in Seq(S), NEW J \in SUBSET DOMAIN s, \A j \in J : \A i \in 1..j : i \in J,
         \A i, j \in DOMAIN s : s[i] = s[j] => i = j, NEW P, P = {s[i] : i \in J}
  PROVE  Cut(S, s, J, Cardinality(P), SubSeq(s, Cardinality(P) + 1, Len(s)))
<1>1. Len(s) \in Nat /\ DOMAIN s = 1..Len(s)
  OBVIOUS
<1>2. PICK m \in 0..Len(s) : J = 1..m
  BY <1>1, PrefixIsInterval
<1>3. Cardinality(P) = m
  <2> DEFINE f == [i \in 1..m |-> s[i]]
  <2>1. f \in Bijection(1..m, P)
    <3>1. f \in Surjection(1..m, P)
      BY <1>2 DEF Surjection
    <3>2. f \in Injection(1..m, P)
      <4>1. f \in [1..m -> P] /\ \A i \in 1..m : i \in DOMAIN s /\ f[i] = s[i]
        BY <1>1, <1>2
      <4>2. ASSUME NEW a \in 1..m, NEW b \in 1..m, f[a] = f[b] PROVE a = b
        BY <4>1, <4>2
      <4> HIDE DEF f
      <4> QED BY <4>1, <4>2 DEF Injection, IsInjective
    <3> QED BY <3>1, <3>2 DEF Bijection
  <2>2. ExistsBijection(1..m, P)
    BY <2>1 DEF ExistsBijection
  <2> QED BY <1>1, <1>2, <2>2, FS_CountingElements
<1> DEFINE t == SubSeq(s, m + 1, Len(s))
<1>4. /\ t \in Seq(S) /\ Len(t) = IF m + 1 <= Len(s) THEN Len(s) - (m + 1) + 1 ELSE 0
      /\ \A i \in 1..(Len(s) - (m + 1) + 1) : t[i] = s[(m + 1) + i - 1]
  <2>1. \A i \in (m + 1)..Len(s) : s[i] \in S
    BY <1>1, <1>2
  <2>2. m + 1 \in Int /\ Len(s) \in Int
    BY <1>1, <1>2
  <2> QED BY <2>1, <2>2, SubSeqProperties
<1> HIDE DEF t
<1>5. DOMAIN t = 1..(Len(s) - m)
  <2>1. DOMAIN t = 1..Len(t)
    BY <1>4
  <2>2. Len(t) = Len(s) - m
    <3>1. Len(s) \in Int /\ m \in Int /\ m <= Len(s)
      BY <1>1, <1>2
    <3>2. CASE m + 1 <= Len(s)
      BY <1>4, <3>1, <3>2
    <3>3. CASE ~ (m + 1 <= Len(s))
      <4>1. Len(t) = 0 /\ m = Len(s)
        BY <1>4, <3>1, <3>3
      <4> QED BY <3>1, <4>1
    <3> QED BY <3>2, <3>3
  <2> QED BY <2>1, <2>2
<1>6. ASSUME NEW i \in DOMAIN t PROVE i + m \in DOMAIN s /\ t[i] = s[i + m]
  <2>1. i \in 1..(Len(s) - (m + 1) + 1) /\ (m + 1) + i - 1 = i + m /\ i + m \in 1..Len(s)
    BY <1>1, <1>2, <1>5, <1>6
  <2> QED BY <1>1, <1>4, <2>1
<1>7. ASSUME NEW i \in DOMAIN s \ J PROVE i - m \in DOMAIN t /\ t[i - m] = s[i]
  <2>1. i - m \in DOMAIN t /\ (i - m) + m = i
    BY <1>1, <1>2, <1>5
  <2> QED BY <1>6, <2>1
<1>8. t = SubSeq(s, Cardinality(P) + 1, Len(s))
  BY <1>3 DEF t
<1>9. Cut(S, s, J, m, t)
  BY <1>1, <1>2, <1>4, <1>5, <1>6, <1>7 DEF Cut
<1> QED BY <1>3, <1>8, <1>9

(* The open nodes visited since v. *)
Since(v) == {x \in Open : scD[v] <= scD[x]}

(* The nodes a root v takes off _SS are the open nodes visited since, and with v
   they are one cycle: all reach v, v reaches them, and no edge leads from them
   to another open node. *)
LEMMA RootFacts ==
  ASSUME SCCAssumption, Inv, Active, Top.w = Unset, Top.todo = {}, calls' = Tail(calls),
         NEW v, v = Top.v, rep[v] = v
  PROVE  /\ Above(v) = {p \in Waiting : scD[v] < scD[p]}
         /\ Since(v) = Above(v) \cup {v}
         /\ \A p \in Since(v) : Children(p) \subseteq inSCC \cup Since(v)
         /\ \A p \in Since(v) : v \in From(p) /\ p \in From(v)
<1>1. /\ Types /\ Numbered /\ Stacked /\ Sorted /\ ChildrenHandled /\ Led /\ Leading
  BY DEF Inv
<1>2. /\ Calling \subseteq Open /\ Waiting \subseteq Open /\ Open \subseteq visited
      /\ visited \subseteq Nodes /\ Open = Calling \cup Waiting /\ Calling \cap Waiting = {}
      /\ \A i \in DOMAIN SS : SS[i] \in Waiting
      /\ \A n \in Nodes : scD[n] \in Nat
  BY <1>1, OpenFacts DEF Stacked
<1>3. /\ v \in Calling /\ Calling' = Calling \ {v}
      /\ \A u \in Calling' : scD[u] < scD[v]
      /\ \A k \in Children(v) : Handled(v, k)
      /\ \A u \in Calling : \A p \in Waiting : Within(u, p) => scD[rep[u]] <= scD[rep[p]]
  BY LeftCalls
<1>4. /\ v \in Open /\ v \notin Waiting /\ v \in Nodes /\ scD[v] \in Nat
  BY <1>2, <1>3
<1>5. \A u \in Calling : u = v \/ scD[u] < scD[v]
  BY <1>3
<1>6. \A p \in Open : scD[p] \in Nat /\ rep[p] \in Open /\ scD[rep[p]] \in Nat /\ scD[rep[p]] <= scD[p]
  BY <1>1, <1>2 DEF Led
<1>7. Above(v) = {p \in Waiting : scD[v] < scD[p]}
  <2>1. DOMAIN SS = 1..Len(SS) /\ Len(SS) \in Nat
    BY <1>1 DEF Types
  <2>2. ASSUME NEW j \in DOMAIN SS, scD[v] < scD[SS[j]], NEW k \in 1..j
        PROVE  scD[SS[k]] > scD[v]
    <3>1. k \in DOMAIN SS /\ (k = j \/ k < j) /\ scD[SS[k]] \in Nat
      BY <1>2, <2>1
    <3>2. scD[v] < scD[SS[k]]
      BY <1>1, <1>3, <2>2, <3>1 DEF Sorted
    <3> QED BY <1>4, <3>1, <3>2
  <2>3. ASSUME NEW j \in DOMAIN SS, \A k \in 1..j : scD[SS[k]] > scD[v]
        PROVE  scD[v] < scD[SS[j]]
    <3>1. j \in 1..j /\ scD[SS[j]] \in Nat
      BY <1>2, <2>1
    <3> QED BY <1>4, <2>3, <3>1
  <2>4. {j \in DOMAIN SS : \A k \in 1..j : scD[SS[k]] > scD[v]} = {j \in DOMAIN SS : scD[v] < scD[SS[j]]}
    BY <2>2, <2>3
  <2> QED BY <2>4 DEF Above, Waiting
<1>8. Since(v) = Above(v) \cup {v}
  <2>1. ASSUME NEW x \in Since(v), x # v PROVE x \in Above(v)
    <3>1. x \in Open /\ scD[v] <= scD[x] /\ x \in visited /\ v \in visited /\ scD[x] \in Nat
      BY <1>2, <1>4, <2>1 DEF Since
    <3>2. scD[v] # scD[x]
      BY <1>1, <2>1, <3>1 DEF Numbered
    <3>3. scD[v] < scD[x]
      BY <1>4, <3>1, <3>2
    <3>4. x \notin Calling
      BY <1>4, <1>5, <2>1, <3>1, <3>3
    <3> QED BY <1>2, <1>7, <3>1, <3>3, <3>4
  <2>2. ASSUME NEW x \in Above(v) \cup {v} PROVE x \in Since(v)
    <3>1. x \in Open /\ (x = v \/ scD[v] < scD[x]) /\ scD[x] \in Nat
      BY <1>2, <1>4, <1>7, <2>2
    <3> QED BY <1>4, <3>1 DEF Since
  <2> QED BY <2>1, <2>2
<1>9. ASSUME NEW p \in Above(v) PROVE scD[v] <= scD[rep[p]]
  <2>1. p \in Waiting /\ scD[v] < scD[p]
    BY <1>7
  <2>2. \A x \in Calling : ~ (scD[v] < scD[x])
    <3>1. ASSUME NEW x \in Calling PROVE ~ (scD[v] < scD[x])
      <4>1. scD[x] \in Nat
        BY <1>2
      <4> QED BY <1>4, <1>5, <4>1
    <3> QED BY <3>1
  <2>3. Within(v, p)
    BY <2>1, <2>2 DEF Within
  <2>4. scD[rep[v]] <= scD[rep[p]]
    BY <1>3, <2>1, <2>3
  <2> QED BY <2>4
<1>10. ASSUME NEW p \in Since(v) PROVE p \in Open /\ scD[v] <= scD[rep[p]]
  BY <1>4, <1>8, <1>9 DEF Since
<1>11. ASSUME NEW p \in Since(v), NEW k \in Children(p) PROVE k \in inSCC \cup Since(v)
  <2>1. Handled(p, k)
    BY <1>1, <1>3, <1>7, <1>8 DEF ChildrenHandled
  <2>2. CASE k \in inSCC
    BY <2>2
  <2>3. CASE k \notin inSCC
    <3>1. k \in Open /\ scD[rep[p]] <= scD[k]
      BY <2>1, <2>3 DEF Handled, Open
    <3>2. scD[rep[p]] \in Nat /\ scD[k] \in Nat /\ scD[v] <= scD[rep[p]]
      BY <1>6, <1>10, <3>1
    <3> QED BY <1>4, <3>1, <3>2 DEF Since
  <2> QED BY <2>2, <2>3
<1>12. \A p \in Since(v) : v \in From(p)
  <2> DEFINE T == {n \in Nat : \A p \in Since(v) : scD[p] <= n => v \in From(p)}
  <2>1. 0 \in T
    <3>1. \A p \in Since(v) : p \in visited /\ p \in Nodes /\ scD[p] > 0
      BY <1>1, <1>2 DEF Since, Numbered
    <3> QED BY <1>2, <3>1
  <2>2. ASSUME NEW n \in Nat, n \in T PROVE n + 1 \in T
    <3>1. SUFFICES ASSUME NEW p \in Since(v), scD[p] <= n + 1 PROVE v \in From(p)
      OBVIOUS
    <3>2. p \in Nodes /\ p \in Open /\ rep[p] \in From(p)
      BY <1>1, <1>2, <1>10 DEF Led
    <3>3. CASE p = v
      BY <1>1, <3>2, <3>3, FromFacts
    <3>4. CASE p # v
      <4>1. rep[p] \in Since(v) /\ rep[p] # p /\ scD[rep[p]] <= scD[p]
        BY <1>1, <1>6, <1>7, <1>8, <1>10, <3>4 DEF Led, Since
      <4>2. scD[rep[p]] # scD[p]
        BY <1>1, <1>2, <1>6, <3>2, <4>1 DEF Numbered
      <4>3. scD[rep[p]] <= n
        BY <1>6, <3>1, <3>2, <4>1, <4>2
      <4>4. v \in From(rep[p])
        BY <2>2, <4>1, <4>3
      <4> QED BY <1>1, <3>2, <4>4, FromFacts
    <3> QED BY <3>3, <3>4
  <2>3. Nat \subseteq T
    <3> HIDE DEF T
    <3> QED BY <2>1, <2>2, NatWithSuccessors
  <2>4. ASSUME NEW p \in Since(v) PROVE v \in From(p)
    <3>1. scD[p] \in T /\ scD[p] <= scD[p]
      BY <1>6, <1>10, <2>3
    <3> QED BY <3>1
  <2> QED BY <2>4
<1>13. \A p \in Since(v) : p \in From(v)
  BY <1>1, <1>3 DEF Leading, Since
<1> QED BY <1>7, <1>8, <1>11, <1>12, <1>13

(* A root completes its component. *)
LEMMA RootInv ==
  ASSUME SCCAssumption, Inv, Leave, rep[Top.v] = Top.v
  PROVE  Inv'
<1> USE DEF Nodes
<1> DEFINE v == Top.v
           P == Above(v)
           C == Since(v)
           m == Cardinality(P)
<1>1. /\ Types /\ Numbered /\ Stacked /\ Sorted /\ Pending /\ ChildrenHandled /\ Led /\ Leading
      /\ Lowered /\ Components /\ SubsRight /\ Ordered /\ Sought
  BY DEF Inv
<1>2. /\ search' = search /\ scI' = scI /\ scD' = scD /\ visited' = visited
      /\ calls' = Tail(calls) /\ SS' = SubSeq(SS, m + 1, Len(SS)) /\ topo' = <<v>> \o topo
      /\ inSCC' = inSCC \cup P \cup {v}
      /\ rep' = [n \in search.nodes |-> IF n \in P THEN v ELSE rep[n]]
      /\ subNodes' = [n \in search.nodes |-> IF n = v THEN subNodes[v] \cup P
                                             ELSE IF n \in P THEN {} ELSE subNodes[n]]
      /\ Active /\ Top.w = Unset /\ Top.todo = {} /\ rep[v] = v
  BY DEF Leave
<1>3. /\ \A n : Children(n)' = Children(n)
      /\ \A n : From(n)' = From(n)
  BY <1>2 DEF Children, From
<1>4. /\ Calling \subseteq Open /\ Waiting \subseteq Open /\ Open \subseteq visited
      /\ visited \subseteq search.nodes /\ Open \cap inSCC = {} /\ visited = Open \cup inSCC
      /\ \A i \in DOMAIN SS : SS[i] \in Waiting
      /\ \A n \in search.nodes : scD[n] \in Nat
  BY <1>1, OpenFacts
<1>5. /\ v \in Calling /\ Calling' = Calling \ {v} /\ calls' \in Seq(Call)
      /\ \A u \in Calling' : scD[u] < scD[v]
      /\ \A i \in DOMAIN calls' : calls'[i].v \in Calling'
      /\ \A i \in DOMAIN calls' : i + 1 \in DOMAIN calls /\ calls'[i] = calls[i + 1]
      /\ \A i, j \in DOMAIN calls' : i < j => scD[calls'[j].v] < scD[calls'[i].v]
      /\ \A i \in DOMAIN calls' : i + 1 \in DOMAIN calls' => calls'[i + 1].w = calls'[i].v
      /\ \A u \in Calling : \A p \in Waiting : Within(u, p) => scD[rep[u]] <= scD[rep[p]]
  BY <1>2, LeftCalls
<1>6. /\ P = {p \in Waiting : scD[v] < scD[p]} /\ C = P \cup {v}
      /\ \A p \in C : Children(p) \subseteq inSCC \cup C
      /\ \A p \in C : v \in From(p) /\ p \in From(v)
  BY <1>2, RootFacts
<1>7. C = {x \in Open : scD[v] <= scD[x]}
  BY DEF Since
<1>8. /\ SS' \in Seq(search.nodes) /\ m \in Nat
      /\ \A i \in DOMAIN SS' : i \in Nat /\ i + m \in DOMAIN SS /\ SS'[i] = SS[i + m]
      /\ \A i \in DOMAIN SS' : SS[i + m] \notin P
      /\ \A p \in Waiting \ P : \E i \in DOMAIN SS' : SS'[i] = p
  <2> DEFINE J == {i \in DOMAIN SS : scD[v] < scD[SS[i]]}
             N == search.nodes
  <2>1. SS \in Seq(N) /\ \A i, j \in DOMAIN SS : SS[i] = SS[j] => i = j
    BY <1>1 DEF Types, Stacked
  <2>2. P = {SS[i] : i \in J}
    BY <1>6 DEF Waiting
  <2>3. ASSUME NEW j \in J, NEW i \in 1..j PROVE i \in J
    <3>1. i \in DOMAIN SS /\ (i = j \/ i < j)
      BY <2>1
    <3> QED BY <1>1, <1>5, <3>1 DEF Sorted
  <2>4. J \in SUBSET DOMAIN SS
    OBVIOUS
  <2> HIDE DEF N, J, P
  <2>5. Cut(N, SS, J, m, SubSeq(SS, m + 1, Len(SS)))
    BY <2>1, <2>2, <2>3, <2>4, CutFacts
  <2>6. Cut(N, SS, J, m, SS')
    BY <1>2, <2>5
  <2> HIDE DEF m
  <2>7. /\ m \in 0..Len(SS) /\ Len(SS) \in Nat /\ DOMAIN SS = 1..Len(SS) /\ J = 1..m
        /\ SS' \in Seq(N) /\ DOMAIN SS' = 1..(Len(SS) - m)
        /\ \A i \in DOMAIN SS' : i + m \in DOMAIN SS /\ SS'[i] = SS[i + m]
        /\ \A i \in DOMAIN SS \ J : i - m \in DOMAIN SS' /\ SS'[i - m] = SS[i]
    BY <2>6 DEF Cut
  <2>8. ASSUME NEW i \in DOMAIN SS'
        PROVE  i \in Nat /\ i + m \in DOMAIN SS /\ SS'[i] = SS[i + m] /\ SS[i + m] \notin P
    <3>1. i \in Nat /\ i + m \in DOMAIN SS /\ SS'[i] = SS[i + m] /\ i + m \notin J
      BY <2>7
    <3> QED BY <2>1, <2>2, <2>4, <3>1
  <2>9. ASSUME NEW p \in Waiting \ P PROVE \E i \in DOMAIN SS' : SS'[i] = p
    <3>1. PICK i \in DOMAIN SS : p = SS[i]
      BY DEF Waiting
    <3>2. i \notin J
      BY <2>2, <2>9, <3>1
    <3> QED BY <2>7, <3>1, <3>2
  <2>10. m \in Nat
    BY <2>7
  <2> QED BY <2>7, <2>8, <2>9, <2>10 DEF N
<1> HIDE DEF v, P, C, m
<1>9. /\ v \in Open /\ v \notin Waiting /\ v \in search.nodes /\ v \notin P /\ v \in C /\ scD[v] \in Nat
      /\ C \subseteq Open /\ P \subseteq Waiting /\ C \cap inSCC = {} /\ inSCC' = inSCC \cup C
      /\ C \subseteq search.nodes
  BY <1>1, <1>2, <1>4, <1>5, <1>6, <1>7 DEF Stacked
<1>10. /\ Waiting' = Waiting \ P /\ Open' = Open \ C
       /\ \A x \in Open' : x \in Open /\ x \in search.nodes /\ scD[x] \in Nat /\ scD[x] < scD[v]
  <2>1. Waiting' = Waiting \ P
    BY <1>4, <1>8 DEF Waiting
  <2>2. Open' = Open \ C
    BY <1>2, <1>9 DEF Open
  <2> QED BY <1>4, <1>7, <1>9, <2>1, <2>2
<1>11. /\ \A n \in search.nodes : rep'[n] = IF n \in P THEN v ELSE rep[n]
       /\ \A n \in C : rep'[n] = v
       /\ \A n \in Open' : rep'[n] = rep[n]
       /\ \A n \in inSCC : rep'[n] = rep[n] /\ n # v /\ n \notin P
  BY <1>2, <1>4, <1>6, <1>9, <1>10
<1>12. Types'
  <2>1. Call' = Call
    BY <1>2 DEF Call
  <2>2. rep' \in [search.nodes -> search.nodes \cup {Unset}]
    BY <1>1, <1>2, <1>9 DEF Types
  <2>3. subNodes' \in [search.nodes -> SUBSET search.nodes]
    <3>1. subNodes \in [search.nodes -> SUBSET search.nodes] /\ P \subseteq search.nodes
      BY <1>1, <1>4, <1>9 DEF Types
    <3> QED BY <1>2, <1>9, <3>1
  <2>4. topo' \in Seq(search.nodes)
    <3> DEFINE N == search.nodes
    <3>1. topo \in Seq(N) /\ v \in N /\ topo' = <<v>> \o topo
      BY <1>1, <1>2, <1>9 DEF Types
    <3> HIDE DEF N
    <3>2. topo' \in Seq(N)
      BY <3>1, PushedFacts
    <3> QED BY <3>2 DEF N
  <2>5. inSCC' \subseteq visited
    BY <1>4, <1>9
  <2> QED BY <1>1, <1>2, <1>5, <1>8, <2>1, <2>2, <2>3, <2>4, <2>5 DEF Types
<1>13. Numbered' /\ Sought'
  BY <1>1, <1>2, <1>3 DEF Numbered, Sought
<1>14. Stacked'
  <2>1. Open' = Calling' \cup Waiting' /\ Calling' \cap Waiting' = {}
    <3>1. Calling \cap Waiting = {} /\ Open = Calling \cup Waiting
      BY <1>1 DEF Stacked
    <3>2. Calling \cap P = {}
      BY <1>9, <3>1
    <3> QED BY <1>5, <1>6, <1>9, <1>10, <3>1, <3>2
  <2>2. ASSUME NEW i \in DOMAIN SS', NEW j \in DOMAIN SS', SS'[i] = SS'[j] PROVE i = j
    <3>1. i \in Nat /\ j \in Nat /\ i + m = j + m
      BY <1>1, <1>8, <2>2 DEF Stacked
    <3> QED BY <1>8, <3>1
  <2> QED BY <1>2, <1>5, <2>1, <2>2 DEF Stacked
<1>15. Sorted'
  <2>1. ASSUME NEW u \in Calling', NEW i \in DOMAIN SS', NEW j \in DOMAIN SS', i < j, scD[u] < scD[SS'[j]]
        PROVE  scD[u] < scD[SS'[i]]
    <3>1. /\ i + m \in DOMAIN SS /\ SS'[i] = SS[i + m] /\ j + m \in DOMAIN SS /\ SS'[j] = SS[j + m]
          /\ i + m < j + m /\ u \in Calling
      BY <1>5, <1>8, <2>1
    <3> QED BY <1>1, <2>1, <3>1 DEF Sorted
  <2> QED BY <1>2, <2>1 DEF Sorted
<1>16. Pending'
  BY <1>1, <1>3, <1>5 DEF Pending
<1> DEFINE HandledNow(n, k) == k \in visited /\ (k \in inSCC' \/ scD[rep'[n]] <= scD[k])
<1>17. ASSUME NEW n \in Open', NEW k, Handled(n, k) PROVE HandledNow(n, k)
  BY <1>9, <1>11, <1>17 DEF Handled
<1> HIDE DEF HandledNow
<1>18. Calling' \subseteq Open' /\ Waiting' \subseteq Open'
  BY <1>14 DEF Stacked
<1>19. ChildrenHandled'
  <2>1. ASSUME NEW i \in DOMAIN calls'
        PROVE  /\ calls'[i].w # Unset => calls'[i].w \in Children(calls'[i].v) \cap visited
               /\ \A k \in Children(calls'[i].v) \ calls'[i].todo :
                    k = calls'[i].w \/ HandledNow(calls'[i].v, k)
    <3>1. /\ calls'[i].w # Unset => calls'[i].w \in Children(calls'[i].v) \cap visited
          /\ \A k \in Children(calls'[i].v) \ calls'[i].todo :
               k = calls'[i].w \/ Handled(calls'[i].v, k)
      BY <1>1, <1>5 DEF ChildrenHandled
    <3>2. calls'[i].v \in Open'
      BY <1>5, <1>18
    <3> QED BY <1>17, <3>1, <3>2
  <2>2. \A p \in Waiting' : \A k \in Children(p) : HandledNow(p, k)
    BY <1>1, <1>10, <1>17, <1>18 DEF ChildrenHandled
  <2> QED BY <1>2, <1>3, <2>1, <2>2 DEF ChildrenHandled, Handled, HandledNow
<1>20. Led'
  <2>1. ASSUME NEW n \in Open' PROVE rep'[n] \in Open' /\ scD[rep'[n]] <= scD[n] /\ rep'[n] \in From(n)
    <3>1. rep[n] \in Open /\ scD[rep[n]] <= scD[n] /\ rep[n] \in From(n) /\ rep'[n] = rep[n]
      BY <1>1, <1>10, <1>11 DEF Led
    <3>2. scD[rep[n]] \in Nat
      BY <1>4, <3>1
    <3>3. rep[n] \notin C
      BY <1>7, <1>9, <1>10, <3>1, <3>2
    <3> QED BY <1>10, <3>1, <3>3
  <2>2. \A p \in Waiting' : rep'[p] # p
    BY <1>1, <1>10, <1>11, <1>18 DEF Led
  <2>3. \A n : From(n)' = From(n)
    BY <1>3
  <2> QED BY <1>2, <2>1, <2>2, <2>3 DEF Led
<1>21. Leading'
  <2>1. \A n : From(n)' = From(n)
    BY <1>3
  <2> QED BY <1>1, <1>2, <1>5, <1>10, <2>1 DEF Leading
<1>22. Lowered'
  <2>1. ASSUME NEW u \in Calling', NEW p \in Waiting', scD[u] < scD[p],
               \A x \in Calling' : scD[u] < scD[x] => scD[p] < scD[x]
        PROVE  scD[rep'[u]] <= scD[rep'[p]]
    <3>1. u \in Calling /\ p \in Waiting /\ scD[p] < scD[v]
      BY <1>5, <1>10, <1>18
    <3>2. Within(u, p)
      BY <1>5, <2>1, <3>1 DEF Within
    <3> QED BY <1>5, <1>11, <1>18, <3>1, <3>2
  <2> QED BY <1>2, <2>1 DEF Lowered, Within, Compared
<1>23. \A n \in inSCC : From(n) \subseteq inSCC
  <2>1. inSCC \in SUBSET search.nodes /\ Closed(search.edges, inSCC)
    BY <1>1, <1>4 DEF Components
  <2> QED BY <1>1, <1>4, <2>1, FromFacts
<1>24. Closed(search.edges, inSCC')
  <2>1. SUFFICES ASSUME NEW e \in search.edges, e[1] \in inSCC' PROVE e[2] \in inSCC'
    BY DEF Closed
  <2>2. search.edges \in SUBSET (search.nodes \X search.nodes)
    BY <1>1, SearchFacts
  <2>3. CASE e[1] \in inSCC
    BY <1>1, <1>9, <2>3 DEF Components, Closed
  <2>4. CASE e[1] \in C
    <3>1. e[2] \in Children(e[1])
      BY <2>2 DEF Children
    <3> QED BY <1>6, <1>9, <2>4, <3>1
  <2> QED BY <1>9, <2>1, <2>3, <2>4
<1>25. Components'
  <2>1. ASSUME NEW n \in inSCC' PROVE rep'[n] \in inSCC' /\ rep'[rep'[n]] = rep'[n]
    <3>1. CASE n \in inSCC
      BY <1>1, <1>9, <1>11, <3>1 DEF Components
    <3>2. CASE n \in C
      BY <1>9, <1>11, <3>2
    <3> QED BY <1>9, <3>1, <3>2
  <2>2. ASSUME NEW n \in inSCC', NEW k \in inSCC'
        PROVE  rep'[n] = rep'[k] <=> k \in From(n) /\ n \in From(k)
    <3>1. CASE n \in inSCC /\ k \in inSCC
      BY <1>1, <1>11, <3>1 DEF Components
    <3>2. CASE n \in C /\ k \in C
      <4>1. From(v) \subseteq From(n) /\ From(v) \subseteq From(k)
        BY <1>1, <1>6, <1>9, <3>2, FromFacts
      <4> QED BY <1>6, <1>11, <3>2, <4>1
    <3>3. CASE n \in C /\ k \in inSCC
      <4>1. rep'[n] \notin inSCC /\ rep'[k] \in inSCC
        BY <1>1, <1>9, <1>11, <3>3 DEF Components
      <4>2. n \notin From(k)
        BY <1>9, <1>23, <3>3
      <4> QED BY <4>1, <4>2
    <3>4. CASE n \in inSCC /\ k \in C
      <4>1. rep'[k] \notin inSCC /\ rep'[n] \in inSCC
        BY <1>1, <1>9, <1>11, <3>4 DEF Components
      <4>2. k \notin From(n)
        BY <1>9, <1>23, <3>4
      <4> QED BY <4>1, <4>2
    <3> QED BY <1>9, <3>1, <3>2, <3>3, <3>4
  <2>3. \A n : From(n)' = From(n)
    BY <1>3
  <2> QED BY <1>2, <1>24, <2>1, <2>2, <2>3 DEF Components
<1>26. SubsRight'
  <2>1. \A n \in search.nodes :
          subNodes'[n] = IF n = v THEN subNodes[v] \cup P ELSE IF n \in P THEN {} ELSE subNodes[n]
    BY <1>2
  <2>2. subNodes[v] \subseteq C /\ v \in subNodes[v]
    BY <1>1, <1>2, <1>7, <1>9 DEF SubsRight
  <2>3. ASSUME NEW n \in inSCC'
        PROVE  subNodes'[n] = IF rep'[n] = n THEN {k \in inSCC' : rep'[k] = n} ELSE {}
    <3>1. CASE n = v
      <4>1. \A k \in inSCC : rep'[k] # v
        BY <1>1, <1>9, <1>11 DEF Components
      <4>2. {k \in inSCC' : rep'[k] = v} = C
        BY <1>9, <1>11, <4>1
      <4>3. subNodes'[v] = C
        BY <1>6, <1>9, <2>1, <2>2
      <4> QED BY <1>9, <1>11, <3>1, <4>2, <4>3
    <3>2. CASE n \in P
      BY <1>6, <1>9, <1>11, <2>1, <3>2
    <3>3. CASE n \in inSCC
      <4>1. {k \in inSCC' : rep'[k] = n} = {k \in inSCC : rep[k] = n}
        BY <1>9, <1>11, <3>3
      <4>2. subNodes'[n] = subNodes[n] /\ rep'[n] = rep[n]
        BY <1>4, <1>11, <2>1, <3>3
      <4>3. subNodes[n] = IF rep[n] = n THEN {k \in inSCC : rep[k] = n} ELSE {}
        BY <1>1, <3>3 DEF SubsRight
      <4> QED BY <4>1, <4>2, <4>3
    <3> QED BY <1>6, <1>9, <3>1, <3>2, <3>3
  <2>4. ASSUME NEW r \in Open'
        PROVE  /\ rep'[r] = r => r \in subNodes'[r]
               /\ \A n \in subNodes'[r] : n \in Open' /\ scD[r] <= scD[n] /\ r \in From(n)
    <3>1. r \in Open /\ r \in search.nodes /\ r \notin C /\ rep'[r] = rep[r] /\ subNodes'[r] = subNodes[r]
      BY <1>6, <1>10, <1>11, <2>1
    <3>2. /\ rep[r] = r => r \in subNodes[r]
          /\ \A n \in subNodes[r] : n \in Open /\ scD[r] <= scD[n] /\ r \in From(n)
      BY <1>1, <3>1 DEF SubsRight
    <3>3. ASSUME NEW n \in subNodes[r], n \in C PROVE FALSE
      <4>1. inSCC' \in SUBSET search.nodes /\ n \in inSCC' /\ n \in search.nodes
        BY <1>4, <1>9, <3>3
      <4>2. From(n) \subseteq inSCC'
        BY <1>1, <1>24, <4>1, FromFacts
      <4> QED BY <1>4, <1>9, <3>1, <3>2, <4>2
    <3> QED BY <1>10, <3>1, <3>2, <3>3
  <2>5. \A n \in search.nodes \ visited : subNodes'[n] = {}
    BY <1>1, <1>4, <1>9, <2>1 DEF SubsRight
  <2>6. \A n : From(n)' = From(n)
    BY <1>3
  <2> QED BY <1>2, <2>3, <2>4, <2>5, <2>6 DEF SubsRight
<1>27. Ordered'
  <2> DEFINE N == search.nodes
  <2>1. topo \in Seq(N) /\ v \in N /\ topo' = <<v>> \o topo
    BY <1>1, <1>2, <1>9 DEF Types
  <2> HIDE DEF N
  <2>2. /\ Len(topo) \in Nat /\ DOMAIN topo = 1..Len(topo) /\ DOMAIN topo' = 1..(Len(topo) + 1)
        /\ topo'[1] = v /\ \A i \in DOMAIN topo : topo'[i + 1] = topo[i]
        /\ \A i \in DOMAIN topo' : i = 1 \/ (i - 1 \in DOMAIN topo /\ topo'[i] = topo[i - 1])
    BY <2>1, PushedFacts
  <2>3. /\ \A i, j \in DOMAIN topo : topo[i] = topo[j] => i = j
        /\ {topo[i] : i \in DOMAIN topo} = {n \in inSCC : rep[n] = n}
        /\ \A i, j \in DOMAIN topo : \A n, k \in inSCC :
             rep[n] = topo[i] /\ rep[k] = topo[j] /\ <<n, k>> \in search.edges => i <= j
    BY <1>1 DEF Ordered
  <2>4. \A i \in DOMAIN topo : topo[i] \in inSCC /\ topo[i] # v
    BY <1>9, <2>3
  <2>5. ASSUME NEW i \in DOMAIN topo', NEW j \in DOMAIN topo', topo'[i] = topo'[j] PROVE i = j
    <3>1. CASE i = 1
      BY <2>2, <2>4, <2>5, <3>1
    <3>2. CASE j = 1
      BY <2>2, <2>4, <2>5, <3>2
    <3>3. CASE i # 1 /\ j # 1
      <4>1. i - 1 \in DOMAIN topo /\ j - 1 \in DOMAIN topo /\ topo[i - 1] = topo[j - 1]
        BY <2>2, <2>5, <3>3
      <4>2. i - 1 = j - 1
        BY <2>3, <4>1
      <4> QED BY <2>2, <4>2
    <3> QED BY <3>1, <3>2, <3>3
  <2>6. {topo'[i] : i \in DOMAIN topo'} = {n \in inSCC' : rep'[n] = n}
    <3>1. {topo'[i] : i \in DOMAIN topo'} = {topo[i] : i \in DOMAIN topo} \cup {v}
      <4>1. 1 \in DOMAIN topo' /\ \A i \in DOMAIN topo : i + 1 \in DOMAIN topo'
        BY <2>2
      <4> QED BY <2>2, <4>1
    <3>2. {n \in inSCC' : rep'[n] = n} = {n \in inSCC : rep[n] = n} \cup {v}
      BY <1>9, <1>11
    <3> QED BY <2>3, <3>1, <3>2
  <2>7. ASSUME NEW i \in DOMAIN topo', NEW j \in DOMAIN topo', NEW n \in inSCC', NEW k \in inSCC',
               rep'[n] = topo'[i], rep'[k] = topo'[j], <<n, k>> \in search.edges
        PROVE  i <= j
    <3>1. CASE i = 1
      BY <2>2, <3>1
    <3>2. CASE i # 1
      <4>1. i - 1 \in DOMAIN topo /\ topo'[i] = topo[i - 1] /\ topo[i - 1] # v
        BY <2>2, <2>4, <3>2
      <4>2. n \in inSCC /\ rep[n] = topo[i - 1]
        BY <1>9, <1>11, <2>7, <4>1
      <4>3. k \in inSCC
        BY <1>1, <2>7, <4>2 DEF Components, Closed
      <4>4. rep'[k] = rep[k] /\ rep[k] # v
        BY <1>1, <1>9, <1>11, <4>3 DEF Components
      <4>5. j - 1 \in DOMAIN topo /\ topo'[j] = topo[j - 1]
        BY <2>2, <2>7, <4>4
      <4>6. rep[k] = topo[j - 1]
        BY <2>7, <4>4, <4>5
      <4>7. \A a, b \in DOMAIN topo : rep[n] = topo[a] /\ rep[k] = topo[b] => a <= b
        BY <2>3, <2>7, <4>2, <4>3
      <4>8. i - 1 <= j - 1
        BY <4>1, <4>2, <4>5, <4>6, <4>7
      <4> QED BY <2>2, <4>8
    <3> QED BY <3>1, <3>2
  <2>8. search'.edges = search.edges
    BY <1>2
  <2> QED BY <2>5, <2>6, <2>7, <2>8 DEF Ordered
<1> QED BY <1>12, <1>13, <1>14, <1>15, <1>16, <1>19, <1>20, <1>21, <1>22, <1>25, <1>26, <1>27 DEF Inv

-----------------------------------------------------------------------------
(* What ReachedFrom computes *)

(* Its recursion. *)
Onto(X) == X \cup UNION {Children(k) : k \in X}
Spread == [X \in SUBSET Nodes |-> Onto(X)]
Spreading(n) ==
  LET it[i \in Nat] ==
        IF i = 0 THEN Children(n)
        ELSE it[i-1] \cup UNION {Children(k) : k \in it[i-1]}
  IN  it

(* It is an iteration over the sets of nodes. *)
LEMMA SpreadingIterates ==
  ASSUME NEW n
  PROVE  /\ Spread \in [SUBSET Nodes -> SUBSET Nodes] /\ Children(n) \in SUBSET Nodes
         /\ Iterates(Spreading(n), Spread, Children(n))
         /\ ReachedFrom(n) = Spreading(n)[Cardinality(Nodes)]
<1> DEFINE a == Children(n)
           V == SUBSET Nodes
           Rec(it) == it = [i \in Nat |-> IF i = 0 THEN a ELSE Onto(it[i - 1])]
<1>1. Spread \in [SUBSET Nodes -> SUBSET Nodes] /\ a \in SUBSET Nodes
  <2>1. \A k : Children(k) \subseteq Nodes
    BY DEF Children
  <2> QED BY <2>1 DEF Spread, Onto
<1>2. PICK s : Iterates(s, Spread, a)
  <2> HIDE DEF a
  <2> QED BY <1>1, IterationExists
<1>3. s[0] = a /\ \A i \in Nat : s[i] \in SUBSET Nodes /\ s[i + 1] = Onto(s[i])
  <2>1. s[0] = a /\ \A i \in Nat : s[i] \in V /\ s[i + 1] = Spread[s[i]]
    <3>1. Spread \in [V -> V] /\ a \in V
      BY <1>1
    <3> HIDE DEF a, V
    <3> QED BY <1>2, <3>1, IterationSteps
  <2> QED BY <2>1 DEF Spread
<1>4. Rec(s)
  <2>1. \A i \in Nat : i # 0 => i - 1 \in Nat /\ Spread[s[i - 1]] = Onto(s[i - 1])
    BY <1>3 DEF Spread
  <2> HIDE DEF a
  <2> QED BY <1>2, <2>1 DEF Iterates
<1>5. Rec(Spreading(n))
  <2>1. \E it : Rec(it)
    BY <1>4
  <2>2. Spreading(n) = CHOOSE it : Rec(it)
    BY DEF Spreading, Onto
  <2> HIDE DEF Rec
  <2> QED BY <2>1, <2>2
<1> HIDE DEF a
<1>6. \A i \in Nat : Spreading(n)[i] = s[i]
  <2> DEFINE S == {i \in Nat : Spreading(n)[i] = s[i]}
  <2>1. 0 \in S
    BY <1>3, <1>5
  <2>2. ASSUME NEW i \in Nat, i \in S PROVE i + 1 \in S
    <3>1. Spreading(n)[i + 1] = Onto(Spreading(n)[i])
      BY <1>5
    <3> QED BY <1>3, <2>2, <3>1
  <2>3. Nat \subseteq S
    <3> HIDE DEF S
    <3> QED BY <2>1, <2>2, NatWithSuccessors
  <2> QED BY <2>3
<1>7. Spreading(n) = s
  <2>1. Spreading(n) = [i \in Nat |-> Spreading(n)[i]]
    BY <1>5
  <2>2. s = [i \in Nat |-> s[i]]
    BY <1>2 DEF Iterates
  <2> QED BY <1>6, <2>1, <2>2
<1>8. ReachedFrom(n) = Spreading(n)[Cardinality(Nodes)]
  BY DEF ReachedFrom, Spreading
<1> QED BY <1>1, <1>2, <1>7, <1>8 DEF a

(* What is reached from a node is reached from one of its children. *)
LEMMA ReachedFromFacts ==
  ASSUME SCCAssumption, Types, NEW n \in Nodes
  PROVE  ReachedFrom(n) = {k \in Nodes : \E c \in Children(n) : k \in From(c)}
<1> DEFINE R == {k \in Nodes : \E c \in Children(n) : k \in From(c)}
           it == Spreading(n)
           N == Cardinality(Nodes)
           V == SUBSET Nodes
<1>1. /\ Spread \in [V -> V] /\ Children(n) \in V /\ Iterates(it, Spread, Children(n))
      /\ ReachedFrom(n) = it[N]
  BY SpreadingIterates
<1>2. IsFiniteSet(Nodes) /\ N \in Nat /\ \A k : Children(k) \subseteq Nodes
  BY SearchFacts, FS_CardinalityType
<1>3. \A X \in V : Spread[X] = X \cup UNION {Children(k) : k \in X}
  BY DEF Spread, Onto
<1>4. it[N] \in V
  <2> HIDE DEF V, N, it
  <2> QED BY <1>1, <1>2, IterationSteps
<1>5. it[N] \subseteq R
  <2> DEFINE T == {X \in V : X \subseteq R}
  <2>1. Children(n) \in T
    BY <1>2, FromFacts
  <2>2. ASSUME NEW X \in V, X \in T PROVE Spread[X] \in T
    <3>1. ASSUME NEW k \in X, NEW c \in Children(k) PROVE c \in R
      <4>1. PICK d \in Children(n) : k \in From(d)
        BY <2>2
      <4>2. d \in Nodes /\ c \in Nodes
        BY <1>2
      <4> QED BY <4>1, <4>2, FromFacts
    <3>2. Spread[X] \in V /\ Spread[X] \subseteq R
      BY <1>1, <1>3, <2>2, <3>1
    <3> QED BY <3>2
  <2>3. \A i \in Nat : it[i] \in T
    <3> HIDE DEF T, V, it
    <3> QED BY <1>1, <2>1, <2>2, IterationKeeps
  <2> QED BY <1>2, <2>3
<1>6. Children(n) \subseteq it[N]
  <2> DEFINE T == {X \in V : Children(n) \subseteq X}
  <2>1. Children(n) \in T /\ \A X \in V : X \in T => Spread[X] \in T
    BY <1>1, <1>3
  <2>2. \A i \in Nat : it[i] \in T
    <3> HIDE DEF T, V, it
    <3> QED BY <1>1, <2>1, IterationKeeps
  <2> QED BY <1>2, <2>2
<1>7. Spread[it[N]] = it[N]
  <2> DEFINE G == [X \in V |-> X]
  <2>1. G \in [V -> SUBSET Nodes] /\ \A X \in V : G[X] \subseteq G[Spread[X]] /\ (G[X] = G[Spread[X]] => Spread[X] = X)
    BY <1>1, <1>3
  <2> HIDE DEF G, V, it
  <2> QED BY <1>1, <1>2, <2>1, IterationStops
<1>8. Closed(search.edges, it[N])
  <2>1. SUFFICES ASSUME NEW e \in search.edges, e[1] \in it[N] PROVE e[2] \in it[N]
    BY DEF Closed
  <2>2. e \in Nodes \X Nodes
    BY SearchFacts
  <2>3. e[2] \in Children(e[1])
    BY <2>2 DEF Children
  <2> QED BY <1>3, <1>4, <1>7, <2>1, <2>3
<1>9. R \subseteq it[N]
  <2>1. ASSUME NEW c \in Children(n) PROVE From(c) \subseteq it[N]
    BY <1>2, <1>4, <1>6, <1>8, FromFacts
  <2> QED BY <2>1
<1> QED BY <1>1, <1>5, <1>9

(* A node reaches itself and what its children reach. *)
LEMMA FromReached ==
  ASSUME SCCAssumption, Types, NEW n \in Nodes
  PROVE  From(n) = {n} \cup ReachedFrom(n)
<1> DEFINE R == {n} \cup ReachedFrom(n)
<1>1. /\ ReachedFrom(n) = {k \in Nodes : \E c \in Children(n) : k \in From(c)}
      /\ \A k : Children(k) \subseteq Nodes
  BY ReachedFromFacts, SearchFacts
<1>2. R \subseteq From(n)
  BY <1>1, FromFacts
<1>3. R \in SUBSET Nodes
  BY <1>1
<1>4. Closed(search.edges, R)
  <2>1. SUFFICES ASSUME NEW e \in search.edges, e[1] \in R PROVE e[2] \in R
    BY DEF Closed
  <2>2. e \in Nodes \X Nodes
    BY SearchFacts
  <2>3. e[2] \in Children(e[1]) /\ e[2] \in Nodes
    BY <2>2 DEF Children
  <2>4. CASE e[1] = n
    BY <1>1, <2>3, <2>4, FromFacts
  <2>5. CASE e[1] # n
    <3>1. PICK c \in Children(n) : e[1] \in From(c)
      BY <1>1, <2>1, <2>5
    <3> QED BY <1>1, <2>3, <3>1, FromFacts
  <2> QED BY <2>4, <2>5
<1>5. From(n) \subseteq R
  BY <1>3, <1>4, FromFacts
<1> QED BY <1>2, <1>5

-----------------------------------------------------------------------------
(* When all is visited *)

(* No node is left in a call or on _SS. *)
LEMMA DoneFacts ==
  ASSUME SCCAssumption, Inv, Detected
  PROVE  visited = inSCC /\ SS = <<>> /\ search.from \subseteq inSCC
<1>1. Types /\ Numbered /\ Stacked /\ Led
  BY DEF Inv
<1>2. /\ Waiting \subseteq Nodes /\ visited = Open \cup inSCC /\ Open = Calling \cup Waiting
      /\ \A n \in Nodes : scD[n] \in Nat
  BY <1>1, OpenFacts DEF Stacked
<1>3. Calling = {}
  BY DEF Detected, Calling
<1>4. Waiting = {}
  <2> DEFINE T == {n \in Nat : \A p \in Waiting : ~ (scD[p] <= n)}
  <2>1. \A p \in Waiting : p \in visited /\ scD[p] > 0
    BY <1>1, <1>2 DEF Numbered
  <2>2. 0 \in T
    BY <1>2, <2>1
  <2>3. ASSUME NEW n \in Nat, n \in T PROVE n + 1 \in T
    <3>1. SUFFICES ASSUME NEW p \in Waiting, scD[p] <= n + 1 PROVE FALSE
      OBVIOUS
    <3>2. rep[p] \in Waiting /\ rep[p] # p /\ scD[rep[p]] <= scD[p]
      BY <1>1, <1>2, <1>3 DEF Led
    <3>3. scD[rep[p]] # scD[p]
      BY <1>1, <2>1, <3>2 DEF Numbered
    <3>4. scD[rep[p]] <= n
      BY <1>2, <3>1, <3>2, <3>3
    <3> QED BY <2>3, <3>2, <3>4
  <2>4. Nat \subseteq T
    <3> HIDE DEF T
    <3> QED BY <2>2, <2>3, NatWithSuccessors
  <2>5. ASSUME NEW p \in Waiting PROVE FALSE
    <3>1. scD[p] \in T /\ scD[p] <= scD[p]
      BY <1>2, <2>4
    <3> QED BY <3>1
  <2> QED BY <2>5
<1>5. SS = <<>>
  <2>1. DOMAIN SS = {}
    BY <1>4 DEF Waiting
  <2>2. DOMAIN SS = 1..Len(SS) /\ Len(SS) \in Nat /\ SS \in Seq(search.nodes)
    BY <1>1 DEF Types, Nodes
  <2>3. Len(SS) = 0
    BY <2>1, <2>2
  <2> QED BY <2>2, <2>3
<1> QED BY <1>2, <1>3, <1>4, <1>5 DEF Detected

(* When find() is done the components are the cycles. *)
LEMMA InvCorrect ==
  ASSUME SCCAssumption, Inv
  PROVE  DetectionCorrect
<1> SUFFICES ASSUME Detected PROVE DetectionCorrect
  BY DEF DetectionCorrect, RepsExact, AllVisited, TopoOrdered, CyclesKnown
<1>1. /\ Types /\ Components /\ SubsRight /\ Ordered /\ Sought
      /\ visited = inSCC /\ SS = <<>> /\ search.from \subseteq inSCC /\ visited \subseteq Nodes
      /\ IsFiniteSet(Nodes) /\ search.from \subseteq Nodes
      /\ \A n : Children(n) \subseteq Nodes
      /\ \A n : \A k : k \in Children(n) <=> <<n, k>> \in search.edges
  BY DoneFacts, SearchFacts DEF Inv, Types, Nodes
<1>2. \A n \in Nodes : From(n) = {n} \cup ReachedFrom(n)
  BY <1>1, FromReached
<1>3. \A n \in inSCC : From(n) \subseteq inSCC
  <2>1. inSCC \in SUBSET Nodes /\ Closed(search.edges, inSCC)
    BY <1>1 DEF Components
  <2> QED BY <1>1, <2>1, FromFacts
<1>4. \A n, k \in inSCC : rep[n] = rep[k] <=> k \in From(n) /\ n \in From(k)
  BY <1>1 DEF Components
<1>5. \A n \in inSCC : subNodes[n] = IF rep[n] = n THEN {k \in inSCC : rep[k] = n} ELSE {}
  BY <1>1 DEF SubsRight
<1>6. RepsExact
  <2>1. ASSUME NEW n \in inSCC, NEW k \in inSCC PROVE rep[n] = rep[k] <=> SameCycle(n, k)
    BY <1>1, <1>2, <1>4 DEF SameCycle
  <2> QED BY <1>1, <1>5, <2>1 DEF RepsExact
<1>7. AllVisited
  <2>1. \A n \in visited : \E k \in search.from : n \in {k} \cup ReachedFrom(k)
    BY <1>1, <1>2 DEF Sought
  <2>2. \A k \in search.from : {k} \cup ReachedFrom(k) \subseteq visited
    BY <1>1, <1>2, <1>3
  <2> QED BY <1>1, <2>1, <2>2 DEF AllVisited
<1>8. TopoOrdered
  <2>1. \A i \in DOMAIN topo : topo[i] \in inSCC /\ rep[topo[i]] = topo[i]
    BY <1>1 DEF Ordered
  <2>2. \A i \in DOMAIN topo : subNodes[topo[i]] = {k \in inSCC : rep[k] = topo[i]}
    BY <1>5, <2>1
  <2>3. ASSUME NEW i \in DOMAIN topo, NEW j \in DOMAIN topo,
               NEW n \in subNodes[topo[i]], NEW k \in subNodes[topo[j]], <<n, k>> \in search.edges
        PROVE  i <= j
    <3>1. n \in inSCC /\ rep[n] = topo[i] /\ k \in inSCC /\ rep[k] = topo[j]
      BY <2>2
    <3> QED BY <1>1, <2>3, <3>1 DEF Ordered
  <2> QED BY <1>1, <2>3 DEF TopoOrdered, Ordered
<1>9. CyclesKnown
  <2>1. SUFFICES ASSUME NEW n \in inSCC PROVE isInCycle(n) <=> n \in ReachedFrom(n)
    BY <1>1 DEF CyclesKnown
  <2> DEFINE r == rep[n]
  <2>2. r \in inSCC /\ rep[r] = r
    BY <1>1 DEF Components
  <2>3. subNodes[r] = {k \in inSCC : rep[k] = r}
    BY <1>5, <2>2
  <2>4. n \in subNodes[r] /\ r \in subNodes[r] /\ IsFiniteSet(subNodes[r])
    <3>1. subNodes[r] \in SUBSET Nodes
      BY <1>1, <2>3
    <3> QED BY <1>1, <2>2, <2>3, <3>1, FS_Subset
  <2>5. Cardinality(subNodes[r]) \in Nat
    BY <2>4, FS_CardinalityType
  <2>6. ASSUME NEW k \in subNodes[r], k # n PROVE n \in ReachedFrom(n) /\ Cardinality(subNodes[r]) > 1
    <3>1. k \in inSCC /\ k \in Nodes /\ n \in Nodes /\ k \in From(n) /\ n \in From(k)
      BY <1>1, <1>4, <2>3
    <3>2. k \in ReachedFrom(n)
      BY <1>2, <2>6, <3>1
    <3>3. PICK c \in Children(n) : k \in From(c)
      BY <1>1, <3>1, <3>2, ReachedFromFacts
    <3>4. n \in From(c)
      BY <1>1, <3>1, <3>3, FromFacts
    <3>5. n \in ReachedFrom(n)
      BY <1>1, <3>1, <3>4, ReachedFromFacts
    <3>6. Cardinality(subNodes[r]) # 0 /\ Cardinality(subNodes[r]) # 1
      BY <2>4, <2>6, FS_EmptySet, FS_Singleton
    <3> QED BY <2>5, <3>5, <3>6
  <2>7. ASSUME isInCycle(n) PROVE n \in ReachedFrom(n)
    <3>1. CASE Cardinality(subNodes[r]) > 1
      <4>1. subNodes[r] # {n}
        <5>1. Cardinality({n}) = 1
          BY FS_Singleton
        <5> HIDE DEF r
        <5> QED BY <3>1, <5>1
      <4> QED BY <2>4, <2>6, <4>1
    <3>2. CASE r \in Children(r)
      <4>1. CASE r = n
        <5>1. n \in Nodes /\ n \in From(n)
          BY <1>1, FromFacts
        <5> QED BY <1>1, <3>2, <4>1, <5>1, ReachedFromFacts
      <4>2. CASE r # n
        BY <2>4, <2>6, <4>2
      <4> QED BY <4>1, <4>2
    <3> QED BY <2>7, <3>1, <3>2 DEF isInCycle
  <2>8. ASSUME n \in ReachedFrom(n) PROVE isInCycle(n)
    <3>1. n \in Nodes
      BY <1>1
    <3>2. PICK c \in Children(n) : n \in From(c)
      BY <1>1, <2>8, <3>1, ReachedFromFacts
    <3>3. c \in From(n)
      BY <1>1, <3>1, FromFacts
    <3>4. c \in subNodes[r]
      BY <1>3, <1>4, <2>3, <3>2, <3>3
    <3>5. CASE c # n
      BY <2>6, <3>4, <3>5 DEF isInCycle
    <3>6. CASE c = n /\ r = n
      BY <3>2, <3>6 DEF isInCycle
    <3>7. CASE r # n
      BY <2>4, <2>6, <3>7 DEF isInCycle
    <3> QED BY <3>5, <3>6, <3>7
  <2> QED BY <2>7, <2>8
<1> QED BY <1>6, <1>7, <1>8, <1>9 DEF DetectionCorrect

-----------------------------------------------------------------------------

(* Before find() starts. *)
LEMMA InitInv == ASSUME SCCAssumption, Init PROVE Inv
<1>1. search \in Searches
  BY DEF Init
<1>2. /\ scI = 0 /\ scD = [n \in search.nodes |-> 0] /\ rep = [n \in search.nodes |-> Unset]
      /\ subNodes = [n \in search.nodes |-> {}]
      /\ visited = {} /\ inSCC = {} /\ calls = <<>> /\ SS = <<>> /\ topo = <<>>
  BY DEF Init, Nodes
<1>3. Calling = {} /\ Waiting = {} /\ Open = {}
  BY <1>2 DEF Calling, Waiting, Open
<1>4. Types
  BY <1>1, <1>2 DEF Types, Nodes
<1>5. Numbered /\ Stacked /\ Sorted /\ Pending /\ ChildrenHandled
  BY <1>2, <1>3 DEF Numbered, Stacked, Sorted, Pending, ChildrenHandled, Nodes
<1>6. Led /\ Leading /\ Lowered /\ Sought
  BY <1>2, <1>3 DEF Led, Leading, Lowered, Sought
<1>7. Components /\ SubsRight /\ Ordered
  BY <1>2, <1>3 DEF Components, Closed, SubsRight, Ordered, Nodes
<1> QED BY <1>4, <1>5, <1>6, <1>7 DEF Inv

(* The invariant of the search: _SS is sorted by visit number around every
   active call, every open node is led to an older one, the nodes visited since
   an active call are reached from it, and complete components are closed and
   are cycles. *)
THEOREM SearchInvariant == ASSUME SCCAssumption PROVE Spec => []Inv
<1>1. Init => Inv
  BY InitInv
<1>2. Inv /\ [Next]_vars => Inv'
  <2>1. SUFFICES ASSUME Inv, [Next]_vars PROVE Inv'
    OBVIOUS
  <2>2. CASE \E n \in Nodes : Find(n)
    BY <2>1, <2>2, FindInv
  <2>3. CASE \E w \in Nodes : NextChild(w)
    BY <2>1, <2>3, NextChildInv
  <2>4. CASE CompareChild
    BY <2>1, <2>4, CompareInv
  <2>5. CASE Leave
    BY <2>1, <2>5, WaitInv, RootInv
  <2>6. CASE UNCHANGED vars
    <3>1. /\ search' = search /\ scI' = scI /\ scD' = scD /\ rep' = rep /\ subNodes' = subNodes
          /\ visited' = visited /\ inSCC' = inSCC /\ calls' = calls /\ SS' = SS /\ topo' = topo
      BY <2>6 DEF vars
    <3>2. /\ Calling' = Calling /\ Waiting' = Waiting /\ Open' = Open /\ Call' = Call
          /\ \A n : Children(n)' = Children(n)
          /\ \A n : From(n)' = From(n)
      BY <3>1 DEF Calling, Waiting, Open, Call, Children, From, Nodes
    <3>3. /\ Types /\ Numbered /\ Stacked /\ Sorted /\ Pending /\ ChildrenHandled /\ Led /\ Leading
          /\ Lowered /\ Components /\ SubsRight /\ Ordered /\ Sought
      BY <2>1 DEF Inv
    <3>4. Types' /\ Numbered' /\ Stacked' /\ Sorted' /\ Pending'
      BY <3>1, <3>2, <3>3 DEF Types, Numbered, Stacked, Sorted, Pending, Nodes
    <3>5. ChildrenHandled' /\ Lowered'
      BY <3>1, <3>2, <3>3 DEF ChildrenHandled, Handled, Lowered, Within, Compared
    <3>6. Led' /\ Leading' /\ Sought'
      BY <3>1, <3>2, <3>3 DEF Led, Leading, Sought
    <3>7. Components' /\ SubsRight' /\ Ordered'
      <4>1. Components' /\ Ordered'
        BY <3>1, <3>2, <3>3 DEF Components, Closed, Ordered
      <4>2. \A n : From(n)' = From(n)
        BY <3>2
      <4>3. search'.nodes = search.nodes
        BY <3>1
      <4>4. SubsRight'
        <5>1. /\ subNodes' = subNodes /\ rep' = rep /\ scD' = scD /\ visited' = visited
              /\ inSCC' = inSCC /\ Open' = Open /\ Nodes' = Nodes
          BY <3>1, <3>2, <4>3 DEF Nodes
        <5>2. SubsRight
          BY <3>3
        <5> QED BY <4>2, <5>1, <5>2 DEF SubsRight
      <4> QED BY <4>1, <4>4
    <3> QED BY <3>4, <3>5, <3>6, <3>7 DEF Inv
  <2> QED BY <2>1, <2>2, <2>3, <2>4, <2>5, <2>6 DEF Next
<1> QED BY <1>1, <1>2, PTL DEF Spec

(* The detection is right: when find() is done two visited nodes have the same
   representative exactly when they are on a cycle, the sub nodes of a
   representative are its component, everything reachable has been visited,
   the representatives are in topological order, and isInCycle is exact. *)
THEOREM DetectionIsCorrect == ASSUME SCCAssumption PROVE Spec => []DetectionCorrect
<1>1. Inv => DetectionCorrect
  BY InvCorrect
<1> QED BY <1>1, SearchInvariant, PTL
=============================================================================
