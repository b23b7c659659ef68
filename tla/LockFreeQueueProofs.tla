------------------------ MODULE LockFreeQueueProofs ------------------------
(***************************************************************************)
(* Proofs about lock_free_queue, for any number of threads and of calls.   *)
(*                                                                         *)
(* First the list: Chain, a recursive function, gives what follows a node, *)
(* and every linked node has a place in the list (Positions, Reached); the *)
(* exchange of a next appends to it (Linking).  Pointers are then compared *)
(* by the places they lead to.                                             *)
(*                                                                         *)
(* Then the invariant IInv.  Head and Tail only move forward, so what a    *)
(* call knows of a pointer it has loaded, that the node is not behind Head *)
(* or Tail, stays true (CallOK, CallStays).  What has been deleted is the  *)
(* part of the list before a point (FreedOK).  As long as nobody has set   *)
(* out past Head, a node that a call will touch is not before that point,  *)
(* nor before the one the reclaiming call goes to (SafeOK): that call has  *)
(* found itself alone, and all others have loaded their pointers since.    *)
(*                                                                         *)
(* One lemma per step; at the end what follows: the order of the pointers, *)
(* memory safety, reclamation, what dequeue saw when it returns false, and *)
(* the implementation of BoundedFifo.                                      *)
(***************************************************************************)
EXTENDS LockFreeQueue, FiniteSetTheorems, SequenceTheorems, WellFoundedInduction, TLAPS

(***************************************************************************)
(* The list: all nodes that have ever been linked, deleted or not.         *)
(***************************************************************************)
IsList(L) == /\ L \in Seq(Nodes) /\ L # <<>> /\ L[1] = 1
             /\ \A i, j \in 1..Len(L) : L[i] = L[j] => i = j
             /\ \A i \in 1..Len(L) : next[L[i]] = IF i = Len(L) THEN Null ELSE L[i + 1]
             /\ \A n \in Nodes : (\A i \in 1..Len(L) : L[i] # n) => next[n] = Null

\* The equation that defines Chain.
Follows(f) == f = [m \in Nodes \cup {Null} |->
                     IF m = Null THEN <<>> ELSE <<m>> \o f[next[m]]]
-----------------------------------------------------------------------------
\* A set of natural numbers has a least element.
LEMMA Least == ASSUME NEW T \in SUBSET Nat, T # {}
               PROVE  \E x \in T : \A y \in T : x <= y
<1>1. IsWellFoundedOn(OpToRel(<, Nat), Nat)
  BY NatLessThanWellFounded
<1>2. PICK x \in T : \A y \in T : ~ (<<y, x>> \in OpToRel(<, Nat))
  BY <1>1, WFMin, Zenon
<1>3. \A y \in T : ~ (y < x)
  BY <1>2, Zenon DEF OpToRel
<1> QED BY <1>3

\* Chain is one of the functions that satisfy its equation, if there is one.
LEMMA ChainChosen == ASSUME NEW n PROVE Chain(n) = (CHOOSE f : Follows(f))[n]
BY Zenon DEF Chain, Follows

\* The nodes are numbers, Null is none of them.
LEMMA NodesAre == /\ Nodes \subseteq Nat \ {0} /\ Null \notin Nodes /\ 1 \in Nodes
                  /\ \A n \in Nat : n \in Nodes <=> 0 < n /\ n <= MaxEnqueues + 1
BY BoundsAssumption DEF Nodes, Null

\* There is one: the rest of the list, from a node on.
LEMMA SomethingFollows ==
  ASSUME next \in [Nodes -> Nodes \cup {Null}], NEW L, IsList(L)
  PROVE  \E f : Follows(f)
<1> DEFINE place(m) == CHOOSE i \in 1..Len(L) : L[i] = m
           linked(m) == \E i \in 1..Len(L) : L[i] = m
           f == [m \in Nodes \cup {Null} |->
                   IF m = Null THEN <<>>
                   ELSE IF linked(m) THEN SubSeq(L, place(m), Len(L)) ELSE <<m>>]
<1>1. L \in Seq(Nodes) /\ Len(L) \in Nat \ {0} /\ \A i \in 1..Len(L) : L[i] \in Nodes
  BY DEF IsList
<1>2. ASSUME NEW i \in 1..Len(L) PROVE place(L[i]) = i /\ linked(L[i])
  <2>1. linked(L[i])
    OBVIOUS
  <2>2. place(L[i]) \in 1..Len(L) /\ L[place(L[i])] = L[i]
    BY <2>1, Zenon
  <2> HIDE DEF place
  <2> QED BY <2>1, <2>2 DEF IsList
<1>3. f[Null] = <<>>
  OBVIOUS
<1>4. ASSUME NEW i \in 1..Len(L) PROVE f[L[i]] = SubSeq(L, i, Len(L))
  <2>1. L[i] \in Nodes /\ L[i] # Null
    BY <1>1, NodesAre
  <2> HIDE DEF place, linked
  <2> QED BY <1>2, <2>1
<1>5. ASSUME NEW m \in Nodes \cup {Null}
      PROVE  f[m] = IF m = Null THEN <<>> ELSE <<m>> \o f[next[m]]
  <2>1. CASE m = Null
    BY <1>3, <2>1
  <2>2. CASE m # Null /\ linked(m)
    <3>1. PICK i \in 1..Len(L) : L[i] = m
      BY <2>2
    <3>2. f[m] = SubSeq(L, i, Len(L))
      BY <1>4, <3>1
    <3>3. SubSeq(L, i, Len(L)) = <<L[i]>> \o SubSeq(L, i + 1, Len(L))
      BY <1>1
    <3>4. f[next[m]] = SubSeq(L, i + 1, Len(L))
      <4>1. CASE i = Len(L)
        <5>1. next[m] = Null
          BY <3>1, <4>1 DEF IsList
        <5>2. SubSeq(L, i + 1, Len(L)) = <<>>
          BY <1>1, <4>1
        <5> QED BY <1>3, <5>1, <5>2
      <4>2. CASE i # Len(L)
        <5>1. next[m] = L[i + 1] /\ i + 1 \in 1..Len(L)
          BY <1>1, <3>1, <4>2 DEF IsList
        <5> HIDE DEF f
        <5> QED BY <1>4, <5>1
      <4> QED BY <4>1, <4>2
    <3> HIDE DEF f
    <3> QED BY <2>2, <3>1, <3>2, <3>3, <3>4
  <2>3. CASE m # Null /\ ~ linked(m)
    <3>1. next[m] = Null
      BY <2>3 DEF IsList
    <3>2. f[m] = <<m>>
      BY <2>3
    <3>3. <<m>> \o <<>> = <<m>>
      OBVIOUS
    <3> HIDE DEF f
    <3> QED BY <1>3, <2>3, <3>1, <3>2, <3>3
  <2> QED BY <2>1, <2>2, <2>3
<1>6. f = [m \in Nodes \cup {Null} |-> f[m]]
  OBVIOUS
<1>7. Follows(f)
  <2> HIDE DEF f
  <2> QED BY <1>5, <1>6 DEF Follows
<1> QED BY <1>7

\* What can be reached from a node is the rest of the list.
LEMMA ChainIsRest ==
  ASSUME next \in [Nodes -> Nodes \cup {Null}], NEW L, IsList(L)
  PROVE  /\ Chain(Null) = <<>>
         /\ \A i \in 1..Len(L) : Chain(L[i]) = SubSeq(L, i, Len(L))
         /\ Chain(1) = L
<1> DEFINE g == CHOOSE f : Follows(f)
<1>1. Follows(g)
  BY SomethingFollows, Zenon
<1>2. \A n : Chain(n) = g[n]
  BY ChainChosen
<1> HIDE DEF g
<1>3. g[Null] = <<>> /\ \A m \in Nodes : g[m] = <<m>> \o g[next[m]]
  BY <1>1, NodesAre DEF Follows
<1>4. L \in Seq(Nodes) /\ Len(L) \in Nat \ {0} /\ \A i \in 1..Len(L) : L[i] \in Nodes
  BY DEF IsList
<1>5. ASSUME NEW i \in 1..Len(L), g[L[i]] # SubSeq(L, i, Len(L)) PROVE FALSE
  <2> DEFINE T == {k \in Nat : k < Len(L) /\ g[L[Len(L) - k]] # SubSeq(L, Len(L) - k, Len(L))}
  <2>1. Len(L) - i \in T
    <3>1. Len(L) - i \in Nat /\ Len(L) - i < Len(L) /\ Len(L) - (Len(L) - i) = i
      BY <1>4
    <3> QED BY <1>5, <3>1
  <2>2. PICK k \in T : \A y \in T : k <= y
    <3> HIDE DEF T
    <3>1. T \in SUBSET Nat
      BY DEF T
    <3> QED BY <2>1, <3>1, Least
  <2>3. PICK j \in 1..Len(L) : j = Len(L) - k
    BY <1>4
  <2>4. g[L[j]] = <<L[j]>> \o g[next[L[j]]]
    BY <1>3, <1>4
  <2>5. SubSeq(L, j, Len(L)) = <<L[j]>> \o SubSeq(L, j + 1, Len(L))
    BY <1>4
  <2>6. g[next[L[j]]] = SubSeq(L, j + 1, Len(L))
    <3>1. CASE j = Len(L)
      <4>1. next[L[j]] = Null
        BY <3>1 DEF IsList
      <4>2. SubSeq(L, j + 1, Len(L)) = <<>>
        BY <1>4, <3>1
      <4> QED BY <1>3, <4>1, <4>2
    <3>2. CASE j # Len(L)
      <4>1. next[L[j]] = L[j + 1]
        BY <3>2 DEF IsList
      <4>2. k - 1 \in Nat /\ k - 1 < Len(L) /\ Len(L) - (k - 1) = j + 1
        BY <1>4, <2>3, <3>2
      <4>3. k - 1 \notin T
        BY <2>2, <4>2
      <4>4. g[L[j + 1]] = SubSeq(L, j + 1, Len(L))
        BY <4>2, <4>3
      <4> QED BY <4>1, <4>4
    <3> QED BY <3>1, <3>2
  <2>7. g[L[j]] # SubSeq(L, j, Len(L))
    BY <2>3
  <2> HIDE DEF T
  <2> QED BY <2>4, <2>5, <2>6, <2>7
<1>6. L[1] = 1 /\ SubSeq(L, 1, Len(L)) = L /\ 1 \in 1..Len(L)
  BY <1>4 DEF IsList
<1> QED BY <1>2, <1>3, <1>5, <1>6
-----------------------------------------------------------------------------
\* The list itself, its length, and the place of a node in it, 0 if it is not linked.
Order == Chain(1)
len == Len(Order)
pos == [n \in Nodes |-> IF \E i \in 1..len : Order[i] = n
                        THEN CHOOSE i \in 1..len : Order[i] = n ELSE 0]

NextOK == next \in [Nodes -> Nodes \cup {Null}]
ListOK == NextOK /\ IsList(Order)

(***************************************************************************)
(* What the argument uses of the list: next leads from place to place, and *)
(* to Null from the last one and from nodes that are not linked.           *)
(***************************************************************************)
Positions ==
  /\ len \in Nat \ {0} /\ pos \in [Nodes -> 0..len] /\ pos[1] = 1
  /\ \A n \in Nodes : next[n] = Null <=> pos[n] \in {0, len}
  /\ \A n \in Nodes : next[n] # Null => next[n] \in Nodes /\ pos[next[n]] = pos[n] + 1
  /\ \A m, n \in Nodes : pos[m] = pos[n] /\ pos[n] > 0 => m = n

\* A list that starts at node 1 is the list.
LEMMA ListIsOrder == NextOK => \A L : IsList(L) => Order = L
BY ChainIsRest DEF NextOK, Order

\* The same in the next state.
LEMMA ListIsOrderNext == (NextOK => \A L : IsList(L) => Order = L)'
BY ListIsOrder, PTL

\* What pos chooses: the only place of the node.
LEMMA PlaceIs ==
  ASSUME \A i \in 1..len : Order[i] \in Nodes,
         \A i, j \in 1..len : Order[i] = Order[j] => i = j
  PROVE  \A i \in 1..len : pos[Order[i]] = i
<1> TAKE i \in 1..len
<1> DEFINE place == CHOOSE j \in 1..len : Order[j] = Order[i]
<1>1. place \in 1..len /\ Order[place] = Order[i]
  BY Zenon
<1>2. pos[Order[i]] = place
  <2>1. Order[i] \in Nodes /\ \E j \in 1..len : Order[j] = Order[i]
    OBVIOUS
  <2> QED BY <2>1, Zenon DEF pos
<1> HIDE DEF place
<1> QED BY <1>1, <1>2

\* The places of the list.
LEMMA PositionsHold == ListOK => Positions
<1> SUFFICES ASSUME ListOK PROVE Positions
  OBVIOUS
<1>1. /\ Order \in Seq(Nodes) /\ len \in Nat \ {0} /\ \A i \in 1..len : Order[i] \in Nodes
      /\ Order[1] = 1 /\ \A i, j \in 1..len : Order[i] = Order[j] => i = j
      /\ \A i \in 1..len : next[Order[i]] = IF i = len THEN Null ELSE Order[i + 1]
      /\ \A n \in Nodes : (\A i \in 1..len : Order[i] # n) => next[n] = Null
  BY DEF ListOK, IsList, len
<1>2. \A i \in 1..len : pos[Order[i]] = i
  BY <1>1, PlaceIs
<1>3. \A n \in Nodes : \/ \E i \in 1..len : Order[i] = n /\ pos[n] = i
                       \/ (\A i \in 1..len : Order[i] # n) /\ pos[n] = 0
  <2> TAKE n \in Nodes
  <2>1. CASE \E i \in 1..len : Order[i] = n
    BY <1>2, <2>1
  <2>2. CASE \A i \in 1..len : Order[i] # n
    BY <2>2 DEF pos
  <2> QED BY <2>1, <2>2
<1>4. pos \in [Nodes -> 0..len]
  <2>1. \A n \in Nodes : pos[n] \in 0..len
    BY <1>1, <1>3
  <2>2. pos = [n \in Nodes |-> pos[n]]
    BY DEF pos
  <2> HIDE DEF pos
  <2> QED BY <2>1, <2>2
<1>5. pos[1] = 1
  BY <1>1, <1>2
<1>6. ASSUME NEW n \in Nodes
      PROVE  /\ next[n] = Null <=> pos[n] \in {0, len}
             /\ next[n] # Null => next[n] \in Nodes /\ pos[next[n]] = pos[n] + 1
  <2>1. CASE pos[n] = 0
    BY <1>1, <1>3, <2>1
  <2>2. CASE pos[n] # 0
    <3>1. PICK i \in 1..len : Order[i] = n /\ pos[n] = i
      BY <1>3, <2>2
    <3>2. CASE i = len
      BY <1>1, <3>1, <3>2
    <3>3. CASE i # len
      <4>1. next[n] = Order[i + 1] /\ i + 1 \in 1..len /\ Order[i + 1] # Null
        BY <1>1, <3>1, <3>3, NodesAre
      <4> QED BY <1>1, <1>2, <3>1, <3>3, <4>1
    <3> QED BY <3>2, <3>3
  <2> QED BY <2>1, <2>2
<1>7. \A m, n \in Nodes : pos[m] = pos[n] /\ pos[n] > 0 => m = n
  BY <1>1, <1>3
<1> QED BY <1>1, <1>4, <1>5, <1>6, <1>7 DEF Positions

\* What can be reached from a linked node: the nodes behind it.
LEMMA Reached ==
  ListOK => /\ Chain(Null) = <<>> /\ Members(Null) = {}
            /\ \A n \in Nodes : pos[n] > 0 =>
                 /\ Chain(n) = SubSeq(Order, pos[n], len)
                 /\ Len(Chain(n)) = len - pos[n] + 1
                 /\ Members(n) = {m \in Nodes : pos[n] <= pos[m]}
<1> SUFFICES ASSUME ListOK PROVE /\ Chain(Null) = <<>> /\ Members(Null) = {}
                                   /\ \A n \in Nodes : pos[n] > 0 =>
                                        /\ Chain(n) = SubSeq(Order, pos[n], len)
                                        /\ Len(Chain(n)) = len - pos[n] + 1
                                        /\ Members(n) = {m \in Nodes : pos[n] <= pos[m]}
  OBVIOUS
<1>1. /\ Chain(Null) = <<>>
      /\ \A i \in 1..len : Chain(Order[i]) = SubSeq(Order, i, len)
  BY ChainIsRest DEF ListOK, NextOK, len
<1>2. Members(Null) = {}
  <2>1. DOMAIN Chain(Null) = {}
    BY <1>1
  <2> QED BY <2>1 DEF Members
<1>3. /\ Order \in Seq(Nodes) /\ len \in Nat \ {0} /\ \A i \in 1..len : Order[i] \in Nodes
      /\ len = Len(Order) /\ \A i, j \in 1..len : Order[i] = Order[j] => i = j
  BY DEF ListOK, IsList, len
<1>4. \A i \in 1..len : pos[Order[i]] = i
  BY <1>3, PlaceIs
<1>5. \A n \in Nodes : pos[n] > 0 => pos[n] \in 1..len /\ Order[pos[n]] = n
  <2> TAKE n \in Nodes
  <2>1. CASE \E i \in 1..len : Order[i] = n
    BY <1>4, <2>1
  <2>2. CASE \A i \in 1..len : Order[i] # n
    BY <2>2 DEF pos
  <2> QED BY <2>1, <2>2
<1>6. ASSUME NEW n \in Nodes, pos[n] > 0
      PROVE  /\ Chain(n) = SubSeq(Order, pos[n], len)
             /\ Len(Chain(n)) = len - pos[n] + 1
             /\ Members(n) = {m \in Nodes : pos[n] <= pos[m]}
  <2>1. PICK i \in 1..len : i = pos[n] /\ Order[i] = n
    BY <1>5, <1>6
  <2>2. Chain(n) = SubSeq(Order, i, len)
    BY <1>1, <2>1
  <2>3. /\ Len(Chain(n)) = len - i + 1 /\ DOMAIN Chain(n) = 1..(len - i + 1)
        /\ \A k \in 1..(len - i + 1) : Chain(n)[k] = Order[i + k - 1]
    BY <1>3, <2>2
  <2>4. Members(n) = {Chain(n)[k] : k \in 1..(len - i + 1)}
    BY <2>3 DEF Members
  <2>5. ASSUME NEW k \in 1..(len - i + 1)
        PROVE  Chain(n)[k] \in Nodes /\ pos[Chain(n)[k]] >= i
    <3>1. i + k - 1 \in 1..len /\ i + k - 1 >= i
      BY <1>3
    <3> QED BY <1>3, <1>4, <2>3, <3>1, SMTT(30)
  <2>6. ASSUME NEW m \in Nodes, i <= pos[m] PROVE m \in Members(n)
    <3>1. PICK j \in 1..len : j = pos[m] /\ Order[j] = m
      <4>1. pos[m] \in 0..len
        BY PositionsHold DEF Positions
      <4> QED BY <1>3, <1>5, <2>1, <2>6, <4>1
    <3>2. PICK k \in 1..(len - i + 1) : k = j - i + 1
      BY <1>3, <2>6, <3>1
    <3>3. i + k - 1 = j
      BY <3>2
    <3> QED BY <2>3, <2>4, <3>1, <3>3
  <2>7. Members(n) = {m \in Nodes : i <= pos[m]}
    <3>1. \A m \in Members(n) : m \in Nodes /\ i <= pos[m]
      <4> TAKE m \in Members(n)
      <4>1. PICK k \in 1..(len - i + 1) : m = Chain(n)[k]
        BY <2>4
      <4>2. pos[m] \in 0..len
        BY <2>5, <4>1, PositionsHold DEF Positions
      <4> QED BY <1>3, <2>5, <4>1, <4>2
    <3> QED BY <2>6, <3>1
  <2> QED BY <2>1, <2>2, <2>3, <2>7
<1> QED BY <1>1, <1>2, <1>6

\* As long as next stays, the list stays.
LEMMA SameList ==
  ASSUME next' = next
  PROVE  /\ ListOK' <=> ListOK
         /\ len' = len /\ pos' = pos /\ \A n : Chain(n)' = Chain(n)
<1>1. \A n : Chain(n)' = Chain(n)
  BY DEF Chain
<1>2. Order' = Order
  BY <1>1 DEF Order
<1> QED BY <1>1, <1>2 DEF ListOK, NextOK, IsList, len, pos

\* A node is linked behind the last one.
LEMMA Linking ==
  ASSUME ListOK, NEW c \in Nodes, NEW n \in Nodes, pos[c] = len, pos[n] = 0,
         next' = [next EXCEPT ![c] = n]
  PROVE  /\ ListOK' /\ Order' = Append(Order, n)
         /\ len' = len + 1 /\ pos' = [pos EXCEPT ![n] = len + 1]
<1>1. /\ Order \in Seq(Nodes) /\ len \in Nat \ {0} /\ \A i \in 1..len : Order[i] \in Nodes
      /\ len = Len(Order)
      /\ Order[1] = 1 /\ \A i, j \in 1..len : Order[i] = Order[j] => i = j
      /\ \A i \in 1..len : next[Order[i]] = IF i = len THEN Null ELSE Order[i + 1]
      /\ \A m \in Nodes : (\A i \in 1..len : Order[i] # m) => next[m] = Null
  BY DEF ListOK, IsList, len
<1>2. Positions
  BY PositionsHold
<1>3. \A i \in 1..len : pos[Order[i]] = i
  BY <1>1, PlaceIs
<1>4. Order[len] = c
  BY <1>1, <1>2, <1>3 DEF Positions
<1>5. \A i \in 1..len : Order[i] # n
  BY <1>3
<1>6. PICK L : L = Append(Order, n)
  OBVIOUS
<1>7. /\ L \in Seq(Nodes) /\ L # <<>> /\ Len(L) = len + 1
      /\ \A i \in 1..len : L[i] = Order[i]
      /\ L[len + 1] = n
  BY <1>1, <1>6
<1>8. next' \in [Nodes -> Nodes \cup {Null}] /\ next'[n] = Null
      /\ \A m \in Nodes : next'[m] = IF m = c THEN n ELSE next[m]
  <2>1. next[n] = Null /\ n # c
    BY <1>2 DEF Positions
  <2> QED BY <2>1 DEF ListOK, NextOK
<1>9. IsList(L)'
  <2>1. L[1] = 1
    BY <1>1, <1>7
  <2>2. \A i, j \in 1..Len(L) : L[i] = L[j] => i = j
    BY <1>1, <1>5, <1>7
  <2>3. ASSUME NEW i \in 1..Len(L)
        PROVE  next'[L[i]] = IF i = Len(L) THEN Null ELSE L[i + 1]
    <3>1. CASE i = len + 1
      BY <1>7, <1>8, <3>1
    <3>2. CASE i = len
      BY <1>1, <1>4, <1>7, <1>8, <3>2
    <3>3. CASE i < len
      <4>1. i \in 1..len /\ i + 1 \in 1..len /\ L[i] = Order[i] /\ L[i + 1] = Order[i + 1]
        BY <1>1, <1>7, <3>3
      <4>2. Order[i] # c
        BY <1>1, <1>4, <3>3, <4>1
      <4> QED BY <1>1, <1>7, <1>8, <3>3, <4>1, <4>2
    <3> QED BY <1>1, <1>7, <3>1, <3>2, <3>3
  <2>4. ASSUME NEW m \in Nodes, \A i \in 1..Len(L) : L[i] # m PROVE next'[m] = Null
    <3>1. \A i \in 1..len : Order[i] # m
      BY <1>1, <1>7, <2>4
    <3>2. m # c
      BY <1>1, <1>4, <3>1
    <3> QED BY <1>1, <1>8, <3>1, <3>2
  <2> QED BY <1>7, <2>1, <2>2, <2>3, <2>4 DEF IsList
<1>10. NextOK'
  BY <1>8 DEF NextOK
<1>11. Order' = L
  BY <1>9, <1>10, ListIsOrderNext
<1>12. ListOK'
  BY <1>9, <1>10, <1>11 DEF ListOK, IsList
<1>13. len' = len + 1
  BY <1>7, <1>11 DEF len
<1>14. pos' = [pos EXCEPT ![n] = len + 1]
  <2>1. \A i \in 1..(len + 1) : Order'[i] = IF i = len + 1 THEN n ELSE Order[i]
    BY <1>1, <1>7, <1>11
  <2>2. ASSUME NEW m \in Nodes PROVE pos'[m] = IF m = n THEN len + 1 ELSE pos[m]
    <3>1. pos'[m] = IF \E i \in 1..(len + 1) : Order'[i] = m
                    THEN CHOOSE i \in 1..(len + 1) : Order'[i] = m ELSE 0
      BY <1>13 DEF pos
    <3>2. CASE m = n
      <4>1. \A i \in 1..(len + 1) : Order'[i] = m <=> i = len + 1
        BY <1>1, <1>5, <2>1, <3>2
      <4>2. len + 1 \in 1..(len + 1)
        BY <1>1
      <4> HIDE DEF len
      <4>3. pos'[m] = len + 1
        BY <3>1, <4>1, <4>2, Zenon
      <4> QED BY <3>2, <4>3
    <3>3. CASE m # n /\ \E i \in 1..len : Order[i] = m
      <4>1. PICK i \in 1..len : Order[i] = m
        BY <3>3
      <4>2. pos[m] = i
        BY <1>3, <4>1
      <4>3. \A j \in 1..(len + 1) : Order'[j] = m <=> j = i
        <5>1. \A j \in 1..len : Order[j] = m <=> j = i
          BY <1>1, <4>1
        <5>2. i # len + 1 /\ \A j \in 1..(len + 1) : j = len + 1 \/ j \in 1..len
          <6>1. len \in Nat
            BY <1>1
          <6> HIDE DEF len
          <6> QED BY <6>1
        <5> QED BY <2>1, <3>3, <5>1, <5>2
      <4>4. i \in 1..(len + 1)
        BY <1>1
      <4> HIDE DEF len
      <4>5. pos'[m] = i
        BY <3>1, <4>3, <4>4, Zenon
      <4> QED BY <3>3, <4>2, <4>5
    <3>4. CASE m # n /\ \A i \in 1..len : Order[i] # m
      <4>1. \A j \in 1..(len + 1) : Order'[j] # m
        BY <1>1, <2>1, <3>4
      <4>2. pos[m] = 0
        BY <3>4 DEF pos
      <4> QED BY <3>1, <3>4, <4>1, <4>2
    <3> QED BY <3>2, <3>3, <3>4
  <2>3. pos' = [m \in Nodes |-> pos'[m]] /\ pos \in [Nodes -> 0..len]
    BY <1>2 DEF pos, Positions
  <2> HIDE DEF pos
  <2> QED BY <2>2, <2>3
<1> QED BY <1>6, <1>11, <1>12, <1>13, <1>14
-----------------------------------------------------------------------------
Pointers == Nodes \cup {Null}
Locals == [curr_head : Pointers, curr_tail : Pointers, curr_next : Pointers,
           new_node : Pointers, cursor : Pointers, found : BOOLEAN]

\* A call of enqueue that has not linked its node.
InEnqueue == {"load_tail", "load_tail_next", "load_tail_again", "link", "help_enqueuer"}
Outside == {"idle", "enter"}
Labels == InEnqueue \cup Outside \cup InTryReclaim \cup
          {"swing_tail", "leave_enqueue", "load_head", "load_heads_tail", "load_head_next",
           "empty", "help_dequeuer", "take", "read", "count", "leave_dequeue"}

\* The calls that threads_in_pop counts.
Working == {t \in Threads : pc[t] \notin Outside}

TypesOK == /\ q \in [Head : Nodes, Tail : Nodes, threads_in_pop : Nat, to_be_deleted : Pointers]
           /\ q.threads_in_pop = Cardinality(Working)
           /\ allocated \in Nodes /\ freed \in SUBSET Nodes
           /\ dequeues \in 0..MaxDequeues /\ overshot \in BOOLEAN
           /\ pc \in [Threads -> Labels]
           /\ local \in [Threads -> Locals]

\* Head is not past Tail, and Tail is the last node or the last but one.
EndsOK == 0 < pos[q.Head] /\ pos[q.Head] <= pos[q.Tail] /\ len <= pos[q.Tail] + 1

\* A node that is allocated is linked, or belongs to one call that will link it.
FreshOK ==
  /\ \A t \in Threads : pc[t] \in InEnqueue =>
       local[t].new_node \in Nodes /\ local[t].new_node <= allocated
         /\ pos[local[t].new_node] = 0
  /\ \A t, u \in Threads : t # u /\ pc[t] \in InEnqueue /\ pc[u] \in InEnqueue =>
       local[t].new_node # local[u].new_node
  /\ \A n \in Nodes : pos[n] > 0 => n <= allocated
  /\ \A n \in Nodes : n <= allocated /\ pos[n] = 0 =>
       \E t \in Threads : pc[t] \in InEnqueue /\ local[t].new_node = n

\* m is linked, and n is m or behind it.
Upto(m, n) == m \in Nodes /\ n \in Nodes /\ 0 < pos[m] /\ pos[m] <= pos[n]

\* What a call knows of the pointers it has loaded.
CallOK(label, l) ==
  /\ label \in {"load_tail_next", "load_tail_again"} => Upto(l.curr_tail, q.Tail)
  /\ label = "link" => Upto(l.curr_tail, l.cursor) /\ Upto(l.cursor, q.Tail)
  /\ label = "help_enqueuer" => /\ Upto(l.curr_tail, q.Tail)
                                /\ l.curr_next # Null /\ l.curr_next = next[l.curr_tail]
  /\ label = "swing_tail" => /\ l.curr_tail \in Nodes /\ 0 < pos[l.curr_tail]
                             /\ l.new_node \in Nodes /\ pos[l.curr_tail] < pos[l.new_node]
                             /\ pos[l.new_node] <= pos[q.Tail] + 1
  /\ label = "load_heads_tail" => Upto(l.curr_head, q.Head)
  /\ label = "load_head_next" => /\ Upto(l.curr_head, q.Head)
                                 /\ Upto(l.curr_head, l.curr_tail) /\ Upto(l.curr_tail, q.Tail)
  /\ label \in {"take", "help_dequeuer"} =>
       /\ Upto(l.curr_head, q.Head)
       /\ l.curr_next # Null /\ l.curr_next = next[l.curr_head]
  /\ label = "take" => Upto(l.curr_next, q.Tail)
  /\ label = "read" => Upto(l.curr_next, q.Head)
  /\ label \in {"count"} \cup InTryReclaim => Upto(l.curr_head, q.Tail)

CallsOK == \A t \in Threads : CallOK(pc[t], local[t])

\* The nodes before node n.
Before(n) == {m \in Nodes : 0 < pos[m] /\ pos[m] < pos[n]}

\* The queue is whole.
Kept == \A n \in freed : pos[n] < pos[q.Head]

\* One call at a time reclaims, and what it has deleted is the nodes before its cursor.
FreedOK ==
  /\ \A n \in freed : n <= allocated /\ 0 < pos[n]
  /\ \A t, u \in Threads : pc[t] \in InTryReclaim /\ pc[u] \in InTryReclaim => t = u
  /\ ~Destroyed /\ Kept =>
       /\ Upto(q.to_be_deleted, q.Head)
       /\ \A t \in Threads : pc[t] = "delete" =>
            Upto(q.to_be_deleted, local[t].cursor) /\ freed = Before(local[t].cursor)
       /\ (\A t \in Threads : pc[t] # "delete") => freed = Before(q.to_be_deleted)

\* After the destructor nothing happens.
DestroyedOK == Destroyed => /\ \A t \in Threads : pc[t] = "idle"
                            /\ allocated = MaxEnqueues + 1 /\ dequeues = MaxDequeues
                            /\ freed = {n \in Nodes : 0 < pos[n]}

\* The nodes that a call will touch, or delete up to.
Keeps(label, l) ==
  CASE label = "load_tail_next" -> {l.curr_tail}
    [] label = "link" -> {l.cursor}
    [] label \in {"load_heads_tail", "load_head_next", "help_dequeuer", "count"} -> {l.curr_head}
    [] label \in {"take", "read"} -> {l.curr_next}
    [] OTHER -> {}

\* Such a node is not, and will not be, deleted by the call that reclaims.
Spared(t, n) == /\ pos[q.to_be_deleted] <= pos[n]
                /\ \A u \in Threads \ {t} : pc[u] \in InTryReclaim =>
                     pos[local[u].curr_head] <= pos[n]

\* The call that reclaims goes no further than Head, and the others have come later.
SafeOK ==
  ~overshot /\ ~Destroyed =>
    /\ Kept
    /\ \A t \in Threads :
         /\ pc[t] \in InTryReclaim => /\ pos[q.to_be_deleted] <= pos[local[t].curr_head]
                                      /\ pos[local[t].curr_head] <= pos[q.Head]
         /\ pc[t] = "delete" => pos[local[t].cursor] <= pos[local[t].curr_head]
         /\ \A n \in Keeps(pc[t], local[t]) : Spared(t, n)

IInv == /\ ListOK /\ TypesOK /\ EndsOK /\ FreshOK
        /\ CallsOK /\ FreedOK /\ DestroyedOK /\ SafeOK
-----------------------------------------------------------------------------
\* The start: one node, linked, and nobody at work.
LEMMA InitInv == Init => IInv
<1> SUFFICES ASSUME Init PROVE IInv
  OBVIOUS
<1>1. NextOK /\ 1 \in Nodes
  BY NodesAre DEF Init, NextOK
<1>2. IsList(<<1>>)
  <2>1. <<1>> \in Seq(Nodes) /\ <<1>> # <<>> /\ Len(<<1>>) = 1 /\ <<1>>[1] = 1
    BY <1>1
  <2>2. \A n \in Nodes : next[n] = Null
    BY DEF Init
  <2> QED BY <1>1, <2>1, <2>2 DEF IsList
<1>3. Order = <<1>>
  BY <1>1, <1>2, ListIsOrder
<1>4. ListOK
  BY <1>1, <1>2, <1>3 DEF ListOK
<1>5. len = 1 /\ Positions
  BY <1>3, <1>4, PositionsHold DEF len
<1>6. \A n \in Nodes : pos[n] > 0 <=> n = 1
  BY <1>1, <1>5 DEF Positions
<1>7. Working = {} /\ Cardinality({}) = 0
  BY FS_EmptySet DEF Init, Working, Outside
<1>8. TypesOK
  <2>1. NoLocals \in Locals
    BY DEF NoLocals, Locals, Pointers
  <2>2. local \in [Threads -> Locals] /\ pc \in [Threads -> Labels]
    BY <2>1 DEF Init, Labels, Outside
  <2>3. q \in [Head : Nodes, Tail : Nodes, threads_in_pop : Nat, to_be_deleted : Pointers]
        /\ q.threads_in_pop = 0
    BY <1>1 DEF Init, Pointers
  <2>4. allocated \in Nodes /\ freed \in SUBSET Nodes /\ overshot \in BOOLEAN
    BY <1>1 DEF Init
  <2>5. dequeues \in 0..MaxDequeues
    BY BoundsAssumption DEF Init
  <2> QED BY <1>7, <2>2, <2>3, <2>4, <2>5 DEF TypesOK
<1>9. q.Head = 1 /\ q.Tail = 1 /\ q.to_be_deleted = 1 /\ pos[1] = 1
  BY <1>5 DEF Init, Positions
<1>10. EndsOK
  BY <1>5, <1>9 DEF EndsOK
<1>11. FreshOK
  <2>1. \A t \in Threads : pc[t] \notin InEnqueue
    BY DEF Init, InEnqueue
  <2>2. \A n \in Nodes : n <= allocated <=> n = 1
    BY NodesAre DEF Init
  <2> QED BY <1>5, <1>6, <1>9, <2>1, <2>2 DEF FreshOK, Positions
<1>12. CallsOK
  BY DEF Init, CallsOK, CallOK, InTryReclaim
<1>13. ~Destroyed /\ Kept /\ FreedOK
  <2>1. ~Destroyed
    BY <1>1, <1>9, NodesAre DEF Destroyed
  <2>2. Before(1) = {}
    BY <1>6, <1>9 DEF Before
  <2> QED BY <1>1, <1>9, <2>1, <2>2 DEF Init, Kept, FreedOK, Upto, InTryReclaim
<1>14. SafeOK
  BY <1>13 DEF Init, SafeOK, Keeps, InTryReclaim
<1> QED BY <1>4, <1>8, <1>10, <1>11, <1>12, <1>13, <1>14 DEF IInv, DestroyedOK

\* Unless it is broken no node of the queue has been deleted.
LEMMA NotBroken ==
  ASSUME IInv, ~Broken, ~Destroyed
  PROVE  /\ Kept /\ Upto(q.to_be_deleted, q.Head)
         /\ \A t \in Threads : pc[t] = "delete" =>
              Upto(q.to_be_deleted, local[t].cursor) /\ freed = Before(local[t].cursor)
         /\ (\A t \in Threads : pc[t] # "delete") => freed = Before(q.to_be_deleted)
<1>1. QueueWhole
  BY DEF Broken
<1>2. freed \cap Members(q.Head) = {}
  BY <1>1 DEF QueueWhole
<1>3. q.Head \in Nodes /\ pos[q.Head] > 0 /\ freed \in SUBSET Nodes /\ Positions
  BY PositionsHold DEF IInv, TypesOK, EndsOK
<1>4. Members(q.Head) = {m \in Nodes : pos[q.Head] <= pos[m]}
  BY <1>3, Reached DEF IInv
<1>5. Kept
  BY <1>2, <1>3, <1>4 DEF Kept, Positions
<1> QED BY <1>5 DEF IInv, FreedOK

\* A call that is going on has not been destroyed.
LEMMA NotDestroyed ==
  ASSUME IInv, NEW t \in Threads, pc[t] # "idle" PROVE ~Destroyed
BY DEF IInv, DestroyedOK
-----------------------------------------------------------------------------
\* q after a step that may move Head and Tail forward.
Forward == /\ q'.Head \in Nodes /\ q'.Tail \in Nodes
           /\ pos[q.Head] <= pos[q'.Head] /\ pos[q'.Head] <= pos[q'.Tail]
           /\ pos[q.Tail] <= pos[q'.Tail]

\* What a call knows of its pointers stays true when Head and Tail move on.
LEMMA CallStays ==
  ASSUME IInv, next' = next, Forward, NEW label, NEW l, CallOK(label, l)
  PROVE  CallOK(label, l)'
<1>1. Positions /\ pos' = pos
  BY PositionsHold, SameList DEF IInv
<1>2. /\ \A n \in Nodes : pos[n] \in Nat
      /\ q.Head \in Nodes /\ q.Tail \in Nodes
  BY <1>1 DEF Positions, IInv, TypesOK
<1>3. ASSUME NEW m, Upto(m, q.Head) PROVE Upto(m, q.Head)'
  BY <1>1, <1>2, <1>3 DEF Upto, Forward
<1>4. ASSUME NEW m, Upto(m, q.Tail) PROVE Upto(m, q.Tail)'
  BY <1>1, <1>2, <1>4 DEF Upto, Forward
<1>5. ASSUME NEW m, NEW n, Upto(m, n) PROVE Upto(m, n)'
  BY <1>1, <1>5 DEF Upto
<1>6. ASSUME label = "swing_tail" PROVE pos'[l.new_node] <= pos'[q'.Tail] + 1
  BY <1>1, <1>2, <1>6 DEF CallOK, Forward
<1> QED BY <1>1, <1>3, <1>4, <1>5, <1>6 DEF CallOK

(***************************************************************************)
(* A step of thread t that neither links, deletes, begins nor ends to      *)
(* reclaim, nor destroys.                                                  *)
(***************************************************************************)
LEMMA Frame ==
  ASSUME IInv, ~Broken, NEW t \in Threads,
         UNCHANGED <<next, freed, overshot>>, q'.to_be_deleted = q.to_be_deleted,
         TypesOK', FreshOK', Forward, allocated <= allocated',
         \A u \in Threads \ {t} : pc'[u] = pc[u] /\ local'[u] = local[u],
         pc[t] \notin InTryReclaim, pc'[t] \notin InTryReclaim, ~Destroyed,
         CallOK(pc[t], local[t])',
         ~overshot => \A n \in Keeps(pc'[t], local'[t]) : Spared(t, n)
  PROVE  IInv'
<1>1. Positions /\ pos' = pos /\ len' = len /\ ListOK'
  BY PositionsHold, SameList DEF IInv
<1>2. /\ \A n \in Nodes : pos[n] \in Nat /\ len \in Nat
      /\ q.Head \in Nodes /\ q.Tail \in Nodes /\ freed \in SUBSET Nodes
      /\ allocated \in Nat /\ allocated' \in Nat
  BY <1>1, NodesAre DEF Positions, IInv, TypesOK
<1>3. EndsOK'
  BY <1>1, <1>2 DEF EndsOK, IInv, Forward
<1>4. CallsOK'
  <2>1. ASSUME NEW u \in Threads, u # t PROVE CallOK(pc[u], local[u])'
    <3>1. PICK label, l : label = pc[u] /\ l = local[u]
      OBVIOUS
    <3>2. CallOK(label, l)
      BY <3>1 DEF IInv, CallsOK
    <3>3. CallOK(label, l)'
      BY <3>2, CallStays
    <3>4. pc'[u] = label /\ local'[u] = l
      BY <2>1, <3>1
    <3> QED BY <3>3, <3>4
  <2> QED BY <2>1 DEF CallsOK
<1>5. Destroyed' <=> Destroyed
  BY DEF Destroyed
<1>6. Kept /\ Upto(q.to_be_deleted, q.Head)
      /\ (\A u \in Threads : pc[u] = "delete" =>
            Upto(q.to_be_deleted, local[u].cursor) /\ freed = Before(local[u].cursor))
      /\ ((\A u \in Threads : pc[u] # "delete") => freed = Before(q.to_be_deleted))
  BY NotBroken
<1>7. Kept'
  BY <1>1, <1>2, <1>6 DEF Kept, Forward
<1>8. FreedOK'
  <2>1. \A n \in freed' : n <= allocated' /\ 0 < pos'[n]
    <3>1. \A n \in freed : n \in Nat /\ n <= allocated /\ 0 < pos[n]
      BY <1>2, NodesAre DEF IInv, FreedOK
    <3> QED BY <1>1, <1>2, <3>1
  <2>2. \A u, w \in Threads : pc'[u] \in InTryReclaim /\ pc'[w] \in InTryReclaim => u = w
    BY DEF IInv, FreedOK
  <2>3. Upto(q.to_be_deleted, q.Head)'
    BY <1>1, <1>2, <1>6 DEF Upto, Forward
  <2>4. \A n : Before(n)' = Before(n)
    BY <1>1 DEF Before
  <2>5. \A m, n : Upto(m, n)' <=> Upto(m, n)
    BY <1>1 DEF Upto
  <2>6. pc[t] # "delete" /\ pc'[t] # "delete"
    BY DEF InTryReclaim
  <2>7. ASSUME NEW u \in Threads, pc'[u] = "delete"
        PROVE  Upto(q.to_be_deleted, local[u].cursor)' /\ freed' = Before(local[u].cursor)'
    <3>1. u # t /\ pc[u] = "delete" /\ local'[u] = local[u]
      BY <2>6, <2>7
    <3>2. PICK m, n : m = q.to_be_deleted /\ n = local[u].cursor
      OBVIOUS
    <3>3. Upto(m, n)' /\ freed' = Before(n)'
      BY <1>6, <2>4, <2>5, <3>1, <3>2
    <3>4. q'.to_be_deleted = m /\ local'[u].cursor = n
      BY <3>1, <3>2
    <3> QED BY <3>3, <3>4
  <2>8. ASSUME \A u \in Threads : pc'[u] # "delete" PROVE freed' = Before(q.to_be_deleted)'
    <3>1. freed = Before(q.to_be_deleted)
      BY <1>6, <2>6, <2>8
    <3>2. PICK m : m = q.to_be_deleted
      OBVIOUS
    <3>3. freed' = Before(m)'
      BY <2>4, <3>1, <3>2
    <3> QED BY <3>2, <3>3
  <2> QED BY <2>1, <2>2, <2>3, <2>7, <2>8 DEF FreedOK
<1>9. DestroyedOK'
  BY <1>5 DEF DestroyedOK
<1>10. SafeOK'
  <2> SUFFICES ASSUME ~overshot, NEW u \in Threads
               PROVE  /\ pc'[u] \in InTryReclaim =>
                           /\ pos'[q'.to_be_deleted] <= pos'[local'[u].curr_head]
                           /\ pos'[local'[u].curr_head] <= pos'[q'.Head]
                      /\ pc'[u] = "delete" => pos'[local'[u].cursor] <= pos'[local'[u].curr_head]
                      /\ \A n \in Keeps(pc'[u], local'[u]) : Spared(u, n)'
    BY <1>7 DEF SafeOK
  <2>1. \A n : \A w \in Threads : Spared(w, n) => Spared(w, n)'
    BY <1>1 DEF Spared
  <2>2. CASE u = t
    <3>1. pc'[t] # "delete"
      BY DEF InTryReclaim
    <3> QED BY <2>1, <2>2, <3>1
  <2>3. CASE u # t
    <3>1. /\ pc'[u] = pc[u] /\ local'[u] = local[u]
          /\ pc[u] \in InTryReclaim => /\ pos[q.to_be_deleted] <= pos[local[u].curr_head]
                                       /\ pos[local[u].curr_head] <= pos[q.Head]
          /\ pc[u] = "delete" => pos[local[u].cursor] <= pos[local[u].curr_head]
          /\ \A n \in Keeps(pc[u], local[u]) : Spared(u, n)
      BY <2>3 DEF IInv, SafeOK
    <3>2. pc[u] \in InTryReclaim => local[u].curr_head \in Nodes
      BY DEF IInv, CallsOK, CallOK, Upto
    <3>3. pc[u] \in InTryReclaim => pos[local[u].curr_head] <= pos[q'.Head]
      BY <1>2, <3>1, <3>2 DEF Forward
    <3> QED BY <1>1, <2>1, <3>1, <3>3
  <2> QED BY <2>2, <2>3
<1> QED BY <1>1, <1>3, <1>4, <1>8, <1>9, <1>10 DEF IInv
-----------------------------------------------------------------------------
Queues == [Head : Nodes, Tail : Nodes, threads_in_pop : Nat, to_be_deleted : Pointers]

\* The types and the places, as the lemmas on the steps use them.
LEMMA Typed ==
  ASSUME IInv
  PROVE  /\ Positions /\ len \in Nat /\ \A n \in Nodes : pos[n] \in Nat /\ pos[n] <= len
         /\ q \in Queues /\ q.Head \in Nodes /\ q.Tail \in Nodes
         /\ pc \in [Threads -> Labels] /\ local \in [Threads -> Locals]
         /\ 0 < pos[q.Head] /\ pos[q.Head] <= pos[q.Tail] /\ len <= pos[q.Tail] + 1
         /\ Null \notin Nodes
<1>1. Positions
  BY PositionsHold DEF IInv
<1>2. q \in Queues /\ pc \in [Threads -> Labels] /\ local \in [Threads -> Locals]
  BY DEF IInv, TypesOK, Queues
<1> QED BY <1>1, <1>2, NodesAre DEF IInv, EndsOK, Positions, Queues

\* A node at Head or behind it is not going to be deleted.
LEMMA SparedPastHead ==
  ASSUME IInv, ~Broken, ~Destroyed, ~overshot, NEW t \in Threads,
         NEW n \in Nodes, pos[q.Head] <= pos[n]
  PROVE  Spared(t, n)
<1>1. Upto(q.to_be_deleted, q.Head)
  BY NotBroken
<1>2. pos[q.to_be_deleted] \in Nat /\ pos[q.to_be_deleted] <= pos[q.Head]
  BY <1>1, Typed DEF Upto
<1>3. ASSUME NEW u \in Threads, pc[u] \in InTryReclaim
      PROVE  pos[local[u].curr_head] \in Nat /\ pos[local[u].curr_head] <= pos[q.Head]
  <2>1. Upto(local[u].curr_head, q.Tail)
    BY <1>3 DEF IInv, CallsOK, CallOK
  <2> QED BY <1>3, <2>1, Typed DEF Upto, IInv, SafeOK
<1> QED BY <1>2, <1>3, Typed DEF Spared

\* The node that a call keeps is spared, and so is any node behind it.
LEMMA SparedBehind ==
  ASSUME IInv, ~Broken, ~Destroyed, ~overshot, NEW t \in Threads,
         NEW m \in Nodes, m \in Keeps(pc[t], local[t]), NEW n \in Nodes, pos[m] <= pos[n]
  PROVE  Spared(t, n)
<1>1. Spared(t, m)
  BY DEF IInv, SafeOK
<1>2. Upto(q.to_be_deleted, q.Head)
  BY NotBroken
<1>3. \A u \in Threads : pc[u] \in InTryReclaim => local[u].curr_head \in Nodes
  BY DEF IInv, CallsOK, CallOK, Upto
<1> QED BY <1>1, <1>2, <1>3, Typed DEF Spared, Upto

\* The calls at work are as many as threads_in_pop says, with one more or one less.
LEMMA Counting ==
  ASSUME IInv, NEW t \in Threads
  PROVE  /\ IsFiniteSet(Working) /\ Cardinality(Working) \in Nat
         /\ t \notin Working => Cardinality(Working \cup {t}) = q.threads_in_pop + 1
         /\ t \in Working => Cardinality(Working \ {t}) = q.threads_in_pop - 1
                             /\ q.threads_in_pop >= 1
<1>1. IsFiniteSet(Working)
  BY ThreadsAssumption, FS_Subset DEF Working
<1>2. Cardinality(Working) \in Nat
  BY <1>1, FS_CardinalityType
<1>3. q.threads_in_pop = Cardinality(Working)
  BY DEF IInv, TypesOK
<1>4. t \notin Working => Cardinality(Working \cup {t}) = Cardinality(Working) + 1
  BY <1>1, FS_AddElement
<1>5. t \in Working => Cardinality(Working \ {t}) = Cardinality(Working) - 1
  BY <1>1, FS_RemoveElement
<1>6. t \in Working => Cardinality(Working) # 0
  BY <1>1, FS_EmptySet
<1> QED BY <1>1, <1>2, <1>3, <1>4, <1>5, <1>6

(***************************************************************************)
(* A step of thread t inside its call that neither links, nor begins or    *)
(* ends to reclaim.                                                        *)
(***************************************************************************)
LEMMA Quiet ==
  ASSUME IInv, ~Broken, NEW t \in Threads, NEW label, NEW l,
         pc[t] \notin Outside \cup InTryReclaim, label \in Labels \ (Outside \cup InTryReclaim),
         pc[t] \in InEnqueue <=> label \in InEnqueue,
         l \in Locals, l.new_node = local[t].new_node,
         pc' = [pc EXCEPT ![t] = label], local' = [local EXCEPT ![t] = l],
         UNCHANGED <<next, allocated, freed, dequeues, overshot>>,
         q' \in Queues, q'.to_be_deleted = q.to_be_deleted,
         q'.threads_in_pop = q.threads_in_pop, Forward,
         CallOK(label, l)', ~overshot => \A n \in Keeps(label, l) : Spared(t, n)
  PROVE  IInv'
<1>1. pc \in [Threads -> Labels] /\ local \in [Threads -> Locals]
  BY Typed
<1>2. pc'[t] = label /\ local'[t] = l
  BY <1>1
<1>3. \A u \in Threads \ {t} : pc'[u] = pc[u] /\ local'[u] = local[u]
  BY <1>1
<1>4. Working' = Working
  BY <1>2, <1>3 DEF Working
<1>5. TypesOK'
  <2>1. pc' \in [Threads -> Labels] /\ local' \in [Threads -> Locals]
    BY <1>1
  <2> QED BY <1>4, <2>1 DEF IInv, TypesOK, Queues
<1>6. pos' = pos
  BY SameList
<1>7. FreshOK'
  <2>1. \A u \in Threads : /\ pc'[u] \in InEnqueue <=> pc[u] \in InEnqueue
                           /\ local'[u].new_node = local[u].new_node
    BY <1>2, <1>3
  <2>2. FreshOK
    BY DEF IInv
  <2> QED BY <1>6, <2>1, <2>2 DEF FreshOK
<1>8. ~Destroyed
  BY NotDestroyed DEF Outside
<1>9. CallOK(pc[t], local[t])'
  BY <1>2
<1>10. allocated <= allocated'
  BY NodesAre DEF IInv, TypesOK
<1> QED BY <1>2, <1>3, <1>5, <1>7, <1>8, <1>9, <1>10, Frame

\* Such a step that leaves the atomics alone.
LEMMA QuietLoad ==
  ASSUME IInv, ~Broken, NEW t \in Threads, NEW label, NEW l,
         pc[t] \notin Outside \cup InTryReclaim, label \in Labels \ (Outside \cup InTryReclaim),
         pc[t] \in InEnqueue <=> label \in InEnqueue,
         l \in Locals, l.new_node = local[t].new_node,
         pc' = [pc EXCEPT ![t] = label], local' = [local EXCEPT ![t] = l],
         UNCHANGED <<q, next, allocated, freed, dequeues, overshot>>,
         CallOK(label, l), ~overshot => \A n \in Keeps(label, l) : Spared(t, n)
  PROVE  IInv'
<1>1. Forward /\ q' \in Queues
  BY Typed DEF Forward
<1>2. CallOK(label, l)'
  BY <1>1, CallStays
<1> QED BY <1>1, <1>2, Quiet
-----------------------------------------------------------------------------
\* Tail has been loaded: it is not going to be deleted.
LEMMA LoadTailKeeps ==
  ASSUME IInv, ~Broken, NEW t \in Threads, LoadTail(t) PROVE IInv'
<1>1. PICK l : l = [local[t] EXCEPT !["curr_tail"] = q.Tail]
  OBVIOUS
<1>2. local[t] \in Locals /\ ~Destroyed /\ pc[t] = "load_tail" /\ CallOK(pc[t], local[t])
  BY Typed, NotDestroyed DEF LoadTail, From, IInv, CallsOK
<1>3. l \in Locals /\ l.new_node = local[t].new_node
  BY <1>1, <1>2, Typed DEF Locals, Pointers
<1>4. pc' = [pc EXCEPT ![t] = "load_tail_next"] /\ local' = [local EXCEPT ![t] = l]
      /\ UNCHANGED <<q, next, allocated, freed, dequeues, overshot>>
  BY <1>1, <1>2, Typed DEF LoadTail, To, Load, Set, rest
<1>5. CallOK("load_tail_next", l)
  BY <1>1, <1>2, Typed DEF CallOK, Upto, Locals, InTryReclaim
<1>6. ~overshot => \A n \in Keeps("load_tail_next", l) : Spared(t, n)
  BY <1>1, <1>2, Typed, SparedPastHead DEF Keeps, Locals
<1> QED BY <1>2, <1>3, <1>4, <1>5, <1>6, QuietLoad DEF Labels, InEnqueue, Outside, InTryReclaim

\* Tail has been loaded again.
LEMMA LoadTailAgainKeeps ==
  ASSUME IInv, ~Broken, NEW t \in Threads, LoadTailAgain(t) PROVE IInv'
<1>1. PICK l : l = [local[t] EXCEPT !["cursor"] = q.Tail]
  OBVIOUS
<1>2. local[t] \in Locals /\ ~Destroyed /\ pc[t] = "load_tail_again" /\ CallOK(pc[t], local[t])
  BY Typed, NotDestroyed DEF LoadTailAgain, From, IInv, CallsOK
<1>3. l \in Locals /\ l.new_node = local[t].new_node
  BY <1>1, <1>2, Typed DEF Locals, Pointers
<1>4. pc' = [pc EXCEPT ![t] = "link"] /\ local' = [local EXCEPT ![t] = l]
      /\ UNCHANGED <<q, next, allocated, freed, dequeues, overshot>>
  BY <1>1, <1>2, Typed DEF LoadTailAgain, To, Load, Set, rest
<1>5. CallOK("link", l)
  BY <1>1, <1>2, Typed DEF CallOK, Upto, Locals, InTryReclaim
<1>6. ~overshot => \A n \in Keeps("link", l) : Spared(t, n)
  BY <1>1, <1>2, Typed, SparedPastHead DEF Keeps, Locals
<1> QED BY <1>2, <1>3, <1>4, <1>5, <1>6, QuietLoad DEF Labels, InEnqueue, Outside, InTryReclaim

\* The exchange of a next has failed.
LEMMA LinkFailsKeeps ==
  ASSUME IInv, ~Broken, NEW t \in Threads, LinkFails(t) PROVE IInv'
<1>1. PICK l : l = local[t]
  OBVIOUS
<1>2. local[t] \in Locals /\ ~Destroyed /\ pc[t] = "link" /\ CallOK(pc[t], local[t])
  BY Typed, NotDestroyed DEF LinkFails, From, IInv, CallsOK
<1>3. l \in Locals /\ l.new_node = local[t].new_node
  BY <1>1, <1>2, Typed DEF Locals, Pointers
<1>4. pc' = [pc EXCEPT ![t] = "load_tail"] /\ local' = [local EXCEPT ![t] = l]
      /\ UNCHANGED <<q, next, allocated, freed, dequeues, overshot>>
  BY <1>1, <1>2, Typed DEF LinkFails, To, Load, Set, rest
<1>5. CallOK("load_tail", l)
  BY DEF CallOK, InTryReclaim
<1>6. Keeps("load_tail", l) = {}
  BY DEF Keeps
<1> QED BY <1>2, <1>3, <1>4, <1>5, <1>6, QuietLoad DEF Labels, InEnqueue, Outside, InTryReclaim

\* Head has been loaded.
LEMMA LoadHeadKeeps ==
  ASSUME IInv, ~Broken, NEW t \in Threads, LoadHead(t) PROVE IInv'
<1>1. PICK l : l = [local[t] EXCEPT !["curr_head"] = q.Head]
  OBVIOUS
<1>2. local[t] \in Locals /\ ~Destroyed /\ pc[t] = "load_head" /\ CallOK(pc[t], local[t])
  BY Typed, NotDestroyed DEF LoadHead, From, IInv, CallsOK
<1>3. l \in Locals /\ l.new_node = local[t].new_node
  BY <1>1, <1>2, Typed DEF Locals, Pointers
<1>4. pc' = [pc EXCEPT ![t] = "load_heads_tail"] /\ local' = [local EXCEPT ![t] = l]
      /\ UNCHANGED <<q, next, allocated, freed, dequeues, overshot>>
  BY <1>1, <1>2, Typed DEF LoadHead, To, Load, Set, rest
<1>5. CallOK("load_heads_tail", l)
  BY <1>1, <1>2, Typed DEF CallOK, Upto, Locals, InTryReclaim
<1>6. ~overshot => \A n \in Keeps("load_heads_tail", l) : Spared(t, n)
  BY <1>1, <1>2, Typed, SparedPastHead DEF Keeps, Locals
<1> QED BY <1>2, <1>3, <1>4, <1>5, <1>6, QuietLoad DEF Labels, InEnqueue, Outside, InTryReclaim

\* Tail has been loaded after Head: it is not before it.
LEMMA LoadHeadsTailKeeps ==
  ASSUME IInv, ~Broken, NEW t \in Threads, LoadHeadsTail(t) PROVE IInv'
<1>1. PICK l : l = [local[t] EXCEPT !["curr_tail"] = q.Tail]
  OBVIOUS
<1>2. local[t] \in Locals /\ ~Destroyed /\ pc[t] = "load_heads_tail" /\ CallOK(pc[t], local[t])
  BY Typed, NotDestroyed DEF LoadHeadsTail, From, IInv, CallsOK
<1>3. l \in Locals /\ l.new_node = local[t].new_node
  BY <1>1, <1>2, Typed DEF Locals, Pointers
<1>4. pc' = [pc EXCEPT ![t] = "load_head_next"] /\ local' = [local EXCEPT ![t] = l]
      /\ UNCHANGED <<q, next, allocated, freed, dequeues, overshot>>
  BY <1>1, <1>2, Typed DEF LoadHeadsTail, To, Load, Set, rest
<1>5. CallOK("load_head_next", l)
  BY <1>1, <1>2, Typed DEF CallOK, Upto, Locals, InTryReclaim
<1>6. ~overshot => \A n \in Keeps("load_head_next", l) : Spared(t, n)
  BY <1>1, <1>2, Typed, SparedBehind DEF Keeps, Locals, CallOK, Upto
<1> QED BY <1>2, <1>3, <1>4, <1>5, <1>6, QuietLoad DEF Labels, InEnqueue, Outside, InTryReclaim

\* The exchange of Head has failed, and Head has been loaded.
LEMMA TakeFailsKeeps ==
  ASSUME IInv, ~Broken, NEW t \in Threads, TakeFails(t) PROVE IInv'
<1>1. PICK l : l = [local[t] EXCEPT !["curr_head"] = q.Head]
  OBVIOUS
<1>2. local[t] \in Locals /\ ~Destroyed /\ pc[t] = "take" /\ CallOK(pc[t], local[t])
  BY Typed, NotDestroyed DEF TakeFails, From, IInv, CallsOK
<1>3. l \in Locals /\ l.new_node = local[t].new_node
  BY <1>1, <1>2, Typed DEF Locals, Pointers
<1>4. pc' = [pc EXCEPT ![t] = "count"] /\ local' = [local EXCEPT ![t] = l]
      /\ UNCHANGED <<q, next, allocated, freed, dequeues, overshot>>
  BY <1>1, <1>2, Typed DEF TakeFails, To, Load, Set, rest
<1>5. CallOK("count", l)
  BY <1>1, <1>2, Typed DEF CallOK, Upto, Locals, InTryReclaim
<1>6. ~overshot => \A n \in Keeps("count", l) : Spared(t, n)
  BY <1>1, <1>2, Typed, SparedPastHead DEF Keeps, Locals
<1> QED BY <1>2, <1>3, <1>4, <1>5, <1>6, QuietLoad DEF Labels, InEnqueue, Outside, InTryReclaim

\* The item has been read: the call goes on to reclaim.
LEMMA ReadKeeps ==
  ASSUME IInv, ~Broken, NEW t \in Threads, Read(t) PROVE IInv'
<1>1. PICK l : l = [local[t] EXCEPT !.found = TRUE, !.curr_head = local[t].curr_next]
  OBVIOUS
<1>2. local[t] \in Locals /\ ~Destroyed /\ pc[t] = "read" /\ CallOK(pc[t], local[t])
  BY Typed, NotDestroyed DEF Read, From, IInv, CallsOK
<1>3. l \in Locals /\ l.new_node = local[t].new_node
  BY <1>1, <1>2, Typed DEF Locals, Pointers
<1>4. pc' = [pc EXCEPT ![t] = "count"] /\ local' = [local EXCEPT ![t] = l]
      /\ UNCHANGED <<q, next, allocated, freed, dequeues, overshot>>
  BY <1>1, <1>2, Typed DEF Read, To, Load, Set, rest
<1>5. CallOK("count", l)
  BY <1>1, <1>2, Typed DEF CallOK, Upto, Locals, InTryReclaim
<1>6. ~overshot => \A n \in Keeps("count", l) : Spared(t, n)
  BY <1>1, <1>2, Typed, SparedBehind DEF Keeps, Locals, CallOK, Upto
<1> QED BY <1>2, <1>3, <1>4, <1>5, <1>6, QuietLoad DEF Labels, InEnqueue, Outside, InTryReclaim

\* The successor of a node that was Tail has been loaded.
LEMMA LoadTailNextKeeps ==
  ASSUME IInv, ~Broken, NEW t \in Threads, LoadTailNext(t) PROVE IInv'
<1>1. PICK l : l = [local[t] EXCEPT !["curr_next"] = next[local[t].curr_tail]]
  OBVIOUS
<1>2. /\ local[t] \in Locals /\ ~Destroyed /\ pc[t] = "load_tail_next"
      /\ Upto(local[t].curr_tail, q.Tail) /\ next \in [Nodes -> Pointers]
  BY Typed, NotDestroyed DEF LoadTailNext, From, IInv, CallsOK, CallOK, ListOK, NextOK, Pointers
<1>3. l \in Locals /\ l.new_node = local[t].new_node
  BY <1>1, <1>2 DEF Locals, Upto
<1>4. PICK label : /\ label \in {"load_tail_again", "help_enqueuer"}
                   /\ label = "help_enqueuer" => next[local[t].curr_tail] # Null
                   /\ pc' = [pc EXCEPT ![t] = label] /\ local' = [local EXCEPT ![t] = l]
                   /\ UNCHANGED <<q, next, allocated, freed, dequeues, overshot>>
  BY <1>1, <1>2, Typed DEF LoadTailNext, To, Load, Set, rest
<1>5. CallOK(label, l)
  BY <1>1, <1>2, <1>4 DEF CallOK, Upto, Locals, InTryReclaim
<1>6. Keeps(label, l) = {}
  BY <1>4 DEF Keeps
<1> QED BY <1>2, <1>3, <1>4, <1>5, <1>6, QuietLoad DEF Labels, InEnqueue, Outside, InTryReclaim

(***************************************************************************)
(* The successor of a node that was Head has been loaded after Tail: when  *)
(* Tail was another node, there is one, and Tail has come to it.           *)
(***************************************************************************)
LEMMA LoadHeadNextKeeps ==
  ASSUME IInv, ~Broken, NEW t \in Threads, LoadHeadNext(t) PROVE IInv'
<1>1. PICK l : l = [local[t] EXCEPT !["curr_next"] = next[local[t].curr_head]]
  OBVIOUS
<1>2. /\ local[t] \in Locals /\ ~Destroyed /\ pc[t] = "load_head_next"
      /\ Upto(local[t].curr_head, q.Head) /\ Upto(local[t].curr_tail, q.Tail)
      /\ Upto(local[t].curr_head, local[t].curr_tail) /\ next \in [Nodes -> Pointers]
  BY Typed, NotDestroyed DEF LoadHeadNext, From, IInv, CallsOK, CallOK, ListOK, NextOK, Pointers
<1>3. l \in Locals /\ l.new_node = local[t].new_node
  BY <1>1, <1>2 DEF Locals, Upto
<1>4. l.curr_head = local[t].curr_head /\ l.curr_next = next[l.curr_head]
  BY <1>1, <1>2 DEF Locals
<1>5. l.curr_next # Null =>
         l.curr_next \in Nodes /\ pos[l.curr_next] = pos[l.curr_head] + 1
  BY <1>2, <1>4, Typed DEF Positions, Upto
<1>6. local[t].curr_head # local[t].curr_tail =>
         l.curr_next # Null /\ Upto(l.curr_next, q.Tail)
  <2> SUFFICES ASSUME local[t].curr_head # local[t].curr_tail
               PROVE  l.curr_next # Null /\ Upto(l.curr_next, q.Tail)
    OBVIOUS
  <2>1. pos[local[t].curr_head] < pos[local[t].curr_tail]
    BY <1>2, Typed DEF Positions, Upto
  <2>2. pos[local[t].curr_head] \notin {0, len}
    BY <1>2, <2>1, Typed DEF Upto
  <2>3. l.curr_next # Null
    BY <1>2, <1>4, <2>2, Typed DEF Positions, Upto
  <2> QED BY <1>2, <1>4, <1>5, <2>1, <2>3, Typed DEF Upto
<1>7. PICK label : /\ label \in {"take", "empty", "help_dequeuer"}
                   /\ label = "take" => local[t].curr_head # local[t].curr_tail
                   /\ label = "help_dequeuer" => l.curr_next # Null
                   /\ pc' = [pc EXCEPT ![t] = label] /\ local' = [local EXCEPT ![t] = l]
                   /\ UNCHANGED <<q, next, allocated, freed, dequeues, overshot>>
  BY <1>1, <1>2, <1>4, Typed DEF LoadHeadNext, To, Load, Set, rest
<1>8. CallOK(label, l)
  BY <1>2, <1>4, <1>6, <1>7 DEF CallOK, InTryReclaim
<1>9. ~overshot => \A n \in Keeps(label, l) : Spared(t, n)
  <2> SUFFICES ASSUME ~overshot, NEW n \in Keeps(label, l) PROVE Spared(t, n)
    OBVIOUS
  <2>1. local[t].curr_head \in Nodes /\ local[t].curr_head \in Keeps(pc[t], local[t])
    BY <1>2 DEF Keeps, Upto
  <2>2. n \in Nodes /\ pos[local[t].curr_head] <= pos[n]
    BY <1>2, <1>4, <1>5, <1>6, <1>7, Typed DEF Keeps, Upto
  <2> QED BY <1>2, <2>1, <2>2, SparedBehind
<1> QED BY <1>2, <1>3, <1>7, <1>8, <1>9, QuietLoad DEF Labels, InEnqueue, Outside, InTryReclaim

\* The exchange of Tail, which does not go back, nor past the end of the list.
LEMMA CasForward ==
  ASSUME IInv, NEW m \in Pointers, NEW n \in Pointers,
         m = q.Tail => n \in Nodes /\ pos[q.Tail] <= pos[n],
         CasTail(m, n) \/ UNCHANGED q
  PROVE  /\ Forward /\ q' \in Queues /\ q'.to_be_deleted = q.to_be_deleted
         /\ q'.threads_in_pop = q.threads_in_pop
<1>1. q' = q \/ (n \in Nodes /\ pos[q.Tail] <= pos[n] /\ q' = [q EXCEPT !.Tail = n])
  <2>1. CASE UNCHANGED q
    BY <2>1
  <2>2. CASE CasTail(m, n) /\ q.Tail = m
    BY <2>2 DEF CasTail
  <2>3. CASE CasTail(m, n) /\ q.Tail # m
    BY <2>3, Typed DEF CasTail, Queues
  <2> QED BY <2>1, <2>2, <2>3
<1>2. CASE q' = q
  BY <1>2, Typed DEF Forward, Queues
<1>3. CASE n \in Nodes /\ pos[q.Tail] <= pos[n] /\ q' = [q EXCEPT !.Tail = n]
  <2>1. q'.Tail = n /\ q'.Head = q.Head /\ q'.threads_in_pop = q.threads_in_pop
        /\ q'.to_be_deleted = q.to_be_deleted /\ q' \in Queues
    BY <1>3, Typed DEF Queues
  <2>2. pos[q.Head] <= pos[n]
    BY <1>3, Typed
  <2> QED BY <1>3, <2>1, <2>2, Typed DEF Forward
<1> QED BY <1>1, <1>2, <1>3

\* An enqueuer has tried to move Tail on to the node behind.
LEMMA HelpEnqueuerKeeps ==
  ASSUME IInv, ~Broken, NEW t \in Threads, HelpEnqueuer(t) PROVE IInv'
<1>1. /\ local[t] \in Locals /\ pc[t] = "help_enqueuer" /\ Upto(local[t].curr_tail, q.Tail)
      /\ local[t].curr_next # Null /\ local[t].curr_next = next[local[t].curr_tail]
  BY Typed DEF HelpEnqueuer, From, IInv, CallsOK, CallOK
<1>2. local[t].curr_tail = q.Tail =>
         local[t].curr_next \in Nodes /\ pos[q.Tail] <= pos[local[t].curr_next]
  BY <1>1, Typed DEF Positions, Upto
<1>3. local[t].curr_tail \in Pointers /\ local[t].curr_next \in Pointers
  BY <1>1 DEF Locals
<1>4. /\ Forward /\ q' \in Queues /\ q'.to_be_deleted = q.to_be_deleted
      /\ q'.threads_in_pop = q.threads_in_pop
  BY <1>2, <1>3, CasForward DEF HelpEnqueuer
<1>5. pc' = [pc EXCEPT ![t] = "load_tail"] /\ local' = [local EXCEPT ![t] = local[t]]
      /\ UNCHANGED <<next, allocated, freed, dequeues, overshot>>
  BY Typed DEF HelpEnqueuer, To, rest
<1>6. CallOK("load_tail", local[t]) /\ Keeps("load_tail", local[t]) = {}
  BY DEF CallOK, Keeps, InTryReclaim
<1>7. PICK l : l = local[t]
  OBVIOUS
<1>8. CallOK("load_tail", l)' /\ Keeps("load_tail", l) = {}
  BY <1>4, <1>5, <1>6, <1>7, CallStays
<1> QED BY <1>1, <1>4, <1>5, <1>7, <1>8, Quiet DEF Labels, InEnqueue, Outside, InTryReclaim

\* An enqueuer has tried to move Tail on to the node it has linked.
LEMMA SwingTailKeeps ==
  ASSUME IInv, ~Broken, NEW t \in Threads, SwingTail(t) PROVE IInv'
<1>1. /\ local[t] \in Locals /\ pc[t] = "swing_tail" /\ local[t].new_node \in Nodes
      /\ local[t].curr_tail \in Nodes /\ pos[local[t].curr_tail] < pos[local[t].new_node]
  BY Typed DEF SwingTail, From, IInv, CallsOK, CallOK
<1>2. local[t].curr_tail = q.Tail => pos[q.Tail] <= pos[local[t].new_node]
  BY <1>1, Typed
<1>3. /\ Forward /\ q' \in Queues /\ q'.to_be_deleted = q.to_be_deleted
      /\ q'.threads_in_pop = q.threads_in_pop
  BY <1>1, <1>2, CasForward DEF SwingTail, Pointers
<1>4. pc' = [pc EXCEPT ![t] = "leave_enqueue"] /\ local' = [local EXCEPT ![t] = local[t]]
      /\ UNCHANGED <<next, allocated, freed, dequeues, overshot>>
  BY Typed DEF SwingTail, To, rest
<1>5. CallOK("leave_enqueue", local[t]) /\ Keeps("leave_enqueue", local[t]) = {}
  BY DEF CallOK, Keeps, InTryReclaim
<1>6. PICK l : l = local[t]
  OBVIOUS
<1>7. CallOK("leave_enqueue", l)' /\ Keeps("leave_enqueue", l) = {}
  BY <1>3, <1>4, <1>5, <1>6, CallStays
<1> QED BY <1>1, <1>3, <1>4, <1>6, <1>7, Quiet DEF Labels, InEnqueue, Outside, InTryReclaim
(***************************************************************************)
(* A dequeuer has tried to move Tail on to the node behind Head; when that *)
(* fails, it goes on with what Tail is.                                    *)
(***************************************************************************)
LEMMA HelpDequeuerKeeps ==
  ASSUME IInv, ~Broken, NEW t \in Threads, HelpDequeuer(t) PROVE IInv'
<1>1. /\ local[t] \in Locals /\ pc[t] = "help_dequeuer" /\ Upto(local[t].curr_head, q.Head)
      /\ local[t].curr_next # Null /\ local[t].curr_next = next[local[t].curr_head]
      /\ ~Destroyed
  BY Typed, NotDestroyed DEF HelpDequeuer, From, IInv, CallsOK, CallOK
<1>2. local[t].curr_head = q.Tail =>
         local[t].curr_next \in Nodes /\ pos[q.Tail] <= pos[local[t].curr_next]
  BY <1>1, Typed DEF Positions, Upto
<1>3. local[t].curr_head \in Pointers /\ local[t].curr_next \in Pointers
  BY <1>1 DEF Locals
<1>4. /\ Forward /\ q' \in Queues /\ q'.to_be_deleted = q.to_be_deleted
      /\ q'.threads_in_pop = q.threads_in_pop
  BY <1>2, <1>3, CasForward DEF HelpDequeuer
<1>5. PICK l : l = IF q.Tail = local[t].curr_head
                   THEN local[t] ELSE [local[t] EXCEPT !["curr_head"] = q.Tail]
  OBVIOUS
<1>6. l \in Locals /\ l.new_node = local[t].new_node
      /\ l.curr_head = IF q.Tail = local[t].curr_head THEN local[t].curr_head ELSE q.Tail
  BY <1>1, <1>5, Typed DEF Locals, Pointers
<1>7. pc' = [pc EXCEPT ![t] = "count"] /\ local' = [local EXCEPT ![t] = l]
      /\ UNCHANGED <<next, allocated, freed, dequeues, overshot>>
  BY <1>5, Typed DEF HelpDequeuer, To, Set, rest
<1>8. l.curr_head = q.Tail
  BY <1>6
<1>9. CallOK("count", l)
  BY <1>8, Typed DEF CallOK, Upto, InTryReclaim
<1>10. CallOK("count", l)'
  BY <1>4, <1>7, <1>9, CallStays
<1>11. ~overshot => \A n \in Keeps("count", l) : Spared(t, n)
  BY <1>1, <1>8, Typed, SparedPastHead DEF Keeps
<1> QED BY <1>1, <1>4, <1>6, <1>7, <1>10, <1>11, Quiet
        DEF Labels, InEnqueue, Outside, InTryReclaim

\* The exchange of Head: Tail has been seen at the node that becomes Head, or behind it.
LEMMA TakeKeeps ==
  ASSUME IInv, ~Broken, NEW t \in Threads, Take(t) PROVE IInv'
<1>1. /\ local[t] \in Locals /\ pc[t] = "take" /\ Upto(local[t].curr_head, q.Head)
      /\ local[t].curr_next # Null /\ local[t].curr_next = next[local[t].curr_head]
      /\ Upto(local[t].curr_next, q.Tail) /\ q.Head = local[t].curr_head /\ ~Destroyed
  BY Typed, NotDestroyed DEF Take, From, IInv, CallsOK, CallOK
<1>2. PICK l : l = local[t]
  OBVIOUS
<1>3. l.curr_next \in Nodes /\ pos[l.curr_next] = pos[q.Head] + 1
  BY <1>1, <1>2, Typed DEF Positions
<1>4. q' = [q EXCEPT !.Head = l.curr_next]
  BY <1>2 DEF Take, StoreHead
<1>5. /\ q' \in Queues /\ q'.to_be_deleted = q.to_be_deleted /\ q'.Head = l.curr_next
      /\ q'.threads_in_pop = q.threads_in_pop /\ q'.Tail = q.Tail
  BY <1>3, <1>4, Typed DEF Queues
<1>6. Forward
  BY <1>1, <1>2, <1>3, <1>5, Typed DEF Forward, Upto
<1>7. pc' = [pc EXCEPT ![t] = "read"] /\ local' = [local EXCEPT ![t] = l]
      /\ UNCHANGED <<next, allocated, freed, dequeues, overshot>>
  BY <1>2, Typed DEF Take, StoreHead, To
<1>8. pos' = pos
  BY <1>7, SameList
<1>9. CallOK("read", l)'
  BY <1>3, <1>5, <1>8, Typed DEF CallOK, Upto, InTryReclaim
<1>10. ~overshot => \A n \in Keeps("read", l) : Spared(t, n)
  BY <1>1, <1>2, <1>3, Typed, SparedPastHead DEF Keeps
<1> QED BY <1>1, <1>2, <1>5, <1>6, <1>7, <1>9, <1>10, Quiet
        DEF Labels, InEnqueue, Outside, InTryReclaim

\* There are other calls at work: this one does not reclaim.
LEMMA CountFailsKeeps ==
  ASSUME IInv, ~Broken, NEW t \in Threads, Count(t), q.threads_in_pop # 1 PROVE IInv'
<1>1. PICK l : l = local[t]
  OBVIOUS
<1>2. pc[t] = "count" /\ l \in Locals /\ overshot \in BOOLEAN
  BY <1>1, Typed DEF Count, From, IInv, TypesOK
<1>3. pc' = [pc EXCEPT ![t] = "leave_dequeue"] /\ local' = [local EXCEPT ![t] = l]
      /\ UNCHANGED <<q, next, allocated, freed, dequeues, overshot>>
  BY <1>1, <1>2, Typed DEF Count, To
<1>4. CallOK("leave_dequeue", l) /\ Keeps("leave_dequeue", l) = {}
  BY DEF CallOK, Keeps, InTryReclaim
<1> QED BY <1>1, <1>2, <1>3, <1>4, QuietLoad DEF Labels, InEnqueue, Outside, InTryReclaim
-----------------------------------------------------------------------------
\* A call of enqueue begins, with a node of its own.
LEMMA EnqueueKeeps ==
  ASSUME IInv, ~Broken, NEW t \in Threads, Enqueue(t) PROVE IInv'
<1>1. /\ pc[t] = "idle" /\ allocated \in Nodes /\ allocated <= MaxEnqueues
      /\ allocated' = allocated + 1 /\ UNCHANGED <<next, freed, dequeues, overshot>>
      /\ pc' = [pc EXCEPT ![t] = "load_tail"]
      /\ local' = [local EXCEPT ![t]["new_node"] = allocated']
      /\ q' = [q EXCEPT !.threads_in_pop = @ + 1]
  BY DEF Enqueue, From, To, Set, IInv, TypesOK
<1>2. /\ q' \in Queues /\ q'.threads_in_pop = q.threads_in_pop + 1 /\ q'.Head = q.Head
      /\ q'.Tail = q.Tail /\ q'.to_be_deleted = q.to_be_deleted
  BY <1>1, Typed DEF Queues
<1>3. /\ pc'[t] = "load_tail" /\ local'[t] = [local[t] EXCEPT !["new_node"] = allocated']
      /\ \A u \in Threads \ {t} : pc'[u] = pc[u] /\ local'[u] = local[u]
  BY <1>1, Typed
<1>4. local[t] \in Locals /\ allocated' \in Nodes /\ allocated' \in Nat /\ allocated \in Nat
  <2>1. allocated \in Nat /\ 0 < allocated
    BY <1>1, NodesAre
  <2>2. allocated' \in Nat /\ 0 < allocated' /\ allocated' <= MaxEnqueues + 1
    BY <1>1, <2>1, BoundsAssumption
  <2> QED BY <2>1, <2>2, Typed, NodesAre
<1>5. local'[t] \in Locals /\ local'[t].new_node = allocated'
  BY <1>3, <1>4 DEF Locals, Pointers
<1>6. ~Destroyed
  BY <1>1, <1>4, BoundsAssumption DEF IInv, DestroyedOK
<1>7. Working' = Working \cup {t} /\ t \notin Working
  BY <1>1, <1>3 DEF Working, Outside
<1>8. TypesOK'
  <2>1. Cardinality(Working') = q'.threads_in_pop
    BY <1>2, <1>7, Counting
  <2>2. pc' \in [Threads -> Labels]
    BY <1>1, Typed DEF Labels, InEnqueue
  <2>3. local' = [local EXCEPT ![t] = local'[t]]
    BY <1>1, <1>3, Typed
  <2>4. local' \in [Threads -> Locals]
    BY <1>5, <2>3, Typed
  <2> QED BY <1>1, <1>2, <1>4, <2>1, <2>2, <2>4 DEF IInv, TypesOK, Queues
<1>9. pos' = pos /\ FreshOK /\ pos[allocated'] = 0
  <2>1. pos' = pos /\ FreshOK
    BY <1>1, SameList DEF IInv
  <2>2. ~ (allocated' <= allocated)
    BY <1>1, <1>4
  <2> QED BY <1>4, <2>1, <2>2, Typed DEF FreshOK
<1>10. FreshOK'
  <2>1. ASSUME NEW u \in Threads, pc'[u] \in InEnqueue
        PROVE  /\ local'[u].new_node \in Nodes /\ local'[u].new_node <= allocated'
               /\ pos'[local'[u].new_node] = 0
               /\ u # t => local'[u].new_node <= allocated
    <3>1. CASE u = t
      BY <1>4, <1>5, <1>9, <3>1
    <3>2. CASE u # t
      <4>1. local'[u].new_node \in Nodes /\ local'[u].new_node <= allocated
            /\ pos[local'[u].new_node] = 0
        BY <1>3, <1>9, <2>1, <3>2 DEF FreshOK
      <4> QED BY <1>1, <1>4, <1>9, <4>1, NodesAre
    <3> QED BY <3>1, <3>2
  <2>2. ASSUME NEW u \in Threads, NEW w \in Threads, u # w,
               pc'[u] \in InEnqueue, pc'[w] \in InEnqueue
        PROVE  local'[u].new_node # local'[w].new_node
    <3>1. ~ (allocated' <= allocated)
      BY <1>1, <1>4
    <3>2. CASE u # t /\ w # t
      BY <1>3, <1>9, <2>2, <3>2 DEF FreshOK
    <3>3. CASE u = t
      <4>1. local'[w].new_node <= allocated
        BY <2>1, <2>2, <3>3
      <4>2. local'[u].new_node = allocated'
        BY <1>5, <3>3
      <4> QED BY <3>1, <4>1, <4>2
    <3>4. CASE w = t
      <4>1. local'[u].new_node <= allocated
        BY <2>1, <2>2, <3>4
      <4>2. local'[w].new_node = allocated'
        BY <1>5, <3>4
      <4> QED BY <3>1, <4>1, <4>2
    <3> QED BY <3>2, <3>3, <3>4
  <2>3. ASSUME NEW n \in Nodes, pos'[n] > 0 PROVE n <= allocated'
    <3>1. n <= allocated /\ n \in Nat
      BY <1>9, <2>3, NodesAre DEF FreshOK
    <3> QED BY <1>1, <1>4, <3>1
  <2>4. ASSUME NEW n \in Nodes, n <= allocated', pos'[n] = 0
        PROVE  \E u \in Threads : pc'[u] \in InEnqueue /\ local'[u].new_node = n
    <3>1. CASE n = allocated'
      BY <1>3, <1>5, <3>1 DEF InEnqueue
    <3>2. CASE n # allocated'
      <4>1. n <= allocated
        BY <1>1, <1>4, <2>4, <3>2, NodesAre
      <4>2. PICK u \in Threads : pc[u] \in InEnqueue /\ local[u].new_node = n
        BY <1>9, <2>4, <4>1 DEF FreshOK
      <4>3. u # t
        BY <1>1, <4>2 DEF InEnqueue
      <4> QED BY <1>3, <4>2, <4>3
    <3> QED BY <3>1, <3>2
  <2>5. \A u \in Threads : pc'[u] \in InEnqueue =>
          local'[u].new_node \in Nodes /\ local'[u].new_node <= allocated'
            /\ pos'[local'[u].new_node] = 0
    BY <2>1
  <2> QED BY <2>2, <2>3, <2>4, <2>5 DEF FreshOK
<1>11. CallOK(pc[t], local[t])'
  BY <1>3 DEF CallOK, InTryReclaim
<1>12. Forward /\ allocated <= allocated'
  BY <1>1, <1>2, <1>4, Typed DEF Forward
<1>13. Keeps(pc'[t], local'[t]) = {}
  BY <1>3 DEF Keeps
<1> QED BY <1>1, <1>2, <1>3, <1>6, <1>8, <1>10, <1>11, <1>12, <1>13, Frame DEF InTryReclaim

\* A call, or a round of dequeue's loop, begins or ends.
LEMMA Boundary ==
  ASSUME IInv, ~Broken, ~Destroyed, NEW t \in Threads, NEW label, NEW l, NEW w \in Nat,
         pc[t] \notin InEnqueue \cup InTryReclaim,
         label \in Labels \ (InEnqueue \cup InTryReclaim), l \in Locals,
         pc' = [pc EXCEPT ![t] = label], local' = [local EXCEPT ![t] = l],
         UNCHANGED <<next, allocated, freed, overshot>>, dequeues' \in 0..MaxDequeues,
         q' = [q EXCEPT !.threads_in_pop = w], w = Cardinality(Working'),
         CallOK(label, l), Keeps(label, l) = {}
  PROVE  IInv'
<1>1. /\ q' \in Queues /\ q'.threads_in_pop = w /\ q'.Head = q.Head
      /\ q'.Tail = q.Tail /\ q'.to_be_deleted = q.to_be_deleted
  BY Typed DEF Queues
<1>2. /\ pc'[t] = label /\ local'[t] = l
      /\ \A u \in Threads \ {t} : pc'[u] = pc[u] /\ local'[u] = local[u]
  BY Typed
<1>3. TypesOK'
  <2>1. pc' \in [Threads -> Labels] /\ local' \in [Threads -> Locals]
    BY Typed
  <2> QED BY <1>1, <2>1 DEF IInv, TypesOK, Queues
<1>4. pos' = pos /\ FreshOK
  BY SameList DEF IInv
<1>5. FreshOK'
  <2>1. \A u \in Threads : /\ pc'[u] \in InEnqueue <=> pc[u] \in InEnqueue
                           /\ pc[u] \in InEnqueue => local'[u].new_node = local[u].new_node
    BY <1>2
  <2> QED BY <1>4, <2>1 DEF FreshOK
<1>6. Forward /\ allocated <= allocated'
  BY <1>1, Typed, NodesAre DEF Forward, IInv, TypesOK
<1>7. CallOK(label, l)'
  BY <1>6, CallStays
<1>8. CallOK(pc[t], local[t])'
  BY <1>2, <1>7
<1> QED BY <1>1, <1>2, <1>3, <1>5, <1>6, <1>8, Frame

\* A call of dequeue begins.
LEMMA DequeueKeeps ==
  ASSUME IInv, ~Broken, NEW t \in Threads, Dequeue(t) PROVE IInv'
<1>1. PICK l, w : l = local[t] /\ w = q.threads_in_pop
  OBVIOUS
<1>2. /\ pc[t] = "idle" /\ dequeues < MaxDequeues /\ l \in Locals /\ w \in Nat
      /\ dequeues' = dequeues + 1 /\ dequeues \in 0..MaxDequeues
      /\ UNCHANGED <<q, next, allocated, freed, overshot, local>>
      /\ pc' = [pc EXCEPT ![t] = "enter"]
  BY <1>1, Typed DEF Dequeue, From, To, IInv, TypesOK, Queues
<1>3. ~Destroyed /\ dequeues' \in 0..MaxDequeues
  BY <1>2, BoundsAssumption DEF IInv, DestroyedOK
<1>4. local' = [local EXCEPT ![t] = l] /\ q' = [q EXCEPT !.threads_in_pop = w]
  BY <1>1, <1>2, Typed DEF Queues
<1>5. Working' = Working
  BY <1>2, Typed DEF Working, Outside
<1>6. w = Cardinality(Working')
  BY <1>1, <1>5 DEF IInv, TypesOK
<1>7. CallOK("enter", l) /\ Keeps("enter", l) = {}
  BY DEF CallOK, Keeps, InTryReclaim
<1> QED BY <1>2, <1>3, <1>4, <1>6, <1>7, Boundary DEF Labels, InEnqueue, Outside, InTryReclaim

\* A round of dequeue's loop begins.
LEMMA EnterKeeps ==
  ASSUME IInv, ~Broken, NEW t \in Threads, Enter(t) PROVE IInv'
<1>1. PICK l, w : l = local[t] /\ w = q.threads_in_pop + 1
  OBVIOUS
<1>2. /\ pc[t] = "enter" /\ l \in Locals /\ w \in Nat /\ dequeues \in 0..MaxDequeues
      /\ UNCHANGED <<next, allocated, freed, overshot, dequeues, local>>
      /\ pc' = [pc EXCEPT ![t] = "load_head"] /\ q' = [q EXCEPT !.threads_in_pop = w]
  BY <1>1, Typed DEF Enter, From, To, IInv, TypesOK, Queues, rest
<1>3. ~Destroyed
  BY <1>2, NotDestroyed
<1>4. local' = [local EXCEPT ![t] = l]
  BY <1>1, <1>2, Typed
<1>5. Working' = Working \cup {t} /\ t \notin Working
  BY <1>2, Typed DEF Working, Outside
<1>6. w = Cardinality(Working')
  BY <1>1, <1>5, Counting
<1>7. CallOK("load_head", l) /\ Keeps("load_head", l) = {}
  BY DEF CallOK, Keeps, InTryReclaim
<1> QED BY <1>2, <1>3, <1>4, <1>6, <1>7, Boundary DEF Labels, InEnqueue, Outside, InTryReclaim

\* A call ends, or goes round dequeue's loop.
LEMMA LeaveKeeps ==
  ASSUME IInv, ~Broken, NEW t \in Threads, LeaveEnqueue(t) \/ Empty(t) \/ LeaveDequeue(t)
  PROVE  IInv'
<1>1. PICK label, w :
        /\ label \in Outside /\ w = q.threads_in_pop - 1
        /\ pc[t] \in {"leave_enqueue", "empty", "leave_dequeue"} /\ Leave(t, label)
  BY DEF LeaveEnqueue, Empty, LeaveDequeue, From, Outside
<1>2. /\ dequeues \in 0..MaxDequeues
      /\ UNCHANGED <<next, allocated, freed, overshot, dequeues>>
      /\ pc' = [pc EXCEPT ![t] = label] /\ q' = [q EXCEPT !.threads_in_pop = w]
      /\ local' = [local EXCEPT ![t] = NoLocals]
  BY <1>1, Typed DEF Leave, To, IInv, TypesOK, rest
<1>3. ~Destroyed
  BY <1>1, NotDestroyed
<1>4. Working' = Working \ {t} /\ t \in Working
  BY <1>1, <1>2, Typed DEF Working, Outside
<1>5. w = Cardinality(Working') /\ w \in Nat
  <2>1. q.threads_in_pop \in Nat
    BY Typed DEF Queues
  <2>2. Cardinality(Working \ {t}) = q.threads_in_pop - 1 /\ q.threads_in_pop >= 1
    BY <1>4, Counting
  <2>3. Cardinality(Working') = Cardinality(Working \ {t})
    BY <1>4
  <2> QED BY <1>1, <2>1, <2>2, <2>3
<1>6. NoLocals \in Locals
  BY DEF NoLocals, Locals, Pointers
<1>7. CallOK(label, NoLocals) /\ Keeps(label, NoLocals) = {}
  BY <1>1 DEF CallOK, Keeps, InTryReclaim, Outside
<1> QED BY <1>1, <1>2, <1>3, <1>5, <1>6, <1>7, Boundary
        DEF Labels, InEnqueue, Outside, InTryReclaim
-----------------------------------------------------------------------------
\* The exchange of a next puts the node behind the last one, which is Tail.
LEMMA Linked ==
  ASSUME IInv, NEW t \in Threads, Link(t), NEW n, n = local[t].new_node
  PROVE  /\ ListOK' /\ Order' = Append(Order, n)
         /\ len' = len + 1 /\ n \in Nodes /\ pos[n] = 0 /\ pos'[n] = len + 1
         /\ pos[q.Tail] = len /\ pc[t] = "link"
         /\ \A m \in Nodes : m # n => pos'[m] = pos[m]
         /\ \A m \in Nodes : next[m] # Null => next'[m] = next[m]
<1>1. PICK c : c = local[t].cursor
  OBVIOUS
<1>2. pc[t] = "link" /\ Upto(c, q.Tail) /\ next[c] = Null /\ next' = [next EXCEPT ![c] = n]
  BY <1>1 DEF Link, From, IInv, CallsOK, CallOK
<1>3. n \in Nodes /\ pos[n] = 0
  BY <1>2 DEF IInv, FreshOK, InEnqueue
<1>4. c \in Nodes /\ pos[c] = len /\ pos[q.Tail] = len
  <2>1. c \in Nodes /\ pos[c] \in {0, len} /\ 0 < pos[c]
    BY <1>2, Typed DEF Positions, Upto
  <2> QED BY <1>2, <2>1, Typed DEF Upto
<1>5. ListOK' /\ Order' = Append(Order, n)
      /\ len' = len + 1 /\ pos' = [pos EXCEPT ![n] = len + 1]
  BY <1>2, <1>3, <1>4, Linking DEF IInv
<1>6. /\ pos'[n] = len + 1 /\ \A m \in Nodes : m # n => pos'[m] = pos[m]
  BY <1>3, <1>5, Typed DEF Positions
<1>7. \A m \in Nodes : next[m] # Null => next'[m] = next[m]
  BY <1>2 DEF IInv, ListOK, NextOK
<1> QED BY <1>2, <1>3, <1>4, <1>5, <1>6, <1>7

\* What a call knows of its pointers stays true when a node is linked.
LEMMA CallStaysLinked ==
  ASSUME IInv, NEW t \in Threads, Link(t), NEW label, NEW l, CallOK(label, l)
  PROVE  CallOK(label, l)'
<1>1. PICK n : n = local[t].new_node
  OBVIOUS
<1>2. /\ pos[n] = 0 /\ \A m \in Nodes : m # n => pos'[m] = pos[m]
      /\ \A m \in Nodes : next[m] # Null => next'[m] = next[m]
      /\ q' = q /\ n \in Nodes
  <2>1. q' = q
    BY DEF Link
  <2> QED BY <1>1, <2>1, Linked
<1>3. \A m \in Nodes : pos[m] \in Nat /\ (0 < pos[m] => pos'[m] = pos[m])
  BY <1>2, Typed
<1>4. ASSUME NEW m, NEW k, Upto(m, k) PROVE Upto(m, k)'
  BY <1>3, <1>4 DEF Upto
<1>5. \A m : Upto(m, q.Tail) => Upto(m, q.Tail)'
  BY <1>2, <1>4
<1>6. \A m : Upto(m, q.Head) => Upto(m, q.Head)'
  BY <1>2, <1>4
<1>7. ASSUME label = "swing_tail"
      PROVE  /\ 0 < pos'[l.curr_tail] /\ pos'[l.curr_tail] < pos'[l.new_node]
             /\ pos'[l.new_node] <= pos'[q'.Tail] + 1
  <2>1. /\ l.curr_tail \in Nodes /\ 0 < pos[l.curr_tail] /\ l.new_node \in Nodes
        /\ pos[l.curr_tail] < pos[l.new_node] /\ pos[l.new_node] <= pos[q.Tail] + 1
    BY <1>7 DEF CallOK
  <2>2. pos'[l.curr_tail] = pos[l.curr_tail] /\ pos'[l.new_node] = pos[l.new_node]
    BY <1>3, <2>1
  <2>3. pos'[q'.Tail] = pos[q.Tail]
    BY <1>2, <1>3, Typed
  <2> QED BY <2>1, <2>2, <2>3
<1>8. label = "help_enqueuer" => next'[l.curr_tail] = next[l.curr_tail]
  BY <1>2 DEF CallOK, Upto
<1>9. label \in {"take", "help_dequeuer"} => next'[l.curr_head] = next[l.curr_head]
  BY <1>2 DEF CallOK, Upto
<1> QED BY <1>4, <1>5, <1>6, <1>7, <1>8, <1>9 DEF CallOK

\* A node that a call keeps is linked.
LEMMA KeptIsLinked ==
  ASSUME IInv, NEW t \in Threads, NEW n \in Keeps(pc[t], local[t])
  PROVE  n \in Nodes /\ 0 < pos[n]
<1>1. CallOK(pc[t], local[t])
  BY DEF IInv, CallsOK
<1>2. Upto(local[t].curr_next, q.Tail) \/ Upto(local[t].curr_next, q.Head)
        => local[t].curr_next \in Nodes /\ 0 < pos[local[t].curr_next]
  BY DEF Upto
<1> QED BY <1>1, <1>2, Typed DEF Keeps, CallOK, Upto

\* A node is linked.
LEMMA LinkKeeps ==
  ASSUME IInv, ~Broken, NEW t \in Threads, Link(t) PROVE IInv'
<1>1. PICK n : n = local[t].new_node
  OBVIOUS
<1>2. /\ ListOK' /\ len' = len + 1 /\ n \in Nodes /\ pos[n] = 0 /\ pos'[n] = len + 1
      /\ pos[q.Tail] = len /\ pc[t] = "link"
      /\ \A m \in Nodes : m # n => pos'[m] = pos[m]
  BY <1>1, Linked
<1>3. /\ UNCHANGED <<q, allocated, freed, dequeues, overshot, local>>
      /\ pc'[t] = "swing_tail" /\ \A u \in Threads \ {t} : pc'[u] = pc[u]
      /\ pc' \in [Threads -> Labels]
  BY Typed DEF Link, To, Labels
<1>4. \A m \in Nodes : pos[m] \in Nat /\ pos[m] <= len /\ (0 < pos[m] => pos'[m] = pos[m])
  BY <1>2, Typed
<1>5. ~Destroyed
  BY <1>2, NotDestroyed
<1>6. TypesOK'
  <2>1. Working' = Working
    BY <1>2, <1>3 DEF Working, Outside
  <2> QED BY <1>3, <2>1 DEF IInv, TypesOK
<1>7. EndsOK'
  BY <1>2, <1>3, <1>4, Typed DEF EndsOK
<1>8. FreshOK'
  <2>1. n <= allocated /\ FreshOK
    BY <1>1, <1>2 DEF IInv, FreshOK, InEnqueue
  <2>2. ASSUME NEW u \in Threads, pc'[u] \in InEnqueue
        PROVE  /\ u # t /\ pc[u] \in InEnqueue /\ local'[u] = local[u]
               /\ local[u].new_node \in Nodes /\ local[u].new_node <= allocated
               /\ pos'[local[u].new_node] = 0
    <3>1. u # t /\ pc[u] \in InEnqueue /\ local'[u] = local[u]
      BY <1>3, <2>2 DEF InEnqueue
    <3>2. local[u].new_node # n
      BY <1>1, <1>2, <2>1, <3>1 DEF FreshOK, InEnqueue
    <3> QED BY <1>2, <2>1, <3>1, <3>2 DEF FreshOK
  <2>3. \A u, w \in Threads : u # w /\ pc'[u] \in InEnqueue /\ pc'[w] \in InEnqueue =>
          local'[u].new_node # local'[w].new_node
    BY <2>1, <2>2 DEF FreshOK
  <2>4. \A m \in Nodes : pos'[m] > 0 => m <= allocated'
    BY <1>2, <1>3, <2>1 DEF FreshOK
  <2>5. ASSUME NEW m \in Nodes, m <= allocated', pos'[m] = 0
        PROVE  \E u \in Threads : pc'[u] \in InEnqueue /\ local'[u].new_node = m
    <3>1. m # n /\ pos[m] = 0
      BY <1>2, <2>5, Typed
    <3>2. PICK u \in Threads : pc[u] \in InEnqueue /\ local[u].new_node = m
      BY <1>3, <2>1, <2>5, <3>1 DEF FreshOK
    <3> QED BY <1>1, <1>3, <3>1, <3>2
  <2>6. \A u \in Threads : pc'[u] \in InEnqueue =>
          local'[u].new_node \in Nodes /\ local'[u].new_node <= allocated'
            /\ pos'[local'[u].new_node] = 0
    BY <1>3, <2>2
  <2> QED BY <2>3, <2>4, <2>5, <2>6 DEF FreshOK
<1>9. CallsOK'
  <2>1. ASSUME NEW u \in Threads PROVE CallOK(pc[u], local[u])'
    <3>1. CASE u # t
      <4>1. PICK label, l : label = pc[u] /\ l = local[u]
        OBVIOUS
      <4>2. CallOK(label, l)
        BY <4>1 DEF IInv, CallsOK
      <4>3. CallOK(label, l)'
        BY <4>2, CallStaysLinked
      <4>4. pc'[u] = label /\ local'[u] = l
        BY <1>3, <3>1, <4>1
      <4> QED BY <4>3, <4>4
    <3>2. CASE u = t
      <4>1. PICK l : l = local[t]
        OBVIOUS
      <4>2. l.curr_tail \in Nodes /\ 0 < pos[l.curr_tail] /\ l.new_node = n
        BY <1>1, <1>2, <4>1 DEF IInv, CallsOK, CallOK, Upto
      <4>3. pos'[l.curr_tail] = pos[l.curr_tail] /\ pos'[q'.Tail] = pos[q.Tail]
        BY <1>3, <1>4, <4>2, Typed
      <4>4. pos[l.curr_tail] < len + 1
        BY <1>4, <4>2, Typed
      <4>5. CallOK("swing_tail", l)'
        BY <1>2, <4>2, <4>3, <4>4, Typed DEF CallOK, InTryReclaim
      <4> QED BY <1>3, <3>2, <4>1, <4>5
    <3> QED BY <3>1, <3>2
  <2> QED BY <2>1 DEF CallsOK
<1>10. /\ Kept /\ Upto(q.to_be_deleted, q.Head)
       /\ \A u \in Threads : pc[u] = "delete" =>
            Upto(q.to_be_deleted, local[u].cursor) /\ freed = Before(local[u].cursor)
       /\ (\A u \in Threads : pc[u] # "delete") => freed = Before(q.to_be_deleted)
  BY <1>5, NotBroken
<1>11. FreedOK'
  <2>1. \A k \in freed : k \in Nodes /\ k <= allocated /\ 0 < pos[k]
    BY DEF IInv, FreedOK, TypesOK
  <2>2. \A k \in freed' : k <= allocated' /\ 0 < pos'[k]
    BY <1>3, <1>4, <2>1
  <2>3. \A u, w \in Threads : pc'[u] \in InTryReclaim /\ pc'[w] \in InTryReclaim => u = w
    BY <1>3 DEF IInv, FreedOK, InTryReclaim
  <2>4. \A m, k : Upto(m, k) => Upto(m, k)'
    BY <1>4 DEF Upto
  <2>5. ASSUME NEW k \in Nodes, 0 < pos[k] PROVE Before(k)' = Before(k)
    <3>1. pos'[k] = pos[k] /\ pos[k] < len + 1
      BY <1>4, <2>5, Typed
    <3>2. \A m \in Nodes : 0 < pos'[m] /\ pos'[m] < pos'[k] <=> 0 < pos[m] /\ pos[m] < pos[k]
      BY <1>2, <1>4, <3>1, Typed
    <3> QED BY <3>2 DEF Before
  <2>6. Upto(q.to_be_deleted, q.Head)'
    BY <1>3, <1>10, <2>4
  <2>7. ASSUME NEW u \in Threads, pc'[u] = "delete"
        PROVE  Upto(q.to_be_deleted, local[u].cursor)' /\ freed' = Before(local[u].cursor)'
    <3>1. PICK m, k : m = q.to_be_deleted /\ k = local[u].cursor
      OBVIOUS
    <3>2. u # t /\ pc[u] = "delete"
      BY <1>3, <2>7
    <3>3. Upto(m, k) /\ freed = Before(k)
      BY <1>10, <3>1, <3>2
    <3>4. k \in Nodes /\ 0 < pos[k]
      BY <1>4, <3>3 DEF Upto
    <3>5. Upto(m, k)' /\ freed' = Before(k)'
      BY <1>3, <2>4, <2>5, <3>3, <3>4
    <3> QED BY <1>3, <3>1, <3>5
  <2>8. ASSUME \A u \in Threads : pc'[u] # "delete" PROVE freed' = Before(q.to_be_deleted)'
    <3>1. PICK m : m = q.to_be_deleted
      OBVIOUS
    <3>2. \A u \in Threads : pc[u] # "delete"
      BY <1>2, <1>3, <2>8
    <3>3. freed = Before(m)
      BY <1>10, <3>1, <3>2
    <3>4. Before(m)' = Before(m)
      BY <1>10, <2>5, <3>1 DEF Upto
    <3> QED BY <1>3, <3>1, <3>3, <3>4
  <2> QED BY <2>2, <2>3, <2>6, <2>7, <2>8 DEF FreedOK
<1>12. DestroyedOK'
  BY <1>3, <1>5 DEF DestroyedOK, Destroyed
<1>13. SafeOK'
  <2> SUFFICES ASSUME ~overshot
               PROVE  /\ Kept'
                      /\ \A u \in Threads :
                           /\ pc'[u] \in InTryReclaim =>
                                /\ pos'[q'.to_be_deleted] <= pos'[local'[u].curr_head]
                                /\ pos'[local'[u].curr_head] <= pos'[q'.Head]
                           /\ pc'[u] = "delete" =>
                                pos'[local'[u].cursor] <= pos'[local'[u].curr_head]
                           /\ \A k \in Keeps(pc'[u], local'[u]) : Spared(u, k)'
    BY <1>3 DEF SafeOK
  <2>1. /\ q.to_be_deleted \in Nodes /\ 0 < pos[q.to_be_deleted]
        /\ pos'[q'.to_be_deleted] = pos[q.to_be_deleted]
        /\ pos'[q'.Head] = pos[q.Head]
    BY <1>3, <1>4, <1>10, Typed DEF Upto
  <2>2. ASSUME NEW u \in Threads, pc'[u] \in InTryReclaim
        PROVE  /\ u # t /\ pc[u] = pc'[u] /\ pos'[local'[u].curr_head] = pos[local[u].curr_head]
    <3>1. u # t /\ pc[u] = pc'[u]
      BY <1>3, <2>2 DEF InTryReclaim
    <3>2. local[u].curr_head \in Nodes /\ 0 < pos[local[u].curr_head]
      BY <2>2, <3>1 DEF IInv, CallsOK, CallOK, Upto
    <3> QED BY <1>3, <1>4, <3>1, <3>2
  <2>3. Kept'
    <3>1. \A k \in freed : k \in Nodes /\ 0 < pos[k]
      BY DEF IInv, FreedOK, TypesOK
    <3> QED BY <1>3, <1>4, <1>10, <2>1, <3>1 DEF Kept
  <2>4. ASSUME NEW u \in Threads
        PROVE  /\ pc'[u] \in InTryReclaim =>
                     /\ pos'[q'.to_be_deleted] <= pos'[local'[u].curr_head]
                     /\ pos'[local'[u].curr_head] <= pos'[q'.Head]
               /\ pc'[u] = "delete" => pos'[local'[u].cursor] <= pos'[local'[u].curr_head]
    <3>1. pc'[u] = "delete" => pos'[local'[u].cursor] = pos[local[u].cursor]
      <4> SUFFICES ASSUME pc'[u] = "delete"
                   PROVE  pos'[local'[u].cursor] = pos[local[u].cursor]
        OBVIOUS
      <4>1. u # t
        BY <1>3
      <4>2. Upto(q.to_be_deleted, local[u].cursor)
        BY <1>3, <1>10, <4>1
      <4>3. local[u].cursor \in Nodes /\ 0 < pos[local[u].cursor]
        BY <1>4, <4>2 DEF Upto
      <4> QED BY <1>3, <1>4, <4>3
    <3>2. pc'[u] = "delete" => pc'[u] \in InTryReclaim
      BY DEF InTryReclaim
    <3> QED BY <1>5, <2>1, <2>2, <3>1, <3>2 DEF IInv, SafeOK
  <2>5. ASSUME NEW u \in Threads, NEW k \in Keeps(pc'[u], local'[u]) PROVE Spared(u, k)'
    <3>1. u # t
      BY <1>3 DEF Keeps
    <3>2. k \in Keeps(pc[u], local[u])
      BY <1>3, <3>1
    <3>3. Spared(u, k) /\ k \in Nodes /\ pos'[k] = pos[k]
      BY <1>4, <1>5, <3>2, KeptIsLinked DEF IInv, SafeOK
    <3> QED BY <2>1, <2>2, <3>3 DEF Spared
  <2> QED BY <2>3, <2>4, <2>5
<1> QED BY <1>2, <1>6, <1>7, <1>8, <1>9, <1>11, <1>12, <1>13 DEF IInv
-----------------------------------------------------------------------------
\* A step of try_reclaim: what is left to prove is said of the deleted nodes.
LEMMA Reclaiming ==
  ASSUME IInv, ~Destroyed, NEW t \in Threads, NEW label, NEW l,
         pc[t] \in {"count"} \cup InTryReclaim, label \in {"leave_dequeue"} \cup InTryReclaim,
         l \in Locals, pc' = [pc EXCEPT ![t] = label], local' = [local EXCEPT ![t] = l],
         UNCHANGED <<next, allocated, dequeues>>, q' \in Queues, q'.Head = q.Head,
         q'.Tail = q.Tail, q'.threads_in_pop = q.threads_in_pop, q'.to_be_deleted \in Nodes,
         freed' \in SUBSET Nodes, overshot' \in BOOLEAN,
         CallOK(label, l), FreedOK', SafeOK'
  PROVE  IInv'
<1>1. /\ pc'[t] = label /\ local'[t] = l
      /\ \A u \in Threads \ {t} : pc'[u] = pc[u] /\ local'[u] = local[u]
  BY Typed
<1>2. ListOK' /\ len' = len /\ pos' = pos
  BY SameList DEF IInv
<1>3. TypesOK'
  <2>1. pc' \in [Threads -> Labels] /\ local' \in [Threads -> Locals]
    BY Typed DEF Labels
  <2>2. Working' = Working
    BY <1>1 DEF Working, Outside, InTryReclaim
  <2> QED BY <2>1, <2>2 DEF IInv, TypesOK, Queues
<1>4. EndsOK'
  BY <1>2 DEF IInv, EndsOK
<1>5. FreshOK'
  <2>1. \A u \in Threads : /\ pc'[u] \in InEnqueue <=> pc[u] \in InEnqueue
                           /\ pc[u] \in InEnqueue => local'[u].new_node = local[u].new_node
    BY <1>1 DEF InEnqueue, InTryReclaim
  <2>2. FreshOK
    BY DEF IInv
  <2> QED BY <1>2, <2>1, <2>2 DEF FreshOK
<1>6. Forward
  BY Typed DEF Forward
<1>7. CallsOK'
  <2>1. ASSUME NEW u \in Threads PROVE CallOK(pc[u], local[u])'
    <3>1. PICK a, b : a = pc'[u] /\ b = local'[u]
      OBVIOUS
    <3>2. CallOK(a, b)
      BY <1>1, <3>1 DEF IInv, CallsOK
    <3>3. CallOK(a, b)'
      BY <1>6, <3>2, CallStays
    <3> QED BY <3>1, <3>3
  <2> QED BY <2>1 DEF CallsOK
<1>8. DestroyedOK'
  BY NodesAre DEF DestroyedOK, Destroyed
<1> QED BY <1>2, <1>3, <1>4, <1>5, <1>7, <1>8 DEF IInv

\* The call is alone at work: it sets out to reclaim.
LEMMA CountPassesKeeps ==
  ASSUME IInv, ~Broken, NEW t \in Threads, Count(t), q.threads_in_pop = 1 PROVE IInv'
<1>1. PICK l, m : l = local[t] /\ m = q.to_be_deleted
  OBVIOUS
<1>2. /\ pc[t] = "count" /\ l \in Locals /\ overshot \in BOOLEAN /\ Upto(l.curr_head, q.Tail)
      /\ freed \in SUBSET Nodes
  BY <1>1, Typed DEF Count, From, IInv, TypesOK, CallsOK, CallOK
<1>3. pc' = [pc EXCEPT ![t] = "load_deleted"] /\ local' = [local EXCEPT ![t] = l]
      /\ UNCHANGED <<q, next, allocated, freed, dequeues>>
      /\ overshot' = (overshot \/ IsPastHead(l.curr_head))
  BY <1>1, <1>2, Typed DEF Count, To
<1>4. ~Destroyed
  BY <1>2, NotDestroyed
<1>5. \A u \in Threads \ {t} : pc[u] \in Outside
  <2>1. Cardinality(Working) = 1 /\ IsFiniteSet(Working) /\ t \in Working
    BY <1>2, Counting DEF IInv, TypesOK, Working, Outside
  <2>2. PICK x : Working = {x}
    BY <2>1, FS_Singleton
  <2> QED BY <2>1, <2>2 DEF Working
<1>6. IsPastHead(l.curr_head) <=> pos[q.Head] < pos[l.curr_head]
  <2>1. Members(l.curr_head) = {k \in Nodes : pos[l.curr_head] <= pos[k]}
    BY <1>2, Reached DEF IInv, Upto
  <2> QED BY <1>2, <2>1, Typed DEF IsPastHead, Upto
<1>7. /\ Kept /\ Upto(m, q.Head) /\ freed = Before(m)
  BY <1>1, <1>2, <1>4, <1>5, NotBroken DEF Outside
<1>8. pos' = pos /\ pc'[t] = "load_deleted" /\ local' = local
      /\ \A u \in Threads \ {t} : pc'[u] = pc[u]
  BY <1>1, <1>3, SameList, Typed
<1>9. \A u \in Threads : pc'[u] # "delete" /\ (pc'[u] \in InTryReclaim => u = t)
  BY <1>5, <1>8 DEF Outside, InTryReclaim
<1>10. FreedOK'
  <2>1. \A n \in freed : n <= allocated /\ 0 < pos[n]
    BY DEF IInv, FreedOK
  <2>2. Upto(m, q.Head)' /\ freed' = Before(m)'
    BY <1>3, <1>7, <1>8 DEF Upto, Before
  <2> QED BY <1>1, <1>3, <1>8, <1>9, <2>1, <2>2 DEF FreedOK
<1>11. SafeOK'
  <2> SUFFICES ASSUME ~overshot, ~IsPastHead(l.curr_head)
               PROVE  SafeOK'
    BY <1>2, <1>3 DEF SafeOK
  <2>1. Kept'
    BY <1>3, <1>7, <1>8 DEF Kept
  <2>2. Spared(t, l.curr_head)
    BY <1>1, <1>2, <1>4 DEF IInv, SafeOK, Keeps
  <2>3. pos[m] <= pos[l.curr_head] /\ pos[l.curr_head] <= pos[q.Head]
    BY <1>1, <1>2, <1>6, <2>2, Typed DEF Spared, Upto
  <2>4. \A u \in Threads : Keeps(pc'[u], local'[u]) = {}
    BY <1>5, <1>8 DEF Keeps, Outside
  <2> QED BY <1>1, <1>3, <1>8, <1>9, <2>1, <2>3, <2>4 DEF SafeOK
<1>12. CallOK("load_deleted", l)
  BY <1>2 DEF CallOK, InTryReclaim
<1>13. q' \in Queues /\ q'.to_be_deleted \in Nodes /\ overshot' \in BOOLEAN
  BY <1>1, <1>3, <1>7, Typed DEF Upto
<1> QED BY <1>2, <1>3, <1>4, <1>10, <1>11, <1>12, <1>13, Reclaiming DEF InTryReclaim

\* The nodes to be deleted begin where to_be_deleted says.
LEMMA LoadDeletedKeeps ==
  ASSUME IInv, ~Broken, NEW t \in Threads, LoadDeleted(t) PROVE IInv'
<1>1. PICK l, m : l = [local[t] EXCEPT !["cursor"] = m] /\ m = q.to_be_deleted
  OBVIOUS
<1>2. /\ pc[t] = "load_deleted" /\ local[t] \in Locals /\ overshot \in BOOLEAN
      /\ Upto(local[t].curr_head, q.Tail) /\ freed \in SUBSET Nodes
  BY Typed DEF LoadDeleted, From, IInv, TypesOK, CallsOK, CallOK, InTryReclaim
<1>3. pc' = [pc EXCEPT ![t] = "delete"] /\ local' = [local EXCEPT ![t] = l]
      /\ UNCHANGED <<q, next, allocated, freed, dequeues, overshot>>
  BY <1>1, <1>2, Typed DEF LoadDeleted, To, Load, Set, rest
<1>4. ~Destroyed
  BY <1>2, NotDestroyed
<1>5. \A u \in Threads \ {t} : pc[u] \notin InTryReclaim
  BY <1>2 DEF IInv, FreedOK, InTryReclaim
<1>6. Kept /\ Upto(m, q.Head) /\ freed = Before(m)
  BY <1>1, <1>2, <1>4, <1>5, NotBroken DEF InTryReclaim
<1>7. /\ m \in Pointers /\ l \in Locals /\ l.cursor = m /\ l.curr_head = local[t].curr_head
      /\ l.new_node = local[t].new_node
  BY <1>1, <1>2, Typed DEF Locals, Queues
<1>8. pos' = pos /\ pc'[t] = "delete" /\ local'[t] = l
      /\ \A u \in Threads \ {t} : pc'[u] = pc[u] /\ local'[u] = local[u]
  BY <1>3, SameList, Typed
<1>9. \A u \in Threads : pc'[u] \in InTryReclaim => u = t
  BY <1>5, <1>8
<1>10. \A u \in Threads : pc'[u] = "delete" => u = t
  BY <1>9 DEF InTryReclaim
<1>11. FreedOK'
  <2>1. \A n \in freed : n <= allocated /\ 0 < pos[n]
    BY DEF IInv, FreedOK
  <2>2. Upto(m, q.Head)' /\ freed' = Before(m)' /\ Upto(m, m)'
    BY <1>3, <1>6, <1>8, Typed DEF Upto, Before
  <2>3. \A u \in Threads : pc'[u] = "delete" =>
          Upto(q.to_be_deleted, local[u].cursor)' /\ freed' = Before(local[u].cursor)'
    BY <1>1, <1>3, <1>7, <1>8, <1>10, <2>2
  <2> QED BY <1>1, <1>3, <1>8, <1>9, <2>1, <2>2, <2>3 DEF FreedOK
<1>12. SafeOK'
  <2> SUFFICES ASSUME ~overshot PROVE SafeOK'
    BY <1>3 DEF SafeOK
  <2>1. Kept'
    BY <1>3, <1>6, <1>8 DEF Kept
  <2>2. pos[m] <= pos[l.curr_head] /\ pos[l.curr_head] <= pos[q.Head]
    BY <1>1, <1>2, <1>4, <1>7 DEF IInv, SafeOK, InTryReclaim
  <2>3. ASSUME NEW u \in Threads, NEW n \in Keeps(pc'[u], local'[u]) PROVE Spared(u, n)'
    <3>1. u # t
      BY <1>8 DEF Keeps
    <3>2. n \in Keeps(pc[u], local[u])
      BY <1>8, <2>3, <3>1
    <3>3. Spared(u, n)
      BY <1>4, <3>2 DEF IInv, SafeOK
    <3>4. pos[m] <= pos[n] /\ pos[l.curr_head] <= pos[n]
      BY <1>1, <1>2, <1>7, <3>1, <3>3 DEF Spared, InTryReclaim
    <3> QED BY <1>1, <1>3, <1>8, <1>9, <3>4 DEF Spared
  <2> QED BY <1>1, <1>3, <1>7, <1>8, <1>9, <1>10, <2>1, <2>2, <2>3 DEF SafeOK
<1>13. CallOK("delete", l)
  BY <1>2, <1>7 DEF CallOK, InTryReclaim
<1>14. q' \in Queues /\ q'.to_be_deleted \in Nodes /\ overshot' \in BOOLEAN
  BY <1>1, <1>2, <1>3, <1>6, Typed DEF Upto
<1> QED BY <1>2, <1>3, <1>4, <1>7, <1>11, <1>12, <1>13, <1>14, Reclaiming DEF InTryReclaim

\* A node is deleted, and the call goes on to the one behind it.
LEMMA DeleteKeeps ==
  ASSUME IInv, ~Broken, NEW t \in Threads, Delete(t) PROVE IInv'
<1>1. PICK l, m, n : /\ n = local[t].cursor /\ m = q.to_be_deleted
                     /\ l = [local[t] EXCEPT !["cursor"] = next[n]]
  OBVIOUS
<1>2. /\ pc[t] = "delete" /\ local[t] \in Locals /\ overshot \in BOOLEAN
      /\ Upto(local[t].curr_head, q.Tail) /\ freed \in SUBSET Nodes
      /\ n # local[t].curr_head
  BY <1>1, Typed DEF Delete, From, IInv, TypesOK, CallsOK, CallOK, InTryReclaim
<1>3. pc' = [pc EXCEPT ![t] = "delete"] /\ local' = [local EXCEPT ![t] = l]
      /\ UNCHANGED <<q, next, allocated, dequeues, overshot>> /\ freed' = freed \cup {n}
  BY <1>1, <1>2, Typed DEF Delete, Set
<1>4. ~Destroyed
  BY <1>2, NotDestroyed
<1>5. \A u \in Threads \ {t} : pc[u] \notin InTryReclaim
  BY <1>2 DEF IInv, FreedOK, InTryReclaim
<1>6. Kept /\ Upto(m, q.Head) /\ Upto(m, n) /\ freed = Before(n)
  BY <1>1, <1>2, <1>4, NotBroken
<1>7. n \in Nodes /\ 0 < pos[n] /\ m \in Nodes
  BY <1>6, Typed DEF Upto
<1>8. /\ next[n] \in Pointers /\ l \in Locals /\ l.cursor = next[n]
      /\ l.curr_head = local[t].curr_head /\ l.new_node = local[t].new_node
  BY <1>1, <1>2, <1>7 DEF Locals, Pointers, IInv, ListOK, NextOK
<1>9. pos' = pos /\ pc'[t] = "delete" /\ local'[t] = l
      /\ \A u \in Threads \ {t} : pc'[u] = pc[u] /\ local'[u] = local[u]
  BY <1>3, SameList, Typed
<1>10. \A u \in Threads : pc'[u] \in InTryReclaim => u = t
  BY <1>5, <1>9
<1>11. \A u \in Threads : pc'[u] = "delete" => u = t
  BY <1>10 DEF InTryReclaim
<1>12. FreedOK'
  <2>1. \A k \in freed' : k <= allocated' /\ 0 < pos'[k]
    BY <1>3, <1>7, <1>9 DEF IInv, FreedOK, FreshOK
  <2>2. ASSUME Kept' PROVE Upto(m, next[n])' /\ freed' = Before(next[n])'
    <3>1. pos[n] < pos[q.Head]
      BY <1>3, <1>9, <2>2 DEF Kept
    <3>2. next[n] \in Nodes /\ pos[next[n]] = pos[n] + 1
      BY <1>7, <3>1, Typed DEF Positions
    <3>3. PICK k : k = next[n]
      OBVIOUS
    <3>4. Upto(m, k)'
      BY <1>6, <1>9, <3>2, <3>3, Typed DEF Upto
    <3>5. \A j \in Nodes : 0 < pos[j] /\ pos[j] < pos[k] <=> j = n \/ j \in Before(n)
      BY <1>7, <3>2, <3>3, Typed DEF Before, Positions
    <3>6. Before(k)' = Before(n) \cup {n}
      BY <1>7, <1>9, <3>5 DEF Before
    <3> QED BY <1>3, <1>6, <3>3, <3>4, <3>6
  <2>3. Upto(m, q.Head)'
    BY <1>3, <1>6, <1>9 DEF Upto
  <2>4. Kept' => \A u \in Threads : pc'[u] = "delete" =>
          Upto(q.to_be_deleted, local[u].cursor)' /\ freed' = Before(local[u].cursor)'
    BY <1>1, <1>3, <1>8, <1>9, <1>11, <2>2
  <2> QED BY <1>1, <1>3, <1>9, <1>10, <2>1, <2>3, <2>4 DEF FreedOK
<1>13. SafeOK'
  <2> SUFFICES ASSUME ~overshot PROVE SafeOK'
    BY <1>3 DEF SafeOK
  <2>1. /\ pos[m] <= pos[l.curr_head] /\ pos[l.curr_head] <= pos[q.Head]
        /\ pos[n] <= pos[l.curr_head] /\ l.curr_head \in Nodes
    BY <1>1, <1>2, <1>4, <1>8 DEF IInv, SafeOK, InTryReclaim, Upto
  <2>2. pos[n] < pos[l.curr_head]
    BY <1>2, <1>7, <1>8, <2>1, Typed DEF Positions
  <2>3. Kept'
    BY <1>3, <1>6, <1>7, <1>9, <2>1, <2>2, Typed DEF Kept
  <2>4. pos[next[n]] <= pos[l.curr_head]
    <3>1. next[n] \in Nodes /\ pos[next[n]] = pos[n] + 1
      BY <1>7, <2>1, <2>2, Typed DEF Positions
    <3> QED BY <1>7, <2>1, <2>2, <3>1, Typed
  <2>5. ASSUME NEW u \in Threads, NEW k \in Keeps(pc'[u], local'[u]) PROVE Spared(u, k)'
    <3>1. u # t
      BY <1>9 DEF Keeps
    <3>2. k \in Keeps(pc[u], local[u])
      BY <1>9, <2>5, <3>1
    <3>3. Spared(u, k)
      BY <1>4, <3>2 DEF IInv, SafeOK
    <3>4. pos[m] <= pos[k] /\ pos[l.curr_head] <= pos[k]
      BY <1>1, <1>2, <1>8, <3>1, <3>3 DEF Spared, InTryReclaim
    <3> QED BY <1>1, <1>3, <1>9, <1>10, <3>4 DEF Spared
  <2>6. /\ pos'[q'.to_be_deleted] <= pos'[l.curr_head] /\ pos'[l.curr_head] <= pos'[q'.Head]
        /\ pos'[l.cursor] <= pos'[l.curr_head]
    BY <1>1, <1>3, <1>8, <1>9, <2>1, <2>4
  <2>7. ASSUME NEW u \in Threads
        PROVE  /\ pc'[u] \in InTryReclaim =>
                    /\ pos'[q'.to_be_deleted] <= pos'[local'[u].curr_head]
                    /\ pos'[local'[u].curr_head] <= pos'[q'.Head]
               /\ pc'[u] = "delete" => pos'[local'[u].cursor] <= pos'[local'[u].curr_head]
    <3>1. CASE u = t
      BY <1>9, <2>6, <3>1
    <3>2. CASE u # t
      BY <1>10, <1>11, <3>2
    <3> QED BY <3>1, <3>2
  <2> QED BY <2>3, <2>5, <2>7, Zenon DEF SafeOK
<1>14. CallOK("delete", l)
  BY <1>2, <1>8 DEF CallOK, InTryReclaim
<1>15. q' \in Queues /\ q'.to_be_deleted \in Nodes /\ overshot' \in BOOLEAN
       /\ freed' \in SUBSET Nodes
  BY <1>1, <1>2, <1>3, <1>7, Typed
<1> QED BY <1>2, <1>3, <1>4, <1>8, <1>12, <1>13, <1>14, <1>15, Reclaiming DEF InTryReclaim

\* What has been deleted is all up to the new to_be_deleted.
LEMMA StoreDeletedKeeps ==
  ASSUME IInv, ~Broken, NEW t \in Threads, StoreDeleted(t) PROVE IInv'
<1>1. PICK l, h : l = local[t] /\ h = local[t].curr_head
  OBVIOUS
<1>2. /\ pc[t] = "delete" /\ l \in Locals /\ overshot \in BOOLEAN
      /\ Upto(h, q.Tail) /\ freed \in SUBSET Nodes /\ local[t].cursor = h
  BY <1>1, Typed DEF StoreDeleted, From, IInv, TypesOK, CallsOK, CallOK, InTryReclaim
<1>3. pc' = [pc EXCEPT ![t] = "leave_dequeue"] /\ local' = [local EXCEPT ![t] = l]
      /\ UNCHANGED <<next, allocated, dequeues, overshot, freed>>
      /\ q' = [q EXCEPT !.to_be_deleted = h]
  BY <1>1, <1>2, Typed DEF StoreDeleted, To, rest
<1>4. ~Destroyed /\ h \in Nodes /\ 0 < pos[h]
  BY <1>2, NotDestroyed, Typed DEF Upto
<1>5. \A u \in Threads \ {t} : pc[u] \notin InTryReclaim
  BY <1>2 DEF IInv, FreedOK, InTryReclaim
<1>6. Kept /\ freed = Before(h)
  BY <1>1, <1>2, <1>4, NotBroken
<1>7. pos[h] <= pos[q.Head]
  <2>1. q.Head \notin freed
    BY <1>6, Typed DEF Kept
  <2> QED BY <1>4, <1>6, <2>1, Typed DEF Before
<1>8. pos' = pos /\ pc'[t] = "leave_dequeue" /\ local'[t] = l
      /\ \A u \in Threads \ {t} : pc'[u] = pc[u] /\ local'[u] = local[u]
  BY <1>3, SameList, Typed
<1>9. \A u \in Threads : pc'[u] \notin InTryReclaim
  BY <1>5, <1>8 DEF InTryReclaim
<1>10. /\ q' \in Queues /\ q'.to_be_deleted = h /\ q'.Head = q.Head /\ q'.Tail = q.Tail
       /\ q'.threads_in_pop = q.threads_in_pop
  BY <1>3, <1>4, Typed DEF Queues, Pointers
<1>11. FreedOK'
  <2>1. \A k \in freed : k <= allocated /\ 0 < pos[k]
    BY DEF IInv, FreedOK
  <2>2. Upto(h, q.Head)' /\ freed' = Before(h)'
    BY <1>3, <1>4, <1>6, <1>7, <1>8, <1>10, Typed DEF Upto, Before
  <2>3. \A u \in Threads : pc'[u] # "delete"
    BY <1>9 DEF InTryReclaim
  <2> QED BY <1>3, <1>8, <1>9, <1>10, <2>1, <2>2, <2>3 DEF FreedOK
<1>12. SafeOK'
  <2> SUFFICES ASSUME ~overshot PROVE SafeOK'
    BY <1>3 DEF SafeOK
  <2>1. Kept'
    BY <1>3, <1>6, <1>8, <1>10 DEF Kept
  <2>2. ASSUME NEW u \in Threads, NEW k \in Keeps(pc'[u], local'[u]) PROVE Spared(u, k)'
    <3>1. u # t
      BY <1>8 DEF Keeps
    <3>2. k \in Keeps(pc[u], local[u])
      BY <1>8, <2>2, <3>1
    <3>3. Spared(u, k)
      BY <1>4, <3>2 DEF IInv, SafeOK
    <3>4. pos[h] <= pos[k]
      BY <1>1, <1>2, <3>1, <3>3 DEF Spared, InTryReclaim
    <3> QED BY <1>8, <1>9, <1>10, <3>4 DEF Spared
  <2>3. \A u \in Threads : pc'[u] # "delete"
    BY <1>9 DEF InTryReclaim
  <2> QED BY <1>9, <2>1, <2>2, <2>3 DEF SafeOK
<1>13. CallOK("leave_dequeue", l)
  BY DEF CallOK, InTryReclaim
<1>14. q'.to_be_deleted \in Nodes /\ overshot' \in BOOLEAN /\ freed' \in SUBSET Nodes
  BY <1>2, <1>3, <1>4, <1>10
<1> QED BY <1>2, <1>3, <1>4, <1>10, <1>11, <1>12, <1>13, <1>14, Reclaiming DEF InTryReclaim

\* The destructor deletes the rest of the list.
LEMMA DestroyKeeps == ASSUME IInv, ~Broken, Destroy PROVE IInv'
<1>1. /\ \A t \in Threads : pc[t] = "idle"
      /\ allocated > MaxEnqueues /\ dequeues = MaxDequeues /\ ~Destroyed
      /\ freed' = freed \cup Members(q.to_be_deleted)
      /\ q' = [q EXCEPT !.to_be_deleted = Null]
      /\ UNCHANGED <<next, allocated, dequeues, overshot, pc, local>>
  BY DEF Destroy, From
<1>2. PICK m : m = q.to_be_deleted
  OBVIOUS
<1>3. Kept /\ Upto(m, q.Head) /\ freed = Before(m)
  BY <1>1, <1>2, NotBroken
<1>4. m \in Nodes /\ 0 < pos[m] /\ Members(m) = {k \in Nodes : pos[m] <= pos[k]}
  BY <1>3, Typed, Reached DEF Upto, IInv
<1>5. freed' = {k \in Nodes : 0 < pos[k]}
  BY <1>1, <1>2, <1>3, <1>4, Typed DEF Before
<1>6. ListOK' /\ len' = len /\ pos' = pos
  BY <1>1, SameList DEF IInv
<1>7. /\ q' \in Queues /\ q'.to_be_deleted = Null /\ q'.Head = q.Head /\ q'.Tail = q.Tail
      /\ q'.threads_in_pop = q.threads_in_pop
  BY <1>1, Typed DEF Queues, Pointers
<1>8. TypesOK'
  <2>1. Working' = Working
    BY <1>1 DEF Working
  <2> QED BY <1>1, <1>5, <1>7, <2>1 DEF IInv, TypesOK, Queues
<1>9. EndsOK'
  BY <1>6, <1>7 DEF IInv, EndsOK
<1>10. FreshOK'
  BY <1>1, <1>6 DEF IInv, FreshOK
<1>11. CallsOK'
  BY <1>1 DEF CallsOK, CallOK, InTryReclaim
<1>12. Destroyed'
  BY <1>7 DEF Destroyed
<1>13. allocated = MaxEnqueues + 1
  <2>1. allocated \in Nat /\ allocated <= MaxEnqueues + 1
    BY NodesAre DEF IInv, TypesOK
  <2> QED BY <1>1, <2>1, BoundsAssumption
<1>14. FreedOK'
  BY <1>1, <1>5, <1>6, <1>12 DEF IInv, FreedOK, FreshOK, InTryReclaim
<1>15. DestroyedOK' /\ SafeOK'
  BY <1>1, <1>5, <1>6, <1>12, <1>13 DEF DestroyedOK, SafeOK
<1> QED BY <1>6, <1>8, <1>9, <1>10, <1>11, <1>14, <1>15 DEF IInv
-----------------------------------------------------------------------------
\* The call goes on, or is the last at work.
LEMMA CountKeeps ==
  ASSUME IInv, ~Broken, NEW t \in Threads, Count(t) PROVE IInv'
BY CountPassesKeeps, CountFailsKeeps

\* Every step keeps the invariant.
LEMMA NextInv == IInv /\ [Next]_vars => IInv'
<1> SUFFICES ASSUME IInv, [Next]_vars PROVE IInv'
  OBVIOUS
<1>1. ASSUME ~Broken, NEW t \in Threads, EnqueueStep(t) PROVE IInv'
  BY <1>1, LoadTailKeeps, LoadTailNextKeeps, LoadTailAgainKeeps, LinkKeeps, LinkFailsKeeps,
     HelpEnqueuerKeeps, SwingTailKeeps, LeaveKeeps DEF EnqueueStep
<1>2. ASSUME ~Broken, NEW t \in Threads, DequeueStep(t) PROVE IInv'
  BY <1>2, EnterKeeps, LoadHeadKeeps, LoadHeadsTailKeeps, LoadHeadNextKeeps, LeaveKeeps,
     HelpDequeuerKeeps, TakeKeeps, TakeFailsKeeps, ReadKeeps, CountKeeps, LoadDeletedKeeps,
     DeleteKeeps, StoreDeletedKeeps DEF DequeueStep
<1>3. ASSUME ~Broken, NEW t \in Threads, Enqueue(t) \/ Dequeue(t) PROVE IInv'
  BY <1>3, EnqueueKeeps, DequeueKeeps
<1>4. ASSUME UNCHANGED vars PROVE IInv'
  <2>1. /\ UNCHANGED <<q, next, allocated, freed, dequeues, overshot, pc, local>>
    BY <1>4 DEF vars, rest
  <2>2. ListOK' /\ len' = len /\ pos' = pos
    BY <2>1, SameList DEF IInv
  <2>3. TypesOK' /\ EndsOK' /\ FreshOK'
    BY <2>1, <2>2 DEF IInv, TypesOK, EndsOK, FreshOK, Working
  <2>4. CallsOK' /\ FreedOK'
    BY <2>1, <2>2 DEF IInv, CallsOK, CallOK, FreedOK, Upto, Before, Kept, Destroyed
  <2>5. DestroyedOK' /\ SafeOK'
    BY <2>1, <2>2 DEF IInv, DestroyedOK, SafeOK, Destroyed, Kept, Spared
  <2> QED BY <2>2, <2>3, <2>4, <2>5 DEF IInv
<1> QED BY <1>1, <1>2, <1>3, <1>4, DestroyKeeps DEF Next, Step
-----------------------------------------------------------------------------

\* The invariant gives the types, and the order of the pointers.
LEMMA InvHolds == IInv => Inv
<1> SUFFICES ASSUME IInv PROVE Inv
  OBVIOUS
<1>1. TypeOK
  <2>1. Working = {t \in Threads : pc[t] \notin {"idle", "enter"}}
    BY DEF Working, Outside
  <2>2. Cardinality(Working) \in Nat /\ Cardinality(Working) <= Cardinality(Threads)
        /\ Cardinality(Threads) \in Nat
    BY ThreadsAssumption, FS_Subset, FS_CardinalityType DEF Working
  <2>3. q \in [Head : Nodes, Tail : Nodes, to_be_deleted : Nodes \cup {Null},
               threads_in_pop : 0..Cardinality(Threads)]
    <3>1. q.threads_in_pop \in 0..Cardinality(Threads)
      BY <2>2 DEF IInv, TypesOK
    <3> QED BY <3>1, Typed DEF Queues, Pointers
  <2>4. freed \subseteq 1..allocated
    BY NodesAre DEF IInv, TypesOK, FreedOK
  <2> QED BY <2>1, <2>3, <2>4 DEF IInv, TypesOK, ListOK, NextOK, TypeOK
<1>2. PointersInOrder
  <2> SUFFICES ASSUME ~Broken, ~Destroyed
               PROVE  /\ q.Head \in Members(q.to_be_deleted)
                      /\ q.Tail \in Members(q.Head) /\ Len(Chain(q.Tail)) <= 2
    BY DEF PointersInOrder
  <2>1. Upto(q.to_be_deleted, q.Head)
    BY NotBroken
  <2>2. q.Head \in Members(q.to_be_deleted)
    BY <2>1, Reached DEF IInv, Upto
  <2>3. q.Tail \in Members(q.Head)
    BY Typed, Reached DEF IInv
  <2>4. Len(Chain(q.Tail)) = len - pos[q.Tail] + 1
    BY Typed, Reached DEF IInv
  <2> QED BY <2>2, <2>3, <2>4, Typed
<1> QED BY <1>1, <1>2 DEF Inv

\* A node that is spared, and linked, has not been deleted.
LEMMA SparedIsThere ==
  ASSUME IInv, ~overshot, ~Destroyed, NEW t \in Threads, pc[t] # "delete",
         NEW n \in Nodes, 0 < pos[n], Spared(t, n)
  PROVE  n \notin freed
<1>1. Kept
  BY DEF IInv, SafeOK
<1>2. CASE \A u \in Threads : pc[u] # "delete"
  <2>1. freed = Before(q.to_be_deleted) /\ pos[q.to_be_deleted] <= pos[n]
        /\ q.to_be_deleted \in Nodes
    BY <1>1, <1>2 DEF IInv, FreedOK, Spared, Upto
  <2> QED BY <2>1, Typed DEF Before
<1>3. ASSUME NEW u \in Threads, pc[u] = "delete" PROVE n \notin freed
  <2>1. u # t /\ pc[u] \in InTryReclaim
    BY <1>3 DEF InTryReclaim
  <2>2. freed = Before(local[u].cursor) /\ local[u].cursor \in Nodes
    BY <1>1, <1>3 DEF IInv, FreedOK, Upto
  <2>3. pos[local[u].cursor] <= pos[local[u].curr_head] /\ local[u].curr_head \in Nodes
    BY <1>3, <2>1 DEF IInv, SafeOK, CallsOK, CallOK, Upto
  <2>4. pos[local[u].curr_head] <= pos[n]
    BY <2>1 DEF Spared
  <2> QED BY <2>2, <2>3, <2>4, Typed DEF Before
<1> QED BY <1>2, <1>3

\* Nothing deleted is in the queue, or is about to be touched.
LEMMA NothingBroken == IInv => NoUseAfterFree
<1> SUFFICES ASSUME IInv, ~overshot PROVE ~Broken
  BY DEF NoUseAfterFree
<1>1. freed \in SUBSET Nodes /\ Null \notin Nodes
  BY Typed DEF IInv, TypesOK
<1>2. QueueWhole
  <2> SUFFICES ASSUME ~Destroyed PROVE freed \cap Members(q.Head) = {}
    BY DEF QueueWhole
  <2>1. Kept
    BY DEF IInv, SafeOK
  <2>2. Members(q.Head) = {m \in Nodes : pos[q.Head] <= pos[m]}
    BY Typed, Reached DEF IInv
  <2> QED BY <1>1, <2>1, <2>2, Typed DEF Kept
<1>3. ASSUME NEW t \in Threads PROVE Target(t) \notin freed
  <2>1. CASE pc[t] = "delete"
    <3>1. ~Destroyed
      BY <2>1, NotDestroyed
    <3>2. freed = Before(local[t].cursor)
      BY <2>1, <3>1 DEF IInv, SafeOK, FreedOK
    <3>3. local[t].cursor \notin freed
      BY <1>1, <3>2, Typed DEF Before
    <3>4. Target(t) = local[t].cursor \/ Target(t) = Null
      BY <2>1 DEF Target
    <3> QED BY <1>1, <3>3, <3>4
  <2>2. CASE pc[t] \in {"load_tail_next", "link", "load_head_next", "read"}
    <3>1. ~Destroyed /\ pc[t] # "delete"
      BY <2>2, NotDestroyed
    <3>2. Target(t) \in Keeps(pc[t], local[t])
      BY <2>2 DEF Target, Keeps
    <3>3. PICK n : n = Target(t)
      OBVIOUS
    <3>4. n \in Nodes /\ 0 < pos[n]
      BY <3>2, <3>3, KeptIsLinked
    <3>5. Spared(t, n)
      BY <3>1, <3>2, <3>3 DEF IInv, SafeOK
    <3> QED BY <3>1, <3>3, <3>4, <3>5, SparedIsThere
  <2>3. CASE pc[t] \notin {"load_tail_next", "link", "load_head_next", "read", "delete"}
    <3>1. Target(t) = Null
      BY <2>3 DEF Target
    <3> QED BY <1>1, <3>1
  <2> QED BY <2>1, <2>2, <2>3
<1> QED BY <1>2, <1>3 DEF Broken

\* What has been deleted is what was linked before to_be_deleted.
LEMMA NothingLost == IInv => NothingLeaks
<1> SUFFICES ASSUME IInv PROVE NothingLeaks
  OBVIOUS
<1> DEFINE R == {t \in Threads : pc[t] \in InTryReclaim}
<1>1. Cardinality(R) <= 1
  <2>1. CASE R = {}
    BY <2>1, FS_EmptySet
  <2>2. ASSUME NEW t \in R PROVE Cardinality(R) <= 1
    <3>1. R = {t}
      BY DEF IInv, FreedOK
    <3> HIDE DEF R
    <3>2. Cardinality(R) = 1
      BY <3>1, FS_Singleton
    <3> QED BY <3>2
  <2> QED BY <2>1, <2>2
<1>2. ASSUME R = {}, ~Broken
      PROVE  freed = (1..allocated) \ (Members(q.to_be_deleted) \cup Unlinked)
  <2>1. Unlinked = {local[t].new_node : t \in {t \in Threads : pc[t] \in InEnqueue}}
    BY DEF Unlinked, InEnqueue
  <2>2. \A n \in Nodes : n <= allocated => (n \in Unlinked <=> pos[n] = 0)
    BY <2>1 DEF IInv, FreshOK
  <2>3. 1..allocated = {n \in Nodes : n <= allocated}
    <3>1. allocated \in Nat /\ allocated <= MaxEnqueues + 1
      BY NodesAre DEF IInv, TypesOK
    <3> QED BY <3>1, BoundsAssumption DEF Nodes
  <2>4. \A n \in Nodes : 0 < pos[n] => n <= allocated
    BY DEF IInv, FreshOK
  <2>5. CASE Destroyed
    <3>1. Members(q.to_be_deleted) = {}
      BY <2>5, Reached DEF Destroyed, IInv
    <3>2. freed = {n \in Nodes : 0 < pos[n]}
      BY <2>5 DEF IInv, DestroyedOK
    <3> QED BY <2>2, <2>3, <2>4, <3>1, <3>2, Typed
  <2>6. CASE ~Destroyed
    <3>1. \A t \in Threads : pc[t] # "delete"
      BY <1>2 DEF InTryReclaim
    <3>2. freed = Before(q.to_be_deleted) /\ Upto(q.to_be_deleted, q.Head)
      BY <1>2, <2>6, <3>1, NotBroken
    <3>3. Members(q.to_be_deleted) = {n \in Nodes : pos[q.to_be_deleted] <= pos[n]}
          /\ q.to_be_deleted \in Nodes /\ 0 < pos[q.to_be_deleted]
      BY <3>2, Reached DEF IInv, Upto
    <3>4. \A n \in Nodes : n \in freed <=> 0 < pos[n] /\ pos[n] < pos[q.to_be_deleted]
      BY <3>2 DEF Before
    <3>5. ASSUME NEW n \in Nodes
          PROVE  n \in freed <=> n <= allocated /\ n \notin Members(q.to_be_deleted)
                                   /\ n \notin Unlinked
      BY <2>2, <2>4, <3>3, <3>4, Typed
    <3>6. freed \in SUBSET Nodes
      BY DEF IInv, TypesOK
    <3> QED BY <2>3, <3>5, <3>6
  <2> QED BY <2>5, <2>6
<1> QED BY <1>1, <1>2 DEF NothingLeaks
-----------------------------------------------------------------------------
\* dequeue returns false only from this test.
LEMMA OnlyThere ==
  ASSUME IInv, [Next]_vars, NEW t \in Threads, pc'[t] = "empty", pc[t] # "empty"
  PROVE  ~Broken /\ LoadHeadNext(t)
<1>1. pc' # pc
  OBVIOUS
<1>2. PICK u \in Threads : ~Broken /\ (EnqueueStep(u) \/ DequeueStep(u) \/ Enqueue(u) \/ Dequeue(u))
  BY <1>1 DEF Next, Step, vars, Destroy
<1>3. pc \in [Threads -> Labels]
  BY Typed
<1>4. PICK label : pc' = [pc EXCEPT ![u] = label] \/ pc' = pc
  BY <1>2 DEF EnqueueStep, DequeueStep, LoadTail, LoadTailNext, LoadTailAgain, Link, LinkFails,
     HelpEnqueuer, SwingTail, LeaveEnqueue, Enter, LoadHead, LoadHeadsTail, LoadHeadNext, Empty,
     HelpDequeuer, Take, StoreHead, TakeFails, Read, Count, LoadDeleted, Delete, StoreDeleted,
     LeaveDequeue, Leave, Enqueue, Dequeue, To
<1>5. u = t
  BY <1>1, <1>3, <1>4
<1>6. ~ EnqueueStep(t)
  BY <1>3 DEF EnqueueStep, LoadTail, LoadTailNext, LoadTailAgain, Link, LinkFails,
     HelpEnqueuer, SwingTail, LeaveEnqueue, Leave, To
<1>7. ~ Enqueue(t) /\ ~ Dequeue(t)
  BY <1>3 DEF Enqueue, Dequeue, To
<1>8. DequeueStep(t) => LoadHeadNext(t)
  BY <1>3 DEF DequeueStep, Enter, LoadHead, LoadHeadsTail, Empty,
     HelpDequeuer, Take, StoreHead, TakeFails, Read, Count, LoadDeleted, Delete, StoreDeleted,
     LeaveDequeue, Leave, To
<1> QED BY <1>2, <1>5, <1>6, <1>7, <1>8

\* There it has seen that Head had no successor.
LEMMA SeenEmpty ==
  ASSUME IInv, NEW t \in Threads, LoadHeadNext(t), pc'[t] = "empty"
  PROVE  next[q.Head] = Null
<1>1. /\ pc[t] = "load_head_next" /\ local[t].curr_head = local[t].curr_tail
      /\ next[local[t].curr_head] = Null
  BY Typed DEF LoadHeadNext, From, To
<1>2. Upto(local[t].curr_head, q.Head)
  BY <1>1 DEF IInv, CallsOK, CallOK
<1>3. pos[local[t].curr_head] = len
  BY <1>1, <1>2, Typed DEF Positions, Upto
<1>4. pos[q.Head] = len
  BY <1>2, <1>3, Typed DEF Upto
<1> QED BY <1>4, Typed DEF Positions
-----------------------------------------------------------------------------
\* The place of a node is where it is.
LEMMA OrderAt == ASSUME ListOK, NEW n \in Nodes, 0 < pos[n] PROVE Order[pos[n]] = n
<1>1. CASE \E i \in 1..len : Order[i] = n
  BY <1>1 DEF pos
<1>2. CASE \A i \in 1..len : Order[i] # n
  BY <1>2 DEF pos
<1> QED BY <1>1, <1>2

\* The queue is what follows Head in the list.
LEMMA QueuedIs == IInv => Queued = SubSeq(Order, pos[q.Head] + 1, len)
<1> SUFFICES ASSUME IInv PROVE Queued = SubSeq(Order, pos[q.Head] + 1, len)
  OBVIOUS
<1>1. Chain(q.Head) = SubSeq(Order, pos[q.Head], len)
  BY Typed, Reached DEF IInv
<1>2. Order \in Seq(Nodes) /\ pos[q.Head] \in 1..Len(Order) /\ len \in pos[q.Head]..Len(Order)
  BY Typed DEF IInv, ListOK, IsList, len
<1> QED BY <1>1, <1>2, HeadTailOfSubSeq DEF Queued

\* The same in the next state.
LEMMA QueuedIsNext == (IInv => Queued = SubSeq(Order, pos[q.Head] + 1, len))'
BY QueuedIs, PTL

\* There are no more linked nodes than nodes.
LEMMA LinkedFit == ListOK => len <= MaxEnqueues + 1
<1> SUFFICES ASSUME ListOK PROVE len <= MaxEnqueues + 1
  OBVIOUS
<1>1. /\ Order \in Seq(Nodes) /\ len \in Nat /\ len = Len(Order)
      /\ \A i, j \in 1..len : Order[i] = Order[j] => i = j
  BY DEF ListOK, IsList, len
<1>2. Order \in [1..len -> Nodes]
  BY <1>1
<1> HIDE DEF len
<1>3. IsFiniteSet(1..len) /\ Cardinality(1..len) = len
  <2>1. 1 \in Int /\ len \in Int
    BY <1>1
  <2>2. IsFiniteSet(1..len) /\ Cardinality(1..len) = IF 1 > len THEN 0 ELSE len - 1 + 1
    BY <2>1, FS_Interval
  <2> QED BY <1>1, <2>2
<1>4. IsFiniteSet(Nodes) /\ Cardinality(Nodes) = MaxEnqueues + 1
  <2>1. 1 \in Int /\ MaxEnqueues + 1 \in Int /\ ~ (1 > MaxEnqueues + 1)
        /\ MaxEnqueues + 1 - 1 + 1 = MaxEnqueues + 1
    BY BoundsAssumption
  <2>2. IsFiniteSet(1..(MaxEnqueues + 1)) /\ Cardinality(1..(MaxEnqueues + 1)) =
          IF 1 > MaxEnqueues + 1 THEN 0 ELSE MaxEnqueues + 1 - 1 + 1
    BY <2>1, FS_Interval
  <2> QED BY <2>1, <2>2 DEF Nodes
<1>5. ASSUME MaxEnqueues + 1 < len PROVE FALSE
  <2>1. \E i, j \in 1..len : i # j /\ Order[i] = Order[j]
    BY <1>2, <1>3, <1>4, <1>5, FS_PigeonHole
  <2> QED BY <1>1, <2>1
<1> QED BY <1>1, <1>5, BoundsAssumption

\* Behind the last item a new one is appended.
LEMMA AppendBehind ==
  ASSUME NEW S \in Seq(Nodes), NEW n \in Nodes, NEW p \in Nat, p <= Len(S)
  PROVE  SubSeq(Append(S, n), p + 1, Len(S) + 1) = Append(SubSeq(S, p + 1, Len(S)), n)
<1>1. PICK A, B : A = SubSeq(Append(S, n), p + 1, Len(S) + 1)
                  /\ B = Append(SubSeq(S, p + 1, Len(S)), n)
  OBVIOUS
<1>2. A \in Seq(Nodes) /\ B \in Seq(Nodes)
  BY <1>1
<1>3. Len(A) = Len(S) + 1 - p /\ Len(B) = Len(S) + 1 - p
  BY <1>1
<1>4. \A i \in 1..(Len(S) + 1 - p) : A[i] = B[i]
  BY <1>1
<1> QED BY <1>1, <1>2, <1>3, <1>4, SeqEqual

\* The exchange of a next puts the item into the queue.
LEMMA PutStep ==
  ASSUME IInv, IInv', NEW t \in Threads, Link(t)
  PROVE  \E v \in Nodes : Fifo!Put(v)
<1>1. PICK n : n = local[t].new_node
  OBVIOUS
<1>2. /\ Order' = Append(Order, n) /\ len' = len + 1 /\ n \in Nodes /\ pos[n] = 0
      /\ \A m \in Nodes : m # n => pos'[m] = pos[m]
  BY <1>1, Linked
<1>3. UNCHANGED <<q, delivered>>
  BY DEF Link
<1>4. PICK p \in Nat : p = pos[q.Head] /\ 1 <= p /\ p <= len /\ p = pos'[q'.Head]
  <2>1. pos'[q'.Head] = pos[q.Head]
    <3>1. q.Head \in Nodes /\ q.Head # n /\ q'.Head = q.Head
      BY <1>2, <1>3, Typed
    <3> QED BY <1>2, <3>1
  <2>2. pos[q.Head] \in Nat /\ 1 <= pos[q.Head] /\ pos[q.Head] <= len
    BY Typed
  <2> QED BY <2>1, <2>2
<1>5. Order \in Seq(Nodes) /\ len = Len(Order) /\ len \in Nat
  BY DEF IInv, ListOK, IsList, len
<1>6. Queued = SubSeq(Order, p + 1, len) /\ Queued' = SubSeq(Append(Order, n), p + 1, len + 1)
  BY <1>2, <1>4, QueuedIs, QueuedIsNext
<1>7. Queued' = Append(Queued, n)
  BY <1>2, <1>4, <1>5, <1>6, AppendBehind
<1>8. Len(Queued) = len - p
  <2> HIDE DEF len
  <2> QED BY <1>4, <1>5, <1>6
<1>9. Len(Queued) < MaxEnqueues
  <2>1. ListOK'
    BY DEF IInv
  <2>2. len' <= MaxEnqueues + 1
    <3>1. (ListOK => len <= MaxEnqueues + 1)'
      BY LinkedFit, PTL
    <3> QED BY <2>1, <3>1
  <2> HIDE DEF len
  <2> QED BY <1>2, <1>4, <1>5, <1>8, <2>2, BoundsAssumption
<1> QED BY <1>2, <1>3, <1>7, <1>9 DEF Fifo!Put

\* The exchange of Head takes the first item.
LEMMA TakeStep ==
  ASSUME IInv, IInv', NEW t \in Threads, Take(t)
  PROVE  Fifo!Take
<1>1. PICK n : n = local[t].curr_next
  OBVIOUS
<1>2. /\ n # Null /\ n = next[q.Head] /\ delivered' = Append(delivered, n)
      /\ q' = [q EXCEPT !.Head = n] /\ next' = next
  BY <1>1 DEF Take, StoreHead, From, IInv, CallsOK, CallOK
<1>3. n \in Nodes /\ pos[n] = pos[q.Head] + 1
  BY <1>2, Typed DEF Positions
<1>4. pos' = pos /\ len' = len /\ Order' = Order /\ q'.Head = n
  BY <1>2, SameList, Typed DEF Order, Queues
<1>5. PICK p \in Nat : p = pos[n] /\ 1 <= p /\ p <= len /\ p = pos[q.Head] + 1
  BY <1>3, Typed
<1>6. Order \in Seq(Nodes) /\ len = Len(Order) /\ len \in Nat
  BY DEF IInv, ListOK, IsList, len
<1>7. Queued = SubSeq(Order, p, len) /\ Queued' = SubSeq(Order, p + 1, len)
  BY <1>4, <1>5, QueuedIs, QueuedIsNext
<1>8. Order[p] = n
  BY <1>3, <1>5, OrderAt DEF IInv
<1>9. Head(Queued) = n /\ Tail(Queued) = Queued' /\ Len(Queued) = len - p + 1
  <2>1. p \in 1..Len(Order) /\ len \in p..Len(Order)
    BY <1>5, <1>6
  <2>2. Head(SubSeq(Order, p, len)) = Order[p]
        /\ Tail(SubSeq(Order, p, len)) = SubSeq(Order, p + 1, len)
    BY <1>6, <2>1, HeadTailOfSubSeq
  <2>3. Len(SubSeq(Order, p, len)) = len - p + 1
    <3> HIDE DEF len
    <3> QED BY <1>5, <1>6
  <2> QED BY <1>7, <1>8, <2>2, <2>3
<1>10. Queued # <<>>
  BY <1>5, <1>6, <1>9
<1> QED BY <1>2, <1>9, <1>10 DEF Fifo!Take

\* No other step changes the queue or what has been taken.
LEMMA OtherStep ==
  ASSUME IInv, [Next]_vars, \A t \in Threads : ~Link(t) /\ ~Take(t)
  PROVE  UNCHANGED <<Queued, delivered>>
<1>1. next' = next /\ q'.Head = q.Head /\ delivered' = delivered
  <2>1. CASE UNCHANGED vars \/ Destroy
    BY <2>1, Typed DEF vars, rest, Destroy, Queues
  <2>2. ASSUME NEW t \in Threads, Enqueue(t) \/ Dequeue(t)
        PROVE  next' = next /\ q'.Head = q.Head /\ delivered' = delivered
    BY <2>2, Typed DEF Enqueue, Dequeue, Queues
  <2>3. ASSUME NEW t \in Threads, EnqueueStep(t)
        PROVE  next' = next /\ q'.Head = q.Head /\ delivered' = delivered
    BY <2>3, Typed DEF EnqueueStep, LoadTail, LoadTailNext, LoadTailAgain, LinkFails,
       HelpEnqueuer, SwingTail, LeaveEnqueue, Leave, CasTail, Load, Queues, rest
  <2>4. ASSUME NEW t \in Threads, DequeueStep(t)
        PROVE  next' = next /\ q'.Head = q.Head /\ delivered' = delivered
    BY <2>4, Typed DEF DequeueStep, Enter, LoadHead, LoadHeadsTail, LoadHeadNext, Empty,
       HelpDequeuer, TakeFails, Read, Count, LoadDeleted, Delete, StoreDeleted,
       LeaveDequeue, Leave, CasTail, Load, Queues, rest
  <2> QED BY <2>1, <2>2, <2>3, <2>4 DEF Next, Step
<1>2. Queued' = Queued
  <2>1. PICK h : h = q.Head
    OBVIOUS
  <2>2. Chain(h)' = Chain(h)
    BY <1>1, SameList
  <2>3. Chain(q.Head)' = Chain(q.Head)
    BY <1>1, <2>1, <2>2
  <2> QED BY <2>3 DEF Queued
<1> QED BY <1>1, <1>2
-----------------------------------------------------------------------------
(***************************************************************************)
(* The inductive invariant of the queue, for every number of threads and   *)
(* of calls: what is linked, who will link what, and what has been deleted.*)
(***************************************************************************)
THEOREM Invariance == Spec => []IInv
<1> QED BY InitInv, NextInv, PTL DEF Spec

\* Types are kept; to_be_deleted leads to Head, and Head to Tail, near the end.
THEOREM Pointing == Spec => []Inv
<1> QED BY Invariance, InvHolds, PTL

(***************************************************************************)
(* As long as try_reclaim has not set out for a node past Head, no node of *)
(* the queue is deleted, and nobody is about to touch a deleted one.       *)
(***************************************************************************)
THEOREM MemorySafety == Spec => []NoUseAfterFree
<1> QED BY Invariance, NothingBroken, PTL

\* One call at a time reclaims, and what was linked is deleted in the end, and once.
THEOREM Reclamation == Spec => []NothingLeaks
<1> QED BY Invariance, NothingLost, PTL

\* dequeue returns false only after the queue was empty while it ran.
THEOREM EmptySeen == Spec => FalseMeansEmpty
<1>1. ASSUME IInv, [Next]_vars
      PROVE  [\A t \in Threads :
                pc'[t] = "empty" /\ pc[t] # "empty" => next[q.Head] = Null]_vars
  BY <1>1, OnlyThere, SeenEmpty
<1> QED BY <1>1, Invariance, PTL DEF Spec, FalseMeansEmpty

(***************************************************************************)
(* Linearizability, for every number of threads and of calls: the queue    *)
(* implements a first-in first-out queue.                                  *)
(***************************************************************************)
THEOREM Linearizable == Spec => ImplementsFifo
<1>1. Init => Fifo!Init
  <2> SUFFICES ASSUME Init PROVE Fifo!Init
    OBVIOUS
  <2>1. IInv
    BY InitInv
  <2>2. q.Head = 1 /\ len = pos[q.Head]
    BY <2>1, Typed DEF Init, Positions
  <2>3. Queued = SubSeq(Order, len + 1, len)
    BY <2>1, <2>2, QueuedIs
  <2>4. Queued = <<>>
    BY <2>1, <2>3, Typed
  <2> QED BY <2>4 DEF Fifo!Init, Init
<1>2. ASSUME IInv, IInv', [Next]_vars PROVE [Fifo!Next]_<<Queued, delivered>>
  <2>1. ASSUME NEW t \in Threads, Link(t) PROVE Fifo!Next
    BY <1>2, <2>1, PutStep DEF Fifo!Next
  <2>2. ASSUME NEW t \in Threads, Take(t) PROVE Fifo!Next
    BY <1>2, <2>2, TakeStep DEF Fifo!Next
  <2> QED BY <1>2, <2>1, <2>2, OtherStep
<1> QED BY <1>1, <1>2, Invariance, PTL DEF Spec, ImplementsFifo, Fifo!Spec
=============================================================================
