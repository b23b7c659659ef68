----------------------------- MODULE SpscProofs -----------------------------
(***************************************************************************)
(* Proofs about spsc_ring_buffer, for every Size and every number of       *)
(* items: the invariant Inv of SpscRingBuffer.tla is inductive, and from   *)
(* it the absence of data races, the order of the items, the soundness of  *)
(* comparing stale ring indices and the implementation of BoundedFifo.     *)
(***************************************************************************)
EXTENDS SpscRingBuffer, TLAPS
-----------------------------------------------------------------------------
(***************************************************************************)
(* Arithmetic modulo the capacity.                                         *)
(***************************************************************************)
\* Quotient and remainder.
LEMMA DivMod == ASSUME NEW C \in Nat \ {0}, NEW k \in Int
                PROVE  /\ k \div C \in Int
                       /\ k % C \in 0..(C - 1)
                       /\ k = (C * (k \div C)) + (k % C)
OBVIOUS

\* A multiple of C closer to zero than C is zero.
LEMMA SmallMultiple == ASSUME NEW C \in Nat \ {0}, NEW q \in Int,
                              C * q < C, C * q > 0 - C
                       PROVE  q = 0
OBVIOUS

\* The remainder is unique.
LEMMA Remainder == ASSUME NEW C \in Nat \ {0}, NEW q \in Int, NEW r \in 0..(C - 1)
                   PROVE  ((C * q) + r) % C = r
<1> DEFINE k == (C * q) + r
           d == (k \div C) - q
<1>1. k \in Int
  OBVIOUS
<1>2. /\ k \div C \in Int /\ k % C \in 0..(C - 1)
      /\ k = (C * (k \div C)) + (k % C)
  BY <1>1, DivMod
<1>3. d \in Int /\ C * d = r - (k % C)
  <2> HIDE DEF k
  <2>1. k = (C * q) + r
    BY DEF k
  <2>2. QED
    BY <1>2, <2>1
<1>4. d = 0
  <2> HIDE DEF d
  <2>1. QED
    BY <1>2, <1>3, SmallMultiple
<1>5. QED
  BY <1>2, <1>3, <1>4

\* The ring index after that of k is that of k + 1.
LEMMA ModSucc == ASSUME NEW C \in Nat \ {0}, NEW k \in Int
                 PROVE  (k + 1) % C = ((k % C) + 1) % C
<1> DEFINE q == k \div C
           r == k % C
<1>1. q \in Int /\ r \in 0..(C - 1) /\ k = (C * q) + r
  BY DivMod
<1> HIDE DEF q, r
<1>2. CASE r + 1 < C
  <2>1. ((C * q) + (r + 1)) % C = r + 1 /\ ((C * 0) + (r + 1)) % C = r + 1
    BY <1>1, <1>2, Remainder
  <2>2. QED
    BY <1>1, <2>1 DEF r
<1>3. CASE r + 1 = C
  <2>1. ((C * (q + 1)) + 0) % C = 0 /\ ((C * 1) + 0) % C = 0
    BY <1>1, Remainder
  <2>2. k + 1 = (C * (q + 1)) + 0 /\ r + 1 = (C * 1) + 0
    BY <1>1, <1>3
  <2>3. QED
    BY <2>1, <2>2 DEF r
<1>4. QED
  BY <1>1, <1>2, <1>3

\* Two numbers less than a lap apart that share a slot are equal.
LEMMA SameSlot == ASSUME NEW C \in Nat \ {0}, NEW i \in Int, NEW j \in Int,
                         i % C = j % C, i - j < C, j - i < C
                  PROVE  i = j
<1> DEFINE d == (i \div C) - (j \div C)
<1>1. /\ i \div C \in Int /\ j \div C \in Int /\ i % C \in 0..(C - 1)
      /\ i = (C * (i \div C)) + (i % C)
      /\ j = (C * (j \div C)) + (j % C)
  BY DivMod
<1>2. d \in Int /\ i - j = C * d
  BY <1>1
<1>3. d = 0
  <2> HIDE DEF d
  <2>1. QED
    BY <1>2, SmallMultiple
<1>4. QED
  BY <1>2, <1>3

\* A whole lap further is the same slot.
LEMMA ModLap == ASSUME NEW C \in Nat \ {0}, NEW k \in Int
                PROVE  (k + C) % C = k % C
<1> DEFINE q == k \div C
           r == k % C
<1>1. q \in Int /\ r \in 0..(C - 1) /\ k = (C * q) + r
  BY DivMod
<1> HIDE DEF q, r
<1>2. ((C * (q + 1)) + r) % C = r
  <2>1. q + 1 \in Int
    BY <1>1
  <2>2. QED
    BY <1>1, <2>1, Remainder
<1>3. k + C = (C * (q + 1)) + r
  BY <1>1
<1>4. QED
  BY <1>2, <1>3 DEF r
-----------------------------------------------------------------------------
(***************************************************************************)
(* The slots of the ring.                                                  *)
(***************************************************************************)
\* The capacity is positive, and the slots are the remainders modulo it.
LEMMA Capacity == /\ capacity \in Nat \ {0}
                  /\ Slots = 0..(capacity - 1)
                  /\ Size = capacity - 1
BY SizeAssumption DEF capacity, Slots

\* slot() in terms of constants that the solver knows to be numbers.
LEMMA SlotDef == ASSUME NEW C, C = capacity, NEW n, NEW m, m = n - 1
                 PROVE  slot(n) = m % C
BY Zenon DEF slot

\* Every item has a slot of the ring.
LEMMA SlotInRing == ASSUME NEW n \in Int
                    PROVE  slot(n) \in Slots
<1>1. PICK C \in Nat \ {0} : C = capacity
  BY Capacity
<1>2. PICK m \in Int : m = n - 1
  OBVIOUS
<1>3. m % C \in 0..(C - 1)
  BY DivMod
<1>4. slot(n) = m % C
  BY <1>1, <1>2, SlotDef
<1>5. QED
  BY <1>1, <1>3, <1>4, Capacity

\* next() goes to the slot of the next item.
LEMMA NextSlot == ASSUME NEW n \in Int
                  PROVE  next(slot(n)) = slot(n + 1)
<1>1. PICK C \in Nat \ {0} : C = capacity
  BY Capacity
<1>2. PICK m \in Int : m = n - 1
  OBVIOUS
<1>3. (m + 1) % C = ((m % C) + 1) % C
  BY ModSucc
<1>4. slot(n) = m % C
  BY <1>1, <1>2, SlotDef
<1>5. slot(n + 1) = (m + 1) % C
  <2>1. m + 1 = (n + 1) - 1
    BY <1>2
  <2>2. QED
    BY <1>1, <2>1, SlotDef
<1>6. next(slot(n)) = ((m % C) + 1) % C
  BY <1>1, <1>4, Zenon DEF next
<1>7. QED
  BY <1>3, <1>5, <1>6

\* Two items less than a lap apart do not share a slot.
LEMMA SlotUnique == ASSUME NEW m \in Int, NEW n \in Int, slot(m) = slot(n),
                           m - n < capacity, n - m < capacity
                    PROVE  m = n
<1>1. PICK C \in Nat \ {0} : C = capacity
  BY Capacity
<1>2. PICK i \in Int : i = m - 1
  OBVIOUS
<1>3. PICK j \in Int : j = n - 1
  OBVIOUS
<1>4. slot(m) = i % C /\ slot(n) = j % C
  BY <1>1, <1>2, <1>3, SlotDef
<1>5. i - j < C /\ j - i < C
  BY <1>1, <1>2, <1>3
<1>6. i = j
  BY <1>4, <1>5, SameSlot
<1>7. QED
  BY <1>2, <1>3, <1>6

\* Two items a lap apart share a slot.
LEMMA SlotLap == ASSUME NEW n \in Int
                 PROVE  slot(n + capacity) = slot(n)
<1>1. PICK C \in Nat \ {0} : C = capacity
  BY Capacity
<1>2. PICK m \in Int : m = n - 1
  OBVIOUS
<1>3. (m + C) % C = m % C
  BY ModLap
<1>4. slot(n) = m % C
  BY <1>1, <1>2, SlotDef
<1>5. slot(n + capacity) = (m + C) % C
  <2>1. m + C = (n + capacity) - 1
    BY <1>1, <1>2
  <2>2. QED
    BY <1>1, <2>1, SlotDef
<1>6. QED
  BY <1>3, <1>4, <1>5
-----------------------------------------------------------------------------
(***************************************************************************)
(* Facts about a state that satisfies the invariant.                       *)
(***************************************************************************)
\* Both modification orders are non-empty and the head is not past the tail.
LEMMA Lengths == ASSUME Inv
                 PROVE  /\ Len(tail) \in Nat \ {0} /\ Len(head) \in Nat \ {0}
                        /\ seenHead \in 1..Len(head) /\ seenTail \in 1..Len(tail)
                        /\ Len(head) <= Len(tail)
                        /\ Len(tail) - seenHead < capacity
                        /\ Len(head) <= seenTail
BY Capacity DEF Inv, TypeOK, WithinRing

\* What the k-th store of an index stored.
LEMMA OrderAt == ASSUME Inv
                 PROVE  OrdersCount
BY DEF Inv

\* One's own index is the slot of the item after one's last store.
LEMMA OwnIndex == ASSUME Inv
                  PROVE  /\ cur_tail = slot(Len(tail)) /\ cur_tail \in Slots
                         /\ cur_head = slot(Len(head)) /\ cur_head \in Slots
                         /\ next(cur_tail) = slot(Len(tail) + 1)
                         /\ next(cur_head) = slot(Len(head) + 1)
<1>1. cur_tail = slot(Len(tail)) /\ cur_head = slot(Len(head))
  BY Lengths, OrderAt DEF OrdersCount, cur_tail, cur_head
<1>2. QED
  BY <1>1, Lengths, SlotInRing, NextSlot

\* enqueue's test for a full ring is right for every head it may load.
LEMMA FullTest == ASSUME Inv, NEW k \in seenHead..Len(head)
                  PROVE  next(cur_tail) = head[k].index <=> Len(tail) - k = Size
<1>1. PICK T \in Nat : T = Len(tail)
  BY Lengths
<1>2. k \in 1..Len(head) /\ k \in Nat /\ k <= T /\ T - k < capacity
  BY <1>1, Lengths, Capacity
<1>3. next(cur_tail) = slot(T + 1) /\ head[k].index = slot(k)
  BY <1>1, <1>2, OwnIndex, OrderAt DEF OrdersCount
<1>4. CASE T - k = Size
  <2>1. T + 1 = k + capacity
    BY <1>2, <1>4, Capacity
  <2>2. QED
    BY <1>1, <1>2, <1>3, <1>4, <2>1, SlotLap
<1>5. CASE T - k # Size
  <2>1. (T + 1) - k < capacity /\ k - (T + 1) < capacity /\ T + 1 # k
    BY <1>2, <1>5, Capacity
  <2>2. QED
    BY <1>1, <1>2, <1>3, <1>5, <2>1, SlotUnique
<1>6. QED
  BY <1>4, <1>5

\* dequeue's test for an empty ring is right for every tail it may load.
LEMMA EmptyTest == ASSUME Inv, NEW k \in seenTail..Len(tail)
                   PROVE  tail[k].index = cur_head <=> k = Len(head)
<1>1. PICK H \in Nat : H = Len(head)
  BY Lengths
<1>2. /\ k \in 1..Len(tail) /\ k \in Nat
      /\ k - H < capacity /\ H - k < capacity
  BY <1>1, Lengths, Capacity
<1>3. tail[k].index = slot(k) /\ cur_head = slot(H)
  BY <1>1, <1>2, OwnIndex, OrderAt DEF OrdersCount
<1>4. QED
  BY <1>1, <1>2, <1>3, SlotUnique

\* The head's item was written, and not so long ago that it was overwritten.
LEMMA HeadItem == ASSUME Inv, consumer = "read"
                  PROVE  buffer[cur_head].write = Len(head)
<1>1. PICK H \in Nat : H = Len(head)
  BY Lengths
<1>2. H \in 1..writes /\ H > writes - capacity
  BY <1>1, Lengths, Capacity DEF Inv, ViewsCount, WithinRing
<1>3. buffer[slot(H)].write = H
  BY <1>2 DEF Inv, SlotsHoldLastLap
<1>4. QED
  BY <1>1, <1>3, OwnIndex

\* A store of the next slot keeps a modification order's count.
LEMMA StoreCounts ==
  ASSUME NEW order \in Seq(Stores), NEW new,
         \A k \in 1..Len(order) :
           order[k].index = slot(k) /\ order[k].view = k - 1,
         new = Store(order, slot(Len(order) + 1), Len(order))
  PROVE  /\ new \in Seq(Stores)
         /\ Len(new) = Len(order) + 1
         /\ \A k \in 1..Len(new) :
              new[k].index = slot(k) /\ new[k].view = k - 1
<1>1. PICK L \in Nat : L = Len(order)
  OBVIOUS
<1>2. PICK i \in Slots : i = slot(L + 1)
  BY SlotInRing
<1>3. /\ new \in Seq(Stores) /\ Len(new) = L + 1
      /\ \A k \in 1..L : new[k] = order[k]
      /\ new[L + 1].index = slot(L + 1) /\ new[L + 1].view = L
  <2>1. new = Store(order, i, L)
    BY <1>1, <1>2
  <2>2. /\ new \in Seq(Stores)
        /\ Len(new) = Len(order) + 1
        /\ \A k \in 1..Len(order) : new[k] = order[k]
        /\ new[Len(order) + 1].index = i
        /\ new[Len(order) + 1].view = L
    BY <2>1 DEF Store, Stores
  <2>3. QED
    BY <1>1, <1>2, <2>2
<1>4. ASSUME NEW k \in 1..(L + 1)
      PROVE  new[k].index = slot(k) /\ new[k].view = k - 1
  <2>1. CASE k \in 1..L
    BY <1>1, <1>3, <2>1
  <2>2. CASE k = L + 1
    BY <1>3, <2>2
  <2>3. QED
    BY <2>1, <2>2
<1>5. QED
  BY <1>1, <1>3, <1>4
-----------------------------------------------------------------------------
(***************************************************************************)
(* The invariant is inductive.                                             *)
(***************************************************************************)
\* The invariant holds in the empty ring.
LEMMA InitInv == Init => Inv
<1> SUFFICES ASSUME Init PROVE Inv
  OBVIOUS
<1>1. slot(1) = 0
  <2>1. PICK C \in Nat \ {0} : C = capacity
    BY Capacity
  <2>2. ((C * 0) + 0) % C = 0
    BY Remainder
  <2>3. PICK m \in Int : m = 1 - 1
    OBVIOUS
  <2>4. m = (C * 0) + 0
    BY <2>3
  <2>5. slot(1) = m % C
    BY <2>1, <2>3, SlotDef
  <2>6. QED
    BY <2>2, <2>4, <2>5
<1>2. 0 \in Slots
  BY Capacity
<1>3. /\ Len(tail) = 1 /\ Len(head) = 1
      /\ tail \in Seq(Stores) /\ head \in Seq(Stores)
      /\ tail[1].index = 0 /\ tail[1].view = 0
      /\ head[1].index = 0 /\ head[1].view = 0
  BY <1>2 DEF Init, Store, Stores
<1>4. TypeOK
  BY <1>3 DEF Init, TypeOK
<1>5. OrdersCount
  BY <1>1, <1>3 DEF OrdersCount
<1>6. ViewsCount /\ WithinBound
  BY <1>3, BoundAssumption DEF Init, ViewsCount, WithinBound
<1>7. WithinRing
  <2>1. /\ seenHead = 1 /\ seenTail = 1
        /\ producer = "idle" /\ consumer = "idle"
    BY DEF Init
  <2>2. QED
    BY <1>3, <2>1, SizeAssumption DEF WithinRing
<1>8. SlotsHoldLastLap /\ InOrder
  BY DEF Init, SlotsHoldLastLap, InOrder
<1>9. QED
  BY <1>4, <1>5, <1>6, <1>7, <1>8 DEF Inv

\* A load of head keeps the invariant.
LEMMA EnqueueLoadInv == ASSUME Inv, EnqueueLoad
                        PROVE  Inv'
<1>1. PICK k \in seenHead..Len(head) :
        /\ seenHead' = k
        /\ syncReads' = Later(syncReads, head[k].view)
        /\ producer' = IF next(cur_tail) = head[k].index THEN "idle" ELSE "write"
  BY DEF EnqueueLoad
<1>2. /\ producer = "idle" /\ writes < MaxEnqueues
      /\ UNCHANGED <<buffer, tail, writes, seenTail, syncWrites, consumer, got, head>>
  BY DEF EnqueueLoad, cVars
<1>3. k \in 1..Len(head) /\ k \in Nat /\ k >= seenHead
  BY Lengths
<1>4. syncReads' = k - 1
  BY <1>1, <1>3, OrderAt DEF OrdersCount, Later, Inv, TypeOK, ViewsCount
<1>5. TypeOK'
  BY <1>1, <1>2, <1>3, <1>4 DEF Inv, TypeOK
<1>6. OrdersCount'
  BY <1>2, OrderAt DEF OrdersCount
<1>7. ViewsCount' /\ WithinBound'
  BY <1>1, <1>2, <1>4 DEF Inv, ViewsCount, WithinBound
<1>8. WithinRing'
  <2>1. producer' # "idle" => Len(tail) - k # Size
    BY <1>1, FullTest
  <2>2. Len(tail) - k <= Size
    BY <1>3, Lengths, Capacity
  <2>3. QED
    BY <1>1, <1>2, <2>1, <2>2, <1>3, Lengths, SizeAssumption
       DEF Inv, WithinRing
<1>9. SlotsHoldLastLap' /\ InOrder'
  BY <1>2 DEF Inv, SlotsHoldLastLap, InOrder
<1>10. QED
  BY <1>5, <1>6, <1>7, <1>8, <1>9 DEF Inv

\* The write of a slot keeps the invariant.
LEMMA EnqueueWriteInv == ASSUME Inv, EnqueueWrite
                         PROVE  Inv'
<1>1. /\ producer = "write" /\ writes' = writes + 1 /\ producer' = "store"
      /\ buffer' = [buffer EXCEPT ![cur_tail].write = writes + 1]
      /\ UNCHANGED <<tail, seenHead, syncReads, seenTail, syncWrites, consumer, got, head>>
  BY DEF EnqueueWrite, cVars
<1>2. writes \in Nat /\ writes = Len(tail) - 1 /\ writes < MaxEnqueues
  BY <1>1 DEF Inv, TypeOK, ViewsCount, WithinBound
<1>3. PICK T \in Nat : T = writes + 1
  BY <1>2
<1>4. cur_tail = slot(T) /\ cur_tail \in Slots
  BY <1>2, <1>3, OwnIndex, Lengths
<1>5. /\ buffer \in [Slots -> [write : Nat, read : Nat]]
      /\ buffer' \in [Slots -> [write : Nat, read : Nat]]
      /\ buffer'[cur_tail].write = T
      /\ \A s \in Slots : /\ s # cur_tail => buffer'[s].write = buffer[s].write
                          /\ buffer'[s].read = buffer[s].read
  BY <1>1, <1>3, <1>4 DEF Inv, TypeOK
<1>6. TypeOK'
  BY <1>1, <1>2, <1>5 DEF Inv, TypeOK
<1>7. OrdersCount'
  BY <1>1, OrderAt DEF OrdersCount
<1>8. ViewsCount' /\ WithinBound' /\ WithinRing'
  <2>1. ViewsCount'
    BY <1>1, <1>2 DEF Inv, ViewsCount
  <2>2. WithinBound'
    BY <1>1, <1>2, BoundAssumption DEF WithinBound
  <2>3. WithinRing'
    BY <1>1 DEF Inv, WithinRing
  <2>4. QED
    BY <2>1, <2>2, <2>3
<1>9. ASSUME NEW n \in 1..writes', n > writes' - capacity
      PROVE  buffer'[slot(n)].write = n
  <2>1. n \in Nat /\ n \in 1..T /\ n > T - capacity
    BY <1>1, <1>3, <1>9
  <2>2. CASE n = T
    BY <1>4, <1>5, <2>2
  <2>3. CASE n # T
    <3>1. n \in 1..writes /\ n > writes - capacity
      BY <1>2, <1>3, <2>1, <2>3, Capacity
    <3>2. buffer[slot(n)].write = n
      BY <3>1 DEF Inv, SlotsHoldLastLap
    <3>3. slot(n) # slot(T)
      BY <2>1, <2>3, Capacity, SlotUnique
    <3>4. slot(n) \in Slots
      BY <2>1, SlotInRing
    <3>5. QED
      BY <1>4, <1>5, <3>2, <3>3, <3>4
  <2>4. QED
    BY <2>2, <2>3
<1>10. SlotsHoldLastLap'
  BY <1>1, <1>5, <1>9 DEF Inv, SlotsHoldLastLap
<1>11. InOrder'
  BY <1>1 DEF Inv, InOrder
<1>12. QED
  BY <1>6, <1>7, <1>8, <1>10, <1>11 DEF Inv

\* The store of tail keeps the invariant.
LEMMA EnqueueStoreInv == ASSUME Inv, EnqueueStore
                         PROVE  Inv'
<1>1. /\ producer = "store" /\ producer' = "idle"
      /\ tail' = Store(tail, next(cur_tail), writes)
      /\ UNCHANGED <<buffer, writes, seenHead, syncReads,
                     seenTail, syncWrites, consumer, got, head>>
  BY DEF EnqueueStore, cVars
<1>2. writes = Len(tail) /\ next(cur_tail) = slot(Len(tail) + 1)
  BY <1>1, OwnIndex DEF Inv, ViewsCount
<1>3. tail \in Seq(Stores)
  BY DEF Inv, TypeOK
<1>4. /\ tail' \in Seq(Stores) /\ Len(tail') = Len(tail) + 1
      /\ \A k \in 1..Len(tail') :
           tail'[k].index = slot(k) /\ tail'[k].view = k - 1
  BY <1>1, <1>2, <1>3, OrderAt, StoreCounts DEF OrdersCount
<1>5. TypeOK'
  BY <1>1, <1>4 DEF Inv, TypeOK
<1>6. OrdersCount'
  BY <1>1, <1>4, OrderAt DEF OrdersCount
<1>7. ViewsCount'
  BY <1>1, <1>2, <1>4, Lengths DEF Inv, ViewsCount
<1>8. WithinBound'
  BY <1>1 DEF Inv, WithinBound
<1>9. WithinRing'
  BY <1>1, <1>4, Lengths, SizeAssumption DEF Inv, WithinRing
<1>10. SlotsHoldLastLap' /\ InOrder'
  BY <1>1 DEF Inv, SlotsHoldLastLap, InOrder
<1>11. QED
  BY <1>5, <1>6, <1>7, <1>8, <1>9, <1>10 DEF Inv

\* A load of tail keeps the invariant.
LEMMA DequeueLoadInv == ASSUME Inv, DequeueLoad
                        PROVE  Inv'
<1>1. PICK k \in seenTail..Len(tail) :
        /\ seenTail' = k
        /\ syncWrites' = Later(syncWrites, tail[k].view)
        /\ consumer' = IF tail[k].index = cur_head THEN "idle" ELSE "read"
  BY DEF DequeueLoad
<1>2. UNCHANGED <<buffer, head, got, seenHead, syncReads, producer, writes, tail>>
  BY DEF DequeueLoad, pVars
<1>3. consumer = "idle"
  BY DEF DequeueLoad
<1>4. k \in 1..Len(tail) /\ k \in Nat /\ k >= seenTail
  BY Lengths
<1>5. syncWrites' = k - 1
  BY <1>1, <1>4, OrderAt DEF OrdersCount, Later, Inv, TypeOK, ViewsCount
<1>6. TypeOK'
  BY <1>1, <1>2, <1>4, <1>5 DEF Inv, TypeOK
<1>7. OrdersCount'
  BY <1>2, OrderAt DEF OrdersCount
<1>8. ViewsCount'
  BY <1>1, <1>2, <1>3, <1>5 DEF Inv, ViewsCount
<1>9. WithinBound'
  BY <1>2 DEF Inv, WithinBound
<1>10. WithinRing'
  <2>1. consumer' # "idle" => k # Len(head)
    BY <1>1, EmptyTest
  <2>2. QED
    BY <1>1, <1>2, <1>4, <2>1, Lengths DEF Inv, WithinRing
<1>11. SlotsHoldLastLap' /\ InOrder'
  BY <1>2 DEF Inv, SlotsHoldLastLap, InOrder
<1>12. QED
  BY <1>6, <1>7, <1>8, <1>9, <1>10, <1>11 DEF Inv

\* The read of a slot keeps the invariant.
LEMMA DequeueReadInv == ASSUME Inv, DequeueRead
                        PROVE  Inv'
<1>1. /\ consumer = "read" /\ consumer' = "store"
      /\ got' = Append(got, buffer[cur_head].write)
      /\ buffer' = [buffer EXCEPT ![cur_head].read = Len(got')]
      /\ UNCHANGED <<head, seenTail, syncWrites, seenHead, syncReads,
                     producer, writes, tail>>
  BY DEF DequeueRead, pVars
<1>2. /\ got \in Seq(Nat) /\ Len(got) \in Nat /\ Len(got) = Len(head) - 1
      /\ buffer \in [Slots -> [write : Nat, read : Nat]]
  BY <1>1 DEF Inv, TypeOK, ViewsCount
<1>3. PICK H \in Nat : H = Len(head)
  BY Lengths
<1>4. cur_head = slot(H) /\ cur_head \in Slots /\ buffer[cur_head].write = H
  BY <1>1, <1>3, OwnIndex, HeadItem
<1>5. /\ got' \in Seq(Nat) /\ Len(got') = H /\ got'[H] = H
      /\ \A n \in 1..Len(got) : got'[n] = got[n]
  BY <1>1, <1>2, <1>3, <1>4
<1>6. /\ buffer' \in [Slots -> [write : Nat, read : Nat]]
      /\ buffer'[cur_head].read = H
      /\ \A s \in Slots : /\ s # cur_head => buffer'[s].read = buffer[s].read
                          /\ buffer'[s].write = buffer[s].write
  BY <1>1, <1>2, <1>4, <1>5
<1>7. TypeOK'
  BY <1>1, <1>5, <1>6 DEF Inv, TypeOK
<1>8. OrdersCount'
  BY <1>1, OrderAt DEF OrdersCount
<1>9. ViewsCount'
  BY <1>1, <1>3, <1>5 DEF Inv, ViewsCount
<1>10. WithinBound'
  BY <1>1 DEF Inv, WithinBound
<1>11. WithinRing'
  BY <1>1 DEF Inv, WithinRing
<1>12. SlotsHoldLastLap'
  <2>1. ASSUME NEW n \in 1..writes, n > writes - capacity
        PROVE  buffer'[slot(n)].write = n
    <3>1. buffer[slot(n)].write = n
      BY <2>1 DEF Inv, SlotsHoldLastLap
    <3>2. slot(n) \in Slots
      BY SlotInRing
    <3>3. QED
      BY <1>6, <3>1, <3>2
  <2>2. ASSUME NEW s \in Slots, buffer'[s].read # 0
        PROVE  buffer'[s].read <= H /\ slot(buffer'[s].read) = s
    <3>1. CASE s = cur_head
      BY <1>4, <1>6, <3>1
    <3>2. CASE s # cur_head
      <4>1. buffer'[s].read = buffer[s].read /\ buffer[s].read \in Nat
        BY <1>2, <1>6, <3>2
      <4>2. buffer[s].read <= Len(got) /\ slot(buffer[s].read) = s
        BY <2>2, <4>1 DEF Inv, SlotsHoldLastLap
      <4>3. QED
        BY <1>2, <1>3, <4>1, <4>2
    <3>3. QED
      BY <3>1, <3>2
  <2>3. QED
    BY <1>1, <1>5, <2>1, <2>2 DEF SlotsHoldLastLap
<1>13. InOrder'
  <2>1. ASSUME NEW n \in 1..H
        PROVE  got'[n] = n
    <3>1. CASE n = H
      BY <1>5, <3>1
    <3>2. CASE n # H
      <4>1. n \in 1..Len(got)
        BY <1>2, <1>3, <3>2
      <4>2. got[n] = n
        BY <4>1 DEF Inv, InOrder
      <4>3. QED
        BY <1>5, <4>1, <4>2
    <3>3. QED
      BY <3>1, <3>2
  <2>2. QED
    BY <1>5, <2>1 DEF InOrder
<1>14. QED
  BY <1>7, <1>8, <1>9, <1>10, <1>11, <1>12, <1>13 DEF Inv

\* The store of head keeps the invariant.
LEMMA DequeueStoreInv == ASSUME Inv, DequeueStore
                         PROVE  Inv'
<1>1. /\ consumer = "store" /\ consumer' = "idle"
      /\ head' = Store(head, next(cur_head), Len(got))
      /\ UNCHANGED <<buffer, got, seenTail, syncWrites, seenHead, syncReads,
                     producer, writes, tail>>
  BY DEF DequeueStore, pVars
<1>2. Len(got) = Len(head) /\ next(cur_head) = slot(Len(head) + 1)
  BY <1>1, OwnIndex DEF Inv, ViewsCount
<1>3. head \in Seq(Stores)
  BY DEF Inv, TypeOK
<1>4. /\ head' \in Seq(Stores) /\ Len(head') = Len(head) + 1
      /\ \A k \in 1..Len(head') :
           head'[k].index = slot(k) /\ head'[k].view = k - 1
  BY <1>1, <1>2, <1>3, OrderAt, StoreCounts DEF OrdersCount
<1>5. TypeOK'
  BY <1>1, <1>4 DEF Inv, TypeOK
<1>6. OrdersCount'
  BY <1>1, <1>4, OrderAt DEF OrdersCount
<1>7. ViewsCount'
  BY <1>1, <1>2, <1>4, Lengths DEF Inv, ViewsCount
<1>8. WithinBound'
  BY <1>1 DEF Inv, WithinBound
<1>9. WithinRing'
  BY <1>1, <1>4, Lengths DEF Inv, WithinRing
<1>10. SlotsHoldLastLap' /\ InOrder'
  BY <1>1 DEF Inv, SlotsHoldLastLap, InOrder
<1>11. QED
  BY <1>5, <1>6, <1>7, <1>8, <1>9, <1>10 DEF Inv

\* Every step keeps the invariant, and so does a step that changes nothing.
LEMMA StepInv == Inv /\ [Next]_vars => Inv'
<1> SUFFICES ASSUME Inv, [Next]_vars PROVE Inv'
  OBVIOUS
<1>1. CASE EnqueueLoad
  BY <1>1, EnqueueLoadInv
<1>2. CASE EnqueueWrite
  BY <1>2, EnqueueWriteInv
<1>3. CASE EnqueueStore
  BY <1>3, EnqueueStoreInv
<1>4. CASE DequeueLoad
  BY <1>4, DequeueLoadInv
<1>5. CASE DequeueRead
  BY <1>5, DequeueReadInv
<1>6. CASE DequeueStore
  BY <1>6, DequeueStoreInv
<1>7. CASE UNCHANGED vars
  BY <1>7 DEF vars, pVars, cVars, Inv, TypeOK, OrdersCount, ViewsCount,
              WithinBound, WithinRing, SlotsHoldLastLap, InOrder
<1>8. QED
  BY <1>1, <1>2, <1>3, <1>4, <1>5, <1>6, <1>7 DEF Next
-----------------------------------------------------------------------------
(***************************************************************************)
(* The theorems about spsc_ring_buffer.                                    *)
(***************************************************************************)
\* The invariant Inv holds in every reachable state.
THEOREM Invariance == Spec => []Inv
<1>1. Init => Inv
  BY InitInv
<1>2. Inv /\ [Next]_vars => Inv'
  BY StepInv
<1>3. QED
  BY <1>1, <1>2, PTL DEF Spec

\* The indices of enqueue and dequeue never leave the ring.
THEOREM TypeCorrect == Spec => []TypeOK
<1>1. Inv => TypeOK
  BY DEF Inv
<1>2. QED
  BY <1>1, Invariance, PTL

\* dequeue hands out the items in the order of the calls that enqueued them.
THEOREM Order == Spec => []InOrder
<1>1. Inv => InOrder
  BY DEF Inv
<1>2. QED
  BY <1>1, Invariance, PTL

\* No index that either thread may still load misleads its full or empty test.
THEOREM StaleIndices == Spec => []StaleIndexNeverMisleads
<1>1. Inv => StaleIndexNeverMisleads
  BY FullTest, EmptyTest DEF StaleIndexNeverMisleads
<1>2. QED
  BY <1>1, Invariance, PTL

\* The acquire loads and release stores order all conflicting slot accesses.
THEOREM RaceFreedom == Spec => []NoDataRace
<1>1. ASSUME Inv, producer = "write"
      PROVE  buffer[cur_tail].read <= syncReads
  <2>1. PICK T \in Nat : T = Len(tail)
    BY <1>1, Lengths
  <2>2. cur_tail = slot(T) /\ cur_tail \in Slots
    BY <1>1, <2>1, OwnIndex
  <2>3. PICK r \in Nat : r = buffer[cur_tail].read
    BY <1>1, <2>2 DEF Inv, TypeOK
  <2>4. /\ seenHead \in Nat /\ seenHead >= 1 /\ syncReads = seenHead - 1
        /\ T - seenHead < Size /\ Len(got) <= T /\ Len(got) \in Nat
    BY <1>1, <2>1, Lengths DEF Inv, ViewsCount, WithinRing
  <2>5. Len(got) < T
    BY <1>1, <2>1, <2>4, Lengths DEF Inv, ViewsCount, WithinRing
  <2>6. CASE r = 0
    BY <2>3, <2>4, <2>6
  <2>7. CASE r # 0
    <3>1. r <= Len(got) /\ slot(r) = slot(T)
      BY <1>1, <2>2, <2>3, <2>7 DEF Inv, SlotsHoldLastLap
    <3>2. r < T
      BY <2>4, <2>5, <3>1
    <3>3. ~(T - r < capacity)
      BY <3>1, <3>2, Capacity, SlotUnique
    <3>4. QED
      BY <2>3, <2>4, <3>3, Capacity
  <2>8. QED
    BY <2>6, <2>7
<1>2. ASSUME Inv, consumer = "read"
      PROVE  buffer[cur_head].write <= syncWrites
  BY <1>2, HeadItem, Lengths DEF Inv, ViewsCount, WithinRing
<1>3. Inv => NoDataRace
  BY <1>1, <1>2 DEF NoDataRace
<1>4. QED
  BY <1>3, Invariance, PTL
-----------------------------------------------------------------------------
(***************************************************************************)
(* The ring implements BoundedFifo.                                        *)
(***************************************************************************)
\* The numbers of n items in the order of their calls, the first of them a.
Consecutive(a, n) == [i \in 1..n |-> a + i - 1]

\* How a queue of consecutive items grows and shrinks.
LEMMA ConsecutiveFacts ==
  ASSUME NEW a \in Nat, NEW n \in Nat
  PROVE  /\ Consecutive(a, n) \in Seq(Int) /\ Len(Consecutive(a, n)) = n
         /\ Append(Consecutive(a, n), a + n) = Consecutive(a, n + 1)
         /\ n > 0 => /\ Consecutive(a, n) # <<>>
                     /\ Head(Consecutive(a, n)) = a
                     /\ Tail(Consecutive(a, n)) = Consecutive(a + 1, n - 1)
<1> DEFINE C == Consecutive(a, n)
<1>1. /\ C \in Seq(Int) /\ Len(C) = n
      /\ \A i \in 1..n : C[i] = a + i - 1
  BY DEF Consecutive
<1>2. Append(C, a + n) = Consecutive(a, n + 1)
  <2> DEFINE D == Append(C, a + n)
             E == Consecutive(a, n + 1)
  <2>1. /\ D \in Seq(Int) /\ Len(D) = n + 1
        /\ \A i \in 1..(n + 1) : D[i] = a + i - 1
    <3> HIDE DEF C
    <3>1. QED
      BY <1>1
  <2>2. /\ E \in Seq(Int) /\ Len(E) = n + 1
        /\ \A i \in 1..(n + 1) : E[i] = a + i - 1
    BY DEF Consecutive
  <2> HIDE DEF D, E
  <2>3. D = E
    BY <2>1, <2>2
  <2>4. QED
    BY <2>3 DEF D, E
<1>3. ASSUME n > 0
      PROVE  /\ C # <<>> /\ Head(C) = a
             /\ Tail(C) = Consecutive(a + 1, n - 1)
  <2> DEFINE D == Tail(C)
             E == Consecutive(a + 1, n - 1)
  <2>1. C # <<>> /\ Head(C) = a
    <3> HIDE DEF C
    <3>1. QED
      BY <1>1, <1>3
  <2>2. /\ D \in Seq(Int) /\ Len(D) = n - 1
        /\ \A i \in 1..(n - 1) : D[i] = a + i
    <3> HIDE DEF C
    <3>1. QED
      BY <1>1, <1>3, <2>1
  <2>3. /\ E \in Seq(Int) /\ Len(E) = n - 1
        /\ \A i \in 1..(n - 1) : E[i] = a + i
    BY <1>3 DEF Consecutive
  <2> HIDE DEF D, E
  <2>4. D = E
    BY <2>2, <2>3
  <2>5. QED
    BY <2>1, <2>4 DEF D, E
<1>4. QED
  BY <1>1, <1>2, <1>3

\* What the mapping yields: two runs of consecutive items.
Mapped == /\ Queued = Consecutive(Len(head), Len(tail) - Len(head))
          /\ Delivered = Consecutive(1, Len(head) - 1)

\* The mapping of a state that satisfies the invariant.
LEMMA MappedState == Inv => Mapped
<1> SUFFICES ASSUME Inv PROVE Mapped
  OBVIOUS
<1>1. PICK H \in Nat, T \in Nat : H = Len(head) /\ T = Len(tail)
  BY Lengths
<1>2. /\ H >= 1 /\ H <= T
      /\ writes \in Nat /\ writes >= T - 1 /\ H > writes - capacity
      /\ got \in Seq(Nat) /\ Len(got) >= H - 1
  <2>1. got \in Seq(Nat) /\ writes \in Nat
    BY DEF Inv, TypeOK
  <2>2. writes >= T - 1 /\ Len(got) >= H - 1
    BY <1>1, Lengths DEF Inv, ViewsCount
  <2>3. T - seenHead <= Size /\ producer # "idle" => T - seenHead < Size
    BY <1>1 DEF Inv, WithinRing
  <2>4. writes = IF producer = "store" THEN T ELSE T - 1
    BY <1>1 DEF Inv, ViewsCount
  <2>5. QED
    BY <1>1, <2>1, <2>2, <2>3, <2>4, Lengths, Capacity
<1>3. ASSUME NEW i \in 1..(T - H)
      PROVE  buffer[slot(H + i - 1)].write = H + i - 1
  <2>1. PICK n \in Nat : n = H + i - 1
    BY <1>2
  <2>2. n \in 1..writes /\ n > writes - capacity
    BY <1>2, <2>1, Capacity
  <2>3. buffer[slot(n)].write = n
    BY <2>2 DEF Inv, SlotsHoldLastLap
  <2>4. QED
    BY <2>1, <2>3
<1>4. Queued = Consecutive(H, T - H)
  <2>1. Queued = [i \in 1..(T - H) |-> buffer[slot(H + i - 1)].write]
    BY <1>1 DEF Queued
  <2>2. QED
    BY <1>3, <2>1 DEF Consecutive
<1>5. Delivered = Consecutive(1, H - 1)
  <2>1. ASSUME NEW i \in 1..(H - 1)
        PROVE  got[i] = 1 + i - 1
    BY <1>2 DEF Inv, InOrder
  <2>2. /\ Delivered \in Seq(Nat) /\ Len(Delivered) = H - 1
        /\ \A i \in 1..(H - 1) : Delivered[i] = 1 + i - 1
    BY <1>1, <1>2, <2>1 DEF Delivered
  <2>3. PICK n \in Nat : n = H - 1
    BY <1>2
  <2>4. /\ Consecutive(1, n) \in Seq(Int) /\ Len(Consecutive(1, n)) = n
        /\ \A i \in 1..n : Consecutive(1, n)[i] = 1 + i - 1
    BY DEF Consecutive
  <2>5. QED
    BY <2>2, <2>3, <2>4
<1>6. QED
  BY <1>1, <1>4, <1>5 DEF Mapped

\* The store of tail puts an item.
LEMMA PutStep == ASSUME Inv, Mapped, Mapped', EnqueueStore
                 PROVE  \E v \in 1..MaxEnqueues : Fifo!Put(v)
<1>1. PICK H \in Nat, T \in Nat : H = Len(head) /\ T = Len(tail)
  BY Lengths
<1>2. /\ producer = "store" /\ writes = T /\ head' = head
      /\ tail' = Store(tail, next(cur_tail), writes)
  BY <1>1 DEF EnqueueStore, cVars, Inv, ViewsCount
<1>3. /\ H >= 1 /\ H <= T /\ T - H < Size /\ T \in 1..MaxEnqueues
  BY <1>1, <1>2, Lengths, BoundAssumption, SizeAssumption
     DEF Inv, WithinBound, WithinRing
<1>4. Len(tail') = T + 1
  BY <1>1, <1>2 DEF Store, Inv, TypeOK
<1>5. PICK n \in Nat : n = T - H
  BY <1>3
<1>6. Queued = Consecutive(H, n) /\ Delivered = Consecutive(1, H - 1)
  BY <1>1, <1>5 DEF Mapped
<1>7. Queued' = Consecutive(H, n + 1) /\ Delivered' = Consecutive(1, H - 1)
  <2>1. (T + 1) - H = n + 1
    BY <1>5
  <2>2. QED
    BY <1>1, <1>2, <1>4, <2>1 DEF Mapped
<1>8. Len(Queued) < Size /\ Queued' = Append(Queued, T)
  <2>1. T = H + n
    BY <1>5
  <2>2. /\ Len(Consecutive(H, n)) = n
        /\ Append(Consecutive(H, n), H + n) = Consecutive(H, n + 1)
    BY ConsecutiveFacts
  <2>3. Len(Queued) < Size
    BY <1>3, <1>5, <1>6, <2>2
  <2>4. Queued' = Append(Queued, T)
    BY <1>6, <1>7, <2>1, <2>2, Zenon
  <2>5. QED
    BY <2>3, <2>4
<1>9. QED
  BY <1>3, <1>6, <1>7, <1>8 DEF Fifo!Put

\* The store of head takes an item.
LEMMA TakeStep == ASSUME Inv, Mapped, Mapped', DequeueStore
                  PROVE  Fifo!Take
<1>1. PICK H \in Nat, T \in Nat : H = Len(head) /\ T = Len(tail)
  BY Lengths
<1>2. /\ consumer = "store" /\ tail' = tail
      /\ head' = Store(head, next(cur_head), Len(got))
  BY DEF DequeueStore, pVars
<1>3. H >= 1 /\ H < T
  BY <1>1, <1>2, Lengths DEF Inv, WithinRing
<1>4. Len(head') = H + 1
  BY <1>1, <1>2 DEF Store, Inv, TypeOK
<1>5. PICK n \in Nat \ {0} : n = T - H
  BY <1>3
<1>6. PICK d \in Nat : d = H - 1
  BY <1>3
<1>7. Queued = Consecutive(H, n) /\ Delivered = Consecutive(1, d)
  BY <1>1, <1>5, <1>6 DEF Mapped
<1>8. Queued' = Consecutive(H + 1, n - 1) /\ Delivered' = Consecutive(1, d + 1)
  <2>1. T - (H + 1) = n - 1 /\ (H + 1) - 1 = d + 1
    BY <1>5, <1>6
  <2>2. QED
    BY <1>1, <1>2, <1>4, <2>1 DEF Mapped
<1>9. /\ Queued # <<>> /\ Head(Queued) = H /\ Queued' = Tail(Queued)
  <2>1. /\ Consecutive(H, n) # <<>> /\ Head(Consecutive(H, n)) = H
        /\ Tail(Consecutive(H, n)) = Consecutive(H + 1, n - 1)
    <3>1. n \in Nat /\ n > 0
      OBVIOUS
    <3>2. QED
      BY <3>1, ConsecutiveFacts
  <2>2. QED
    BY <1>7, <1>8, <2>1, Zenon
<1>10. Delivered' = Append(Delivered, H)
  <2>1. H = 1 + d
    BY <1>6
  <2>2. Append(Consecutive(1, d), 1 + d) = Consecutive(1, d + 1)
    BY ConsecutiveFacts
  <2>3. QED
    BY <1>7, <1>8, <2>1, <2>2, Zenon
<1>11. QED
  BY <1>9, <1>10 DEF Fifo!Take

\* The other steps leave the queue as it is.
LEMMA OtherStep == ASSUME Mapped, Mapped', tail' = tail, head' = head
                   PROVE  UNCHANGED <<Queued, Delivered>>
BY DEF Mapped

\* spsc_ring_buffer is a first-in first-out queue of Size items.
THEOREM Refinement == Spec => ImplementsFifo
<1>1. Init => Fifo!Init
  <2> SUFFICES ASSUME Init PROVE Fifo!Init
    OBVIOUS
  <2>1. Len(tail) = 1 /\ Len(head) = 1
    BY DEF Init, Store
  <2>2. Queued = <<>> /\ Delivered = <<>>
    BY <2>1, InitInv, MappedState DEF Mapped, Consecutive
  <2>3. QED
    BY <2>2 DEF Fifo!Init
<1>2. ASSUME Inv, Mapped, Mapped', [Next]_vars
      PROVE  [Fifo!Next]_<<Queued, Delivered>>
  <2>1. CASE EnqueueStore
    BY <1>2, <2>1, PutStep DEF Fifo!Next
  <2>2. CASE DequeueStore
    BY <1>2, <2>2, TakeStep DEF Fifo!Next
  <2>3. CASE EnqueueLoad \/ EnqueueWrite \/ DequeueLoad \/ DequeueRead \/ UNCHANGED vars
    <3>1. tail' = tail /\ head' = head
      BY <2>3 DEF EnqueueLoad, EnqueueWrite, DequeueLoad, DequeueRead,
                  vars, pVars, cVars
    <3>2. QED
      BY <1>2, <3>1, OtherStep
  <2>4. QED
    BY <1>2, <2>1, <2>2, <2>3 DEF Next
<1>3. QED
  BY <1>1, <1>2, Invariance, MappedState, PTL DEF Spec, ImplementsFifo, Fifo!Spec
=============================================================================
