--------------------------- MODULE SpscRingBuffer ---------------------------
(***************************************************************************)
(* ParallelProgramming/spsc_ring_buffer.h: a ring of Size + 1 slots shared *)
(* by one producer and one consumer, under the C++11 memory model.         *)
(*                                                                         *)
(* head and tail are atomics.  Each keeps its modification order, the      *)
(* sequence of the values stored in it; an acquire load may return any     *)
(* value not older than the one its thread has already seen, so it may be  *)
(* stale.  A release store carries its thread's view, the number of slot   *)
(* accesses the thread has made; an acquire load that reads it makes those *)
(* accesses happen before whatever the loading thread does next.  Slots    *)
(* are plain memory and remember their last write and their last read, so  *)
(* that two conflicting accesses with no happens-before between them (a    *)
(* data race) can be told.  Only tail's producer stores it and only head's *)
(* consumer stores it, so a relaxed load of one's own index returns one's  *)
(* own last store and needs no step of its own.                            *)
(*                                                                         *)
(* Items are numbered by the order of the calls that enqueue them.         *)
(***************************************************************************)
EXTENDS Integers, Sequences

CONSTANTS Size,         \* the constructor's argument
          MaxEnqueues   \* bound: how many items are enqueued

ASSUME SizeAssumption == Size \in Nat
ASSUME BoundAssumption == MaxEnqueues \in Nat

\* A mutant: no spare slot to tell a full ring from an empty one.
capacity_NoSpare == Size

capacity == Size + 1
Slots == 0..Size

next(index) == (index + 1) % capacity

VARIABLES
  buffer,      \* buffer[s]: the numbers of the last write and last read of s
  tail, head,  \* modification orders of the two atomics, oldest store first
  seenHead,    \* place in head of the store the producer read last
  seenTail,    \* place in tail of the store the consumer read last
  syncReads,   \* the consumer's reads that happen before the producer's next step
  syncWrites,  \* the producer's writes that happen before the consumer's next step
  producer,    \* what the producer does next
  consumer,    \* what the consumer does next
  writes,      \* number of slot writes made by the producer
  got          \* the items the consumer has read, in order

pVars == <<seenHead, syncReads, producer, writes, tail>>
cVars == <<seenTail, syncWrites, consumer, got, head>>
vars == <<buffer, pVars, cVars>>

\* The relaxed loads of enqueue and dequeue: the thread's own last store.
cur_tail == tail[Len(tail)].index
cur_head == head[Len(head)].index

Store(order, index, view) == Append(order, [index |-> index, view |-> view])
Later(a, b) == IF a > b THEN a ELSE b

Init == /\ buffer = [s \in Slots |-> [write |-> 0, read |-> 0]]
        /\ tail = Store(<<>>, 0, 0) /\ head = Store(<<>>, 0, 0)
        /\ seenHead = 1 /\ seenTail = 1
        /\ syncReads = 0 /\ syncWrites = 0
        /\ producer = "idle" /\ consumer = "idle"
        /\ writes = 0 /\ got = <<>>
-----------------------------------------------------------------------------
\* A mutant: head is loaded with memory_order_relaxed.
EnqueueLoad_Relaxed ==
  /\ producer = "idle" /\ writes < MaxEnqueues
  /\ \E k \in seenHead..Len(head) :
       /\ seenHead' = k
       /\ producer' = IF next(cur_tail) = head[k].index THEN "idle" ELSE "write"
  /\ UNCHANGED <<buffer, tail, writes, syncReads, cVars>>

\* A mutant: enqueue does not test for a full ring.
EnqueueLoad_NoTest ==
  /\ producer = "idle" /\ writes < MaxEnqueues
  /\ \E k \in seenHead..Len(head) :
       /\ seenHead' = k
       /\ syncReads' = Later(syncReads, head[k].view)
  /\ producer' = "write"
  /\ UNCHANGED <<buffer, tail, writes, cVars>>

\* enqueue: the acquire load of head, the load of tail, the test for a full ring.
EnqueueLoad ==
  /\ producer = "idle" /\ writes < MaxEnqueues
  /\ \E k \in seenHead..Len(head) :
       /\ seenHead' = k
       /\ syncReads' = Later(syncReads, head[k].view)
       /\ producer' = IF next(cur_tail) = head[k].index THEN "idle" ELSE "write"
  /\ UNCHANGED <<buffer, tail, writes, cVars>>

\* buffer[cur_tail] = node_t(v)
EnqueueWrite ==
  /\ producer = "write"
  /\ writes' = writes + 1
  /\ buffer' = [buffer EXCEPT ![cur_tail].write = writes']
  /\ producer' = "store"
  /\ UNCHANGED <<tail, seenHead, syncReads, cVars>>

\* The release store of tail; enqueue returns true.
EnqueueStore ==
  /\ producer = "store"
  /\ tail' = Store(tail, next(cur_tail), writes)
  /\ producer' = "idle"
  /\ UNCHANGED <<buffer, writes, seenHead, syncReads, cVars>>
-----------------------------------------------------------------------------
\* dequeue: the acquire load of tail, the load of head, the test for an empty ring.
DequeueLoad ==
  /\ consumer = "idle"
  /\ \E k \in seenTail..Len(tail) :
       /\ seenTail' = k
       /\ syncWrites' = Later(syncWrites, tail[k].view)
       /\ consumer' = IF tail[k].index = cur_head THEN "idle" ELSE "read"
  /\ UNCHANGED <<buffer, head, got, pVars>>

\* v = buffer[cur_head].val
DequeueRead ==
  /\ consumer = "read"
  /\ got' = Append(got, buffer[cur_head].write)
  /\ buffer' = [buffer EXCEPT ![cur_head].read = Len(got')]
  /\ consumer' = "store"
  /\ UNCHANGED <<head, seenTail, syncWrites, pVars>>

\* The release store of head; dequeue returns true.
DequeueStore ==
  /\ consumer = "store"
  /\ head' = Store(head, next(cur_head), Len(got))
  /\ consumer' = "idle"
  /\ UNCHANGED <<buffer, got, seenTail, syncWrites, pVars>>

Next == \/ EnqueueLoad \/ EnqueueWrite \/ EnqueueStore
        \/ DequeueLoad \/ DequeueRead \/ DequeueStore

Spec == Init /\ [][Next]_vars
-----------------------------------------------------------------------------
Stores == [index : Slots, view : Nat]

\* The slot that the n-th item goes through.
slot(n) == (n - 1) % capacity

\* Indices stay inside the ring, places inside the modification orders.
TypeOK == /\ buffer \in [Slots -> [write : Nat, read : Nat]]
          /\ tail \in Seq(Stores) /\ seenTail \in 1..Len(tail)
          /\ head \in Seq(Stores) /\ seenHead \in 1..Len(head)
          /\ syncReads \in Nat /\ syncWrites \in Nat /\ writes \in Nat
          /\ producer \in {"idle", "write", "store"}
          /\ consumer \in {"idle", "read", "store"}
          /\ got \in Seq(Nat)

(***************************************************************************)
(* Acquire and release order every pair of conflicting slot accesses: the  *)
(* slot enqueue is about to write was last read, and the slot dequeue is   *)
(* about to read was last written, by something that happens before.       *)
(* (The file's first comment: loads of the other side's index need a       *)
(* synchronizes-with relation, loads of one's own do not.)                 *)
(***************************************************************************)
NoDataRace ==
  /\ producer = "write" => buffer[cur_tail].read <= syncReads
  /\ consumer = "read" => buffer[cur_head].write <= syncWrites

(***************************************************************************)
(* However stale the index a thread may still load, comparing ring indices *)
(* never takes a full ring for an empty one or a lap for another: enqueue  *)
(* is refused exactly when Size items lie between that head and the tail,  *)
(* dequeue exactly when that tail is the head.                             *)
(***************************************************************************)
StaleIndexNeverMisleads ==
  /\ producer = "idle" => \A k \in seenHead..Len(head) :
       next(cur_tail) = head[k].index <=> Len(tail) - k = Size
  /\ consumer = "idle" => \A k \in seenTail..Len(tail) :
       tail[k].index = cur_head <=> k = Len(head)

\* The k-th store of an index stores the k-th item's slot, and its view is k - 1.
OrdersCount ==
  /\ \A k \in 1..Len(tail) : tail[k].index = slot(k) /\ tail[k].view = k - 1
  /\ \A k \in 1..Len(head) : head[k].index = slot(k) /\ head[k].view = k - 1

\* Slot accesses keep step with the stores, and what is synchronized is what is seen.
ViewsCount ==
  /\ writes = IF producer = "store" THEN Len(tail) ELSE Len(tail) - 1
  /\ Len(got) = IF consumer = "store" THEN Len(head) ELSE Len(head) - 1
  /\ syncReads = seenHead - 1 /\ syncWrites = seenTail - 1

\* Items are numbered up to the bound.
WithinBound == /\ writes <= MaxEnqueues
               /\ producer = "write" => writes < MaxEnqueues

\* Neither side laps the other, even measured by the oldest index it may see.
WithinRing ==
  /\ Len(tail) - seenHead <= Size
  /\ producer # "idle" => Len(tail) - seenHead < Size
  /\ Len(head) <= seenTail
  /\ consumer # "idle" => Len(head) < seenTail

\* The last lap of writes is in the slots; a slot was read by a turn of its own.
SlotsHoldLastLap ==
  /\ \A n \in 1..writes :
       n > writes - capacity => buffer[slot(n)].write = n
  /\ \A s \in Slots : buffer[s].read # 0 =>
       /\ buffer[s].read <= Len(got)
       /\ slot(buffer[s].read) = s

(***************************************************************************)
(* Items come out in the order they went in, none missing and none twice,  *)
(* although the consumer reads them from slots the producer reuses.        *)
(***************************************************************************)
InOrder == \A n \in 1..Len(got) : got[n] = n

\* The inductive invariant.
Inv == /\ TypeOK /\ OrdersCount /\ ViewsCount /\ WithinBound
       /\ WithinRing /\ SlotsHoldLastLap /\ InOrder

\* The refinement mapping: an item is in the queue from tail's store to head's.
Queued == [i \in 1..(Len(tail) - Len(head)) |->
             buffer[slot(Len(head) + i - 1)].write]
Delivered == SubSeq(got, 1, Len(head) - 1)

Fifo == INSTANCE BoundedFifo WITH queue <- Queued, delivered <- Delivered,
                                  Items <- 1..MaxEnqueues

\* The ring is a first-in first-out queue of Size items: none lost, none twice.
ImplementsFifo == Fifo!Spec
=============================================================================
