--------------------------- MODULE LockFreeQueue ---------------------------
(***************************************************************************)
(* ParallelProgramming/lock_free_queue.h: a linked queue after Michael and *)
(* Scott, whose nodes are deleted by a thread that finds itself alone.     *)
(* Every access to an atomic is sequentially consistent and a step of its  *)
(* own.  A node's value is the node itself.                                *)
(*                                                                         *)
(* Nodes are numbered in the order of allocation; node 1 is the dummy that *)
(* the constructor makes.  Memory is not reused.  When a node that is      *)
(* still part of the queue, or about to be touched, has been deleted, what *)
(* follows is undefined and the model stops (see Broken).                  *)
(***************************************************************************)
EXTENDS Naturals, Sequences, FiniteSets

CONSTANTS Threads,
          MaxEnqueues, MaxDequeues   \* bounds: how many calls are made in all

ASSUME ThreadsAssumption == IsFiniteSet(Threads)
ASSUME BoundsAssumption == MaxEnqueues \in Nat /\ MaxDequeues \in Nat

Null == 0
Nodes == 1..(MaxEnqueues + 1)

VARIABLES
  q,           \* the atomics: Head, Tail, threads_in_pop, to_be_deleted
  next,        \* next[n]: the atomic in node n
  allocated,   \* the nodes are 1..allocated
  freed,       \* the nodes that have been deleted
  delivered,   \* the items dequeued, in the order Head passed them
  dequeues,    \* calls of dequeue so far
  overshot,    \* TRUE once try_reclaim has set out to delete up to a node past Head
  pc,          \* pc[t]: the step t takes next
  local        \* local[t]: the local variables of t's call

rest == <<next, allocated, freed, delivered, dequeues, overshot>>
vars == <<q, rest, pc, local>>

\* curr_next is curr_tail_next or curr_head_next; cursor is the tail that enqueue
\* loads again, or nodes in delete_nodes; found tells whether dequeue returns true.
NoLocals == [curr_head |-> Null, curr_tail |-> Null, curr_next |-> Null,
             new_node |-> Null, cursor |-> Null, found |-> FALSE]

Init == /\ q = [Head |-> 1, Tail |-> 1, threads_in_pop |-> 0, to_be_deleted |-> 1]
        /\ next = [n \in Nodes |-> Null]
        /\ allocated = 1 /\ freed = {} /\ delivered = <<>> /\ dequeues = 0
        /\ overshot = FALSE
        /\ pc = [t \in Threads |-> "idle"]
        /\ local = [t \in Threads |-> NoLocals]

From(t, label) == pc[t] = label
To(t, label) == pc' = [pc EXCEPT ![t] = label]
Set(t, field, value) == local' = [local EXCEPT ![t][field] = value]

\* A load of an atomic into a local variable.
Load(t, field, value) == Set(t, field, value) /\ UNCHANGED <<q, rest>>

\* The end of a call, or of a round of dequeue's loop: threads_in_pop.fetch_sub(1).
Leave(t, label) == /\ q' = [q EXCEPT !.threads_in_pop = @ - 1]
                   /\ local' = [local EXCEPT ![t] = NoLocals]
                   /\ To(t, label)
                   /\ UNCHANGED rest
-----------------------------------------------------------------------------
\* enqueue: new node_t, threads_in_pop.fetch_add(1)
Enqueue(t) == /\ From(t, "idle") /\ allocated <= MaxEnqueues
              /\ allocated' = allocated + 1
              /\ Set(t, "new_node", allocated')
              /\ q' = [q EXCEPT !.threads_in_pop = @ + 1]
              /\ To(t, "load_tail")
              /\ UNCHANGED <<next, freed, delivered, dequeues, overshot>>

LoadTail(t) == /\ From(t, "load_tail") /\ To(t, "load_tail_next")
               /\ Load(t, "curr_tail", q.Tail)

\* curr_tail->next and the test for nullptr
LoadTailNext(t) ==
  LET n == next[local[t].curr_tail]
  IN  /\ From(t, "load_tail_next")
      /\ To(t, IF n = Null THEN "load_tail_again" ELSE "help_enqueuer")
      /\ Load(t, "curr_next", n)

\* Tail.load() on line 55
LoadTailAgain(t) == /\ From(t, "load_tail_again") /\ To(t, "link")
                    /\ Load(t, "cursor", q.Tail)

\* next.compare_exchange_weak(nullptr, new_node) succeeds.
Link(t) == /\ From(t, "link") /\ next[local[t].cursor] = Null
           /\ next' = [next EXCEPT ![local[t].cursor] = local[t].new_node]
           /\ To(t, "swing_tail")
           /\ UNCHANGED <<q, allocated, freed, delivered, dequeues, overshot, local>>

\* It fails: the node has a successor, or for no reason, being weak.
LinkFails(t) == /\ From(t, "link") /\ To(t, "load_tail")
                /\ UNCHANGED <<q, rest, local>>

\* Tail.compare_exchange succeeds, or fails because Tail is another node.
CasTail(expected, desired) ==
  q' = [q EXCEPT !.Tail = IF @ = expected THEN desired ELSE @]

\* compare_exchange_weak(curr_tail, curr_tail_next); it may fail for no reason.
HelpEnqueuer(t) == /\ From(t, "help_enqueuer") /\ To(t, "load_tail")
                   /\ CasTail(local[t].curr_tail, local[t].curr_next) \/ UNCHANGED q
                   /\ UNCHANGED <<rest, local>>

\* compare_exchange_weak(curr_tail, new_node); it may fail for no reason.
SwingTail(t) == /\ From(t, "swing_tail") /\ To(t, "leave_enqueue")
                /\ CasTail(local[t].curr_tail, local[t].new_node) \/ UNCHANGED q
                /\ UNCHANGED <<rest, local>>

LeaveEnqueue(t) == From(t, "leave_enqueue") /\ Leave(t, "idle")
-----------------------------------------------------------------------------
\* A call of dequeue.
Dequeue(t) == /\ From(t, "idle") /\ dequeues < MaxDequeues
              /\ dequeues' = dequeues + 1
              /\ To(t, "enter")
              /\ UNCHANGED <<q, next, allocated, freed, delivered, overshot, local>>

\* The loop: threads_in_pop.fetch_add(1)
Enter(t) == /\ From(t, "enter") /\ To(t, "load_head")
            /\ q' = [q EXCEPT !.threads_in_pop = @ + 1]
            /\ UNCHANGED <<rest, local>>

LoadHead(t) == /\ From(t, "load_head") /\ To(t, "load_heads_tail")
               /\ Load(t, "curr_head", q.Head)

LoadHeadsTail(t) == /\ From(t, "load_heads_tail") /\ To(t, "load_head_next")
                    /\ Load(t, "curr_tail", q.Tail)

\* A mutant: dequeue does not test for a tail that lags behind.
LoadHeadNext_NoLag(t) ==
  LET n == next[local[t].curr_head]
  IN  /\ From(t, "load_head_next")
      /\ To(t, IF n = Null THEN "empty" ELSE "take")
      /\ Load(t, "curr_next", n)

\* A mutant: the queue counts as empty when Head is Tail.
LoadHeadNext_TailOnly(t) ==
  LET n == next[local[t].curr_head]
  IN  /\ From(t, "load_head_next")
      /\ To(t, IF local[t].curr_head = local[t].curr_tail THEN "empty" ELSE "take")
      /\ Load(t, "curr_next", n)

\* curr_head->next and the two tests
LoadHeadNext(t) ==
  LET n == next[local[t].curr_head]
  IN  /\ From(t, "load_head_next")
      /\ To(t, CASE local[t].curr_head # local[t].curr_tail -> "take"
                 [] local[t].curr_head = local[t].curr_tail /\ n = Null -> "empty"
                 [] OTHER -> "help_dequeuer")
      /\ Load(t, "curr_next", n)

\* return false
Empty(t) == From(t, "empty") /\ Leave(t, "idle")

\* A mutant: dequeue waits for the enqueuer to move Tail.
HelpDequeuer_NoHelp(t) == /\ From(t, "help_dequeuer") /\ To(t, "count")
                          /\ UNCHANGED <<q, rest, local>>

(***************************************************************************)
(* Tail.compare_exchange_strong(curr_head, curr_head_next): when it fails, *)
(* it leaves in curr_head what Tail is.                                    *)
(***************************************************************************)
HelpDequeuer(t) == /\ From(t, "help_dequeuer") /\ To(t, "count")
                   /\ CasTail(local[t].curr_head, local[t].curr_next)
                   /\ IF q.Tail = local[t].curr_head
                      THEN UNCHANGED local ELSE Set(t, "curr_head", q.Tail)
                   /\ UNCHANGED rest

\* The exchange of Head, and the item it passes.
StoreHead(t) == /\ q' = [q EXCEPT !.Head = local[t].curr_next]
                /\ delivered' = Append(delivered, local[t].curr_next)
                /\ To(t, "read")
                /\ UNCHANGED <<next, allocated, freed, dequeues, overshot, local>>

\* A mutant: Head is stored, not compared.
Take_NoCompare(t) == From(t, "take") /\ StoreHead(t)

\* Head.compare_exchange_strong(curr_head, curr_head_next) succeeds.
Take(t) == From(t, "take") /\ q.Head = local[t].curr_head /\ StoreHead(t)

\* It fails and leaves in curr_head what Head is.
TakeFails(t) == /\ From(t, "take") /\ q.Head # local[t].curr_head /\ To(t, "count")
                /\ Load(t, "curr_head", q.Head)

\* item = curr_head_next->value; try_reclaim(curr_head_next)
Read(t) == /\ From(t, "read") /\ To(t, "count")
           /\ local' = [local EXCEPT ![t].found = TRUE,
                                     ![t].curr_head = local[t].curr_next]
           /\ UNCHANGED <<q, rest>>
-----------------------------------------------------------------------------
\* The nodes that can be reached from n, in order.
Chain(n) == LET chain[m \in Nodes \cup {Null}] ==
                  IF m = Null THEN <<>> ELSE <<m>> \o chain[next[m]]
            IN  chain[n]

Members(n) == LET c == Chain(n) IN {c[i] : i \in DOMAIN c}

\* Head has not come to node n yet.
IsPastHead(n) == q.Head \notin Members(n)

\* A mutant: one other thread at work is thought harmless.
Count_AtMostTwo(t) ==
  /\ From(t, "count")
  /\ To(t, IF q.threads_in_pop <= 2 THEN "load_deleted" ELSE "leave_dequeue")
  /\ overshot' = (overshot \/ (q.threads_in_pop <= 2 /\ IsPastHead(local[t].curr_head)))
  /\ UNCHANGED <<q, next, allocated, freed, delivered, dequeues, local>>

\* try_reclaim: threads_in_pop.load() == 1
Count(t) ==
  /\ From(t, "count")
  /\ To(t, IF q.threads_in_pop = 1 THEN "load_deleted" ELSE "leave_dequeue")
  /\ overshot' = (overshot \/ (q.threads_in_pop = 1 /\ IsPastHead(local[t].curr_head)))
  /\ UNCHANGED <<q, next, allocated, freed, delivered, dequeues, local>>

LoadDeleted(t) == /\ From(t, "load_deleted") /\ To(t, "delete")
                  /\ Load(t, "cursor", q.to_be_deleted)

\* The loop of delete_nodes.
Delete(t) == LET n == local[t].cursor
             IN  /\ From(t, "delete") /\ n # local[t].curr_head
                 /\ freed' = freed \cup {n}
                 /\ Set(t, "cursor", next[n])
                 /\ UNCHANGED <<q, next, allocated, delivered, dequeues, overshot, pc>>

\* A mutant: delete_nodes does not move to_be_deleted.
StoreDeleted_Forgotten(t) ==
  /\ From(t, "delete") /\ local[t].cursor = local[t].curr_head
  /\ To(t, "leave_dequeue")
  /\ UNCHANGED <<q, rest, local>>

\* to_be_deleted.store(cur_head)
StoreDeleted(t) == /\ From(t, "delete") /\ local[t].cursor = local[t].curr_head
                   /\ q' = [q EXCEPT !.to_be_deleted = local[t].curr_head]
                   /\ To(t, "leave_dequeue")
                   /\ UNCHANGED <<rest, local>>

\* The end of try_reclaim: dequeue returns true or goes round its loop.
LeaveDequeue(t) == /\ From(t, "leave_dequeue")
                   /\ Leave(t, IF local[t].found THEN "idle" ELSE "enter")
-----------------------------------------------------------------------------
\* The destructor has run.
Destroyed == q.to_be_deleted = Null

\* The node that t is about to read, to write or to delete.
Target(t) == CASE pc[t] = "load_tail_next" -> local[t].curr_tail
               [] pc[t] = "link"           -> local[t].cursor
               [] pc[t] = "load_head_next" -> local[t].curr_head
               [] pc[t] = "read"           -> local[t].curr_next
               [] pc[t] = "delete" /\ local[t].cursor # local[t].curr_head
                                           -> local[t].cursor
               [] OTHER                    -> Null

\* No node of the queue has been deleted.
QueueWhole == ~Destroyed => freed \cap Members(q.Head) = {}

\* A node has been deleted that is part of the queue, or in use.
Broken == ~QueueWhole \/ \E t \in Threads : Target(t) \in freed

\* The destructor, when no call is going on and none follows.
Destroy == /\ \A t \in Threads : From(t, "idle")
           /\ allocated > MaxEnqueues /\ dequeues = MaxDequeues /\ ~Destroyed
           /\ freed' = freed \cup Members(q.to_be_deleted)
           /\ q' = [q EXCEPT !.to_be_deleted = Null]
           /\ UNCHANGED <<next, allocated, delivered, dequeues, overshot, pc, local>>

EnqueueStep(t) == \/ LoadTail(t) \/ LoadTailNext(t) \/ LoadTailAgain(t)
                  \/ Link(t) \/ LinkFails(t) \/ HelpEnqueuer(t)
                  \/ SwingTail(t) \/ LeaveEnqueue(t)

DequeueStep(t) == \/ Enter(t) \/ LoadHead(t) \/ LoadHeadsTail(t) \/ LoadHeadNext(t)
                  \/ Empty(t) \/ HelpDequeuer(t) \/ Take(t) \/ TakeFails(t) \/ Read(t)
                  \/ Count(t) \/ LoadDeleted(t) \/ Delete(t) \/ StoreDeleted(t)
                  \/ LeaveDequeue(t)

Step(t) == ~Broken /\ (EnqueueStep(t) \/ DequeueStep(t))

Next == \/ \E t \in Threads : Step(t) \/ (~Broken /\ (Enqueue(t) \/ Dequeue(t)))
        \/ ~Broken /\ Destroy

Spec == Init /\ [][Next]_vars

(***************************************************************************)
(* A thread inside a call keeps being scheduled, and a weak exchange that  *)
(* could succeed again and again does so in the end.                       *)
(***************************************************************************)
Helps(t) == HelpEnqueuer(t) /\ CasTail(local[t].curr_tail, local[t].curr_next)

FairSpec == /\ Spec
            /\ \A t \in Threads : /\ WF_vars(Step(t))
                                  /\ SF_vars(~Broken /\ Link(t))
                                  /\ SF_vars(~Broken /\ Helps(t))
-----------------------------------------------------------------------------
InTryReclaim == {"load_deleted", "delete"}

\* The nodes that calls of enqueue have made and not linked yet.
Unlinked == {local[t].new_node : t \in {t \in Threads : pc[t] \in
  {"load_tail", "load_tail_next", "load_tail_again", "link", "help_enqueuer"}}}

\* Pointers lead to nodes or nowhere, and threads_in_pop counts the calls at work.
TypeOK ==
  /\ q \in [Head : Nodes, Tail : Nodes, to_be_deleted : Nodes \cup {Null},
            threads_in_pop : 0..Cardinality(Threads)]
  /\ q.threads_in_pop = Cardinality({t \in Threads : pc[t] \notin {"idle", "enter"}})
  /\ next \in [Nodes -> Nodes \cup {Null}]
  /\ allocated \in Nodes /\ freed \subseteq 1..allocated
  /\ dequeues \in 0..MaxDequeues

(***************************************************************************)
(* As long as try_reclaim has not set out for a node past Head, no node of *)
(* the queue is deleted, and no thread touches a deleted one, nor deletes  *)
(* it again, with any of the pointers it loaded before it was deleted.     *)
(***************************************************************************)
NoUseAfterFree == ~overshot => ~Broken

(***************************************************************************)
(* The nodes still to be deleted lead to Head, Head leads to Tail, and     *)
(* Tail is the last node or the last but one: Head never overtakes Tail.   *)
(***************************************************************************)
PointersInOrder ==
  ~Broken /\ ~Destroyed => /\ q.Head \in Members(q.to_be_deleted)
                          /\ q.Tail \in Members(q.Head)
                          /\ Len(Chain(q.Tail)) <= 2

\* Checked together: the types, and the order of the pointers.
Inv == TypeOK /\ PointersInOrder

(***************************************************************************)
(* threads_in_pop lets one thread at a time reclaim.  When none does, the  *)
(* nodes deleted are exactly those that were linked and are not on the     *)
(* list from to_be_deleted: the destructor leaves none behind.             *)
(***************************************************************************)
NothingLeaks ==
  LET reclaimers == {t \in Threads : pc[t] \in InTryReclaim}
  IN  /\ Cardinality(reclaimers) <= 1
      /\ reclaimers = {} /\ ~Broken =>
           freed = (1..allocated) \ (Members(q.to_be_deleted) \cup Unlinked)

\* dequeue returns false only if it has seen a moment when the queue was empty.
FalseMeansEmpty ==
  [][\A t \in Threads :
       pc'[t] = "empty" /\ pc[t] # "empty" => next[q.Head] = Null]_vars

Queued == Tail(Chain(q.Head))

Fifo == INSTANCE BoundedFifo WITH queue <- Queued, Size <- MaxEnqueues, Items <- Nodes

(***************************************************************************)
(* Linearizability: the exchange of a next puts an item at the end of a    *)
(* first-in first-out queue, the exchange of Head takes the first one.     *)
(***************************************************************************)
ImplementsFifo == Fifo!Spec

(***************************************************************************)
(* The threads help one another: whatever a call has left half done, every *)
(* other call comes to its end.                                            *)
(***************************************************************************)
CallsReturn == \A t \in Threads : pc[t] # "idle" ~> pc[t] = "idle" \/ Broken

(***************************************************************************)
(* try_reclaim deletes nodes up to cur_head, which is to be Head (the      *)
(* comment on line 112): never a node of the queue itself.                 *)
(***************************************************************************)
QueueIsKept == QueueWhole
=============================================================================
