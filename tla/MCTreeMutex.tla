---------------------------- MODULE MCTreeMutex ----------------------------
(***************************************************************************)
(* tree_mutex.h for NumThreads threads that lock and unlock, and its index *)
(* arithmetic for every number of threads up to MaxThreads.                *)
(***************************************************************************)
EXTENDS TreeMutex, Sequences

CONSTANT MaxThreads

ASSUME MaxThreadsAssumption == MaxThreads \in Nat

Tree(n) == INSTANCE TreeIndex WITH NumThreads <- n

\* The nodes on the way of lock(): one after the other, from the first mutex on.
WayUp(n, thread) ==
  LET climb[m \in Nat] == IF m = 0 THEN <<0>> ELSE <<m>> \o climb[Tree(n)!parent_index(m)]
  IN  climb[Tree(n)!first_mutex(thread)]

(***************************************************************************)
(* The way of lock() stays inside the vector and has as many levels as     *)
(* upper_log2 says, and get_child, which computes the way down from        *)
(* heights alone, leads back through the same nodes.                       *)
(***************************************************************************)
Retraced(n, thread) ==
  LET way == WayUp(n, thread)
  IN  /\ Len(way) = Tree(n)!upper_log2(n)
      /\ \A k \in DOMAIN way : way[k] \in Tree(n)!Nodes
      /\ \A k \in 2..Len(way) : Tree(n)!get_child(way[k], thread) = way[k - 1]

\* unlock() takes the way of lock(), for every number of threads; tested while all are away.
UnlockRetracesLock ==
  (\A t \in Threads : pc[t] = "idle") =>
    \A n \in 1..MaxThreads : \A thread \in Tree(n)!Threads : Retraced(n, thread)
=============================================================================
