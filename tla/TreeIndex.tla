----------------------------- MODULE TreeIndex -----------------------------
(***************************************************************************)
(* The index arithmetic of ParallelProgramming/tree_mutex.h.  The tree of  *)
(* two-thread mutexes is stored as a heap: node 0 is the root, the last    *)
(* level is reached by the threads in pairs, from the last node backwards. *)
(***************************************************************************)
EXTENDS Integers

CONSTANT NumThreads

ASSUME ThreadsAssumption == NumThreads \in Nat \ {0}

Threads == 0..(NumThreads - 1)

\* The do-while loop: the least number of doublings of 1, at least one, to reach n.
upper_log2(n) == CHOOSE k \in 1..(n + 1) : /\ 2^k >= n
                                           /\ k = 1 \/ 2^(k - 1) < n

tree_size == 2^upper_log2(NumThreads) - 1
Nodes == 0..(tree_size - 1)

\* The mutex that a thread locks first and unlocks last.
first_mutex(thread) == tree_size - 1 - thread \div 2

\* The argument of peterson_mutex::lock and unlock: odd indices are 0, even ones 1.
side_of(index) == (index + 1) % 2

parent_index(node) == (node - 1) \div 2

\* A mutant: the middle leaf is looked for in the wrong subtree.
get_child_Strict(node, thread) ==
  LET height == upper_log2(tree_size) - upper_log2(node + 2)
  IN  IF 2^height * node + (3 * (2^height - 1)) \div 2 > first_mutex(thread)
      THEN 2 * node + 1
      ELSE 2 * node + 2

\* The child of node on the way down to the thread's first mutex.
get_child(node, thread) ==
  LET height == upper_log2(tree_size) - upper_log2(node + 2)
  IN  IF 2^height * node + (3 * (2^height - 1)) \div 2 >= first_mutex(thread)
      THEN 2 * node + 1
      ELSE 2 * node + 2
=============================================================================
