---------------------------- MODULE AbstractLock ----------------------------
(***************************************************************************)
(* What a lock of ParallelProgramming promises its callers: a thread asks  *)
(* for the lock, gets it when nobody has it, and gives it back.            *)
(* peterson_mutex and tree_mutex both implement this specification: see    *)
(* LockRefinement in Peterson.tla and TreeMutex.tla.                       *)
(***************************************************************************)
CONSTANT Threads

VARIABLE phase      \* phase[t]: where t stands with the lock

Init == phase = [t \in Threads |-> "idle"]

\* t calls lock().
Request(t) == /\ phase[t] = "idle"
              /\ phase' = [phase EXCEPT ![t] = "waiting"]

\* lock() returns to t.
Acquire(t) == /\ phase[t] = "waiting"
              /\ \A u \in Threads : phase[u] # "critical"
              /\ phase' = [phase EXCEPT ![t] = "critical"]

\* The lock is free again: unlock() has undone what lock() did.
Release(t) == /\ phase[t] = "critical"
              /\ phase' = [phase EXCEPT ![t] = "idle"]

Next == \E t \in Threads : Request(t) \/ Acquire(t) \/ Release(t)

Spec == Init /\ [][Next]_phase

(***************************************************************************)
(* No starvation: a thread that waits while the lock becomes free again    *)
(* and again gets it.  Nothing is promised while a holder keeps it.        *)
(***************************************************************************)
FairSpec == Spec /\ \A t \in Threads : SF_phase(Acquire(t))
=============================================================================
