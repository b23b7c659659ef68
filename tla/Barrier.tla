------------------------------ MODULE Barrier ------------------------------
(***************************************************************************)
(* ParallelProgramming/barrier.h: enter() under one std::mutex and one     *)
(* condition variable, which serves two waits: for everybody to come in    *)
(* (counter) and for everybody to have seen that (gate_counter).           *)
(*                                                                         *)
(* What runs between two releases of the mutex is cut at the tests of the  *)
(* two predicates.  A thread that is woken takes the mutex and tests again *)
(* in one step.  notify_one wakes any one waiter, whichever predicate it   *)
(* waits for; a waiter may also wake up on its own, which nobody may count *)
(* on.                                                                     *)
(***************************************************************************)
EXTENDS Naturals, FiniteSets

CONSTANTS Threads,   \* num_threads threads use the barrier
          Rounds,    \* bound: how often each of them calls enter()
          Eager,     \* TRUE: a caller may come again while others are still inside
          Spurious   \* TRUE: wait() may wake up on its own

ASSUME ThreadsAssumption == IsFiniteSet(Threads)
ASSUME RoundsAssumption == Rounds \in Nat

\* A mutant: the thread that makes the barrier is not counted.
num_threads_Others == Cardinality(Threads) - 1

num_threads == Cardinality(Threads)

VARIABLES
  counter, gate_counter,
  holder,      \* the threads that hold the mutex, one at most
  waiting,     \* the threads blocked in cv_enter.wait()
  pc,          \* pc[t]: "out", or the predicate t tests next: "in" or "gate"
  arrivals,    \* arrivals[t]: how often t has called enter()
  departures   \* departures[t]: how often enter() has returned to t

calls == <<arrivals, departures>>
vars == <<counter, gate_counter, holder, waiting, pc, arrivals, departures>>

Init == /\ counter = 0 /\ gate_counter = 0
        /\ holder = {} /\ waiting = {}
        /\ pc = [t \in Threads |-> "out"]
        /\ arrivals = [t \in Threads |-> 0]
        /\ departures = [t \in Threads |-> 0]
-----------------------------------------------------------------------------
\* cv_enter.notify_one()
NotifyOne == IF waiting = {} THEN UNCHANGED waiting
             ELSE \E w \in waiting : waiting' = waiting \ {w}

\* cv_enter.wait() with a predicate that is false: sleep and release the mutex.
Wait(t) == /\ waiting' = waiting \cup {t}
           /\ holder' = {}
           /\ UNCHANGED <<counter, gate_counter, pc, calls>>

\* t holds the mutex, or has been woken and gets it now.
Runs(t) == t \notin waiting /\ (holder = {t} \/ holder = {})

\* Everybody who came in with t last time has come out.
RoundIsOver(t) ==
  \A u \in Threads : departures[u] = arrivals[u] \/ arrivals[u] > arrivals[t]

\* enter(): the mutex, counter++.
Arrive(t) == /\ pc[t] = "out" /\ holder = {} /\ arrivals[t] < Rounds
             /\ Eager \/ RoundIsOver(t)
             /\ counter' = counter + 1
             /\ holder' = {t}
             /\ pc' = [pc EXCEPT ![t] = "in"]
             /\ arrivals' = [arrivals EXCEPT ![t] = @ + 1]
             /\ UNCHANGED <<gate_counter, waiting, departures>>

\* A mutant: wait() without a predicate, so that any wake-up lets t through.
PassIn_NoTest(t) == /\ pc[t] = "in" /\ Runs(t)
                    /\ NotifyOne
                    /\ gate_counter' = gate_counter + 1
                    /\ holder' = {t}
                    /\ pc' = [pc EXCEPT ![t] = "gate"]
                    /\ UNCHANGED <<counter, calls>>

\* Everybody is in: wake somebody, gate_counter++, on to the second wait.
PassIn(t) == /\ pc[t] = "in" /\ Runs(t) /\ counter = num_threads
             /\ NotifyOne
             /\ gate_counter' = gate_counter + 1
             /\ holder' = {t}
             /\ pc' = [pc EXCEPT ![t] = "gate"]
             /\ UNCHANGED <<counter, calls>>

\* Somebody is missing.
WaitIn(t) == pc[t] = "in" /\ Runs(t) /\ counter # num_threads /\ Wait(t)

Depart(t) == /\ holder' = {}
             /\ pc' = [pc EXCEPT ![t] = "out"]
             /\ departures' = [departures EXCEPT ![t] = @ + 1]
             /\ UNCHANGED arrivals

\* Everybody has been through the first wait: wake somebody, counter--, return.
PassGate(t) == /\ pc[t] = "gate" /\ Runs(t) /\ gate_counter = num_threads
               /\ NotifyOne
               /\ counter' = counter - 1
               /\ gate_counter' = IF counter' = 0 THEN 0 ELSE gate_counter
               /\ Depart(t)

\* Somebody is still in the first wait.
WaitGate(t) == pc[t] = "gate" /\ Runs(t) /\ gate_counter # num_threads /\ Wait(t)

\* A spurious wake-up.
WakeUp(t) == /\ Spurious /\ t \in waiting
             /\ waiting' = waiting \ {t}
             /\ UNCHANGED <<counter, gate_counter, holder, pc, calls>>

Inside(t) == PassIn(t) \/ WaitIn(t) \/ PassGate(t) \/ WaitGate(t)

Next == \E t \in Threads : Arrive(t) \/ Inside(t) \/ WakeUp(t)

Spec == Init /\ [][Next]_vars

(***************************************************************************)
(* A thread that is not blocked runs, and gets the mutex when it is free   *)
(* for good; callers are not obliged to call; no spurious wake-up is       *)
(* promised.                                                               *)
(***************************************************************************)
FairSpec == Spec /\ \A t \in Threads : WF_vars(Inside(t))
-----------------------------------------------------------------------------
\* The counters count threads, and only threads inside enter() are blocked.
TypeOK == /\ counter \in 0..num_threads /\ gate_counter \in 0..num_threads
          /\ holder \in SUBSET Threads /\ Cardinality(holder) <= 1
          /\ pc \in [Threads -> {"out", "in", "gate"}]
          /\ waiting \subseteq {t \in Threads : pc[t] # "out"} \ holder
          /\ arrivals \in [Threads -> 0..Rounds]
          /\ departures \in [Threads -> 0..Rounds]

(***************************************************************************)
(* The first wait ends when all have gathered (the comment on line 32): a  *)
(* thread is past it only if nobody is still to arrive in the same round.  *)
(***************************************************************************)
WaitsForAll ==
  \A t, u \in Threads : pc[t] = "gate" => arrivals[u] >= arrivals[t]

(***************************************************************************)
(* When everybody has come in and somebody is still inside, some thread    *)
(* inside could go on if it looked: enter() can only hang by losing a      *)
(* wake-up, never by its counters.                                         *)
(***************************************************************************)
SomebodyMayGo ==
  (\A t, u \in Threads : arrivals[t] = arrivals[u])
    /\ (\E t \in Threads : pc[t] # "out")
  => \E t \in Threads : \/ pc[t] = "in" /\ counter = num_threads
                        \/ pc[t] = "gate" /\ gate_counter = num_threads

\* Checked together: types, who may be past the first wait, and that somebody may go on.
Inv == TypeOK /\ WaitsForAll /\ SomebodyMayGo

(***************************************************************************)
(* "Waits until all gather", line 32: when all have, nobody stays in the   *)
(* first wait for ever.                                                    *)
(***************************************************************************)
GatheredGoOn ==
  \A t \in Threads : (\A u \in Threads : arrivals[u] = Rounds) ~> pc[t] # "in"

Abstract == INSTANCE AbstractBarrier

\* Nobody comes out of a round before everybody has come in.
BarrierSafety == Abstract!Spec
=============================================================================
