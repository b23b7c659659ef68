------------------------------ MODULE Peterson ------------------------------
(***************************************************************************)
(* ParallelProgramming/peterson_mutex.h: the two-thread lock.  Every       *)
(* access to want and victim is a sequentially consistent atomic, so each  *)
(* load and each store is a step of its own and steps interleave.          *)
(*                                                                         *)
(* The callers are the two threads 0 and 1.  Each calls lock(t) when it    *)
(* does not hold the lock and unlock(t) when it does, with its own t.      *)
(***************************************************************************)
EXTENDS Integers

Threads == {0, 1}
Other(t) == 1 - t

VARIABLES
  want,    \* want[t]: t holds the lock or is trying to
  victim,  \* the thread that has to wait when both try
  pc       \* pc[t]: the step of lock() or unlock() that t takes next

vars == <<want, victim, pc>>

\* t is in the loop of lock().
Spinning(t) == pc[t] \in {"load_want", "load_victim"}

Init == /\ want = [t \in Threads |-> FALSE]
        /\ victim = 0
        /\ pc = [t \in Threads |-> "idle"]

\* lock(t): want[t].store(true)
StoreWant(t) == /\ pc[t] = "idle"
                /\ want' = [want EXCEPT ![t] = TRUE]
                /\ pc' = [pc EXCEPT ![t] = "store_victim"]
                /\ UNCHANGED victim

\* A mutant: the polite thread makes the other one wait.
StoreVictim_Other(t) == /\ pc[t] = "store_victim"
                        /\ victim' = Other(t)
                        /\ pc' = [pc EXCEPT ![t] = "load_want"]
                        /\ UNCHANGED want

\* victim.store(t)
StoreVictim(t) == /\ pc[t] = "store_victim"
                  /\ victim' = t
                  /\ pc' = [pc EXCEPT ![t] = "load_want"]
                  /\ UNCHANGED want

\* The left operand of the loop's condition: want[1 - t].load()
LoadWant(t) == /\ pc[t] = "load_want"
               /\ pc' = [pc EXCEPT ![t] = IF want[Other(t)] THEN "load_victim"
                                                            ELSE "critical"]
               /\ UNCHANGED <<want, victim>>

\* A mutant: the loop tests for the wrong victim.
LoadVictim_Swapped(t) ==
  /\ pc[t] = "load_victim"
  /\ pc' = [pc EXCEPT ![t] = IF victim = t THEN "critical" ELSE "load_want"]
  /\ UNCHANGED <<want, victim>>

\* The right operand, victim.load() == t: another round or the lock is taken.
LoadVictim(t) ==
  /\ pc[t] = "load_victim"
  /\ pc' = [pc EXCEPT ![t] = IF victim = t THEN "load_want" ELSE "critical"]
  /\ UNCHANGED <<want, victim>>

\* A mutant: unlock() forgets want[t].
Unlock_KeepsWant(t) == /\ pc[t] = "critical"
                       /\ pc' = [pc EXCEPT ![t] = "idle"]
                       /\ UNCHANGED <<want, victim>>

\* unlock(t): want[t].store(false)
Unlock(t) == /\ pc[t] = "critical"
             /\ want' = [want EXCEPT ![t] = FALSE]
             /\ pc' = [pc EXCEPT ![t] = "idle"]
             /\ UNCHANGED victim

Step(t) == \/ StoreWant(t)
           \/ StoreVictim(t)
           \/ LoadWant(t)
           \/ LoadVictim(t)
           \/ Unlock(t)

Next == \E t \in Threads : Step(t)

Spec == Init /\ [][Next]_vars

(***************************************************************************)
(* A thread inside lock() keeps being scheduled (the loop yields, it never *)
(* blocks).  Whether a thread ever calls lock(), or ever gives the lock    *)
(* back, is its own business: neither is assumed.                          *)
(***************************************************************************)
InLock(t) == StoreVictim(t) \/ LoadWant(t) \/ LoadVictim(t)
Fairness == \A t \in Threads : WF_vars(InLock(t))
FairSpec == Spec /\ Fairness
-----------------------------------------------------------------------------
\* The variables keep their types: want is two booleans, victim is a thread.
TypeOK == /\ want \in [Threads -> BOOLEAN]
          /\ victim \in Threads
          /\ pc \in [Threads -> {"idle", "store_victim", "load_want",
                                 "load_victim", "critical"}]

\* lock() never returns to a thread while the other one holds the lock.
MutualExclusion == ~(pc[0] = "critical" /\ pc[1] = "critical")

\* want[t] is up exactly from the first store of lock(t) to unlock(t).
WantIsUp == \A t \in Threads : want[t] <=> pc[t] # "idle"

\* The holder has a claim the spinning thread cannot ignore: it is the victim.
HolderIsSafe ==
  \A t \in Threads : pc[t] = "critical" =>
    /\ pc[Other(t)] # "critical"
    /\ Spinning(Other(t)) => victim = Other(t)

(***************************************************************************)
(* The inductive invariant.  MutualExclusion alone is not inductive: it    *)
(* says nothing of a thread about to leave the loop of lock().             *)
(***************************************************************************)
Inv == TypeOK /\ WantIsUp /\ HolderIsSafe

(***************************************************************************)
(* Bounded bypass: a thread in the loop whose rival is the victim is next. *)
(* As every call of lock() makes its caller the victim, the rival passes a *)
(* spinning thread at most once.                                           *)
(***************************************************************************)
NoSecondBypass ==
  [][\A t \in Threads : Spinning(t) /\ victim # t /\ pc[Other(t)] # "critical"
       => pc'[Other(t)] # "critical"]_vars

Phase(p) == IF p \in {"idle", "critical"} THEN p ELSE "waiting"

\* The refinement mapping.
LockPhase == [t \in Threads |-> Phase(pc[t])]

Abstract == INSTANCE AbstractLock WITH phase <- LockPhase

\* Every step of lock() and unlock() is a step of the abstract lock, or none.
LockSafety == Abstract!Spec

\* lock() also starves nobody who asks while the lock is free again and again.
LockRefinement == Abstract!FairSpec
=============================================================================
