---------------------------- MODULE BarrierProofs ----------------------------
(***************************************************************************)
(* Nobody comes out of the barrier before everybody has come in, and its   *)
(* counters never make everybody wait, for every number of threads and of  *)
(* rounds, whatever thread a wake-up reaches, and with wake-ups nobody has *)
(* sent.  This is so if no thread comes again while others are still       *)
(* inside, which enter() does not see to.                                  *)
(***************************************************************************)
EXTENDS Barrier, FiniteSetTheorems, TLAPS

Inner == {t \in Threads : pc[t] # "out"}
AtGate == {t \in Threads : pc[t] = "gate"}

\* Places, and a mutex; a call that has not returned is one arrival more than departures.
Places == /\ holder \in SUBSET Threads /\ (holder = {} \/ \E t \in Threads : holder = {t})
          /\ pc \in [Threads -> {"out", "in", "gate"}]
          /\ waiting \subseteq Inner \ holder
          /\ arrivals \in [Threads -> 0..Rounds]
          /\ departures \in [Threads -> 0..Rounds]
          /\ \A t \in Threads : arrivals[t] = IF pc[t] = "out" THEN departures[t]
                                                               ELSE departures[t] + 1
          /\ counter = Cardinality(Inner)

\* Round r + 1: the threads come in.
Gathering(r) == /\ gate_counter = 0
                /\ \A t \in Threads : \/ pc[t] = "out" /\ arrivals[t] = r
                                      \/ pc[t] = "in" /\ arrivals[t] = r + 1

\* All are in, and pass the first wait one after the other.
Passing(r) == /\ gate_counter = Cardinality(AtGate)
              /\ \A t \in Threads : pc[t] # "out" /\ arrivals[t] = r + 1

\* All have passed it, and leave; somebody is still inside.
Leaving(r) == /\ gate_counter = num_threads /\ Inner # {}
              /\ \A t \in Threads : pc[t] # "in" /\ arrivals[t] = r + 1

(***************************************************************************)
(* WaitsForAll and SomebodyMayGo say nothing of how far a round is, nor    *)
(* of what the counters count.                                             *)
(***************************************************************************)
IInv == /\ ~Eager
        /\ Places
        /\ \E r \in Nat : Gathering(r) \/ Passing(r) \/ Leaving(r)
-----------------------------------------------------------------------------
\* Sets of threads are finite, and the set of all of them is the only one of its size.
LEMMA Counts == ASSUME NEW S \in SUBSET Threads
                PROVE  /\ IsFiniteSet(S) /\ Cardinality(S) \in 0..num_threads
                       /\ num_threads \in Nat
                       /\ Cardinality(S) = num_threads => S = Threads
                       /\ Cardinality(S) = 0 => S = {}
<1>1. IsFiniteSet(S) /\ Cardinality(S) <= Cardinality(Threads)
      /\ (Cardinality(S) = Cardinality(Threads) => S = Threads)
  BY ThreadsAssumption, FS_Subset
<1>2. Cardinality(S) \in Nat /\ Cardinality(Threads) \in Nat
  BY <1>1, ThreadsAssumption, FS_CardinalityType
<1>3. Cardinality(S) = 0 => S = {}
  BY <1>1, FS_EmptySet
<1> QED BY <1>1, <1>2, <1>3 DEF num_threads

\* The counters count these.
LEMMA InnerAtGate == Inner \in SUBSET Threads /\ AtGate \in SUBSET Threads
BY DEF Inner, AtGate

\* Nobody is in the barrier at the start.
LEMMA InitInv == ~Eager /\ Init => IInv
<1> SUFFICES ASSUME ~Eager, Init PROVE IInv
  OBVIOUS
<1>1. Inner = {} /\ Cardinality({}) = 0
  BY FS_EmptySet DEF Init, Inner
<1>2. Places
  BY <1>1, RoundsAssumption DEF Init, Places
<1>3. Gathering(0)
  BY DEF Init, Gathering
<1> QED BY <1>2, <1>3 DEF IInv

\* A thread is woken, or none.
LEMMA Woken == NotifyOne => waiting' \subseteq waiting
BY DEF NotifyOne

\* A thread comes in: the round before is over.
LEMMA ArriveInv == ASSUME IInv, NEW t \in Threads, Arrive(t) PROVE IInv'
<1>1. /\ pc[t] = "out" /\ pc' = [pc EXCEPT ![t] = "in"] /\ arrivals[t] < Rounds
      /\ arrivals' = [arrivals EXCEPT ![t] = arrivals[t] + 1]
      /\ counter' = counter + 1 /\ holder' = {t}
      /\ UNCHANGED <<gate_counter, waiting, departures>> /\ RoundIsOver(t)
  BY DEF Arrive, IInv
<1>2. PICK r \in Nat : Gathering(r) \/ Passing(r) \/ Leaving(r)
  BY DEF IInv
<1>3. Gathering(r)
  <2>1. ~ Passing(r)
    BY <1>1 DEF Passing
  <2>2. ASSUME Leaving(r) PROVE FALSE
    <3>1. PICK u \in Threads : pc[u] = "gate"
      BY <2>2 DEF Leaving, Inner, IInv, Places
    <3>2. arrivals[u] = arrivals[t] /\ arrivals[u] = departures[u] + 1 /\ arrivals[u] \in Nat
          /\ departures[u] \in Nat
      BY <2>2, <3>1, RoundsAssumption DEF Leaving, IInv, Places
    <3> QED BY <1>1, <3>2 DEF RoundIsOver
  <2> QED BY <1>2, <2>1, <2>2
<1>4. Gathering(r)'
  BY <1>1, <1>3 DEF Gathering, IInv, Places
<1>5. Inner' = Inner \cup {t} /\ t \notin Inner
  BY <1>1 DEF Inner, IInv, Places
<1>6. Cardinality(Inner \cup {t}) = Cardinality(Inner) + 1
  BY <1>5, Counts, InnerAtGate, FS_AddElement
<1>7. Places'
  <2>1. arrivals' \in [Threads -> 0..Rounds] /\ departures' \in [Threads -> 0..Rounds]
    BY <1>1, RoundsAssumption DEF IInv, Places
  <2>2. \A u \in Threads : arrivals'[u] = IF pc'[u] = "out" THEN departures'[u]
                                                            ELSE departures'[u] + 1
    BY <1>1 DEF IInv, Places
  <2>3. waiting' \subseteq Inner' \ holder'
    BY <1>1, <1>5 DEF IInv, Places
  <2>4. counter' = Cardinality(Inner')
    BY <1>1, <1>5, <1>6 DEF IInv, Places
  <2> QED BY <1>1, <2>1, <2>2, <2>3, <2>4 DEF IInv, Places
<1> QED BY <1>4, <1>7 DEF IInv

\* A thread passes the first wait: everybody is in.
LEMMA PassInInv == ASSUME IInv, NEW t \in Threads, PassIn(t) PROVE IInv'
<1>1. /\ pc[t] = "in" /\ pc' = [pc EXCEPT ![t] = "gate"] /\ counter = num_threads
      /\ t \notin waiting /\ holder' = {t} /\ waiting' \subseteq waiting
      /\ gate_counter' = gate_counter + 1
      /\ UNCHANGED <<counter, arrivals, departures>>
  BY Woken DEF PassIn, Runs, calls
<1>2. PICK r \in Nat : Gathering(r) \/ Passing(r) \/ Leaving(r)
  BY DEF IInv
<1>3. Inner = Threads
  BY <1>1, Counts, InnerAtGate DEF IInv, Places
<1>4. Passing(r)
  <2>1. ~ Leaving(r)
    BY <1>1 DEF Leaving
  <2>2. ASSUME Gathering(r) PROVE Passing(r)
    <3>1. \A u \in Threads : pc[u] = "in" /\ arrivals[u] = r + 1
      BY <1>3, <2>2 DEF Gathering, Inner
    <3>2. AtGate = {}
      BY <3>1 DEF AtGate
    <3>3. Cardinality(AtGate) = 0
      BY <3>2, FS_EmptySet
    <3> QED BY <2>2, <3>1, <3>3 DEF Passing, Gathering
  <2> QED BY <1>2, <2>1, <2>2
<1>5. AtGate' = AtGate \cup {t} /\ t \notin AtGate /\ Inner' = Inner
  BY <1>1 DEF AtGate, Inner, IInv, Places
<1>6. Cardinality(AtGate \cup {t}) = Cardinality(AtGate) + 1
  BY <1>5, Counts, InnerAtGate, FS_AddElement
<1>7. Passing(r)'
  <2>1. \A u \in Threads : pc'[u] # "out" /\ arrivals'[u] = r + 1
    BY <1>1, <1>4 DEF Passing, IInv, Places
  <2> QED BY <1>1, <1>4, <1>5, <1>6, <2>1 DEF Passing
<1>8. Places'
  <2>1. \A u \in Threads : arrivals'[u] = IF pc'[u] = "out" THEN departures'[u]
                                                            ELSE departures'[u] + 1
    BY <1>1 DEF IInv, Places
  <2>2. waiting' \subseteq Inner' \ holder'
    BY <1>1, <1>5 DEF IInv, Places
  <2> QED BY <1>1, <1>5, <2>1, <2>2 DEF IInv, Places
<1> QED BY <1>7, <1>8 DEF IInv

\* Where a thread is that passes the second wait: everybody has passed the first one.
LEMMA AllPassed == ASSUME IInv, NEW t \in Threads, pc[t] = "gate", gate_counter = num_threads
                   PROVE  \E r \in Nat : Leaving(r)
<1>1. PICK r \in Nat : Gathering(r) \/ Passing(r) \/ Leaving(r)
  BY DEF IInv
<1>2. ~ Gathering(r)
  BY DEF Gathering
<1>3. ASSUME Passing(r) PROVE Leaving(r)
  <2>1. AtGate = Threads
    BY <1>3, Counts, InnerAtGate DEF Passing
  <2>2. \A u \in Threads : pc[u] = "gate"
    BY <2>1 DEF AtGate
  <2> QED BY <1>3, <2>2 DEF Passing, Leaving, Inner
<1> QED BY <1>1, <1>2, <1>3

\* A thread leaves; with the last one the round is over.
LEMMA PassGateInv == ASSUME IInv, NEW t \in Threads, PassGate(t) PROVE IInv'
<1>1. /\ pc[t] = "gate" /\ pc' = [pc EXCEPT ![t] = "out"] /\ gate_counter = num_threads
      /\ t \notin waiting /\ holder' = {} /\ waiting' \subseteq waiting
      /\ counter' = counter - 1
      /\ gate_counter' = IF counter' = 0 THEN 0 ELSE gate_counter
      /\ departures' = [departures EXCEPT ![t] = departures[t] + 1]
      /\ arrivals' = arrivals
  BY Woken DEF PassGate, Runs, Depart
<1>2. PICK r \in Nat : Leaving(r)
  BY <1>1, AllPassed
<1>3. Inner' = Inner \ {t} /\ t \in Inner
  BY <1>1 DEF Inner, IInv, Places
<1>4. Cardinality(Inner \ {t}) = Cardinality(Inner) - 1
  BY <1>3, Counts, InnerAtGate, FS_RemoveElement
<1>5. counter' = Cardinality(Inner')
  BY <1>1, <1>3, <1>4 DEF IInv, Places
<1>6. \A u \in Threads : /\ pc'[u] \in {"gate", "out"} /\ arrivals'[u] = r + 1
                         /\ pc'[u] = IF u = t THEN "out" ELSE pc[u]
  BY <1>1, <1>2 DEF Leaving, IInv, Places
<1>7. Gathering(r + 1)' \/ Leaving(r)'
  <2>1. CASE counter' = 0
    <3>1. Inner \ {t} = {}
      <4>1. Inner \ {t} \in SUBSET Threads
        BY InnerAtGate
      <4> QED BY <1>3, <1>5, <2>1, <4>1, Counts
    <3>2. \A u \in Threads : pc'[u] = "out"
      BY <1>6, <3>1 DEF Inner
    <3> QED BY <1>1, <1>6, <2>1, <3>2 DEF Gathering
  <2>2. CASE counter' # 0
    <3>1. Inner' # {}
      BY <1>5, <2>2, FS_EmptySet
    <3> QED BY <1>1, <1>6, <2>2, <3>1 DEF Leaving, num_threads
  <2> QED BY <2>1, <2>2
<1>8. Places'
  <2>1. \A u \in Threads : arrivals'[u] = IF pc'[u] = "out" THEN departures'[u]
                                                            ELSE departures'[u] + 1
    BY <1>1 DEF IInv, Places
  <2>2. waiting' \subseteq Inner' \ holder'
    BY <1>1, <1>3 DEF IInv, Places
  <2>3. departures' \in [Threads -> 0..Rounds]
    <3>1. departures[t] + 1 = arrivals[t] /\ arrivals[t] \in 0..Rounds
      BY <1>1 DEF IInv, Places
    <3> QED BY <1>1, <3>1 DEF IInv, Places
  <2> QED BY <1>1, <1>5, <2>1, <2>2, <2>3 DEF IInv, Places
<1>9. r + 1 \in Nat
  OBVIOUS
<1> QED BY <1>7, <1>8, <1>9 DEF IInv

\* Sleeping and waking change no counter.
LEMMA SleepInv ==
  ASSUME IInv, UNCHANGED <<counter, gate_counter, pc, arrivals, departures>>,
         waiting' \subseteq Inner \ holder', holder' \in {holder, {}}
  PROVE  IInv'
<1>1. Inner' = Inner /\ AtGate' = AtGate
  BY DEF Inner, AtGate
<1>2. Places'
  BY <1>1 DEF IInv, Places
<1>3. PICK r \in Nat : Gathering(r) \/ Passing(r) \/ Leaving(r)
  BY DEF IInv
<1>4. Gathering(r)' \/ Passing(r)' \/ Leaving(r)'
  BY <1>1, <1>3 DEF Gathering, Passing, Leaving, num_threads
<1> QED BY <1>2, <1>4 DEF IInv

\* Every step keeps the invariant.
LEMMA StepInv == IInv /\ [Next]_vars => IInv'
<1> SUFFICES ASSUME IInv, [Next]_vars PROVE IInv'
  OBVIOUS
<1>1. ASSUME NEW t \in Threads, WaitIn(t) \/ WaitGate(t) PROVE IInv'
  <2>1. /\ pc[t] # "out" /\ waiting' = waiting \cup {t} /\ holder' = {}
        /\ UNCHANGED <<counter, gate_counter, pc, arrivals, departures>>
    BY <1>1 DEF WaitIn, WaitGate, Wait, calls
  <2> QED BY <2>1, SleepInv DEF IInv, Places, Inner
<1>2. ASSUME NEW t \in Threads, WakeUp(t) PROVE IInv'
  BY <1>2, SleepInv DEF WakeUp, calls, IInv, Places
<1>3. CASE UNCHANGED vars
  BY <1>3, SleepInv DEF vars, IInv, Places
<1> QED BY <1>1, <1>2, <1>3, ArriveInv, PassInInv, PassGateInv DEF Next, Inside

\* The invariant holds in every state of every execution.
LEMMA Invariance == ~Eager /\ Spec => []IInv
BY InitInv, StepInv, PTL DEF Spec

\* The counters count threads.
LEMMA InvTypes == IInv => TypeOK
<1> SUFFICES ASSUME IInv PROVE TypeOK
  OBVIOUS
<1>1. Cardinality(holder) <= 1
  <2>1. CASE holder = {}
    BY <2>1, FS_EmptySet
  <2>2. ASSUME NEW t \in Threads, holder = {t} PROVE Cardinality(holder) <= 1
    BY <2>2, FS_Singleton
  <2> QED BY <2>1, <2>2 DEF IInv, Places
<1>2. counter \in 0..num_threads
  BY Counts, InnerAtGate DEF IInv, Places
<1>3. gate_counter \in 0..num_threads
  <2>1. PICK r \in Nat : Gathering(r) \/ Passing(r) \/ Leaving(r)
    BY DEF IInv
  <2>2. num_threads \in Nat /\ Cardinality(AtGate) \in 0..num_threads
    BY Counts, InnerAtGate
  <2> QED BY <2>1, <2>2 DEF Gathering, Passing, Leaving
<1> QED BY <1>1, <1>2, <1>3 DEF TypeOK, IInv, Places, Inner

\* A thread past the first wait has waited for all.
LEMMA InvWaits == IInv => WaitsForAll
<1> SUFFICES ASSUME IInv, NEW t \in Threads, NEW u \in Threads, pc[t] = "gate"
             PROVE  arrivals[u] >= arrivals[t]
  BY DEF WaitsForAll
<1>1. PICK r \in Nat : Gathering(r) \/ Passing(r) \/ Leaving(r)
  BY DEF IInv
<1> QED BY <1>1 DEF Gathering, Passing, Leaving

\* Whatever the counters are, they let somebody go on.
LEMMA InvGoes == IInv => SomebodyMayGo
<1> SUFFICES ASSUME IInv, \A t, u \in Threads : arrivals[t] = arrivals[u],
                    NEW s \in Threads, pc[s] # "out"
             PROVE  \E t \in Threads : \/ pc[t] = "in" /\ counter = num_threads
                                       \/ pc[t] = "gate" /\ gate_counter = num_threads
  BY DEF SomebodyMayGo
<1>1. PICK r \in Nat : Gathering(r) \/ Passing(r) \/ Leaving(r)
  BY DEF IInv
<1>2. CASE \A t \in Threads : pc[t] # "out"
  <2>1. Inner = Threads
    BY <1>2 DEF Inner
  <2>2. counter = num_threads
    BY <2>1 DEF IInv, Places, num_threads
  <2>3. CASE \E t \in Threads : pc[t] = "in"
    BY <2>2, <2>3
  <2>4. CASE \A t \in Threads : pc[t] = "gate"
    <3>1. AtGate = Threads
      BY <2>4 DEF AtGate
    <3>2. gate_counter = num_threads
      BY <1>1, <2>4, <3>1 DEF Gathering, Passing, Leaving, num_threads
    <3> QED BY <2>4, <3>2
  <2> QED BY <1>2, <2>3, <2>4 DEF IInv, Places
<1>3. CASE \E t \in Threads : pc[t] = "out"
  <2>1. ~ Gathering(r) /\ ~ Passing(r)
    BY <1>3 DEF Gathering, Passing
  <2>2. pc[s] = "gate" /\ gate_counter = num_threads
    BY <1>1, <2>1 DEF Leaving, IInv, Places
  <2> QED BY <2>2
<1> QED BY <1>2, <1>3

(***************************************************************************)
(* Inv: nobody passes the first wait before everybody has come in, and     *)
(* when everybody has, there is always somebody inside whom the counters   *)
(* let go on.                                                              *)
(***************************************************************************)
THEOREM Gathers == ~Eager /\ Spec => []Inv
<1>1. IInv => Inv
  BY InvTypes, InvWaits, InvGoes DEF Inv
<1> QED BY <1>1, Invariance, PTL
-----------------------------------------------------------------------------
\* Every step is an arrival, a departure after everybody's arrival, or neither.
LEMMA StepImplements == IInv /\ [Next]_vars => [Abstract!Next]_<<arrivals, departures>>
<1> SUFFICES ASSUME IInv, [Next]_vars
             PROVE  Abstract!Next \/ UNCHANGED <<arrivals, departures>>
  OBVIOUS
<1>1. ASSUME NEW t \in Threads, Arrive(t) PROVE Abstract!Arrive(t)
  BY <1>1 DEF Arrive, Abstract!Arrive, IInv, Places
<1>2. ASSUME NEW t \in Threads, PassGate(t) PROVE Abstract!Depart(t)
  <2>1. /\ pc[t] = "gate" /\ departures' = [departures EXCEPT ![t] = departures[t] + 1]
        /\ arrivals' = arrivals
    BY <1>2 DEF PassGate, Depart
  <2>2. departures[t] < arrivals[t]
    BY <2>1, RoundsAssumption DEF IInv, Places
  <2>3. \A u \in Threads : arrivals[u] >= arrivals[t]
    BY <2>1, InvWaits DEF WaitsForAll
  <2> QED BY <2>1, <2>2, <2>3 DEF Abstract!Depart
<1>3. ASSUME NEW t \in Threads, PassIn(t) \/ WaitIn(t) \/ WaitGate(t) \/ WakeUp(t)
      PROVE  UNCHANGED <<arrivals, departures>>
  BY <1>3 DEF PassIn, WaitIn, WaitGate, WakeUp, Wait, calls
<1>4. CASE UNCHANGED vars
  BY <1>4 DEF vars
<1> QED BY <1>1, <1>2, <1>3, <1>4 DEF Next, Inside, Abstract!Next

(***************************************************************************)
(* The barrier implements what a barrier promises: nobody comes out of a   *)
(* round before everybody has come in.                                     *)
(***************************************************************************)
THEOREM ImplementsBarrier == ~Eager /\ Spec => BarrierSafety
<1>1. Init => Abstract!Init
  BY DEF Init, Abstract!Init
<1> QED BY <1>1, Invariance, StepImplements, PTL DEF Spec, BarrierSafety, Abstract!Spec
=============================================================================
