--------------------------- MODULE PetersonProofs ---------------------------
(***************************************************************************)
(* Proofs about peterson_mutex: the invariant Inv of Peterson.tla is       *)
(* inductive; mutual exclusion, bounded bypass and the implementation of   *)
(* AbstractLock's safety part follow from it, and so does what callers get *)
(* from the lock: no increment made under it is lost (MCPeterson.tla).     *)
(***************************************************************************)
EXTENDS MCPeterson, TLAPS

USE DEF Threads, Other

\* The constructor establishes the invariant.
LEMMA InitInv == Init => Inv
BY DEF Init, Inv, TypeOK, WantIsUp, HolderIsSafe, Spinning

\* Every step of lock() and unlock() preserves it.
LEMMA StepInv == ASSUME Inv, [Next]_vars
                 PROVE  Inv'
<1> USE DEF Inv, TypeOK, WantIsUp, HolderIsSafe, Spinning
<1>1. ASSUME NEW t \in Threads, StoreWant(t)
      PROVE  Inv'
  BY <1>1 DEF StoreWant
<1>2. ASSUME NEW t \in Threads, StoreVictim(t)
      PROVE  Inv'
  BY <1>2 DEF StoreVictim
<1>3. ASSUME NEW t \in Threads, LoadWant(t)
      PROVE  Inv'
  <2>1. CASE want[Other(t)]
    BY <1>3, <2>1 DEF LoadWant
  <2>2. CASE ~want[Other(t)]
    BY <1>3, <2>2 DEF LoadWant
  <2>3. QED
    BY <2>1, <2>2
<1>4. ASSUME NEW t \in Threads, LoadVictim(t)
      PROVE  Inv'
  BY <1>4 DEF LoadVictim
<1>5. ASSUME NEW t \in Threads, Unlock(t)
      PROVE  Inv'
  BY <1>5 DEF Unlock
<1>6. CASE UNCHANGED vars
  BY <1>6 DEF vars
<1>7. QED
  BY <1>1, <1>2, <1>3, <1>4, <1>5, <1>6 DEF Next, Step

\* The invariant holds in every state of every execution.
THEOREM Invariance == Spec => []Inv
<1>1. QED
  BY InitInv, StepInv, PTL DEF Spec

\* want, victim and the program counters keep their types.
THEOREM TypeCorrect == Spec => []TypeOK
<1>1. Inv => TypeOK
  BY DEF Inv
<1>2. QED
  BY <1>1, Invariance, PTL

\* lock() never returns to a thread while the other one holds the lock.
THEOREM Mutex == Spec => []MutualExclusion
<1>1. Inv => MutualExclusion
  BY DEF Inv, HolderIsSafe, MutualExclusion
<1>2. QED
  BY <1>1, Invariance, PTL

\* A spinning thread whose rival is the victim is next: the rival cannot pass.
THEOREM BoundedBypass == Spec => NoSecondBypass
<1> DEFINE Overtaking == \E t \in Threads :
             /\ Spinning(t) /\ victim # t /\ pc[Other(t)] # "critical"
             /\ pc'[Other(t)] = "critical"
<1>1. ASSUME Inv, [Next]_vars
      PROVE  ~Overtaking
  <2> SUFFICES ASSUME NEW t \in Threads, Spinning(t), victim # t,
                      pc[Other(t)] # "critical"
               PROVE  pc'[Other(t)] # "critical"
    OBVIOUS
  <2> USE DEF Inv, TypeOK, WantIsUp, Spinning
  <2>1. want[t] /\ victim = Other(t)
    BY <1>1
  <2>2. ASSUME NEW u \in Threads, Step(u)
        PROVE  pc'[Other(t)] # "critical"
    <3>1. CASE u = t
      BY <1>1, <2>2, <3>1 DEF Step, StoreWant, StoreVictim, LoadWant, LoadVictim, Unlock
    <3>2. CASE u = Other(t)
      BY <1>1, <2>1, <2>2, <3>2
      DEF Step, StoreWant, StoreVictim, LoadWant, LoadVictim, Unlock
    <3>3. QED
      BY <3>1, <3>2
  <2>3. CASE UNCHANGED vars
    BY <2>3 DEF vars
  <2>4. QED
    BY <1>1, <2>2, <2>3 DEF Next
<1>2. ~Overtaking => [\A t \in Threads :
         Spinning(t) /\ victim # t /\ pc[Other(t)] # "critical"
           => pc'[Other(t)] # "critical"]_vars
  OBVIOUS
<1>3. QED
  BY <1>1, <1>2, Invariance, PTL DEF Spec, NoSecondBypass

\* When one thread moves, the abstract lock sees that thread alone move.
LEMMA PhaseMove ==
  ASSUME TypeOK, NEW t \in Threads, NEW p, pc' = [pc EXCEPT ![t] = p]
  PROVE  LockPhase' = [LockPhase EXCEPT ![t] = Phase(p)]
BY DEF TypeOK, LockPhase

\* Each step maps to a step of the abstract lock or changes nothing there.
THEOREM ImplementsLock == Spec => LockSafety
<1>1. Init => Abstract!Init
  BY DEF Init, Abstract!Init, LockPhase, Phase
<1>2. ASSUME Inv, [Next]_vars
      PROVE  [Abstract!Next]_LockPhase
  <2>1. TypeOK
    BY <1>2 DEF Inv
  <2>2. ASSUME NEW t \in Threads
        PROVE  LockPhase[t] = Phase(pc[t])
    BY <2>2 DEF LockPhase
  <2>3. ASSUME NEW t \in Threads, StoreWant(t)
        PROVE  Abstract!Request(t)
    <3>1. LockPhase' = [LockPhase EXCEPT ![t] = Phase("store_victim")]
      BY <2>1, <2>3, PhaseMove DEF StoreWant
    <3>2. QED
      BY <2>2, <2>3, <3>1 DEF StoreWant, Abstract!Request, Phase
  <2>4. ASSUME NEW t \in Threads, NEW p, pc' = [pc EXCEPT ![t] = p],
               Phase(pc[t]) = "waiting", Phase(p) = "waiting"
        PROVE  UNCHANGED LockPhase
    <3>1. LockPhase' = [LockPhase EXCEPT ![t] = LockPhase[t]]
      BY <2>1, <2>2, <2>4, PhaseMove, ZenonT(60)
    <3>2. QED
      BY <3>1 DEF LockPhase
  <2>5. ASSUME NEW t \in Threads, pc' = [pc EXCEPT ![t] = "critical"],
               Phase(pc[t]) = "waiting", pc[Other(t)] # "critical"
        PROVE  Abstract!Acquire(t)
    <3>1. LockPhase' = [LockPhase EXCEPT ![t] = "critical"]
      BY <2>1, <2>5, PhaseMove DEF Phase
    <3>2. \A u \in Threads : LockPhase[u] # "critical"
      BY <2>2, <2>5 DEF Phase
    <3>3. QED
      BY <2>2, <2>5, <3>1, <3>2 DEF Abstract!Acquire
  <2>6. ASSUME NEW t \in Threads, LoadWant(t)
        PROVE  Abstract!Acquire(t) \/ UNCHANGED LockPhase
    <3>1. CASE want[Other(t)]
      BY <2>4, <2>6, <3>1 DEF LoadWant, Phase
    <3>2. CASE ~want[Other(t)]
      <4>1. pc[Other(t)] # "critical"
        BY <1>2, <2>6, <3>2 DEF Inv, WantIsUp
      <4>2. QED
        BY <2>5, <2>6, <3>2, <4>1 DEF LoadWant, Phase
    <3>3. QED
      BY <3>1, <3>2
  <2>7. ASSUME NEW t \in Threads, LoadVictim(t)
        PROVE  Abstract!Acquire(t) \/ UNCHANGED LockPhase
    <3>1. CASE victim = t
      BY <2>4, <2>7, <3>1 DEF LoadVictim, Phase
    <3>2. CASE victim # t
      <4>1. pc[Other(t)] # "critical"
        BY <1>2, <2>7, <3>2 DEF LoadVictim, Inv, HolderIsSafe, Spinning
      <4>2. QED
        BY <2>5, <2>7, <3>2, <4>1 DEF LoadVictim, Phase
    <3>3. QED
      BY <3>1, <3>2
  <2>8. ASSUME NEW t \in Threads, Unlock(t)
        PROVE  Abstract!Release(t)
    <3>1. LockPhase' = [LockPhase EXCEPT ![t] = Phase("idle")]
      BY <2>1, <2>8, PhaseMove DEF Unlock
    <3>2. QED
      BY <2>2, <2>8, <3>1 DEF Unlock, Abstract!Release, Phase
  <2>9. ASSUME NEW t \in Threads, StoreVictim(t)
        PROVE  UNCHANGED LockPhase
    BY <2>4, <2>9 DEF StoreVictim, Phase
  <2>10. CASE UNCHANGED vars
    BY <2>10 DEF vars, LockPhase
  <2>11. QED
    BY <1>2, <2>3, <2>6, <2>7, <2>8, <2>9, <2>10 DEF Next, Step, Abstract!Next
<1>3. QED
  BY <1>1, <1>2, Invariance, PTL DEF Spec, LockSafety, Abstract!Spec
-----------------------------------------------------------------------------
\* Who has read the shared variable holds the lock, and has the newest value.
ReadIsFresh == /\ shared \in 0..(Modulus - 1) /\ shared = added
               /\ local \in [Threads -> 0..Modulus]
               /\ \A t \in Threads : local[t] # None => pc[t] = "critical" /\ local[t] = shared

\* A caller's step keeps its view fresh, for the lock keeps the rival out.
LEMMA ClientStep ==
  ASSUME Inv, ReadIsFresh, [MCNext]_<<vars, client>>
  PROVE  ReadIsFresh' /\ [Next]_vars
<1> USE DEF ReadIsFresh, None
<1>1. ASSUME NEW t \in Threads, Read(t)
      PROVE  ReadIsFresh' /\ [Next]_vars
  BY <1>1, ModulusAssumption DEF Read, vars
<1>2. ASSUME NEW t \in Threads, WriteAndUnlock(t)
      PROVE  ReadIsFresh' /\ [Next]_vars
  <2>1. /\ local[t] = shared /\ local' = [local EXCEPT ![t] = Modulus] /\ Unlock(t)
        /\ shared' = (local[t] + 1) % Modulus /\ added' = (added + 1) % Modulus
    BY <1>2 DEF WriteAndUnlock
  <2>2. local[Other(t)] = Modulus
    BY <1>2, <2>1 DEF Inv, HolderIsSafe, Unlock
  <2>3. \A u \in Threads : local'[u] = Modulus
    BY <2>1, <2>2
  <2>4. shared' \in 0..(Modulus - 1) /\ shared' = added'
    BY <2>1, ModulusAssumption
  <2>5. local' \in [Threads -> 0..Modulus]
    BY <2>1, ModulusAssumption
  <2> QED BY <2>1, <2>3, <2>4, <2>5 DEF Next, Step
<1>3. ASSUME NEW t \in Threads, StoreWant(t) \/ InLock(t), UNCHANGED client
      PROVE  ReadIsFresh' /\ [Next]_vars
  <2>1. pc[t] # "critical" /\ Next /\ \A u \in Threads : u # t => pc'[u] = pc[u]
    BY <1>3 DEF InLock, StoreWant, StoreVictim, LoadWant, LoadVictim, Next, Step, Inv, TypeOK
  <2> QED BY <1>3, <2>1 DEF client
<1>4. CASE UNCHANGED <<vars, client>>
  BY <1>4 DEF vars, client
<1> QED BY <1>1, <1>2, <1>3, <1>4 DEF MCNext

\* No increment of the variable that the lock protects is lost.
THEOREM IncrementsKept == MCSpec => []NoLostUpdate
<1>1. MCInit => Inv /\ ReadIsFresh
  BY InitInv, ModulusAssumption DEF MCInit, ReadIsFresh, None
<1>2. Inv /\ ReadIsFresh /\ [MCNext]_<<vars, client>> => (Inv /\ ReadIsFresh)'
  BY ClientStep, StepInv
<1>3. Inv /\ ReadIsFresh => NoLostUpdate
  BY DEF ReadIsFresh, NoLostUpdate
<1> QED BY <1>1, <1>2, <1>3, PTL DEF MCSpec
=============================================================================
