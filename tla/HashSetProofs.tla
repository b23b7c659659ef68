---------------------------- MODULE HashSetProofs ----------------------------
(***************************************************************************)
(* The stripes of the hash set keep its threads apart, it grows once for   *)
(* each time it is full, its elements are where the calls look for them,   *)
(* its counter is exact and its calls are linearizable, for every number   *)
(* of threads, values and stripes and for every factor.                    *)
(***************************************************************************)
EXTENDS StripedHashSet, FunctionTheorems, FiniteSetTheorems, WellFoundedInduction, TLAPS
-----------------------------------------------------------------------------
\* Quotient and remainder.
LEMMA DivMod == ASSUME NEW C \in Nat \ {0}, NEW k \in Int
                PROVE  /\ k \div C \in Int
                       /\ k % C \in 0..(C - 1)
                       /\ k = (C * (k \div C)) + (k % C)
OBVIOUS

\* A multiple of C closer to zero than C is zero.
LEMMA SmallMultiple == ASSUME NEW C \in Nat \ {0}, NEW q \in Int,
                              C * q < C, C * q > 0 - C
                       PROVE  q = 0
OBVIOUS

\* Equal remainders by a multiple of C are equal remainders by C.
LEMMA SameRemainder == ASSUME NEW C \in Nat \ {0}, NEW k \in Nat \ {0},
                              NEW i \in Int, NEW j \in Int,
                              i % (k * C) = j % (k * C)
                       PROVE  i % C = j % C
<1> DEFINE m == k * C
           d == (i \div m) - (j \div m)
           e == (k * d) - ((i \div C) - (j \div C))
<1>1. m \in Nat \ {0}
  OBVIOUS
<1>2. /\ i \div m \in Int /\ j \div m \in Int
      /\ i = (m * (i \div m)) + (i % m)
      /\ j = (m * (j \div m)) + (j % m)
  <2> HIDE DEF m
  <2> QED BY <1>1, DivMod
<1>3. d \in Int /\ i - j = m * d
  <2>1. i % m = j % m /\ m \in Int /\ i % m \in Int
    <3>1. i % m \in 0..(m - 1)
      <4> HIDE DEF m
      <4> QED BY <1>1, DivMod
    <3> QED BY <1>1, <3>1
  <2> HIDE DEF m
  <2> QED BY <1>2, <2>1
<1>4. /\ i \div C \in Int /\ i % C \in 0..(C - 1) /\ i = (C * (i \div C)) + (i % C)
      /\ j \div C \in Int /\ j % C \in 0..(C - 1) /\ j = (C * (j \div C)) + (j % C)
  BY DivMod
<1>5. m * d = C * (k * d)
  <2> HIDE DEF d
  <2> QED BY <1>3
<1>6. e \in Int /\ C * e = (i % C) - (j % C)
  <2>1. k * d \in Int
    <3> HIDE DEF d
    <3> QED BY <1>3
  <2> DEFINE f == k * d
             a == i \div C
             b == j \div C
  <2>2. f \in Int /\ a \in Int /\ b \in Int /\ C * f = i - j
    BY <1>3, <1>4, <1>5, <2>1
  <2>3. C * (f - (a - b)) = (C * f) - ((C * a) - (C * b))
    <3> HIDE DEF f, a, b
    <3> QED BY <2>2
  <2>4. i - j = ((C * a) - (C * b)) + ((i % C) - (j % C))
    BY <1>4
  <2>5. C * a \in Int /\ C * b \in Int /\ i % C \in Int /\ j % C \in Int /\ f - (a - b) \in Int
    BY <1>4, <2>2
  <2>6. C * (f - (a - b)) = (i % C) - (j % C)
    <3> HIDE DEF f, a, b
    <3> QED BY <2>2, <2>3, <2>4, <2>5
  <2> QED BY <2>5, <2>6
<1>7. e = 0
  <2> HIDE DEF e
  <2>1. C * e < C /\ C * e > 0 - C
    BY <1>4, <1>6
  <2> QED BY <1>6, <2>1, SmallMultiple
<1> QED
  <2> HIDE DEF e
  <2>1. C * e = 0
    BY <1>7
  <2> QED BY <1>4, <1>6, <2>1

\* A set of natural numbers has a least element.
LEMMA Least == ASSUME NEW T \in SUBSET Nat, T # {}
               PROVE  \E x \in T : \A y \in T : x <= y
<1>1. IsWellFoundedOn(OpToRel(<, Nat), Nat)
  BY NatLessThanWellFounded
<1>2. PICK x \in T : \A y \in T : ~ (<<y, x>> \in OpToRel(<, Nat))
  BY <1>1, WFMin, Zenon
<1>3. \A y \in T : ~ (y < x)
  BY <1>2, Zenon DEF OpToRel
<1> QED BY <1>3

\* Induction over the natural numbers.
LEMMA InductionOverNat ==
  ASSUME NEW S, 0 \in S, \A n \in Nat : n \in S => n + 1 \in S
  PROVE  Nat \subseteq S
<1> SUFFICES ASSUME Nat \ S # {} PROVE FALSE
  OBVIOUS
<1>1. PICK x \in Nat \ S : \A y \in Nat \ S : x <= y
  BY Least
<1>2. x - 1 \in Nat /\ x - 1 \in S
  BY <1>1
<1> QED BY <1>1, <1>2

\* Induction over finite sets: S is any set of sets.
LEMMA InductionOverSets ==
  ASSUME NEW U, IsFiniteSet(U), NEW S,
         \A T \in SUBSET U : (\A x \in T : T \ {x} \in S) => T \in S
  PROVE  SUBSET U \subseteq S
<1> DEFINE N == {n \in Nat : \A T \in SUBSET U : Cardinality(T) = n => T \in S}
<1>1. \A T \in SUBSET U : IsFiniteSet(T) /\ Cardinality(T) \in Nat
  BY FS_Subset, FS_CardinalityType
<1>2. 0 \in N
  <2>1. ASSUME NEW T \in SUBSET U, Cardinality(T) = 0 PROVE T \in S
    BY <1>1, <2>1, FS_EmptySet
  <2> QED BY <2>1
<1>3. ASSUME NEW n \in Nat, n \in N PROVE n + 1 \in N
  <2>1. ASSUME NEW T \in SUBSET U, Cardinality(T) = n + 1 PROVE T \in S
    <3>1. ASSUME NEW x \in T PROVE T \ {x} \in S
      <4>1. Cardinality(T \ {x}) = Cardinality(T) - 1
        BY <1>1, FS_RemoveElement
      <4>2. Cardinality(T \ {x}) = n
        BY <2>1, <4>1
      <4> QED BY <1>3, <4>2
    <3> QED BY <3>1
  <2> QED BY <2>1
<1>4. Nat \subseteq N
  <2> HIDE DEF N
  <2> QED BY <1>2, <1>3, InductionOverNat
<1> QED BY <1>1, <1>4
-----------------------------------------------------------------------------
\* The labels of a call that holds the lock of its stripe, for itself or with others.
Exclusively == {"add", "remove", "count", "uncount", "check"}
Labels == Exclusively \cup
          {"idle", "lock_add", "lock_remove", "lock_contains", "contains", "rehash", "rehash_all"}

\* The parts of the state that the argument is about.
LocksOK == /\ unique \in [Threads -> SUBSET Stripes]
           /\ shared \in [Threads -> SUBSET Stripes]
           /\ pc \in [Threads -> Labels]
           /\ value \in [Threads -> Values]
           /\ num_of_buckets \in [Threads -> Nat]

\* Every stripe has as many buckets as every other one.
WholeStripes == \E k \in Nat \ {0} : DOMAIN buckets = 0..(k * n_stripes - 1)

\* A reader-writer lock.
Exclusion == \A t, u \in Threads :
               t # u => unique[t] \cap (unique[u] \cup shared[u]) = {}

\* A call that is at a bucket holds its stripe, rehash() holds the first one.
HoldsStripe == \A t \in Threads :
                 /\ pc[t] \in Exclusively => Stripe(t) \in unique[t]
                 /\ pc[t] = "contains" => Stripe(t) \in shared[t]
                 /\ pc[t] = "rehash_all" => 0 \in unique[t] /\ num_of_buckets[t] = size

(***************************************************************************)
(* StripesSeparate says nothing of a call that waits for its lock, nor of  *)
(* the number of buckets, on which the stripe of a bucket depends.         *)
(***************************************************************************)
IInv == LocksOK /\ WholeStripes /\ Exclusion /\ HoldsStripe
-----------------------------------------------------------------------------
\* The number of buckets is a multiple of the number of stripes.
LEMMA Size == ASSUME NEW k \in Nat \ {0}, DOMAIN buckets = 0..(k * n_stripes - 1)
              PROVE  size = k * n_stripes /\ size \in Nat \ {0}
<1> DEFINE m == k * n_stripes
<1>1. m \in Nat \ {0}
  BY StripesAssumption
<1> HIDE DEF m
<1>2. Cardinality(0..(m - 1)) = m
  <2>1. 0 \in Int /\ m - 1 \in Int /\ ~(0 > m - 1) /\ (m - 1) - 0 + 1 = m
    BY <1>1
  <2>2. Cardinality(0..(m - 1)) = IF 0 > m - 1 THEN 0 ELSE (m - 1) - 0 + 1
    BY <2>1, FS_Interval
  <2> QED BY <2>1, <2>2
<1>3. DOMAIN buckets = 0..(m - 1)
  BY DEF m
<1>4. size = m
  BY <1>2, <1>3 DEF size
<1> QED BY <1>1, <1>4 DEF m

\* A value's stripe.
LEMMA StripeOf == ASSUME NEW v \in Values PROVE get_stripe_index(v) \in Stripes /\ v \in Int
<1>1. v \in Int
  BY HashAssumption
<1> QED BY <1>1, DivMod, StripesAssumption DEF get_stripe_index, Stripes

\* The invariant holds at the start: nobody holds a lock.
LEMMA InitInv == Init => IInv
<1> SUFFICES ASSUME Init PROVE IInv
  OBVIOUS
<1> USE DEF Init
<1>1. LocksOK
  <2>1. (CHOOSE v \in Values : TRUE) \in Values
    BY HashAssumption
  <2> QED BY <2>1 DEF LocksOK, Labels
<1>2. WholeStripes
  <2>1. DOMAIN buckets = 0..(growth_factor * n_stripes - 1)
    BY DEF Layout
  <2> QED BY <2>1, StripesAssumption DEF WholeStripes
<1>3. Exclusion /\ HoldsStripe
  BY DEF Exclusion, HoldsStripe, Exclusively
<1> QED BY <1>1, <1>2, <1>3 DEF IInv

\* A lock that is taken excludes the others from it.
LEMMA LockExcludes ==
  ASSUME IInv, NEW t \in Threads, NEW s \in Stripes, LockUnique(t, s) \/ LockShared(t, s)
  PROVE  /\ unique' \in [Threads -> SUBSET Stripes] /\ shared' \in [Threads -> SUBSET Stripes]
         /\ Exclusion'
         /\ \A u \in Threads : unique[u] \subseteq unique'[u] /\ shared[u] \subseteq shared'[u]
         /\ LockUnique(t, s) => s \in unique'[t]
         /\ LockShared(t, s) => s \in shared'[t]
<1>1. CASE LockUnique(t, s)
  <2>1. /\ \A u \in Threads : s \notin unique[u] \cup shared[u]
        /\ unique' = [unique EXCEPT ![t] = @ \cup {s}] /\ shared' = shared
    BY <1>1 DEF LockUnique
  <2>2. \A u \in Threads : unique'[u] = IF u = t THEN unique[u] \cup {s} ELSE unique[u]
    BY <2>1 DEF IInv, LocksOK
  <2>3. Exclusion'
    BY <2>1, <2>2 DEF IInv, Exclusion
  <2>4. unique' \in [Threads -> SUBSET Stripes]
    BY <2>1 DEF IInv, LocksOK
  <2>5. ~LockShared(t, s) \/ s \in shared'[t]
    BY <2>1, <2>2 DEF LockShared, IInv, LocksOK
  <2> QED BY <2>1, <2>2, <2>3, <2>4, <2>5 DEF IInv, LocksOK
<1>2. CASE LockShared(t, s)
  <2>1. /\ \A u \in Threads : s \notin unique[u]
        /\ shared' = [shared EXCEPT ![t] = @ \cup {s}] /\ unique' = unique
    BY <1>2 DEF LockShared
  <2>2. \A u \in Threads : shared'[u] = IF u = t THEN shared[u] \cup {s} ELSE shared[u]
    BY <2>1 DEF IInv, LocksOK
  <2>3. Exclusion'
    BY <2>1, <2>2 DEF IInv, Exclusion
  <2>4. shared' \in [Threads -> SUBSET Stripes]
    BY <2>1 DEF IInv, LocksOK
  <2>5. ~LockUnique(t, s)
    <3>1. s \in shared'[t] /\ (LockUnique(t, s) => s \notin shared[t] /\ shared' = shared)
      BY <2>2 DEF LockUnique
    <3> QED BY <3>1
  <2> QED BY <2>1, <2>2, <2>3, <2>4, <2>5 DEF IInv, LocksOK
<1> QED BY <1>1, <1>2

\* A thread that gives back its locks leaves the others theirs.
LEMMA UnlockKeeps ==
  ASSUME IInv, NEW t \in Threads, Unlock(t)
  PROVE  /\ unique' \in [Threads -> SUBSET Stripes] /\ shared' \in [Threads -> SUBSET Stripes]
         /\ Exclusion'
         /\ \A u \in Threads \ {t} : unique'[u] = unique[u] /\ shared'[u] = shared[u]
<1>1. /\ unique' = [unique EXCEPT ![t] = {}] /\ shared' = [shared EXCEPT ![t] = {}]
  BY DEF Unlock
<1>2. \A u \in Threads : /\ unique'[u] = IF u = t THEN {} ELSE unique[u]
                         /\ shared'[u] = IF u = t THEN {} ELSE shared[u]
  BY <1>1 DEF IInv, LocksOK
<1>3. Exclusion'
  BY <1>2 DEF IInv, Exclusion
<1> QED BY <1>1, <1>2, <1>3 DEF IInv, LocksOK

(***************************************************************************)
(* What a step of t has to show when it leaves the number of buckets: that *)
(* t has at its new label what HoldsStripe asks for, and that the locks    *)
(* are in order.                                                           *)
(***************************************************************************)
LEMMA StepOf ==
  ASSUME IInv, NEW t \in Threads, DOMAIN buckets' = DOMAIN buckets,
         NEW label \in Labels, pc' = [pc EXCEPT ![t] = label],
         value' \in [Threads -> Values], num_of_buckets' \in [Threads -> Nat],
         \A u \in Threads \ {t} : /\ value'[u] = value[u]
                                  /\ num_of_buckets'[u] = num_of_buckets[u]
                                  /\ unique[u] \subseteq unique'[u]
                                  /\ shared[u] \subseteq shared'[u],
         unique' \in [Threads -> SUBSET Stripes], shared' \in [Threads -> SUBSET Stripes],
         Exclusion',
         label \in Exclusively => get_stripe_index(value'[t]) \in unique'[t],
         label = "contains" => get_stripe_index(value'[t]) \in shared'[t],
         label = "rehash_all" => 0 \in unique'[t] /\ num_of_buckets'[t] = size
  PROVE  IInv'
<1>1. pc' \in [Threads -> Labels] /\ \A u \in Threads : pc'[u] = IF u = t THEN label ELSE pc[u]
  BY DEF IInv, LocksOK
<1>2. LocksOK'
  BY <1>1 DEF LocksOK
<1>3. WholeStripes'
  BY DEF IInv, WholeStripes
<1>4. size' = size
  BY DEF size
<1>5. HoldsStripe'
  <2> SUFFICES ASSUME NEW u \in Threads
               PROVE  /\ pc'[u] \in Exclusively => get_stripe_index(value'[u]) \in unique'[u]
                      /\ pc'[u] = "contains" => get_stripe_index(value'[u]) \in shared'[u]
                      /\ pc'[u] = "rehash_all" => 0 \in unique'[u] /\ num_of_buckets'[u] = size'
    BY DEF HoldsStripe, Stripe, get_stripe_index
  <2>1. CASE u = t
    BY <1>1, <1>4, <2>1
  <2>2. CASE u # t
    BY <1>1, <1>4, <2>2 DEF IInv, HoldsStripe, Stripe
  <2> QED BY <2>1, <2>2
<1> QED BY <1>2, <1>3, <1>5 DEF IInv

\* Steps of a call that keep its locks.
LEMMA KeepLocks ==
  ASSUME IInv, NEW t \in Threads,
         \/ Call(t) \/ Insert(t) \/ CountUp(t) \/ RehashNothing(t)
         \/ Erase(t) /\ pc'[t] = "uncount"
  PROVE  IInv'
<1>1. DOMAIN buckets' = DOMAIN buckets
  BY DEF Call, Insert, CountUp, RehashNothing, Erase
<1>2. /\ UNCHANGED <<unique, shared, num_of_buckets>>
      /\ value' \in [Threads -> Values] /\ \A u \in Threads \ {t} : value'[u] = value[u]
      /\ \/ \E label \in {"lock_add", "lock_remove", "lock_contains", "idle"} :
              pc' = [pc EXCEPT ![t] = label]
         \/ /\ value' = value /\ pc[t] \in Exclusively
            /\ \E label \in {"count", "check", "uncount"} : pc' = [pc EXCEPT ![t] = label]
  <2>1. CASE Call(t)
    BY <2>1 DEF Call, Goto, locks, IInv, LocksOK
  <2>2. CASE Insert(t) \/ CountUp(t)
    BY <2>2 DEF Insert, CountUp, Goto, locks, IInv, LocksOK, Exclusively
  <2>3. CASE RehashNothing(t)
    BY <2>3 DEF RehashNothing, Goto, locks, IInv, LocksOK
  <2>4. CASE Erase(t) /\ pc'[t] = "uncount"
    <3>1. pc[t] = "remove" /\ UNCHANGED <<value, num_of_buckets>>
      BY <2>4 DEF Erase
    <3>2. Found(t)
      <4>1. Return(t) => pc'[t] = "idle"
        BY DEF Return, Goto, IInv, LocksOK
      <4> QED BY <2>4, <4>1 DEF Erase
    <3> QED BY <2>4, <3>1, <3>2 DEF Erase, Goto, locks, IInv, LocksOK, Exclusively
  <2> QED BY <2>1, <2>2, <2>3, <2>4
<1>3. Exclusion' /\ (pc[t] \in Exclusively => get_stripe_index(value[t]) \in unique[t])
  BY <1>2 DEF IInv, Exclusion, HoldsStripe, Stripe
<1>4. CASE \E label \in {"lock_add", "lock_remove", "lock_contains", "idle"} :
             pc' = [pc EXCEPT ![t] = label]
  <2>1. PICK label \in {"lock_add", "lock_remove", "lock_contains", "idle"} :
          pc' = [pc EXCEPT ![t] = label]
    BY <1>4
  <2>2. label \in Labels /\ label \notin Exclusively /\ label \notin {"contains", "rehash_all"}
    BY DEF Labels, Exclusively
  <2> QED BY <1>1, <1>2, <1>3, <2>1, <2>2, StepOf DEF IInv, LocksOK
<1>5. CASE /\ value' = value /\ pc[t] \in Exclusively
           /\ \E label \in {"count", "check", "uncount"} : pc' = [pc EXCEPT ![t] = label]
  <2>1. PICK label \in {"count", "check", "uncount"} : pc' = [pc EXCEPT ![t] = label]
    BY <1>5
  <2>2. label \in Labels /\ label \notin {"contains", "rehash_all"}
    BY DEF Labels, Exclusively
  <2> QED BY <1>1, <1>2, <1>3, <1>5, <2>1, <2>2, StepOf DEF IInv, LocksOK
<1> QED BY <1>2, <1>4, <1>5

\* Steps that take the lock of a stripe.
LEMMA TakeLock ==
  ASSUME IInv, NEW t \in Threads, LockToWrite(t) \/ LockToRead(t) \/ RehashFirst(t)
  PROVE  IInv'
<1>1. UNCHANGED <<buckets, value, num_of_buckets>>
  BY DEF LockToWrite, LockToRead, RehashFirst
<1>2. Stripe(t) \in Stripes /\ 0 \in Stripes /\ get_stripe_index(value[t]) = Stripe(t)
  BY StripeOf, StripesAssumption DEF IInv, LocksOK, Stripe, Stripes
<1>3. CASE LockToWrite(t)
  <2>1. PICK label \in {"add", "remove"} : pc' = [pc EXCEPT ![t] = label]
    BY <1>3 DEF LockToWrite, Goto
  <2>2. LockUnique(t, Stripe(t))
    BY <1>3 DEF LockToWrite
  <2>3. label \in Labels /\ label \in Exclusively /\ label \notin {"contains", "rehash_all"}
    BY DEF Labels, Exclusively
  <2> QED BY <1>1, <1>2, <2>1, <2>2, <2>3, LockExcludes, StepOf DEF IInv, LocksOK
<1>4. CASE LockToRead(t)
  <2>1. pc' = [pc EXCEPT ![t] = "contains"] /\ LockShared(t, Stripe(t))
    BY <1>4 DEF LockToRead, Goto
  <2>2. "contains" \in Labels /\ "contains" \notin Exclusively
    BY DEF Labels, Exclusively
  <2> QED BY <1>1, <1>2, <2>1, <2>2, LockExcludes, StepOf DEF IInv, LocksOK
<1>5. CASE RehashFirst(t)
  <2>1. /\ pc' = [pc EXCEPT ![t] = "rehash_all"] /\ LockUnique(t, 0)
        /\ num_of_buckets[t] = size
    BY <1>5 DEF RehashFirst, Goto
  <2>2. "rehash_all" \in Labels /\ "rehash_all" \notin Exclusively
    BY DEF Labels, Exclusively
  <2> QED BY <1>1, <1>2, <2>1, <2>2, LockExcludes, StepOf DEF IInv, LocksOK
<1> QED BY <1>3, <1>4, <1>5

\* rehash() takes one more lock.
LEMMA TakeNext == ASSUME IInv, NEW t \in Threads, RehashNext(t) PROVE IInv'
<1>1. pc[t] = "rehash_all" /\ UNCHANGED <<buckets, value, num_of_buckets, pc>>
  BY DEF RehashNext
<1>2. PICK s \in Stripes : LockUnique(t, s)
  BY DEF RehashNext
<1>3. /\ unique' \in [Threads -> SUBSET Stripes] /\ shared' \in [Threads -> SUBSET Stripes]
      /\ Exclusion'
      /\ \A u \in Threads : unique[u] \subseteq unique'[u] /\ shared[u] \subseteq shared'[u]
  BY <1>2, LockExcludes
<1>4. pc' = [pc EXCEPT ![t] = "rehash_all"] /\ 0 \in unique[t] /\ num_of_buckets[t] = size
  BY <1>1 DEF IInv, LocksOK, HoldsStripe
<1>5. "rehash_all" \in Labels /\ "rehash_all" \notin Exclusively
  BY DEF Labels, Exclusively
<1> QED BY <1>1, <1>3, <1>4, <1>5, StepOf DEF IInv, LocksOK

\* Steps that give back all locks, and leave the number of buckets.
LEMMA GiveBack ==
  ASSUME IInv, NEW t \in Threads,
         \/ InsertThrows(t) \/ Check(t) \/ CountDown(t) \/ Look(t) \/ RehashThrows(t)
         \/ Erase(t) /\ pc'[t] # "uncount"
  PROVE  IInv'
<1>1. /\ UNCHANGED <<value>> /\ DOMAIN buckets' = DOMAIN buckets /\ Unlock(t)
      /\ num_of_buckets' \in [Threads -> Nat]
      /\ \A u \in Threads \ {t} : num_of_buckets'[u] = num_of_buckets[u]
      /\ pc' = [pc EXCEPT ![t] = "idle"] \/ pc' = [pc EXCEPT ![t] = "rehash"]
  <2>1. CASE InsertThrows(t) \/ CountDown(t) \/ Look(t) \/ RehashThrows(t)
    BY <2>1 DEF InsertThrows, CountDown, Look, RehashThrows, Return, Goto, IInv, LocksOK
  <2>2. CASE Check(t)
    <3>1. size \in Nat
      BY Size DEF IInv, WholeStripes
    <3> QED BY <2>2, <3>1 DEF Check, Goto, IInv, LocksOK
  <2>3. CASE Erase(t) /\ pc'[t] # "uncount"
    <3>1. ~Found(t)
      <4>1. Goto(t, "uncount") => pc'[t] = "uncount"
        BY DEF Goto, IInv, LocksOK
      <4> QED BY <2>3, <4>1 DEF Erase
    <3> QED BY <2>3, <3>1 DEF Erase, Return, Goto, IInv, LocksOK
  <2> QED BY <2>1, <2>2, <2>3
<1>2. /\ unique' \in [Threads -> SUBSET Stripes] /\ shared' \in [Threads -> SUBSET Stripes]
      /\ Exclusion'
      /\ \A u \in Threads \ {t} : unique'[u] = unique[u] /\ shared'[u] = shared[u]
  BY <1>1, UnlockKeeps
<1>3. PICK label \in {"idle", "rehash"} : pc' = [pc EXCEPT ![t] = label]
  BY <1>1
<1>4. label \in Labels /\ label \notin Exclusively /\ label \notin {"contains", "rehash_all"}
  BY DEF Labels, Exclusively
<1> QED BY <1>1, <1>2, <1>3, <1>4, StepOf DEF IInv, LocksOK

\* The threads that are at a bucket, or at the counter, while t has all the locks.
LEMMA AloneWithAllLocks ==
  ASSUME IInv, NEW t \in Threads, unique[t] = Stripes, NEW u \in Threads \ {t}
  PROVE  pc[u] \notin Exclusively \cup {"contains", "rehash_all"}
<1>1. Stripes \cap (unique[u] \cup shared[u]) = {}
  BY DEF IInv, Exclusion
<1>2. Stripe(u) \in Stripes /\ 0 \in Stripes
  BY StripeOf, StripesAssumption DEF IInv, LocksOK, Stripe, Stripes
<1> QED BY <1>1, <1>2 DEF IInv, HoldsStripe

\* The set grows while nobody is inside it, by whole stripes.
LEMMA RebuildInv == ASSUME IInv, NEW t \in Threads, Rebuild(t) PROVE IInv'
<1>1. /\ unique[t] = Stripes /\ UNCHANGED <<value, num_of_buckets>>
      /\ Unlock(t) /\ pc' = [pc EXCEPT ![t] = "idle"]
      /\ DOMAIN buckets' = 0..(growth_factor * size - 1)
  BY DEF Rebuild, Redistribute, Return, Goto
<1>2. /\ unique' \in [Threads -> SUBSET Stripes] /\ shared' \in [Threads -> SUBSET Stripes]
      /\ Exclusion'
      /\ \A u \in Threads \ {t} : unique'[u] = unique[u] /\ shared'[u] = shared[u]
  BY <1>1, UnlockKeeps
<1>3. LocksOK'
  BY <1>1, <1>2 DEF IInv, LocksOK, Labels
<1>4. WholeStripes'
  <2>1. PICK k \in Nat \ {0} : DOMAIN buckets = 0..(k * n_stripes - 1)
    BY DEF IInv, WholeStripes
  <2>2. size = k * n_stripes
    BY <2>1, Size
  <2>3. growth_factor * size = (growth_factor * k) * n_stripes
    BY <2>2, StripesAssumption
  <2>4. growth_factor * k \in Nat \ {0}
    BY StripesAssumption
  <2> QED BY <1>1, <2>3, <2>4 DEF WholeStripes
<1>5. HoldsStripe'
  <2> SUFFICES ASSUME NEW u \in Threads
               PROVE  /\ pc'[u] \in Exclusively => get_stripe_index(value'[u]) \in unique'[u]
                      /\ pc'[u] = "contains" => get_stripe_index(value'[u]) \in shared'[u]
                      /\ pc'[u] = "rehash_all" => 0 \in unique'[u] /\ num_of_buckets'[u] = size'
    BY DEF HoldsStripe, Stripe, get_stripe_index
  <2>1. pc'[u] \notin Exclusively \cup {"contains", "rehash_all"}
    <3>1. CASE u = t
      BY <1>1, <3>1 DEF IInv, LocksOK, Exclusively
    <3>2. CASE u # t
      BY <1>1, <3>2, AloneWithAllLocks DEF IInv, LocksOK
    <3> QED BY <3>1, <3>2
  <2> QED BY <2>1
<1> QED BY <1>2, <1>3, <1>4, <1>5 DEF IInv

\* Every step keeps the invariant.
LEMMA StepInv == IInv /\ [Next]_vars => IInv'
<1> SUFFICES ASSUME IInv, [Next]_vars PROVE IInv'
  OBVIOUS
<1>1. ASSUME NEW t \in Threads, Call(t) PROVE IInv'
  BY <1>1, KeepLocks
<1>2. ASSUME NEW t \in Threads, Step(t) PROVE IInv'
  BY <1>2, KeepLocks, TakeLock, TakeNext, GiveBack, RebuildInv DEF Step
<1>3. ASSUME NEW t \in Threads, InsertThrows(t) \/ RehashThrows(t) PROVE IInv'
  BY <1>3, GiveBack
<1>4. CASE UNCHANGED vars
  BY <1>4 DEF IInv, LocksOK, WholeStripes, Exclusion, HoldsStripe, Stripe, get_stripe_index,
              size, vars, locks
<1> QED BY <1>1, <1>2, <1>3, <1>4 DEF Next

\* The inductive invariant of the hash set's locks.
THEOREM Invariance == Spec => []IInv
BY InitInv, StepInv, PTL DEF Spec

\* Two values of the same bucket have the same stripe.
LEMMA SameBucketSameStripe ==
  ASSUME IInv, NEW t \in Threads, NEW u \in Threads, Bucket(t) = Bucket(u)
  PROVE  Stripe(t) = Stripe(u)
<1>1. PICK k \in Nat \ {0} : DOMAIN buckets = 0..(k * n_stripes - 1)
  BY DEF IInv, WholeStripes
<1>2. size = k * n_stripes
  BY <1>1, Size
<1>3. value[t] \in Int /\ value[u] \in Int
  BY StripeOf DEF IInv, LocksOK
<1>4. value[t] % (k * n_stripes) = value[u] % (k * n_stripes)
  BY <1>2 DEF Bucket, get_bucket_index
<1>5. value[t] % n_stripes = value[u] % n_stripes
  BY <1>3, <1>4, SameRemainder, StripesAssumption
<1> QED BY <1>5 DEF Stripe, get_stripe_index

(***************************************************************************)
(* StripesSeparate: no two threads are at one bucket when one of them may  *)
(* change it, although each holds the lock of a stripe only and the number *)
(* of buckets grows.                                                       *)
(***************************************************************************)
THEOREM Separation == Spec => []StripesSeparate
<1>1. IInv => StripesSeparate
  <2> SUFFICES ASSUME IInv, NEW t \in Threads, NEW u \in Threads, t # u,
                      Writing(t), Writing(u) \/ Reading(u)
               PROVE  Bucket(t) # Bucket(u)
    BY DEF StripesSeparate
  <2>1. Stripe(t) \in unique[t] /\ Stripe(u) \in unique[u] \cup shared[u]
    BY DEF IInv, HoldsStripe, Writing, Reading, Exclusively
  <2>2. Stripe(t) # Stripe(u)
    BY <2>1 DEF IInv, Exclusion
  <2> QED BY <2>2, SameBucketSameStripe
<1> QED BY <1>1, Invariance, PTL

\* A step that grows the set is the end of rehash(), by the thread that holds all locks.
LEMMA GrowsAtTheEnd ==
  ASSUME IInv, [Next]_vars, NEW t \in Threads, Grows(t) PROVE unique[t] = Stripes
<1>1. /\ pc[t] = "rehash_all" /\ pc'[t] = "idle" /\ buckets' # buckets
  BY DEF Grows
<1>2. PICK u \in Threads : Call(u) \/ Step(u) \/ InsertThrows(u) \/ RehashThrows(u)
  BY <1>1 DEF Next, vars
<1>3. buckets' # buckets => Insert(u) \/ Erase(u) \/ Rebuild(u)
  BY <1>2 DEF Call, Step, InsertThrows, RehashThrows, LockToWrite, LockToRead, CountUp, Check,
              CountDown, Look, RehashFirst, RehashNothing, RehashNext
<1>4. CASE Insert(u) \/ Erase(u)
  <2>1. pc[u] # "rehash_all" /\ \E label : pc' = [pc EXCEPT ![u] = label]
    BY <1>4 DEF Insert, Erase, Return, Goto
  <2>2. pc'[t] = pc[t]
    BY <1>1, <2>1 DEF IInv, LocksOK
  <2> QED BY <1>1, <2>2
<1>5. CASE Rebuild(u)
  <2>1. pc' = [pc EXCEPT ![u] = "idle"] /\ unique[u] = Stripes
    BY <1>5 DEF Rebuild, Return, Goto
  <2>2. u = t
    BY <1>1, <2>1 DEF IInv, LocksOK
  <2> QED BY <2>1, <2>2
<1> QED BY <1>1, <1>3, <1>4, <1>5

(***************************************************************************)
(* GrowsOnceAlone: one full table makes the set grow once, and while the   *)
(* buckets are replaced nobody else is at a bucket or at their number.     *)
(***************************************************************************)
THEOREM Growth == Spec => GrowsOnceAlone
<1> DEFINE Alone == \A t \in Threads : Grows(t) =>
                      /\ num_of_buckets[t] = size
                      /\ \A u \in Threads \ {t} :
                           ~Writing(u) /\ ~Reading(u) /\ pc[u] \notin {"count", "uncount", "check"}
<1>1. IInv /\ [Next]_vars => [Alone]_vars
  <2> SUFFICES ASSUME IInv, [Next]_vars, NEW t \in Threads, Grows(t)
               PROVE  /\ num_of_buckets[t] = size
                      /\ \A u \in Threads \ {t} :
                           ~Writing(u) /\ ~Reading(u) /\ pc[u] \notin {"count", "uncount", "check"}
    OBVIOUS
  <2>1. unique[t] = Stripes
    BY GrowsAtTheEnd
  <2>2. num_of_buckets[t] = size
    BY DEF IInv, HoldsStripe, Grows
  <2> QED BY <2>1, <2>2, AloneWithAllLocks DEF Writing, Reading, Exclusively
<1>2. Spec => [][Alone]_vars
  <2> HIDE DEF Alone
  <2> QED BY <1>1, Invariance, PTL DEF Spec
<1> QED BY <1>2 DEF GrowsOnceAlone
-----------------------------------------------------------------------------
\* The sum of the terms f[b][v] for b in s, in the form in which a fold defines it.
First(s) == CHOOSE b \in s : TRUE
SumsUp(sum, D, f, v) ==
  sum = [s \in SUBSET D |->
           IF s = {} THEN 0 ELSE f[First(s)][v] + sum[s \ {First(s)}]]

\* If one term at most is not zero, there is such a function, and it gives that term.
LEMMA SumOfOne ==
  ASSUME NEW D, IsFiniteSet(D), NEW f, NEW v, NEW b0 \in D, f[b0][v] \in Nat,
         \A b \in D : b # b0 => f[b][v] = 0
  PROVE  /\ \E sum : SumsUp(sum, D, f, v)
         /\ \A sum : SumsUp(sum, D, f, v) => sum[D] = f[b0][v]
<1> DEFINE F(g, s) == IF s = {} THEN 0 ELSE f[First(s)][v] + g[s \ {First(s)}]
           w == [s \in SUBSET D |-> IF b0 \in s THEN f[b0][v] ELSE 0]
<1>1. \A s \in SUBSET D : s # {} => First(s) \in s /\ s \ {First(s)} \in SUBSET D
  BY DEF First
<1>2. \A s \in SUBSET D : w[s] = F(w, s)
  <2> SUFFICES ASSUME NEW s \in SUBSET D PROVE w[s] = F(w, s)
    OBVIOUS
  <2>1. CASE s = {}
    BY <2>1
  <2>2. CASE s # {}
    <3> DEFINE x == First(s)
    <3>1. x \in s /\ s \ {x} \in SUBSET D /\ x \in D
      BY <1>1, <2>2
    <3>2. F(w, s) = f[x][v] + w[s \ {x}]
      BY <2>2
    <3> HIDE DEF x, F
    <3>3. CASE x = b0
      BY <3>1, <3>2, <3>3
    <3>4. CASE x # b0
      BY <3>1, <3>2, <3>4
    <3> QED BY <3>3, <3>4
  <2> QED BY <2>1, <2>2
<1>3. SumsUp(w, D, f, v)
  BY <1>2 DEF SumsUp
<1>4. ASSUME NEW sum, SumsUp(sum, D, f, v)
      PROVE  sum[D] = f[b0][v]
  <2> DEFINE S == {s \in SUBSET D : sum[s] = w[s]}
  <2>1. ASSUME NEW T \in SUBSET D, \A x \in T : T \ {x} \in S
        PROVE  T \in S
    <3> HIDE DEF w
    <3>1. sum[T] = F(sum, T) /\ w[T] = F(w, T)
      BY <1>2, <1>4 DEF SumsUp
    <3>2. F(sum, T) = F(w, T)
      <4>1. CASE T = {}
        BY <4>1
      <4>2. CASE T # {}
        <5> DEFINE x == First(T)
        <5>1. x \in T
          BY <1>1, <4>2
        <5> HIDE DEF x
        <5>2. sum[T \ {x}] = w[T \ {x}]
          BY <2>1, <5>1
        <5> QED BY <4>2, <5>2 DEF x
      <4> QED BY <4>1, <4>2
    <3> QED BY <3>1, <3>2
  <2> HIDE DEF S
  <2>2. SUBSET D \subseteq S
    BY <2>1, InductionOverSets
  <2> QED BY <2>2 DEF S
<1> QED BY <1>3, <1>4

\* What the buckets say about a value: it is in its own bucket or nowhere.
ContentsKnown ==
  \A v \in Values :
    /\ get_bucket_index(v) \in DOMAIN buckets
    /\ buckets[get_bucket_index(v)][v] \in {0, 1}
    /\ Occurrences(v) = buckets[get_bucket_index(v)][v]
    /\ v \in Elements <=> buckets[get_bucket_index(v)][v] = 1

BucketsOK == buckets \in [0..(size - 1) -> [Values -> Nat]]

\* The elements are what the calls find in the buckets.
LEMMA Contents == WholeStripes /\ BucketsOK /\ ElementsInPlace => ContentsKnown
<1> SUFFICES ASSUME WholeStripes, BucketsOK, ElementsInPlace, NEW v \in Values
             PROVE  /\ get_bucket_index(v) \in DOMAIN buckets
                    /\ buckets[get_bucket_index(v)][v] \in {0, 1}
                    /\ Occurrences(v) = buckets[get_bucket_index(v)][v]
                    /\ v \in Elements <=> buckets[get_bucket_index(v)][v] = 1
  BY DEF ContentsKnown
<1> DEFINE D == DOMAIN buckets
           i == get_bucket_index(v)
<1>1. size \in Nat \ {0} /\ D = 0..(size - 1) /\ IsFiniteSet(D)
  <2>1. D = 0..(size - 1)
    BY DEF BucketsOK
  <2>2. size \in Nat \ {0}
    BY Size DEF WholeStripes
  <2>3. 0 \in Int /\ size - 1 \in Int
    BY <2>2
  <2>4. IsFiniteSet(0..(size - 1))
    BY <2>3, FS_Interval
  <2> QED BY <2>1, <2>2, <2>4
<1>2. i \in D
  <2>1. v \in Int
    BY HashAssumption
  <2>2. v % size \in 0..(size - 1)
    BY <1>1, <2>1, DivMod
  <2> QED BY <1>1, <2>2 DEF get_bucket_index
<1>3. \A b \in D : buckets[b][v] \in Nat /\ buckets[b][v] <= 1 /\ (buckets[b][v] = 1 => b = i)
  <2>1. \A b \in D : buckets[b][v] \in Nat
    BY <1>1 DEF BucketsOK
  <2> QED BY <2>1 DEF ElementsInPlace
<1>4. buckets[i][v] \in {0, 1} /\ \A b \in D : b # i => buckets[b][v] = 0
  <2> HIDE DEF D, i
  <2> QED BY <1>2, <1>3
<1>5. Occurrences(v) = buckets[i][v]
  <2> DEFINE sum == CHOOSE g : SumsUp(g, D, buckets, v)
  <2>1. Occurrences(v) = sum[D]
    BY Zenon DEF Occurrences, MapThenSumSet, MapThenFoldSet, SumsUp, First
  <2>2. buckets[i][v] \in Nat
    BY <1>4
  <2> HIDE DEF i, D
  <2>3. \E g : SumsUp(g, D, buckets, v)
    BY <1>1, <1>2, <1>4, <2>2, SumOfOne
  <2>4. SumsUp(sum, D, buckets, v)
    BY <2>3
  <2> HIDE DEF sum
  <2>5. sum[D] = buckets[i][v]
    BY <1>1, <1>2, <1>4, <2>2, <2>4, SumOfOne
  <2> QED BY <2>1, <2>5
<1>6. v \in Elements <=> buckets[i][v] = 1
  <2> HIDE DEF i
  <2> QED BY <1>4, <1>5 DEF Elements
<1> QED BY <1>2, <1>4, <1>5, <1>6

\* Calls between their change of the set and its counting.
Uncounted(label) == {t \in Threads : pc[t] = label}

(***************************************************************************)
(* Inv is not inductive: the counter stays above zero because a call that  *)
(* has still to count its insertion keeps everybody else from that value.  *)
(***************************************************************************)
CInv == /\ IInv /\ Inv
        /\ IsFiniteSet(Elements)
        /\ \A t \in Uncounted("count") : value[t] \in Elements

\* Where a value is, in every state of CInv and in the next one.
LEMMA Known == CInv => ContentsKnown
BY Contents DEF CInv, IInv, Inv, TypeOK, BucketsOK

\* The initial values are the elements.
LEMMA InitElements == Init => Elements = Initial /\ TypeOK /\ ElementsInPlace
<1> SUFFICES ASSUME Init PROVE Elements = Initial /\ TypeOK /\ ElementsInPlace
  OBVIOUS
<1> DEFINE n == growth_factor * n_stripes
<1>1. buckets = Layout(Initial, n) /\ DOMAIN buckets = 0..(n - 1)
  BY DEF Init, Layout
<1>2. WholeStripes /\ LocksOK
  BY InitInv DEF IInv
<1>3. size = n /\ n \in Nat \ {0}
  BY <1>1, Size, StripesAssumption
<1>4. \A v \in Values : v % n \in 0..(n - 1)
  <2>1. \A v \in Values : v \in Int
    BY HashAssumption
  <2> HIDE DEF n
  <2> QED BY <1>3, <2>1, DivMod
<1>5. \A b \in 0..(n - 1), v \in Values :
         buckets[b][v] = IF v \in Initial /\ v % n = b THEN 1 ELSE 0
  <2> HIDE DEF n
  <2> QED BY <1>1 DEF Layout
<1>6. TypeOK
  <2>1. buckets \in [0..(n - 1) -> [Values -> Nat]]
    <3> HIDE DEF n
    <3> QED BY <1>1 DEF Layout
  <2>2. num_of_elements \in Nat
    BY InitialAssumption, FS_CardinalityType DEF Init
  <2>3. answer \in [Threads -> BOOLEAN]
    BY DEF Init
  <2> HIDE DEF n
  <2> QED BY <1>2, <1>3, <2>1, <2>2, <2>3 DEF TypeOK, LocksOK
<1>7. ElementsInPlace
  <2> HIDE DEF n
  <2> QED BY <1>1, <1>3, <1>5 DEF ElementsInPlace, get_bucket_index
<1>8. ContentsKnown
  BY <1>2, <1>6, <1>7, Contents DEF TypeOK, BucketsOK
<1>9. \A v \in Values : v \in Elements <=> v \in Initial
  <2> HIDE DEF n
  <2> QED BY <1>3, <1>4, <1>5, <1>8 DEF ContentsKnown, get_bucket_index
<1>10. Elements \subseteq Values /\ Initial \subseteq Values
  BY InitialAssumption DEF Elements
<1> QED BY <1>6, <1>7, <1>9, <1>10

\* The initial values are in place and counted.
LEMMA InitContents == Init => CInv
<1> SUFFICES ASSUME Init PROVE CInv
  OBVIOUS
<1>1. Elements = Initial /\ TypeOK /\ ElementsInPlace /\ IInv
  BY InitElements, InitInv
<1>2. IsFiniteSet(Elements)
  BY <1>1, InitialAssumption
<1>3. Uncounted("count") = {} /\ Uncounted("uncount") = {}
  BY DEF Init, Uncounted
<1>4. CounterIsExact
  <2>1. Cardinality({}) = 0 /\ Cardinality(Initial) \in Nat
    BY FS_EmptySet, FS_CardinalityType, InitialAssumption
  <2>2. num_of_elements = Cardinality(Elements)
    BY <1>1 DEF Init
  <2> QED BY <1>1, <1>3, <2>1, <2>2 DEF CounterIsExact, Uncounted
<1> QED BY <1>1, <1>2, <1>3, <1>4 DEF CInv, Inv

\* A value is written to its bucket, or taken out of it.
LEMMA WriteValue ==
  ASSUME CInv, NEW v \in Values, NEW n \in {0, 1},
         buckets' = [buckets EXCEPT ![get_bucket_index(v)][v] = n]
  PROVE  /\ size' = size /\ DOMAIN buckets' = DOMAIN buckets
         /\ buckets' \in [0..(size - 1) -> [Values -> Nat]]
         /\ ElementsInPlace'
<1> DEFINE i == get_bucket_index(v)
<1>1. /\ i \in DOMAIN buckets /\ DOMAIN buckets = 0..(size - 1)
      /\ buckets \in [0..(size - 1) -> [Values -> Nat]]
  BY Known DEF CInv, Inv, TypeOK, ContentsKnown
<1>2. DOMAIN buckets' = DOMAIN buckets /\ size' = size
  BY DEF size
<1>3. \A b \in DOMAIN buckets, w \in Values :
         buckets'[b][w] = IF b = i /\ w = v THEN n ELSE buckets[b][w]
  <2> HIDE DEF i
  <2> QED BY <1>1 DEF i
<1>4. buckets' \in [0..(size - 1) -> [Values -> Nat]]
  <2> HIDE DEF i
  <2> QED BY <1>1 DEF i
<1>5. ElementsInPlace'
  <2> SUFFICES ASSUME NEW b \in DOMAIN buckets, NEW w \in Values
               PROVE  buckets'[b][w] <= 1 /\ (buckets'[b][w] = 1 => b = w % size')
    BY <1>2 DEF ElementsInPlace, get_bucket_index
  <2>1. buckets[b][w] <= 1 /\ (buckets[b][w] = 1 => b = w % size)
    BY DEF CInv, Inv, ElementsInPlace, get_bucket_index
  <2> QED BY <1>2, <1>3, <2>1 DEF get_bucket_index
<1> QED BY <1>2, <1>4, <1>5

\* The same in the next state.
LEMMA KnownNext == IInv' /\ BucketsOK' /\ ElementsInPlace' => ContentsKnown'
<1>1. IInv /\ BucketsOK /\ ElementsInPlace => ContentsKnown
  BY Contents DEF IInv
<1>2. (IInv /\ BucketsOK /\ ElementsInPlace => ContentsKnown)'
  BY <1>1, PTL
<1> QED BY <1>2

\* So one value comes into the set, or goes.
LEMMA Written ==
  ASSUME CInv, IInv', NEW v \in Values, NEW n \in {0, 1},
         buckets' = [buckets EXCEPT ![get_bucket_index(v)][v] = n]
  PROVE  Elements' = IF n = 1 THEN Elements \cup {v} ELSE Elements \ {v}
<1> DEFINE i == get_bucket_index(v)
<1>1. ContentsKnown /\ buckets \in [0..(size - 1) -> [Values -> Nat]]
  BY Known DEF CInv, Inv, TypeOK
<1>2. size' = size /\ BucketsOK' /\ ElementsInPlace'
  BY WriteValue DEF BucketsOK
<1>3. ContentsKnown'
  BY <1>2, KnownNext
<1>4. \A w \in Values : get_bucket_index(w)' = get_bucket_index(w)
  BY <1>2 DEF get_bucket_index
<1>5. ASSUME NEW w \in Values
      PROVE  buckets'[w % size][w] = IF w = v THEN n ELSE buckets[w % size][w]
  BY <1>1 DEF ContentsKnown, get_bucket_index
<1>6. ASSUME NEW w \in Values
      PROVE  w \in Elements' <=> IF w = v THEN n = 1 ELSE w \in Elements
  <2>1. w \in Elements' <=> buckets'[w % size][w] = 1
    BY <1>2, <1>3 DEF ContentsKnown, get_bucket_index
  <2>2. w \in Elements <=> buckets[w % size][w] = 1
    BY <1>1 DEF ContentsKnown, get_bucket_index
  <2> QED BY <1>5, <2>1, <2>2
<1>7. Elements \subseteq Values /\ Elements' \subseteq Values
  BY DEF Elements
<1> QED BY <1>6, <1>7

\* As long as the buckets stay the set stays.
LEMMA Unwritten ==
  ASSUME CInv, IInv', buckets' = buckets
  PROVE  Elements' = Elements /\ BucketsOK' /\ ElementsInPlace' /\ size' = size
<1>1. ContentsKnown /\ BucketsOK
  BY Known DEF CInv, Inv, TypeOK, BucketsOK
<1>2. size' = size /\ BucketsOK' /\ ElementsInPlace'
  BY <1>1 DEF size, BucketsOK, CInv, Inv, ElementsInPlace, get_bucket_index
<1>3. ContentsKnown'
  BY <1>2, KnownNext
<1>4. \A w \in Values : w \in Elements' <=> w \in Elements
  BY <1>1, <1>2, <1>3 DEF ContentsKnown, get_bucket_index
<1>5. Elements \subseteq Values /\ Elements' \subseteq Values
  BY DEF Elements
<1> QED BY <1>2, <1>4, <1>5

\* rehash() moves every element to its new bucket.
LEMMA Rebuilt ==
  ASSUME CInv, IInv', NEW t \in Threads, Rebuild(t)
  PROVE  Elements' = Elements /\ BucketsOK' /\ ElementsInPlace' /\ size' \in Nat \ {0}
<1> DEFINE n == growth_factor * size
<1>1. /\ DOMAIN buckets' = 0..(n - 1)
      /\ \A b \in 0..(n - 1), v \in Values :
           buckets'[b][v] = IF v % n = b THEN Occurrences(v) ELSE 0
      /\ \A b \in 0..(n - 1) : buckets'[b] = [v \in Values |-> buckets'[b][v]]
      /\ buckets' = [b \in 0..(n - 1) |-> buckets'[b]]
  <2> HIDE DEF n
  <2> QED BY DEF Rebuild, Redistribute, n
<1>2. ContentsKnown
  BY Known
<1>3. n \in Nat \ {0}
  <2>1. size \in Nat \ {0}
    BY Size DEF CInv, IInv, WholeStripes
  <2> QED BY <2>1, StripesAssumption
<1>4. size' = n
  <2>1. 0 \in Int /\ n - 1 \in Int /\ ~ (0 > n - 1) /\ (n - 1) - 0 + 1 = n
    <3> HIDE DEF n
    <3> QED BY <1>3
  <2>2. Cardinality(0..(n - 1)) = n
    <3> HIDE DEF n
    <3>1. Cardinality(0..(n - 1)) = IF 0 > n - 1 THEN 0 ELSE (n - 1) - 0 + 1
      BY <2>1, FS_Interval
    <3> QED BY <2>1, <3>1
  <2> HIDE DEF n
  <2> QED BY <1>1, <2>2 DEF size
<1>5. \A v \in Values : v % n \in 0..(n - 1) /\ Occurrences(v) \in {0, 1}
                        /\ (v \in Elements <=> Occurrences(v) = 1)
  <2>1. \A v \in Values : v \in Int
    BY HashAssumption
  <2> HIDE DEF n
  <2>2. \A v \in Values : v % n \in 0..(n - 1)
    BY <1>3, <2>1, DivMod
  <2> QED BY <1>2, <2>2 DEF ContentsKnown
<1> HIDE DEF n
<1>6. BucketsOK'
  <2>1. \A b \in 0..(n - 1) : buckets'[b] \in [Values -> Nat]
    BY <1>1, <1>5
  <2> QED BY <1>1, <1>4, <2>1 DEF BucketsOK
<1>7. ElementsInPlace'
  <2> SUFFICES ASSUME NEW b \in 0..(n - 1), NEW v \in Values
               PROVE  buckets'[b][v] <= 1 /\ (buckets'[b][v] = 1 => b = v % n)
    BY <1>1, <1>4 DEF ElementsInPlace, get_bucket_index
  <2> QED BY <1>1, <1>5
<1>8. ContentsKnown'
  BY <1>6, <1>7, KnownNext
<1>9. \A v \in Values : v \in Elements' <=> v \in Elements
  <2>1. \A v \in Values : v \in Elements' <=> buckets'[v % n][v] = 1
    BY <1>4, <1>8 DEF ContentsKnown, get_bucket_index
  <2> QED BY <1>1, <1>5, <2>1
<1>10. Elements \subseteq Values /\ Elements' \subseteq Values
  BY DEF Elements
<1> QED BY <1>3, <1>4, <1>6, <1>7, <1>9, <1>10
-----------------------------------------------------------------------------
\* Sets of threads are finite.
LEMMA FewThreads == ASSUME NEW label
                    PROVE  /\ IsFiniteSet(Uncounted(label))
                           /\ Cardinality(Uncounted(label)) \in Nat
<1>1. Uncounted(label) \subseteq Threads
  BY DEF Uncounted
<1> QED BY <1>1, ThreadsAssumption, FS_Subset, FS_CardinalityType

(***************************************************************************)
(* The calls that have still to count an insertion hold different stripes, *)
(* so they are no more than the elements: the counter is not negative.     *)
(***************************************************************************)
LEMMA CounterIsNatural ==
  /\ IInv /\ IsFiniteSet(Elements) /\ CounterIsExact
  /\ \A t \in Uncounted("count") : value[t] \in Elements
  => num_of_elements \in Nat
<1> SUFFICES ASSUME IInv, IsFiniteSet(Elements), CounterIsExact,
                    \A t \in Uncounted("count") : value[t] \in Elements
             PROVE  num_of_elements \in Nat
  OBVIOUS
<1> DEFINE U == Uncounted("count")
           f == [t \in U |-> value[t]]
<1>1. f \in [U -> Elements]
  OBVIOUS
<1>2. ASSUME NEW t \in U, NEW u \in U, t # u PROVE f[t] # f[u]
  <2>1. t \in Threads /\ u \in Threads /\ pc[t] \in Exclusively /\ pc[u] \in Exclusively
    BY DEF Uncounted, Exclusively
  <2>2. Stripe(t) \in unique[t] /\ Stripe(u) \in unique[u]
    BY <2>1 DEF IInv, HoldsStripe
  <2>3. Stripe(t) # Stripe(u)
    BY <1>2, <2>1, <2>2 DEF IInv, Exclusion
  <2> QED BY <2>3 DEF Stripe, get_stripe_index
<1>3. f \in Injection(U, Elements)
  <2> HIDE DEF f, U
  <2>1. \A t, u \in U : f[t] = f[u] => t = u
    BY <1>2
  <2> QED BY <1>1, <2>1, Fun_IsInj
<1>4. Cardinality(U) <= Cardinality(Elements)
  <2> HIDE DEF f, U
  <2> QED BY <1>3, FS_Injection
<1>5. /\ Cardinality(U) \in Nat /\ Cardinality(Uncounted("uncount")) \in Nat
      /\ Cardinality(Elements) \in Nat
  BY FewThreads, FS_CardinalityType
<1> QED BY <1>4, <1>5 DEF CounterIsExact, Uncounted

\* What every step has to show.
LEMMA ContentsStep ==
  ASSUME CInv, IInv', BucketsOK', ElementsInPlace', CounterIsExact', IsFiniteSet(Elements'),
         answer' \in [Threads -> BOOLEAN],
         \A t \in Uncounted("count")' : value'[t] \in Elements'
  PROVE  CInv'
<1>1. num_of_elements' \in Nat
  <2>1. (/\ IInv /\ IsFiniteSet(Elements) /\ CounterIsExact
         /\ \A t \in Uncounted("count") : value[t] \in Elements
         => num_of_elements \in Nat)'
    BY CounterIsNatural, PTL
  <2> QED BY <2>1
<1>2. size' > 0
  <2>2. PICK k \in Nat \ {0} : DOMAIN buckets' = 0..(k * n_stripes - 1)
    BY DEF IInv, WholeStripes
  <2> DEFINE m == k * n_stripes
  <2>3. m \in Nat \ {0}
    BY StripesAssumption
  <2> HIDE DEF m
  <2>4. 0 \in Int /\ m - 1 \in Int /\ ~ (0 > m - 1) /\ (m - 1) - 0 + 1 = m
    BY <2>3
  <2>5. Cardinality(0..(m - 1)) = IF 0 > m - 1 THEN 0 ELSE (m - 1) - 0 + 1
    BY <2>4, FS_Interval
  <2>6. size' = m
    <3>1. DOMAIN buckets' = 0..(m - 1)
      BY <2>2 DEF m
    <3> QED BY <2>4, <2>5, <3>1 DEF size
  <2> QED BY <2>3, <2>6
<1>3. TypeOK'
  BY <1>1, <1>2 DEF TypeOK, BucketsOK, IInv, LocksOK
<1> QED BY <1>3 DEF CInv, Inv

\* A step that changes neither the buckets nor the counter, nor its thread's part in it.
LEMMA QuietStep ==
  ASSUME CInv, IInv', NEW t \in Threads, buckets' = buckets,
         num_of_elements' = num_of_elements, answer' \in [Threads -> BOOLEAN],
         pc[t] \notin {"count", "uncount"}, pc'[t] \notin {"count", "uncount"},
         \A u \in Threads \ {t} : pc'[u] = pc[u] /\ value'[u] = value[u]
  PROVE  CInv' /\ Elements' = Elements
<1>1. Elements' = Elements /\ BucketsOK' /\ ElementsInPlace'
  BY Unwritten
<1>2. Uncounted("count")' = Uncounted("count") /\ Uncounted("uncount")' = Uncounted("uncount")
  BY DEF Uncounted
<1>3. CounterIsExact'
  BY <1>1, <1>2 DEF CInv, Inv, CounterIsExact, Uncounted
<1>4. \A u \in Uncounted("count")' : value'[u] \in Elements'
  BY <1>1, <1>2 DEF CInv, Uncounted
<1> QED BY <1>1, <1>3, <1>4, ContentsStep DEF CInv

\* The steps of calls that are neither an insertion, a removal, nor the end of rehash().
LEMMA QuietSteps ==
  ASSUME CInv, IInv', NEW t \in Threads,
         \/ Call(t) \/ LockToWrite(t) \/ LockToRead(t) \/ InsertThrows(t) \/ Check(t) \/ Look(t)
         \/ RehashFirst(t) \/ RehashNothing(t) \/ RehashNext(t) \/ RehashThrows(t)
         \/ Insert(t) /\ Found(t)
         \/ Erase(t) /\ ~ Found(t)
  PROVE  CInv' /\ Elements' = Elements
<1>1. buckets' = buckets /\ num_of_elements' = num_of_elements
        /\ answer' \in [Threads -> BOOLEAN]
  <2>1. answer' = answer \/ answer' = [answer EXCEPT ![t] = Found(t)]
    BY DEF Call, LockToWrite, LockToRead, InsertThrows, Check, Look, RehashFirst, RehashNothing,
           RehashNext, RehashThrows, Insert, Erase
  <2>2. Found(t) \in BOOLEAN
    BY DEF Found
  <2>3. answer' \in [Threads -> BOOLEAN]
    <3> HIDE DEF Found
    <3> QED BY <2>1, <2>2 DEF CInv, Inv, TypeOK
  <2> QED BY <2>3 DEF Call, LockToWrite, LockToRead, InsertThrows, Check, Look, RehashFirst,
           RehashNothing, RehashNext, RehashThrows, Insert, Erase
<1>2. pc[t] \notin {"count", "uncount"}
  BY DEF Call, LockToWrite, LockToRead, InsertThrows, Check, Look, RehashFirst, RehashNothing,
         RehashNext, RehashThrows, Insert, Erase
<1>3. PICK label \in {"idle", "lock_add", "lock_remove", "lock_contains", "add", "remove",
                      "contains", "check", "rehash", "rehash_all"} :
        pc' = [pc EXCEPT ![t] = label]
  <2>1. CASE ~ RehashNext(t)
    BY <2>1 DEF Call, LockToWrite, LockToRead, InsertThrows, Check, Look, RehashFirst,
           RehashNothing, RehashThrows, Insert, Erase, Return, Goto
  <2>2. CASE RehashNext(t)
    <3>1. pc' = pc /\ pc[t] = "rehash_all"
      BY <2>2 DEF RehashNext
    <3>2. pc' = [pc EXCEPT ![t] = "rehash_all"]
      BY <3>1 DEF CInv, IInv, LocksOK
    <3> QED BY <3>2
  <2> QED BY <2>1, <2>2
<1>4. \A u \in Threads \ {t} : value'[u] = value[u]
  BY DEF Call, LockToWrite, LockToRead, InsertThrows, Check, Look, RehashFirst, RehashNothing,
         RehashNext, RehashThrows, Insert, Erase, CInv, IInv, LocksOK
<1>5. /\ pc'[t] \notin {"count", "uncount"}
      /\ \A u \in Threads \ {t} : pc'[u] = pc[u]
  BY <1>3 DEF CInv, IInv, LocksOK
<1> QED BY <1>1, <1>2, <1>4, <1>5, QuietStep

\* A thread enters or leaves the calls that have still to count.
LEMMA UncountedMove ==
  ASSUME IInv, NEW t \in Threads, NEW p, pc' = [pc EXCEPT ![t] = p], NEW label
  PROVE  Uncounted(label)' = IF p = label THEN Uncounted(label) \cup {t}
                                          ELSE Uncounted(label) \ {t}
<1>1. \A u \in Threads : pc'[u] = IF u = t THEN p ELSE pc[u]
  BY DEF IInv, LocksOK
<1> QED BY <1>1 DEF Uncounted

(***************************************************************************)
(* So one call more has to count, or one less.                             *)
(***************************************************************************)
LEMMA UncountedNumber ==
  ASSUME IInv, NEW t \in Threads, NEW p, pc' = [pc EXCEPT ![t] = p], NEW label, pc[t] # p
  PROVE  /\ Cardinality(Uncounted(label)) \in Nat
         /\ p = label => Cardinality(Uncounted(label)') = Cardinality(Uncounted(label)) + 1
         /\ pc[t] = label => Cardinality(Uncounted(label)') = Cardinality(Uncounted(label)) - 1
         /\ label \notin {p, pc[t]} => Cardinality(Uncounted(label)') = Cardinality(Uncounted(label))
<1>1. t \in Uncounted(label) <=> pc[t] = label
  BY DEF Uncounted
<1>2. IsFiniteSet(Uncounted(label)) /\ Cardinality(Uncounted(label)) \in Nat
  BY FewThreads
<1> DEFINE U == Uncounted(label)
<1> HIDE DEF U
<1>3. CASE p = label
  <2>1. Uncounted(label)' = U \cup {t} /\ t \notin U
    BY <1>1, <1>3, UncountedMove DEF U
  <2> QED BY <1>2, <1>3, <2>1, FS_AddElement DEF U
<1>4. CASE p # label /\ pc[t] = label
  <2>1. Uncounted(label)' = U \ {t} /\ t \in U
    BY <1>1, <1>4, UncountedMove DEF U
  <2>2. Cardinality(U \ {t}) = Cardinality(U) - 1
    BY <1>2, <2>1, FS_RemoveElement DEF U
  <2> QED BY <1>2, <1>4, <2>1, <2>2 DEF U
<1>5. CASE p # label /\ pc[t] # label
  <2>1. Uncounted(label)' = U \ {t} /\ t \notin U
    BY <1>1, <1>5, UncountedMove DEF U
  <2>2. U \ {t} = U
    BY <2>1
  <2>3. Uncounted(label)' = Uncounted(label)
    BY <2>1, <2>2 DEF U
  <2> QED BY <1>2, <1>5, <2>3
<1> QED BY <1>3, <1>4, <1>5

\* What that means for the numbers in the counter's sum.
LEMMA Numbers ==
  ASSUME CInv, NEW t \in Threads, NEW p, pc' = [pc EXCEPT ![t] = p], pc[t] # p
  PROVE  /\ Cardinality(Uncounted("count")) \in Nat
         /\ Cardinality(Uncounted("uncount")) \in Nat
         /\ Cardinality(Elements) \in Nat
         /\ Cardinality(Uncounted("count")') =
              IF p = "count" THEN Cardinality(Uncounted("count")) + 1
              ELSE IF pc[t] = "count" THEN Cardinality(Uncounted("count")) - 1
              ELSE Cardinality(Uncounted("count"))
         /\ Cardinality(Uncounted("uncount")') =
              IF p = "uncount" THEN Cardinality(Uncounted("uncount")) + 1
              ELSE IF pc[t] = "uncount" THEN Cardinality(Uncounted("uncount")) - 1
              ELSE Cardinality(Uncounted("uncount"))
<1>1. IInv /\ IsFiniteSet(Elements)
  BY DEF CInv
<1>2. Cardinality(Elements) \in Nat
  BY <1>1, FS_CardinalityType
<1>3. \A label : /\ Cardinality(Uncounted(label)) \in Nat
                 /\ Cardinality(Uncounted(label)') =
                      IF p = label THEN Cardinality(Uncounted(label)) + 1
                      ELSE IF pc[t] = label THEN Cardinality(Uncounted(label)) - 1
                      ELSE Cardinality(Uncounted(label))
  <2> TAKE label
  <2>1. /\ Cardinality(Uncounted(label)) \in Nat
        /\ p = label => Cardinality(Uncounted(label)') = Cardinality(Uncounted(label)) + 1
        /\ pc[t] = label => Cardinality(Uncounted(label)') = Cardinality(Uncounted(label)) - 1
        /\ label \notin {p, pc[t]} => Cardinality(Uncounted(label)') = Cardinality(Uncounted(label))
    BY <1>1, UncountedNumber
  <2> QED BY <2>1
<1> QED BY <1>2, <1>3

\* The counter in terms of the calls that have still to count.
LEMMA Counted ==
  /\ CounterIsExact <=> num_of_elements = Cardinality(Elements)
                            - Cardinality(Uncounted("count")) + Cardinality(Uncounted("uncount"))
  /\ CounterIsExact' <=> num_of_elements' = Cardinality(Elements')
                            - Cardinality(Uncounted("count")') + Cardinality(Uncounted("uncount")')
BY DEF CounterIsExact, Uncounted

\* std::find finds the elements of the set.
LEMMA FoundIsElement == ASSUME CInv, NEW t \in Threads
                        PROVE  Found(t) <=> value[t] \in Elements
<1>1. value[t] \in Values
  BY DEF CInv, IInv, LocksOK
<1>2. PICK v \in Values : v = value[t]
  BY <1>1
<1>3. buckets[get_bucket_index(v)][v] \in {0, 1}
      /\ (v \in Elements <=> buckets[get_bucket_index(v)][v] = 1)
  BY Known DEF ContentsKnown
<1>4. Found(t) <=> buckets[get_bucket_index(v)][v] > 0
  BY <1>2 DEF Found, Bucket
<1> QED BY <1>2, <1>3, <1>4

\* An insertion: one element more, to be counted.
LEMMA InsertNew ==
  ASSUME CInv, IInv', NEW t \in Threads, Insert(t), ~ Found(t)
  PROVE  CInv' /\ Elements' = Elements \cup {value[t]}
<1> DEFINE v == value[t]
           i == get_bucket_index(v)
<1>1. /\ pc[t] = "add" /\ pc' = [pc EXCEPT ![t] = "count"] /\ v \in Values
      /\ buckets' = [buckets EXCEPT ![i][v] = buckets[i][v] + 1]
      /\ UNCHANGED <<num_of_elements, value, answer>>
  BY DEF Insert, Goto, Bucket, CInv, IInv, LocksOK
<1>2. ContentsKnown
  BY Known
<1>3. buckets[i][v] = 0 /\ v \notin Elements
  <2>1. ~ (buckets[i][v] > 0)
    BY DEF Found, Bucket
  <2> HIDE DEF i, v
  <2>2. buckets[i][v] \in {0, 1} /\ (v \in Elements <=> buckets[i][v] = 1)
    BY <1>1, <1>2 DEF ContentsKnown, i
  <2> QED BY <2>1, <2>2
<1>4. buckets' = [buckets EXCEPT ![i][v] = 1]
  <2>1. buckets[i][v] + 1 = 1
    BY <1>3
  <2> QED BY <1>1, <2>1
<1>5. Elements' = Elements \cup {v} /\ BucketsOK' /\ ElementsInPlace'
  <2> HIDE DEF v
  <2> QED BY <1>1, <1>4, Written, WriteValue DEF BucketsOK
<1>6. Uncounted("count")' = Uncounted("count") \cup {t}
  BY <1>1, UncountedMove DEF CInv
<1>7. /\ Cardinality(Elements') = Cardinality(Elements) + 1 /\ IsFiniteSet(Elements')
      /\ Cardinality(Elements) \in Nat
  <2> HIDE DEF v
  <2> QED BY <1>3, <1>5, FS_AddElement, FS_CardinalityType DEF CInv
<1>8. /\ Cardinality(Uncounted("count")') = Cardinality(Uncounted("count")) + 1
      /\ Cardinality(Uncounted("uncount")') = Cardinality(Uncounted("uncount"))
      /\ Cardinality(Uncounted("count")) \in Nat /\ Cardinality(Uncounted("uncount")) \in Nat
      /\ Cardinality(Elements) \in Nat
  BY <1>1, Numbers
<1>9. CounterIsExact'
  BY <1>1, <1>7, <1>8, Counted DEF CInv, Inv
<1>10. \A u \in Uncounted("count")' : value'[u] \in Elements'
  <2>1. value[t] \in Elements'
    BY <1>5
  <2> HIDE DEF v
  <2> QED BY <1>1, <1>5, <1>6, <2>1 DEF CInv
<1>11. CInv'
  BY <1>1, <1>5, <1>7, <1>9, <1>10, ContentsStep DEF CInv, Inv, TypeOK
<1> QED BY <1>5, <1>11

\* The insertion is counted.
LEMMA CountUpCounts ==
  ASSUME CInv, IInv', NEW t \in Threads, CountUp(t)
  PROVE  CInv' /\ Elements' = Elements
<1>1. /\ pc[t] = "count" /\ pc' = [pc EXCEPT ![t] = "check"]
      /\ num_of_elements' = num_of_elements + 1
      /\ UNCHANGED <<buckets, value, answer>>
  BY DEF CountUp, Goto
<1>2. Elements' = Elements /\ BucketsOK' /\ ElementsInPlace'
  BY <1>1, Unwritten
<1>3. Uncounted("count")' = Uncounted("count") \ {t}
  BY <1>1, UncountedMove DEF CInv
<1>4. /\ Cardinality(Uncounted("count")') = Cardinality(Uncounted("count")) - 1
      /\ Cardinality(Uncounted("uncount")') = Cardinality(Uncounted("uncount"))
      /\ Cardinality(Uncounted("count")) \in Nat /\ Cardinality(Uncounted("uncount")) \in Nat
      /\ Cardinality(Elements) \in Nat
  <2>1. pc[t] # "check" /\ "check" \notin {"count", "uncount"}
    BY <1>1
  <2> QED BY <1>1, <2>1, Numbers
<1>5. CounterIsExact'
  BY <1>1, <1>2, <1>4, Counted DEF CInv, Inv
<1>6. \A u \in Uncounted("count")' : value'[u] \in Elements'
  BY <1>1, <1>2, <1>3 DEF CInv
<1> QED BY <1>1, <1>2, <1>5, <1>6, ContentsStep DEF CInv, Inv, TypeOK

\* A removal: one element less, to be counted; nobody counts an insertion of it meanwhile.
LEMMA EraseFound ==
  ASSUME CInv, IInv', NEW t \in Threads, Erase(t), Found(t)
  PROVE  CInv' /\ Elements' = Elements \ {value[t]}
<1> DEFINE v == value[t]
           i == get_bucket_index(v)
<1>1. /\ pc[t] = "remove" /\ pc' = [pc EXCEPT ![t] = "uncount"] /\ v \in Values
      /\ buckets' = [buckets EXCEPT ![i][v] = 0]
      /\ UNCHANGED <<num_of_elements, value, answer>>
  BY DEF Erase, Goto, Bucket, CInv, IInv, LocksOK
<1>2. ContentsKnown
  BY Known
<1>3. v \in Elements
  <2>1. buckets[i][v] > 0
    BY DEF Found, Bucket
  <2> HIDE DEF i, v
  <2>2. buckets[i][v] \in {0, 1} /\ (v \in Elements <=> buckets[i][v] = 1)
    BY <1>1, <1>2 DEF ContentsKnown, i
  <2> QED BY <2>1, <2>2
<1>4. Elements' = Elements \ {v} /\ BucketsOK' /\ ElementsInPlace'
  <2>1. buckets' = [buckets EXCEPT ![get_bucket_index(v)][v] = 0] /\ v \in Values
    BY <1>1
  <2> HIDE DEF v
  <2>2. Elements' = Elements \ {v}
    <3>1. 0 \in {0, 1} /\ 0 # 1
      OBVIOUS
    <3>2. Elements' = IF 0 = 1 THEN Elements \cup {v} ELSE Elements \ {v}
      BY <2>1, <3>1, Written
    <3> QED BY <3>1, <3>2
  <2>3. BucketsOK' /\ ElementsInPlace'
    BY <2>1, WriteValue DEF BucketsOK
  <2> QED BY <2>2, <2>3
<1>5. Uncounted("count")' = Uncounted("count") \ {t}
  BY <1>1, UncountedMove DEF CInv
<1>6. /\ Cardinality(Elements') = Cardinality(Elements) - 1 /\ IsFiniteSet(Elements')
      /\ Cardinality(Elements) \in Nat
  <2> HIDE DEF v
  <2> QED BY <1>3, <1>4, FS_RemoveElement, FS_CardinalityType DEF CInv
<1>7. /\ Cardinality(Uncounted("count")') = Cardinality(Uncounted("count"))
      /\ Cardinality(Uncounted("uncount")') = Cardinality(Uncounted("uncount")) + 1
      /\ Cardinality(Uncounted("count")) \in Nat /\ Cardinality(Uncounted("uncount")) \in Nat
      /\ Cardinality(Elements) \in Nat
  BY <1>1, Numbers
<1>8. CounterIsExact'
  BY <1>1, <1>6, <1>7, Counted DEF CInv, Inv
<1>9. ASSUME NEW u \in Uncounted("count")'
      PROVE  value'[u] \in Elements'
  <2>1. u \in Uncounted("count") /\ u # t /\ value[u] \in Elements
    BY <1>5, <1>9 DEF CInv
  <2>2. u \in Threads /\ pc[u] = "count"
    BY <2>1 DEF Uncounted
  <2>3. Stripe(t) \in unique[t] /\ Stripe(u) \in unique[u]
    BY <1>1, <2>2 DEF CInv, IInv, HoldsStripe, Exclusively
  <2>4. Stripe(t) # Stripe(u)
    BY <2>1, <2>2, <2>3 DEF CInv, IInv, Exclusion
  <2>5. value[u] # v
    BY <2>4 DEF Stripe, get_stripe_index
  <2> QED BY <1>1, <1>4, <2>1, <2>5
<1>10. CInv'
  BY <1>1, <1>4, <1>6, <1>8, <1>9, ContentsStep DEF CInv, Inv, TypeOK
<1> QED BY <1>4, <1>10

\* The removal is counted.
LEMMA CountDownCounts ==
  ASSUME CInv, IInv', NEW t \in Threads, CountDown(t)
  PROVE  CInv' /\ Elements' = Elements
<1>1. /\ pc[t] = "uncount" /\ pc' = [pc EXCEPT ![t] = "idle"]
      /\ num_of_elements' = num_of_elements - 1
      /\ UNCHANGED <<buckets, value, answer>>
  BY DEF CountDown, Return, Goto
<1>2. Elements' = Elements /\ BucketsOK' /\ ElementsInPlace'
  BY <1>1, Unwritten
<1>3. Uncounted("count")' = Uncounted("count") \ {t}
  BY <1>1, UncountedMove DEF CInv
<1>4. /\ Cardinality(Uncounted("count")') = Cardinality(Uncounted("count"))
      /\ Cardinality(Uncounted("uncount")') = Cardinality(Uncounted("uncount")) - 1
      /\ Cardinality(Uncounted("count")) \in Nat /\ Cardinality(Uncounted("uncount")) \in Nat
      /\ Cardinality(Elements) \in Nat
  <2>1. pc[t] # "idle" /\ "idle" \notin {"count", "uncount"}
    BY <1>1
  <2> QED BY <1>1, <2>1, Numbers
<1>5. CounterIsExact'
  BY <1>1, <1>2, <1>4, Counted DEF CInv, Inv
<1>6. \A u \in Uncounted("count")' : value'[u] \in Elements'
  BY <1>1, <1>2, <1>3 DEF CInv
<1> QED BY <1>1, <1>2, <1>5, <1>6, ContentsStep DEF CInv, Inv, TypeOK

\* Growing changes no element.
LEMMA RebuildKeeps ==
  ASSUME CInv, IInv', NEW t \in Threads, Rebuild(t)
  PROVE  CInv' /\ Elements' = Elements
<1>1. /\ pc[t] = "rehash_all" /\ pc' = [pc EXCEPT ![t] = "idle"]
      /\ UNCHANGED <<num_of_elements, value, answer>>
  BY DEF Rebuild, Return, Goto
<1>2. Elements' = Elements /\ BucketsOK' /\ ElementsInPlace'
  BY Rebuilt
<1>3. Uncounted("count")' = Uncounted("count") \ {t}
  BY <1>1, UncountedMove DEF CInv
<1>4. CounterIsExact'
  <2>1. /\ Cardinality(Uncounted("count")') = Cardinality(Uncounted("count"))
        /\ Cardinality(Uncounted("uncount")') = Cardinality(Uncounted("uncount"))
        /\ Cardinality(Uncounted("count")) \in Nat /\ Cardinality(Uncounted("uncount")) \in Nat
        /\ Cardinality(Elements) \in Nat
    <3>1. pc[t] # "idle" /\ "idle" \notin {"count", "uncount"}
      BY <1>1
    <3> QED BY <1>1, <3>1, Numbers
  <2> QED BY <1>1, <1>2, <2>1, Counted DEF CInv, Inv
<1>5. \A u \in Uncounted("count")' : value'[u] \in Elements'
  BY <1>1, <1>2, <1>3 DEF CInv
<1> QED BY <1>1, <1>2, <1>4, <1>5, ContentsStep DEF CInv, Inv, TypeOK

\* Every step keeps places, types and the counter.
LEMMA StepContents == CInv /\ [Next]_vars => CInv'
<1> SUFFICES ASSUME CInv, [Next]_vars PROVE CInv'
  OBVIOUS
<1>1. IInv'
  BY StepInv DEF CInv
<1>2. ASSUME NEW t \in Threads, Call(t) \/ Step(t) \/ InsertThrows(t) \/ RehashThrows(t)
      PROVE  CInv'
  BY <1>1, <1>2, QuietSteps, InsertNew, CountUpCounts, EraseFound, CountDownCounts, RebuildKeeps
     DEF Step
<1>3. CASE UNCHANGED vars
  <2>1. Elements' = Elements /\ BucketsOK' /\ ElementsInPlace'
    BY <1>1, <1>3, Unwritten DEF vars
  <2>2. \A label : Uncounted(label)' = Uncounted(label)
    BY <1>3 DEF vars, Uncounted
  <2>3. CounterIsExact'
    BY <1>3, <2>1, <2>2 DEF CInv, Inv, CounterIsExact, Uncounted, vars
  <2>4. \A u \in Uncounted("count")' : value'[u] \in Elements'
    BY <1>3, <2>1, <2>2 DEF CInv, vars
  <2> QED BY <1>1, <1>3, <2>1, <2>3, <2>4, ContentsStep DEF CInv, Inv, TypeOK, vars
<1> QED BY <1>2, <1>3 DEF Next

\* The contents are in place and counted in every state of every execution.
LEMMA ContentsInvariance == Spec => []CInv
BY InitContents, StepContents, PTL DEF Spec

(***************************************************************************)
(* Inv: values are where the calls look for them, once at most, and the    *)
(* counter is exact, for every number of threads and however often the set *)
(* grows.                                                                  *)
(***************************************************************************)
THEOREM Exactness == Spec => []Inv
<1>1. CInv => Inv
  BY DEF CInv
<1> QED BY <1>1, ContentsInvariance, PTL
-----------------------------------------------------------------------------
\* What a call has left to do at a label.
PhaseAt(label) == CASE label = "idle" -> "none"
                    [] label \in {"lock_add", "add"} -> "add"
                    [] label \in {"lock_remove", "remove"} -> "remove"
                    [] label \in {"lock_contains", "contains"} -> "contains"
                    [] OTHER -> "done"

\* A thread that goes to a label changes its own phase only.
LEMMA PhaseMove ==
  ASSUME IInv, NEW t \in Threads, NEW label, pc' = [pc EXCEPT ![t] = label]
  PROVE  /\ Phase(t) = PhaseAt(pc[t])
         /\ [u \in Threads |-> Phase(u)]' =
              [[u \in Threads |-> Phase(u)] EXCEPT ![t] = PhaseAt(label)]
<1>1. \A u \in Threads : pc'[u] = IF u = t THEN label ELSE pc[u]
  BY DEF IInv, LocksOK
<1>2. \A u \in Threads : Phase(u) = PhaseAt(pc[u]) /\ Phase(u)' = PhaseAt(pc'[u])
  BY Zenon DEF Phase, PhaseAt
<1>3. \A u \in Threads : Phase(u)' = IF u = t THEN PhaseAt(label) ELSE Phase(u)
  BY <1>1, <1>2
<1>4. [u \in Threads |-> Phase(u)]' = [u \in Threads |-> Phase(u)']
  OBVIOUS
<1> HIDE DEF Phase
<1> QED BY <1>2, <1>3, <1>4

\* If that is the phase the thread was in, no phase changes.
LEMMA PhaseStays ==
  ASSUME IInv, NEW t \in Threads, NEW label, pc' = [pc EXCEPT ![t] = label],
         PhaseAt(label) = PhaseAt(pc[t])
  PROVE  [u \in Threads |-> Phase(u)]' = [u \in Threads |-> Phase(u)]
BY PhaseMove

\* A call begins.
LEMMA CallInvokes ==
  ASSUME CInv, IInv', NEW t \in Threads, Call(t)
  PROVE  Abstract!Invoke(t)
<1>1. Elements' = Elements /\ pc[t] = "idle" /\ answer' = answer
  BY QuietSteps DEF Call
<1>2. PICK op \in {"lock_add", "lock_remove", "lock_contains"} : pc' = [pc EXCEPT ![t] = op]
  BY DEF Call, Goto
<1>3. \E v \in Values : value' = [value EXCEPT ![t] = v]
  BY DEF Call
<1>4. PhaseAt(op) \in {"add", "remove", "contains"} /\ PhaseAt("idle") = "none"
  BY DEF PhaseAt
<1>5. /\ Phase(t) = "none"
      /\ [u \in Threads |-> Phase(u)]' =
            [[u \in Threads |-> Phase(u)] EXCEPT ![t] = PhaseAt(op)]
  BY <1>1, <1>2, <1>4, PhaseMove DEF CInv
<1> QED BY <1>1, <1>3, <1>4, <1>5 DEF Abstract!Invoke

\* Taking a lock and counting are of no consequence.
LEMMA LocksStutter ==
  ASSUME CInv, IInv', NEW t \in Threads,
         \/ LockToWrite(t) \/ LockToRead(t) \/ CountUp(t)
         \/ RehashFirst(t) \/ RehashNext(t)
  PROVE  UNCHANGED <<Elements, [u \in Threads |-> Phase(u)], value, answer>>
<1>1. Elements' = Elements
  BY QuietSteps, CountUpCounts
<1>2. value' = value /\ answer' = answer
  BY DEF LockToWrite, LockToRead, CountUp, RehashFirst, RehashNext
<1>3. PICK label : pc' = [pc EXCEPT ![t] = label] /\ PhaseAt(label) = PhaseAt(pc[t])
  <2> DEFINE Goes(from, to) == pc[t] = from /\ pc' = [pc EXCEPT ![t] = to]
  <2>1. CASE LockToWrite(t)
    <3>1. Goes("lock_add", "add") \/ Goes("lock_remove", "remove")
      BY <2>1 DEF LockToWrite, Goto
    <3>2. /\ PhaseAt("lock_add") = "add" /\ PhaseAt("add") = "add"
          /\ PhaseAt("lock_remove") = "remove" /\ PhaseAt("remove") = "remove"
      BY DEF PhaseAt
    <3> QED BY <3>1, <3>2
  <2>2. CASE LockToRead(t)
    <3>1. Goes("lock_contains", "contains")
      BY <2>2 DEF LockToRead, Goto
    <3>2. PhaseAt("lock_contains") = "contains" /\ PhaseAt("contains") = "contains"
      BY DEF PhaseAt
    <3> QED BY <3>1, <3>2
  <2>3. CASE CountUp(t)
    <3>1. Goes("count", "check")
      BY <2>3 DEF CountUp, Goto
    <3>2. PhaseAt("count") = "done" /\ PhaseAt("check") = "done"
      BY DEF PhaseAt
    <3> QED BY <3>1, <3>2
  <2>4. CASE RehashFirst(t)
    <3>1. Goes("rehash", "rehash_all")
      BY <2>4 DEF RehashFirst, Goto
    <3>2. PhaseAt("rehash") = "done" /\ PhaseAt("rehash_all") = "done"
      BY DEF PhaseAt
    <3> QED BY <3>1, <3>2
  <2>5. CASE RehashNext(t)
    <3>1. pc' = [pc EXCEPT ![t] = pc[t]]
      BY <2>5 DEF RehashNext, CInv, IInv, LocksOK
    <3> QED BY <3>1
  <2> QED BY <2>1, <2>2, <2>3, <2>4, <2>5
<1>4. [u \in Threads |-> Phase(u)]' = [u \in Threads |-> Phase(u)]
  BY <1>3, PhaseStays DEF CInv
<1> QED BY <1>1, <1>2, <1>4

\* The moment of an add: its value is in the set from then on.
LEMMA InsertAdds ==
  ASSUME CInv, IInv', NEW t \in Threads, Insert(t)
  PROVE  Abstract!Add(t)
<1>1. pc[t] = "add" /\ value' = value /\ answer' = answer
  BY DEF Insert
<1>2. Elements' = Elements \cup {value[t]}
  <2>1. CASE Found(t)
    BY <2>1, QuietSteps, FoundIsElement
  <2>2. CASE ~ Found(t)
    BY <2>2, InsertNew
  <2> QED BY <2>1, <2>2
<1>3. PICK label \in {"check", "count"} : pc' = [pc EXCEPT ![t] = label]
  BY DEF Insert, Goto
<1>4. PhaseAt(label) = "done" /\ PhaseAt("add") = "add"
  BY DEF PhaseAt
<1>5. /\ Phase(t) = "add"
      /\ [u \in Threads |-> Phase(u)]' = [[u \in Threads |-> Phase(u)] EXCEPT ![t] = "done"]
  BY <1>1, <1>3, <1>4, PhaseMove DEF CInv
<1> QED BY <1>1, <1>2, <1>5 DEF Abstract!Add, Abstract!Finish

\* The moment of a remove: its value is not in the set from then on.
LEMMA EraseRemoves ==
  ASSUME CInv, IInv', NEW t \in Threads, Erase(t)
  PROVE  Abstract!Remove(t)
<1>1. pc[t] = "remove" /\ value' = value /\ answer' = answer
  BY DEF Erase
<1>2. Elements' = Elements \ {value[t]}
  <2>1. CASE Found(t)
    BY <2>1, EraseFound
  <2>2. CASE ~ Found(t)
    <3>1. Elements' = Elements /\ value[t] \notin Elements
      BY <2>2, QuietSteps, FoundIsElement
    <3> QED BY <3>1
  <2> QED BY <2>1, <2>2
<1>3. PICK label \in {"uncount", "idle"} : pc' = [pc EXCEPT ![t] = label]
  BY DEF Erase, Return, Goto
<1>4. PhaseAt(label) \in {"done", "none"} /\ PhaseAt("remove") = "remove"
  BY DEF PhaseAt
<1>5. /\ Phase(t) = "remove"
      /\ [u \in Threads |-> Phase(u)]' =
            [[u \in Threads |-> Phase(u)] EXCEPT ![t] = PhaseAt(label)]
  BY <1>1, <1>3, <1>4, PhaseMove DEF CInv
<1> QED BY <1>1, <1>2, <1>4, <1>5 DEF Abstract!Remove, Abstract!Finish

\* The moment of a contains: its answer is true of the set as it is then.
LEMMA LookAnswers ==
  ASSUME CInv, IInv', NEW t \in Threads, Look(t)
  PROVE  Abstract!Contains(t)
<1>1. /\ pc[t] = "contains" /\ value' = value /\ pc' = [pc EXCEPT ![t] = "idle"]
      /\ answer' = [answer EXCEPT ![t] = Found(t)]
  BY DEF Look, Return, Goto
<1>2. Elements' = Elements
  BY QuietSteps
<1>3. Found(t) = (value[t] \in Elements)
  <2>1. Found(t) \in BOOLEAN
    BY DEF Found
  <2> QED BY <2>1, FoundIsElement
<1>4. answer' = [answer EXCEPT ![t] = value[t] \in Elements]
  BY <1>1, <1>3, Zenon
<1>5. PhaseAt("idle") = "none" /\ PhaseAt("contains") = "contains"
  BY DEF PhaseAt
<1>6. /\ Phase(t) = "contains"
      /\ [u \in Threads |-> Phase(u)]' = [[u \in Threads |-> Phase(u)] EXCEPT ![t] = "none"]
  BY <1>1, <1>5, PhaseMove DEF CInv
<1> QED BY <1>1, <1>2, <1>4, <1>6 DEF Abstract!Contains, Abstract!Finish

\* An add without memory for its value fails as if it had not been called.
LEMMA ThrowFails ==
  ASSUME CInv, IInv', NEW t \in Threads, InsertThrows(t)
  PROVE  Abstract!Fail(t)
<1>1. /\ pc[t] = "add" /\ pc' = [pc EXCEPT ![t] = "idle"]
      /\ value' = value /\ answer' = answer /\ Elements' = Elements
  BY QuietSteps DEF InsertThrows, Return, Goto
<1>2. PhaseAt("idle") = "none" /\ PhaseAt("add") = "add"
  BY DEF PhaseAt
<1>3. /\ Phase(t) = "add"
      /\ [u \in Threads |-> Phase(u)]' = [[u \in Threads |-> Phase(u)] EXCEPT ![t] = "none"]
  BY <1>1, <1>2, PhaseMove DEF CInv
<1> QED BY <1>1, <1>3 DEF Abstract!Fail

\* Whatever a call does after its moment, it only returns, and growing changes no element.
LEMMA RestReturns ==
  ASSUME CInv, IInv', NEW t \in Threads,
         \/ Check(t) \/ CountDown(t) \/ RehashNothing(t) \/ Rebuild(t) \/ RehashThrows(t)
  PROVE  \/ Abstract!Return(t)
         \/ UNCHANGED <<Elements, [u \in Threads |-> Phase(u)], value, answer>>
<1>1. Elements' = Elements
  BY QuietSteps, CountDownCounts, RebuildKeeps
<1>2. value' = value /\ answer' = answer
  BY DEF Check, CountDown, RehashNothing, Rebuild, RehashThrows
<1>3. PICK label \in {"idle", "rehash"} : pc' = [pc EXCEPT ![t] = label]
  BY DEF Check, CountDown, RehashNothing, Rebuild, RehashThrows, Return, Goto
<1>4. pc[t] \in {"check", "uncount", "rehash", "rehash_all"}
  BY DEF Check, CountDown, RehashNothing, Rebuild, RehashThrows
<1>5. PhaseAt(pc[t]) = "done" /\ PhaseAt("idle") = "none" /\ PhaseAt("rehash") = "done"
  BY <1>4 DEF PhaseAt
<1>6. CASE label = "rehash"
  <2>1. [u \in Threads |-> Phase(u)]' = [u \in Threads |-> Phase(u)]
    BY <1>3, <1>5, <1>6, PhaseStays DEF CInv
  <2> QED BY <1>1, <1>2, <2>1
<1>7. CASE label = "idle"
  <2>1. /\ Phase(t) = "done"
        /\ [u \in Threads |-> Phase(u)]' = [[u \in Threads |-> Phase(u)] EXCEPT ![t] = "none"]
    BY <1>3, <1>5, <1>7, PhaseMove DEF CInv
  <2> QED BY <1>1, <1>2, <2>1 DEF Abstract!Return
<1> QED BY <1>3, <1>6, <1>7

\* Every step is a step of the set that the threads share, or nothing to it.
LEMMA StepImplements ==
  CInv /\ IInv' /\ [Next]_vars =>
    [Abstract!Next]_<<Elements, [t \in Threads |-> Phase(t)], value, answer>>
<1> SUFFICES ASSUME CInv, IInv', [Next]_vars
             PROVE  \/ Abstract!Next
                    \/ UNCHANGED <<Elements, [t \in Threads |-> Phase(t)], value, answer>>
  OBVIOUS
<1>1. ASSUME NEW t \in Threads, Call(t) \/ Step(t) \/ InsertThrows(t) \/ RehashThrows(t)
      PROVE  \/ Abstract!Invoke(t) \/ Abstract!Add(t) \/ Abstract!Remove(t)
             \/ Abstract!Contains(t) \/ Abstract!Fail(t) \/ Abstract!Return(t)
             \/ UNCHANGED <<Elements, [u \in Threads |-> Phase(u)], value, answer>>
  BY <1>1, CallInvokes, LocksStutter, InsertAdds, EraseRemoves, LookAnswers, ThrowFails,
     RestReturns DEF Step
<1>2. CASE UNCHANGED vars
  <2>1. Elements' = Elements
    BY <1>2, Unwritten DEF vars
  <2>2. pc' = pc /\ value' = value /\ answer' = answer
    BY <1>2 DEF vars
  <2>3. \A u \in Threads : Phase(u)' = Phase(u)
    BY <2>2, Zenon DEF Phase
  <2> QED BY <2>1, <2>2, <2>3
<1> QED BY <1>1, <1>2 DEF Next, Abstract!Next

\* The threads start with the initial values in the set, and no call going on.
LEMMA InitImplements == Init => Abstract!Init
<1> SUFFICES ASSUME Init PROVE Abstract!Init
  OBVIOUS
<1>1. Elements = Initial
  BY InitElements
<1>2. \A t \in Threads : Phase(t) = "none"
  BY DEF Init, Phase
<1>3. value \in [Threads -> Values]
  BY InitInv DEF IInv, LocksOK
<1> QED BY <1>1, <1>2, <1>3 DEF Init, Abstract!Init

(***************************************************************************)
(* The striped hash set implements a set, for every number of threads: the *)
(* calls are linearizable, and an add without memory for its value has no  *)
(* effect.  Growing is invisible, and so is its failure.                   *)
(***************************************************************************)
THEOREM Linearizable == Spec => ImplementsSet
<1>1. CInv => IInv
  BY DEF CInv
<1> QED BY <1>1, InitImplements, StepImplements, ContentsInvariance, PTL
        DEF Spec, ImplementsSet, Abstract!Spec
=============================================================================
