--------------------------- MODULE StripedHashSet ---------------------------
(***************************************************************************)
(* ParallelProgramming/striped_hash_set.h: a hash set with chained buckets *)
(* and one reader-writer lock for each stripe of them.  rehash() takes all *)
(* the locks, the first one before the others.                             *)
(*                                                                         *)
(* A value is its own hash.  A bucket is the number of times it holds each *)
(* value; the order of a list is of no consequence.                        *)
(***************************************************************************)
EXTENDS Integers, FiniteSets, FiniteSetsExt

CONSTANTS Threads, Values,
          n_stripes, load_factor, growth_factor,
          Initial,    \* the values added, one after the other, before the threads start
          MaxCalls    \* bound: how many calls the threads make

ASSUME ThreadsAssumption == IsFiniteSet(Threads)
ASSUME HashAssumption == Values \subseteq Nat /\ Values # {}
ASSUME StripesAssumption == n_stripes \in Nat \ {0} /\ growth_factor \in Nat \ {0}

\* The initial values have not made the set grow yet.
ASSUME InitialAssumption ==
  /\ Initial \subseteq Values /\ IsFiniteSet(Initial)
  /\ Cardinality(Initial) < load_factor * growth_factor * n_stripes

VARIABLES
  buckets,          \* buckets[b][v]: how often v is in bucket b
  num_of_elements,  \* the atomic counter
  unique, shared,   \* unique[t], shared[t]: the stripes t has locked
  pc,               \* pc[t]: what t does next
  value,            \* value[t]: the argument of t's call
  num_of_buckets,   \* num_of_buckets[t]: the argument of rehash()
  answer,           \* answer[t]: what contains() returned
  calls             \* number of calls so far

locks == <<unique, shared>>
vars == <<buckets, num_of_elements, unique, shared, pc, value,
          num_of_buckets, answer, calls>>

Stripes == 0..(n_stripes - 1)
size == Cardinality(DOMAIN buckets)

\* The contents S in n buckets.
Layout(S, n) == [b \in 0..(n - 1) |->
                   [v \in Values |-> IF v \in S /\ v % n = b THEN 1 ELSE 0]]

Init == /\ buckets = Layout(Initial, growth_factor * n_stripes)
        /\ num_of_elements = Cardinality(Initial)
        /\ unique = [t \in Threads |-> {}] /\ shared = [t \in Threads |-> {}]
        /\ pc = [t \in Threads |-> "idle"]
        /\ value = [t \in Threads |-> CHOOSE v \in Values : TRUE]
        /\ num_of_buckets = [t \in Threads |-> 0]
        /\ answer = [t \in Threads |-> FALSE]
        /\ calls = 0

get_bucket_index(v) == v % size

get_stripe_index(v) == v % n_stripes

Bucket(t) == get_bucket_index(value[t])
Stripe(t) == get_stripe_index(value[t])
Found(t) == buckets[Bucket(t)][value[t]] > 0

Goto(t, label) == pc' = [pc EXCEPT ![t] = label]

\* t locks stripe s for itself, or with other readers.
LockUnique(t, s) == /\ \A u \in Threads : s \notin unique[u] \cup shared[u]
                    /\ unique' = [unique EXCEPT ![t] = @ \cup {s}]
                    /\ UNCHANGED shared
LockShared(t, s) == /\ \A u \in Threads : s \notin unique[u]
                    /\ shared' = [shared EXCEPT ![t] = @ \cup {s}]
                    /\ UNCHANGED unique

\* The locks are released by their destructors, or by unlock().
Unlock(t) == /\ unique' = [unique EXCEPT ![t] = {}]
             /\ shared' = [shared EXCEPT ![t] = {}]

Return(t) == Goto(t, "idle") /\ Unlock(t)
-----------------------------------------------------------------------------
\* A thread calls add, remove or contains.
Call(t) == /\ pc[t] = "idle" /\ calls < MaxCalls
           /\ calls' = calls + 1
           /\ \E v \in Values : value' = [value EXCEPT ![t] = v]
           /\ \E op \in {"lock_add", "lock_remove", "lock_contains"} : Goto(t, op)
           /\ UNCHANGED <<buckets, num_of_elements, locks, num_of_buckets, answer>>

\* add and remove: the lock of the value's stripe.
LockToWrite(t) ==
  /\ \/ pc[t] = "lock_add" /\ Goto(t, "add")
     \/ pc[t] = "lock_remove" /\ Goto(t, "remove")
  /\ LockUnique(t, Stripe(t))
  /\ UNCHANGED <<buckets, num_of_elements, value, num_of_buckets, answer, calls>>

\* contains: the lock of the value's stripe.
LockToRead(t) ==
  /\ pc[t] = "lock_contains" /\ Goto(t, "contains")
  /\ LockShared(t, Stripe(t))
  /\ UNCHANGED <<buckets, num_of_elements, value, num_of_buckets, answer, calls>>

\* add: std::find, push_front
Insert(t) ==
  /\ pc[t] = "add"
  /\ IF Found(t)
     THEN Goto(t, "check") /\ UNCHANGED buckets
     ELSE /\ Goto(t, "count")
          /\ buckets' = [buckets EXCEPT ![Bucket(t)][value[t]] = @ + 1]
  /\ UNCHANGED <<num_of_elements, locks, value, num_of_buckets, answer, calls>>

\* push_front throws for want of memory, and add with it, before anything has changed.
InsertThrows(t) ==
  /\ pc[t] = "add" /\ ~Found(t) /\ Return(t)
  /\ UNCHANGED <<buckets, num_of_elements, value, num_of_buckets, answer, calls>>

\* num_of_elements.fetch_add(1)
CountUp(t) ==
  /\ pc[t] = "count" /\ Goto(t, "check")
  /\ num_of_elements' = num_of_elements + 1
  /\ UNCHANGED <<buckets, locks, value, num_of_buckets, answer, calls>>

\* A mutant: the stripe stays locked while rehash() runs.
Check_KeepsLock(t) ==
  /\ pc[t] = "check"
  /\ IF num_of_elements \div size >= load_factor
     THEN /\ num_of_buckets' = [num_of_buckets EXCEPT ![t] = size]
          /\ Goto(t, "rehash") /\ UNCHANGED locks
     ELSE Return(t) /\ UNCHANGED num_of_buckets
  /\ UNCHANGED <<buckets, num_of_elements, value, answer, calls>>

\* The end of add: the stripe is unlocked, before rehash() if the set is full.
Check(t) ==
  /\ pc[t] = "check"
  /\ Unlock(t)
  /\ IF num_of_elements \div size >= load_factor
     THEN /\ num_of_buckets' = [num_of_buckets EXCEPT ![t] = size]
          /\ Goto(t, "rehash")
     ELSE Goto(t, "idle") /\ UNCHANGED num_of_buckets
  /\ UNCHANGED <<buckets, num_of_elements, value, answer, calls>>

\* A mutant: a removal of a value that is not there is counted, one that happens is not.
Erase_Miscounts(t) ==
  /\ pc[t] = "remove"
  /\ IF Found(t)
     THEN /\ buckets' = [buckets EXCEPT ![Bucket(t)][value[t]] = 0]
          /\ Return(t)
     ELSE /\ Goto(t, "uncount")
          /\ UNCHANGED <<buckets, locks>>
  /\ UNCHANGED <<num_of_elements, value, num_of_buckets, answer, calls>>

\* remove: std::find, bucket.remove(v)
Erase(t) ==
  /\ pc[t] = "remove"
  /\ IF Found(t)
     THEN /\ buckets' = [buckets EXCEPT ![Bucket(t)][value[t]] = 0]
          /\ Goto(t, "uncount") /\ UNCHANGED locks
     ELSE Return(t) /\ UNCHANGED buckets
  /\ UNCHANGED <<num_of_elements, value, num_of_buckets, answer, calls>>

\* num_of_elements.fetch_add(-1); remove returns
CountDown(t) ==
  /\ pc[t] = "uncount" /\ Return(t)
  /\ num_of_elements' = num_of_elements - 1
  /\ UNCHANGED <<buckets, value, num_of_buckets, answer, calls>>

\* contains: std::find
Look(t) ==
  /\ pc[t] = "contains" /\ Return(t)
  /\ answer' = [answer EXCEPT ![t] = Found(t)]
  /\ UNCHANGED <<buckets, num_of_elements, value, num_of_buckets, calls>>
-----------------------------------------------------------------------------
\* A mutant: rehash() does not look whether somebody has been faster.
RehashFirst_Always(t) ==
  /\ pc[t] = "rehash" /\ LockUnique(t, 0) /\ Goto(t, "rehash_all")
  /\ UNCHANGED <<buckets, num_of_elements, value, num_of_buckets, answer, calls>>

\* rehash(): the lock of stripe 0, and the test whether the set has grown meanwhile.
RehashFirst(t) ==
  /\ pc[t] = "rehash" /\ LockUnique(t, 0)
  /\ num_of_buckets[t] = size /\ Goto(t, "rehash_all")
  /\ UNCHANGED <<buckets, num_of_elements, value, num_of_buckets, answer, calls>>

\* It has grown: rehash() locks stripe 0, finds nothing to do and returns.
RehashNothing(t) ==
  /\ pc[t] = "rehash" /\ \A u \in Threads : 0 \notin unique[u] \cup shared[u]
  /\ num_of_buckets[t] # size /\ Goto(t, "idle")
  /\ UNCHANGED <<buckets, num_of_elements, locks, value, num_of_buckets, answer, calls>>

\* The other locks, one after the other.
RehashNext(t) ==
  /\ pc[t] = "rehash_all" /\ UNCHANGED pc
  /\ \E s \in Stripes \ unique[t] : /\ 0..(s - 1) \subseteq unique[t]
                                    /\ LockUnique(t, s)
  /\ UNCHANGED <<buckets, num_of_elements, value, num_of_buckets, answer, calls>>

Occurrences(v) == MapThenSumSet(LAMBDA b : buckets[b][v], DOMAIN buckets)

\* Every element moves to its bucket among n.
Redistribute(n) ==
  buckets' = [b \in 0..(n - 1) |->
                [v \in Values |-> IF v % n = b THEN Occurrences(v) ELSE 0]]

\* A mutant: one bucket more, so that two stripes share one.
Rebuild_Odd(t) ==
  /\ pc[t] = "rehash_all" /\ unique[t] = Stripes
  /\ Redistribute(growth_factor * size + 1)
  /\ Return(t)
  /\ UNCHANGED <<num_of_elements, value, num_of_buckets, answer, calls>>

\* A mutant: elements keep their bucket numbers.
Rebuild_InPlace(t) ==
  /\ pc[t] = "rehash_all" /\ unique[t] = Stripes
  /\ buckets' = [b \in 0..(growth_factor * size - 1) |->
                   IF b < size THEN buckets[b] ELSE [v \in Values |-> 0]]
  /\ Return(t)
  /\ UNCHANGED <<num_of_elements, value, num_of_buckets, answer, calls>>

\* All locks are held: the new buckets are filled and swapped in.
Rebuild(t) ==
  /\ pc[t] = "rehash_all" /\ unique[t] = Stripes
  /\ Redistribute(growth_factor * size)
  /\ Return(t)
  /\ UNCHANGED <<num_of_elements, value, num_of_buckets, answer, calls>>

(***************************************************************************)
(* The vector of the locks or the new buckets cannot be allocated: add     *)
(* throws after it has added its value, and the set stays as full as it is.*)
(***************************************************************************)
RehashThrows(t) ==
  /\ pc[t] = "rehash_all" /\ Return(t)
  /\ UNCHANGED <<buckets, num_of_elements, value, num_of_buckets, answer, calls>>

Step(t) == \/ LockToWrite(t) \/ LockToRead(t)
           \/ Insert(t) \/ CountUp(t) \/ Check(t)
           \/ Erase(t) \/ CountDown(t) \/ Look(t)
           \/ RehashFirst(t) \/ RehashNothing(t) \/ RehashNext(t) \/ Rebuild(t)

Next == \E t \in Threads : Call(t) \/ Step(t) \/ InsertThrows(t) \/ RehashThrows(t)

Spec == Init /\ [][Next]_vars

(***************************************************************************)
(* A thread inside a call runs, and gets a lock that is free for good.     *)
(* Nothing has to fail: an exception is no way out of a deadlock.          *)
(***************************************************************************)
FairSpec == Spec /\ \A t \in Threads : WF_vars(Step(t))
-----------------------------------------------------------------------------
\* Buckets hold numbers of values, locks are stripes, the counter is not negative.
TypeOK == /\ size > 0 /\ buckets \in [0..(size - 1) -> [Values -> Nat]]
          /\ num_of_elements \in Nat
          /\ unique \in [Threads -> SUBSET Stripes]
          /\ shared \in [Threads -> SUBSET Stripes]
          /\ value \in [Threads -> Values]
          /\ num_of_buckets \in [Threads -> Nat]
          /\ answer \in [Threads -> BOOLEAN]

\* A value is in the set once at most, and in the bucket where the calls look for it.
ElementsInPlace ==
  \A b \in DOMAIN buckets, v \in Values :
    /\ buckets[b][v] <= 1
    /\ buckets[b][v] = 1 => b = get_bucket_index(v)

Elements == {v \in Values : Occurrences(v) > 0}

(***************************************************************************)
(* The counter is the number of elements, but for the calls that have      *)
(* changed their bucket and not counted yet.                               *)
(***************************************************************************)
CounterIsExact ==
  num_of_elements = Cardinality(Elements)
                      - Cardinality({t \in Threads : pc[t] = "count"})
                      + Cardinality({t \in Threads : pc[t] = "uncount"})

\* Checked together: types, places and the counter.
Inv == TypeOK /\ ElementsInPlace /\ CounterIsExact

Writing(t) == pc[t] \in {"add", "remove"}
Reading(t) == pc[t] = "contains"

(***************************************************************************)
(* No two threads are at the same bucket when one of them may change it,   *)
(* although each holds the lock of a stripe only: a stripe's buckets stay  *)
(* its own whatever the number of buckets.                                 *)
(***************************************************************************)
StripesSeparate ==
  \A t, u \in Threads : t # u =>
    (Writing(t) /\ (Writing(u) \/ Reading(u)) => Bucket(t) # Bucket(u))

\* t replaces the buckets.
Grows(t) == pc[t] = "rehash_all" /\ pc'[t] = "idle" /\ buckets' # buckets

(***************************************************************************)
(* One full table makes the set grow once, however many calls have seen it *)
(* full.  And while the buckets are replaced nobody else is at a bucket,   *)
(* about to count what it has done there, or about to read the number of   *)
(* buckets: references into the old buckets do not outlive them.           *)
(***************************************************************************)
GrowsOnceAlone ==
  [][\A t \in Threads : Grows(t) =>
       /\ num_of_buckets[t] = size
       /\ \A u \in Threads \ {t} :
            ~Writing(u) /\ ~Reading(u) /\ pc[u] \notin {"count", "uncount", "check"}]_vars

\* What t has called, until the call has read or changed its bucket.
Phase(t) == CASE pc[t] = "idle" -> "none"
              [] pc[t] \in {"lock_add", "add"} -> "add"
              [] pc[t] \in {"lock_remove", "remove"} -> "remove"
              [] pc[t] \in {"lock_contains", "contains"} -> "contains"
              [] OTHER -> "done"

Abstract == INSTANCE AbstractSet WITH set <- Elements,
                                      phase <- [t \in Threads |-> Phase(t)]

\* Linearizability: every call takes effect at once on one set, rehash() has no effect.
ImplementsSet == Abstract!Spec

\* Every call returns: the locks of rehash() and of the other calls cannot deadlock.
CallsReturn == \A t \in Threads : pc[t] # "idle" ~> pc[t] = "idle"
=============================================================================
