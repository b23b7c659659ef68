-------------------------- MODULE TreeMutexProofs --------------------------
(***************************************************************************)
(* Proofs about tree_mutex, for any number of threads.                     *)
(*                                                                         *)
(* First the index arithmetic, for the tree of any number of threads: the  *)
(* nodes between a thread and the root are the quotients of its first      *)
(* mutex by the powers of two, and get_child, which computes with heights  *)
(* alone, goes back from each to the one before; so unlock() retraces      *)
(* lock().  From this follow the few facts about a thread's way that the   *)
(* rest relies on (OnWay, OneUp, OneDown, SharedSide).  Then the invariant *)
(* Inv of TreeMutex.tla, one lemma per step, and what follows from it: one *)
(* thread per side, mutual exclusion, the implementation of AbstractLock's *)
(* safety part, and that every node is used as Peterson.tla says.          *)
(***************************************************************************)
EXTENDS MCTreeMutex, FiniteSets, FunctionTheorems, FiniteSetTheorems,
        WellFoundedInduction, TLAPS
-----------------------------------------------------------------------------
\* Quotient and remainder.
LEMMA DivMod == ASSUME NEW C \in Nat \ {0}, NEW k \in Int
                PROVE  /\ k \div C \in Int
                       /\ k % C \in 0..(C - 1)
                       /\ k = (C * (k \div C)) + (k % C)
OBVIOUS

\* A multiple of C closer to zero than C is zero.
LEMMA SmallMultiple == ASSUME NEW C \in Nat \ {0}, NEW q \in Int,
                              C * q < C, C * q > 0 - C
                       PROVE  q = 0
OBVIOUS

\* A quotient is determined by the multiple of the divisor below the number.
LEMMA Quotient == ASSUME NEW C \in Nat \ {0}, NEW i \in Int, NEW q \in Int,
                         C * q <= i, i < C * q + C
                  PROVE  i \div C = q
<1> DEFINE d == (i \div C) - q
<1>1. i \div C \in Int /\ i % C \in 0..(C - 1) /\ i = (C * (i \div C)) + (i % C)
  BY DivMod
<1>2. d \in Int /\ C * d = (C * (i \div C)) - (C * q)
  BY <1>1
<1>3. C * (i \div C) \in Int /\ C * q \in Int
  BY <1>1
<1>4. C * d < C /\ C * d > 0 - C
  <2> HIDE DEF d
  <2> QED BY <1>1, <1>2, <1>3
<1>5. d = 0
  <2> HIDE DEF d
  <2> QED BY <1>2, <1>4, SmallMultiple
<1> QED BY <1>1, <1>5

\* A set of natural numbers has a least element.
LEMMA Least == ASSUME NEW T \in SUBSET Nat, T # {}
               PROVE  \E x \in T : \A y \in T : x <= y
<1>1. IsWellFoundedOn(OpToRel(<, Nat), Nat)
  BY NatLessThanWellFounded
<1>2. PICK x \in T : \A y \in T : ~ (<<y, x>> \in OpToRel(<, Nat))
  BY <1>1, WFMin, Zenon
<1>3. \A y \in T : ~ (y < x)
  BY <1>2, Zenon DEF OpToRel
<1> QED BY <1>3

\* Induction over the natural numbers.
LEMMA InductionOverNat ==
  ASSUME NEW S, 0 \in S, \A n \in Nat : n \in S => n + 1 \in S
  PROVE  Nat \subseteq S
<1> SUFFICES ASSUME Nat \ S # {} PROVE FALSE
  OBVIOUS
<1>1. PICK x \in Nat \ S : \A y \in Nat \ S : x <= y
  BY Least
<1>2. x - 1 \in Nat /\ x - 1 \in S
  BY <1>1
<1> QED BY <1>1, <1>2

\* 2^n counts the subsets of a set of n elements.
LEMMA PowerCounts == ASSUME NEW n \in Nat
                     PROVE  2^n = Cardinality(SUBSET (1..n)) /\ IsFiniteSet(SUBSET (1..n))
<1>1. IsFiniteSet(1..n) /\ Cardinality(1..n) = n
  BY FS_Interval
<1> QED BY <1>1, FS_SUBSET, Zenon

\* The recursion of the powers of two.
LEMMA PowerOfTwo == /\ 2^0 = 1
                    /\ \A n \in Nat : 2^n \in Nat \ {0} /\ 2^(n + 1) = 2 * 2^n
<1>1. 2^0 = 1
  OBVIOUS
<1>2. ASSUME NEW n \in Nat PROVE 2^n \in Nat \ {0}
  <2>1. 2^n \in Nat
    BY PowerCounts, FS_CardinalityType
  <2>2. SUBSET (1..n) # {}
    OBVIOUS
  <2> QED BY <2>1, <2>2, PowerCounts, FS_EmptySet
<1>3. ASSUME NEW n \in Nat PROVE 2^(n + 1) = 2 * 2^n
  <2> DEFINE S == SUBSET (1..n)
             R == {T \cup {n + 1} : T \in S}
             f == [T \in S |-> T \cup {n + 1}]
  <2>1. f \in Bijection(S, R)
    <3>1. f \in [S -> R] /\ \A y \in R : \E T \in S : f[T] = y
      OBVIOUS
    <3>2. ASSUME NEW T \in S, NEW V \in S, f[T] = f[V] PROVE T = V
      <4>1. n + 1 \notin T /\ n + 1 \notin V
        OBVIOUS
      <4>2. T \cup {n + 1} = V \cup {n + 1}
        BY <3>2
      <4> QED BY <4>1, <4>2
    <3> HIDE DEF f, R, S
    <3> QED BY <3>1, <3>2, Fun_IsBij
  <2>2. IsFiniteSet(S) /\ Cardinality(S) = 2^n
    BY PowerCounts
  <2>3. IsFiniteSet(R) /\ Cardinality(R) = 2^n
    <3> HIDE DEF f, R, S
    <3> QED BY <2>1, <2>2, FS_Bijection, Fun_ExistsBij
  <2>4. S \cap R = {}
    <3>1. \A T \in S : n + 1 \notin T
      OBVIOUS
    <3> QED BY <3>1
  <2>5. SUBSET (1..(n + 1)) = S \cup R
    <3>1. ASSUME NEW T \in SUBSET (1..(n + 1)) PROVE T \in S \cup R
      <4>1. CASE n + 1 \in T
        <5>1. T \ {n + 1} \in S /\ T = (T \ {n + 1}) \cup {n + 1}
          BY <4>1
        <5> QED BY <5>1
      <4>2. CASE n + 1 \notin T
        BY <4>2
      <4> QED BY <4>1, <4>2
    <3>2. S \subseteq SUBSET (1..(n + 1))
      OBVIOUS
    <3>3. ASSUME NEW T \in S PROVE T \cup {n + 1} \in SUBSET (1..(n + 1))
      OBVIOUS
    <3>4. R \subseteq SUBSET (1..(n + 1))
      BY <3>3, ZenonT(60)
    <3> HIDE DEF R, S
    <3> QED BY <3>1, <3>2, <3>4
  <2>6. Cardinality(S \cup R) = 2^n + 2^n
    <3>1. 2^n \in Nat /\ Cardinality({}) = 0
      BY <1>2, FS_EmptySet
    <3> HIDE DEF R, S
    <3> QED BY <2>2, <2>3, <2>4, <3>1, FS_Union
  <2>7. 2^(n + 1) = 2^n + 2^n
    <3>1. n + 1 \in Nat
      OBVIOUS
    <3>2. 2^(n + 1) = Cardinality(SUBSET (1..(n + 1)))
      BY <3>1, PowerCounts
    <3> QED BY <2>5, <2>6, <3>2
  <2> QED BY <1>2, <2>7
<1> QED BY <1>1, <1>2, <1>3


\* A quotient by a power of two is halved by the next power.
LEMMA Halved == ASSUME NEW k \in Nat, NEW x \in Nat
                PROVE  /\ x \div 2^k \in Nat
                       /\ x \div 2^(k + 1) = (x \div 2^k) \div 2
<1> DEFINE p == 2^k
           q == x \div 2^k
<1>1. p \in Nat \ {0} /\ 2^(k + 1) = 2 * p
  BY PowerOfTwo
<1>2. q \in Int /\ x % p \in 0..(p - 1) /\ x = (p * q) + (x % p)
  <2>1. x \in Int
    OBVIOUS
  <2>2. /\ x \div p \in Int /\ x % p \in 0..(p - 1)
        /\ x = (p * (x \div p)) + (x % p)
    <3> HIDE DEF p
    <3> QED BY <1>1, <2>1, DivMod
  <2> QED BY <2>2
<1>3. q \in Nat
  <2>1. CASE q < 0
    <3>1. p * q <= 0 - p
      <4>1. q <= -1 => p * q <= p * (-1)
        <5> HIDE DEF p, q
        <5> QED BY <1>1, <1>2
      <4>2. p * (-1) = 0 - p
        <5> HIDE DEF p
        <5> QED BY <1>1
      <4> HIDE DEF p, q
      <4> QED BY <1>1, <1>2, <2>1, <4>1, <4>2
    <3> HIDE DEF p, q
    <3> QED BY <1>1, <1>2, <3>1
  <2> QED BY <1>2, <2>1
<1>4. q \div 2 \in Int /\ q % 2 \in 0..1 /\ q = (2 * (q \div 2)) + (q % 2)
  <2> HIDE DEF q
  <2> QED BY <1>3
<1>5. x \div (2 * p) = q \div 2
  <2> DEFINE d == q \div 2
             e == q % 2
             r == x % p
  <2>1. /\ p \in Nat \ {0} /\ d \in Int /\ e \in {0, 1} /\ r \in 0..(p - 1)
        /\ q = 2 * d + e /\ x = p * q + r
    BY <1>1, <1>2, <1>4
  <2>2. p * q = (2 * p) * d + p * e
    <3> HIDE DEF p, q, d, e, r
    <3> QED BY <2>1
  <2>3. p * e \in {0, p}
    <3> HIDE DEF p, q, d, e, r
    <3> QED BY <2>1
  <2>4. (2 * p) * d <= x /\ x < (2 * p) * d + 2 * p
    <3>1. (2 * p) * d \in Int /\ p * q \in Int
      BY <2>1, <1>2
    <3> HIDE DEF p, q, d, e, r
    <3> QED BY <2>1, <2>2, <2>3, <3>1
  <2>5. 2 * p \in Nat \ {0}
    BY <1>1
  <2> HIDE DEF p, q, d, e, r
  <2> QED BY <2>1, <2>4, <2>5, Quotient
<1> QED BY <1>1, <1>3, <1>5

\* Powers of two grow, and faster than their exponents.
LEMMA PowersGrow == /\ \A j, k \in Nat : j <= k => 2^j <= 2^k
                    /\ \A k \in Nat : k < 2^k
<1>1. ASSUME NEW j \in Nat, NEW k \in Nat, j <= k
      PROVE  2^j <= 2^k
  <2> DEFINE S == {n \in Nat : j <= n => 2^j <= 2^n}
  <2>1. 0 \in S
    <3>1. ASSUME j <= 0 PROVE 2^j <= 2^0
      <4>1. j = 0
        BY <3>1
      <4> QED BY <4>1, PowerOfTwo
    <3> QED BY <3>1
  <2>2. ASSUME NEW n \in Nat, n \in S PROVE n + 1 \in S
    <3>1. 2^n \in Nat /\ 2^j \in Nat /\ 2^(n + 1) = 2 * 2^n
      BY PowerOfTwo
    <3>2. CASE j <= n
      BY <2>2, <3>1, <3>2
    <3>3. CASE j = n + 1
      BY <3>1, <3>3
    <3> QED BY <3>2, <3>3
  <2>3. Nat \subseteq S
    <3> HIDE DEF S
    <3> QED BY <2>1, <2>2, InductionOverNat
  <2> QED BY <1>1, <2>3
<1>2. ASSUME NEW k \in Nat
      PROVE  k < 2^k
  <2> DEFINE S == {n \in Nat : n < 2^n}
  <2>1. 0 \in S
    BY PowerOfTwo
  <2>2. ASSUME NEW n \in Nat, n \in S PROVE n + 1 \in S
    BY <2>2, PowerOfTwo
  <2>3. Nat \subseteq S
    <3> HIDE DEF S
    <3> QED BY <2>1, <2>2, InductionOverNat
  <2> QED BY <2>3
<1> QED BY <1>1, <1>2
-----------------------------------------------------------------------------
\* upper_log2 rounds up to the least power of two, of exponent at least one.
LEMMA UpperLog == ASSUME NEW n \in Nat \ {0}
                  PROVE  /\ upper_log2(n) \in Nat \ {0}
                         /\ n <= 2^upper_log2(n)
                         /\ upper_log2(n) = 1 \/ 2^(upper_log2(n) - 1) < n
<1> DEFINE K == {k \in Nat \ {0} : 2^k >= n}
<1>1. n \in K
  BY PowersGrow, PowerOfTwo
<1>2. PICK k \in K : \A j \in K : k <= j
  BY <1>1, Least
<1>3. k \in 1..(n + 1) /\ 2^k >= n
  BY <1>1, <1>2
<1>4. k = 1 \/ 2^(k - 1) < n
  <2>1. k # 1 => k - 1 \in Nat \ {0} /\ ~ (k - 1 \in K)
    BY <1>2
  <2>2. k # 1 => 2^(k - 1) \in Nat
    BY <2>1, PowerOfTwo
  <2> QED BY <2>1, <2>2
<1>5. upper_log2(n) \in 1..(n + 1) /\ 2^upper_log2(n) >= n
        /\ (upper_log2(n) = 1 \/ 2^(upper_log2(n) - 1) < n)
  BY <1>3, <1>4 DEF upper_log2
<1>6. 2^upper_log2(n) \in Nat
  BY <1>5, PowerOfTwo
<1> QED BY <1>5, <1>6

\* The number of levels is determined by the powers of two around n.
LEMMA UpperLogIs == ASSUME NEW n \in Nat \ {0}, NEW k \in Nat \ {0},
                           2^(k - 1) < n, n <= 2^k
                    PROVE  upper_log2(n) = k
<1> DEFINE j == upper_log2(n)
<1>1. j \in Nat \ {0} /\ n <= 2^j /\ (j = 1 \/ 2^(j - 1) < n)
  BY UpperLog
<1>2. /\ 2^k \in Nat /\ 2^(k - 1) \in Nat
      /\ 2^j \in Nat /\ 2^(j - 1) \in Nat
  <2>1. k - 1 \in Nat /\ j - 1 \in Nat
    BY <1>1
  <2> HIDE DEF j
  <2> QED BY <1>1, <2>1, PowerOfTwo
<1>3. ~ (j <= k - 1)
  <2>1. j <= k - 1 => 2^j <= 2^(k - 1)
    <3>1. k - 1 \in Nat
      OBVIOUS
    <3> HIDE DEF j
    <3> QED BY <1>1, <3>1, PowersGrow
  <2> HIDE DEF j
  <2> QED BY <1>1, <1>2, <2>1
<1>4. ~ (k <= j - 1)
  <2>1. k <= j - 1 => 2^k <= 2^(j - 1)
    <3>1. j - 1 \in Nat
      BY <1>1
    <3> HIDE DEF j
    <3> QED BY <3>1, PowersGrow
  <2>2. k <= j - 1 => j # 1
    BY <1>1
  <2> HIDE DEF j
  <2> QED BY <1>1, <1>2, <2>1, <2>2
<1> HIDE DEF j
<1> QED BY <1>1, <1>3, <1>4 DEF j
-----------------------------------------------------------------------------
\* The levels of the tree of N threads, and the node k levels above a thread's first mutex.
LevelsIn(N) == upper_log2(N)
AncestorIn(N, t, k) == (Tree(N)!first_mutex(t) + 1) \div 2^k - 1

\* The tree has LevelsIn(N) levels; the first mutexes are on the last one.
LEMMA AnyTreeShape ==
  ASSUME NEW N \in Nat \ {0}
  PROVE
  /\ LevelsIn(N) \in Nat \ {0}
  /\ Tree(N)!tree_size = 2^LevelsIn(N) - 1 /\ Tree(N)!tree_size \in Nat \ {0}
  /\ 2^LevelsIn(N) = 2 * 2^(LevelsIn(N) - 1) /\ 2^(LevelsIn(N) - 1) \in Nat \ {0}
  /\ \A t \in Tree(N)!Threads : /\ Tree(N)!first_mutex(t) \in Tree(N)!Nodes
                        /\ 2^(LevelsIn(N) - 1) <= Tree(N)!first_mutex(t) + 1
                        /\ Tree(N)!first_mutex(t) + 1 < 2^LevelsIn(N)
<1> DEFINE h == LevelsIn(N)
           p == 2^(h - 1)
<1>1. N \in Nat \ {0}
  OBVIOUS
<1>2. h \in Nat \ {0} /\ N <= 2^h
  BY <1>1, UpperLog DEF LevelsIn
<1>3. 2^h = 2 * p /\ p \in Nat \ {0}
  <2>1. h - 1 \in Nat /\ (h - 1) + 1 = h
    BY <1>2
  <2> HIDE DEF h
  <2>2. 2^((h - 1) + 1) = 2 * p /\ p \in Nat \ {0}
    BY <2>1, PowerOfTwo
  <2> QED BY <2>1, <2>2
<1>4. Tree(N)!tree_size = 2^h - 1
  BY DEF Tree!tree_size, Tree!upper_log2, upper_log2, LevelsIn
<1>5. Tree(N)!tree_size \in Nat \ {0}
  <2> HIDE DEF p, h
  <2> QED BY <1>3, <1>4
<1>6. ASSUME NEW t \in Tree(N)!Threads
      PROVE  /\ Tree(N)!first_mutex(t) \in Tree(N)!Nodes
             /\ p <= Tree(N)!first_mutex(t) + 1 /\ Tree(N)!first_mutex(t) + 1 < 2^h
  <2>1. t \in 0..(N - 1)
    BY DEF Tree!Threads
  <2>2. t \in Nat /\ t < 2 * p
    <3> HIDE DEF p, h
    <3> QED BY <1>1, <1>2, <1>3, <2>1
  <2>3. t \div 2 \in 0..(p - 1)
    <3> HIDE DEF p, h
    <3> QED BY <1>3, <2>2
  <2>4. Tree(N)!first_mutex(t) = 2 * p - 2 - t \div 2
    <3> HIDE DEF p, h
    <3> QED BY <1>3, <1>4, <2>3 DEF Tree!first_mutex
  <2>5. Tree(N)!first_mutex(t) \in 0..(Tree(N)!tree_size - 1)
    <3> HIDE DEF p, h
    <3> QED BY <1>3, <1>4, <2>3, <2>4
  <2> HIDE DEF p, h
  <2> QED BY <1>3, <2>3, <2>4, <2>5 DEF Tree!Nodes
<1> QED BY <1>2, <1>3, <1>4, <1>5, <1>6

\* An ancestor's level is read off its index, and its parent is the next ancestor.
LEMMA AnyAncestorAt ==
  ASSUME NEW N \in Nat \ {0}, NEW t \in Tree(N)!Threads, NEW k \in 0..(LevelsIn(N) - 1)
  PROVE  /\ AncestorIn(N, t, k) \in Tree(N)!Nodes
         /\ 2^(LevelsIn(N) - 1 - k) <= AncestorIn(N, t, k) + 1
         /\ AncestorIn(N, t, k) + 1 < 2 * 2^(LevelsIn(N) - 1 - k)
         /\ Tree(N)!parent_index(AncestorIn(N, t, k)) = AncestorIn(N, t, k + 1)
<1> DEFINE h == LevelsIn(N)
           f == Tree(N)!first_mutex(t) + 1
           In(j) == /\ 2^(h - 1 - j) <= f \div 2^j
                    /\ f \div 2^j < 2 * 2^(h - 1 - j)
<1>1. h \in Nat \ {0} /\ f \in Nat \ {0} /\ 2^(h - 1) <= f /\ f < 2 * 2^(h - 1)
  BY AnyTreeShape DEF Tree!Nodes
<1>2. \A j \in Nat : f \div 2^j \in Nat /\ f \div 2^(j + 1) = (f \div 2^j) \div 2
  <2> HIDE DEF f
  <2> QED BY <1>1, Halved
<1>3. In(k)
  <2> DEFINE S == {j \in Nat : j <= h - 1 => In(j)}
  <2>1. 0 \in S
    <3>1. f \div 2^0 = f
      <4>1. f \div 1 = f
        <5> HIDE DEF f
        <5> QED BY <1>1
      <4>2. 2^0 = 1
        BY PowerOfTwo
      <4> HIDE DEF f
      <4> QED BY <4>1, <4>2
    <3>2. h - 1 - 0 = h - 1
      BY <1>1
    <3> HIDE DEF f, h
    <3> QED BY <1>1, <3>1, <3>2
  <2>2. ASSUME NEW j \in Nat, j \in S PROVE j + 1 \in S
    <3> SUFFICES ASSUME j + 1 <= h - 1 PROVE In(j + 1)
      BY <2>2
    <3> DEFINE q == f \div 2^j
               r == f \div 2^(j + 1)
               b == 2^(h - 1 - (j + 1))
    <3>1. h - 1 - (j + 1) \in Nat /\ h - 1 - j = (h - 1 - (j + 1)) + 1
      BY <1>1
    <3>2. b \in Nat \ {0} /\ 2^(h - 1 - j) = 2 * b
      <4> HIDE DEF h
      <4> QED BY <3>1, PowerOfTwo
    <3>3. q \in Nat /\ r = q \div 2
      BY <1>2
    <3>4. In(j)
      <4> HIDE DEF In
      <4> QED BY <2>2, <1>1
    <3>5. 2 * b <= q /\ q < 2 * (2 * b)
      <4> HIDE DEF b, h
      <4> QED BY <3>2, <3>4
    <3>6. b <= r /\ r < 2 * b
      <4> HIDE DEF b, q, r
      <4> QED BY <3>2, <3>3, <3>5
    <3> QED BY <3>6
  <2>3. Nat \subseteq S
    <3> HIDE DEF S
    <3> QED BY <2>1, <2>2, InductionOverNat
  <2>4. k \in Nat /\ k <= h - 1
    BY <1>1
  <2> HIDE DEF In
  <2> QED BY <2>3, <2>4
<1>4. k \in Nat /\ h - 1 - k \in Nat /\ h - 1 - k <= h - 1
  BY <1>1
<1> DEFINE q == f \div 2^k
           b == 2^(h - 1 - k)
<1>5. q \in Nat /\ b \in Nat \ {0} /\ b <= q /\ q < 2 * b /\ f \div 2^(k + 1) = q \div 2
  <2>1. b \in Nat \ {0}
    <3> HIDE DEF h
    <3> QED BY <1>4, PowerOfTwo
  <2> QED BY <1>2, <1>3, <1>4, <2>1
<1>6. AncestorIn(N, t, k) = q - 1 /\ AncestorIn(N, t, k + 1) = q \div 2 - 1
  BY <1>5 DEF AncestorIn
<1>7. b <= 2^(h - 1) /\ 2^(h - 1) \in Nat
  <2>1. h - 1 \in Nat
    BY <1>1
  <2> HIDE DEF h
  <2> QED BY <1>4, <2>1, PowersGrow, PowerOfTwo
<1>8. AncestorIn(N, t, k) \in Tree(N)!Nodes
  <2>1. Tree(N)!tree_size = 2 * 2^(h - 1) - 1
    BY AnyTreeShape
  <2> HIDE DEF q, b, h
  <2> QED BY <1>5, <1>6, <1>7, <2>1 DEF Tree!Nodes
<1>9. Tree(N)!parent_index(AncestorIn(N, t, k)) = AncestorIn(N, t, k + 1)
  <2>1. ((q - 1) - 1) \div 2 = q \div 2 - 1
    <3> HIDE DEF q, b
    <3> QED BY <1>5
  <2> HIDE DEF q, b, h
  <2> QED BY <1>6, <2>1 DEF Tree!parent_index
<1>10. b <= AncestorIn(N, t, k) + 1 /\ AncestorIn(N, t, k) + 1 < 2 * b
  <2> HIDE DEF q, b, h
  <2> QED BY <1>5, <1>6
<1> QED BY <1>8, <1>9, <1>10

\* Ancestors of different levels are different, whatever threads they belong to.
LEMMA AnyHigherIsSmaller ==
  ASSUME NEW N \in Nat \ {0}, NEW t \in Tree(N)!Threads, NEW u \in Tree(N)!Threads,
         NEW j \in 0..(LevelsIn(N) - 1), NEW k \in 0..(LevelsIn(N) - 1), j < k
  PROVE  AncestorIn(N, u, k) < AncestorIn(N, t, j)
<1> DEFINE a == 2^(LevelsIn(N) - 1 - k)
           b == 2^(LevelsIn(N) - 1 - j)
<1>1. LevelsIn(N) - 1 - k \in Nat /\ LevelsIn(N) - 1 - j \in Nat
        /\ (LevelsIn(N) - 1 - k) + 1 <= LevelsIn(N) - 1 - j
  BY AnyTreeShape
<1>2. 2^((LevelsIn(N) - 1 - k) + 1) = 2 * a /\ a \in Nat /\ b \in Nat
  BY <1>1, PowerOfTwo
<1>3. 2^((LevelsIn(N) - 1 - k) + 1) <= b
  <2>1. (LevelsIn(N) - 1 - k) + 1 \in Nat
    BY <1>1
  <2> QED BY <1>1, <2>1, PowersGrow
<1>4. AncestorIn(N, u, k) + 1 < 2 * a /\ b <= AncestorIn(N, t, j) + 1
        /\ AncestorIn(N, u, k) \in Nat /\ AncestorIn(N, t, j) \in Nat
  BY AnyAncestorAt DEF Tree!Nodes
<1> HIDE DEF a, b
<1> QED BY <1>2, <1>3, <1>4

\* The way starts at the first mutex and ends at the root.
LEMMA AnyWayEnds == ASSUME NEW N \in Nat \ {0}, NEW t \in Tree(N)!Threads
                 PROVE  /\ AncestorIn(N, t, 0) = Tree(N)!first_mutex(t)
                        /\ AncestorIn(N, t, LevelsIn(N) - 1) = 0
<1>1. Tree(N)!first_mutex(t) \in Nat
  BY AnyTreeShape DEF Tree!Nodes
<1>2. AncestorIn(N, t, 0) = Tree(N)!first_mutex(t)
  <2>1. (Tree(N)!first_mutex(t) + 1) \div 1 = Tree(N)!first_mutex(t) + 1
    BY <1>1
  <2>2. 2^0 = 1
    BY PowerOfTwo
  <2> QED BY <1>1, <2>1, <2>2 DEF AncestorIn
<1>3. LevelsIn(N) - 1 \in 0..(LevelsIn(N) - 1) /\ LevelsIn(N) - 1 - (LevelsIn(N) - 1) = 0
  BY AnyTreeShape
<1>4. ASSUME NEW l \in 0..(LevelsIn(N) - 1), l = LevelsIn(N) - 1
      PROVE  AncestorIn(N, t, l) = 0
  <2>1. /\ AncestorIn(N, t, l) \in Nat
        /\ AncestorIn(N, t, l) + 1 < 2 * 2^(LevelsIn(N) - 1 - l)
    BY AnyAncestorAt DEF Tree!Nodes
  <2>2. 2^(LevelsIn(N) - 1 - l) = 1
    <3>1. LevelsIn(N) - 1 - l = 0
      BY <1>4
    <3> QED BY <3>1, PowerOfTwo
  <2> QED BY <2>1, <2>2
<1> QED BY <1>2, <1>3, <1>4

\* get_child, which computes with heights alone, undoes parent_index on a thread's way.
LEMMA AnyChildIs ==
  ASSUME NEW N \in Nat \ {0}, NEW t \in Tree(N)!Threads, NEW k \in 1..(LevelsIn(N) - 1)
  PROVE  Tree(N)!get_child(AncestorIn(N, t, k), t) = AncestorIn(N, t, k - 1)
<1> DEFINE h == LevelsIn(N)
           f == Tree(N)!first_mutex(t) + 1
           n == AncestorIn(N, t, k)
           p == 2^(k - 1)
           x == f \div p
<1>1. h \in Nat \ {0} /\ f \in Nat \ {0} /\ k \in Nat \ {0} /\ k \in 0..(h - 1)
        /\ k - 1 \in Nat /\ (k - 1) + 1 = k
  BY AnyTreeShape DEF Tree!Nodes
<1>2. p \in Nat \ {0} /\ 2^k = 2 * p
  <2>1. 2^((k - 1) + 1) = 2 * p /\ p \in Nat \ {0}
    BY <1>1, PowerOfTwo
  <2> QED BY <1>1, <2>1
<1>3. x \in Nat /\ AncestorIn(N, t, k - 1) = x - 1 /\ n = x \div 2 - 1 /\ n \in Nat
  <2>1. x \in Nat /\ f \div 2^((k - 1) + 1) = x \div 2
    <3> HIDE DEF f
    <3> QED BY <1>1, Halved
  <2>2. f \div 2^k = x \div 2
    <3> HIDE DEF x, p, f
    <3> QED BY <1>1, <2>1
  <2>3. n = f \div 2^k - 1 /\ AncestorIn(N, t, k - 1) = x - 1
    BY DEF AncestorIn
  <2>4. n \in Nat
    BY <1>1, AnyAncestorAt DEF Tree!Nodes
  <2> HIDE DEF x, p, f, n
  <2> QED BY <2>1, <2>2, <2>3, <2>4
<1>4. upper_log2(n + 2) = h - k
  <2>1. h - k \in Nat \ {0} /\ h - 1 - k = (h - k) - 1 /\ (h - k) - 1 \in Nat
          /\ ((h - k) - 1) + 1 = h - k
    BY <1>1
  <2> DEFINE b == 2^((h - k) - 1)
  <2>2. b \in Nat \ {0} /\ 2^(h - k) = 2 * b
    <3>1. 2^(((h - k) - 1) + 1) = 2 * b /\ b \in Nat \ {0}
      <4> HIDE DEF h
      <4> QED BY <2>1, PowerOfTwo
    <3> HIDE DEF b
    <3> QED BY <2>1, <3>1
  <2>3. b <= n + 1 /\ n + 1 < 2 * b
    <3>1. 2^(h - 1 - k) <= n + 1 /\ n + 1 < 2 * 2^(h - 1 - k)
      BY <1>1, AnyAncestorAt
    <3> HIDE DEF n
    <3> QED BY <2>1, <3>1
  <2>4. n + 2 \in Nat \ {0} /\ b < n + 2 /\ n + 2 <= 2 * b
    <3> HIDE DEF b, n
    <3> QED BY <1>3, <2>2, <2>3
  <2> DEFINE e == h - k
  <2>5. e \in Nat \ {0} /\ 2^(e - 1) < n + 2 /\ n + 2 <= 2^e
    BY <2>1, <2>2, <2>4
  <2> HIDE DEF e, n
  <2>6. upper_log2(n + 2) = e
    BY <2>4, <2>5, UpperLogIs
  <2> QED BY <2>6 DEF e
<1>5. upper_log2(Tree(N)!tree_size) = h
  <2> DEFINE b == 2^(h - 1)
  <2>1. Tree(N)!tree_size = 2 * b - 1 /\ 2^h = 2 * b /\ b \in Nat \ {0} /\ Tree(N)!tree_size \in Nat \ {0}
    BY AnyTreeShape
  <2>2. h - 1 < b /\ 1 <= h - 1
    <3>1. h - 1 \in Nat
      BY <1>1
    <3>2. h - 1 < b
      <4> HIDE DEF h
      <4> QED BY <3>1, PowersGrow
    <3> QED BY <1>1, <3>2
  <2>3. b < Tree(N)!tree_size /\ Tree(N)!tree_size <= 2^h
    <3> HIDE DEF b, h
    <3> QED BY <1>1, <2>1, <2>2
  <2> HIDE DEF h
  <2> QED BY <1>1, <2>1, <2>3, UpperLogIs
<1>6. upper_log2(Tree(N)!tree_size) - upper_log2(n + 2) = k
  <2> HIDE DEF n, h
  <2> QED BY <1>1, <1>4, <1>5
<1>7. (3 * (2 * p - 1)) \div 2 = 3 * p - 2
  <2> HIDE DEF p
  <2> QED BY <1>2
<1>8. Tree(N)!get_child(n, t) = IF (2 * p) * n + (3 * p - 2) >= Tree(N)!first_mutex(t)
                        THEN 2 * n + 1 ELSE 2 * n + 2
  <2>1. Tree(N)!get_child(n, t) = IF 2^k * n + (3 * (2^k - 1)) \div 2 >= Tree(N)!first_mutex(t)
                          THEN 2 * n + 1 ELSE 2 * n + 2
    <3> HIDE DEF n
    <3> QED BY <1>6 DEF Tree!get_child, Tree!upper_log2, upper_log2
  <2> HIDE DEF n, p
  <2> QED BY <1>2, <1>7, <2>1
<1>9. f % p \in 0..(p - 1) /\ f = (p * x) + (f % p)
  <2> HIDE DEF f, p
  <2>1. f \in Int
    BY <1>1
  <2>2. f % p \in 0..(p - 1) /\ f = (p * (f \div p)) + (f % p)
    BY <1>2, <2>1, DivMod
  <2> QED BY <2>2
<1>10. x = 2 * (n + 1) \/ x = 2 * (n + 1) + 1
  <2> HIDE DEF x, n
  <2> QED BY <1>3
<1>11. p * (2 * (n + 1)) = (2 * p) * n + 2 * p /\ p * (2 * (n + 1) + 1) = (2 * p) * n + 3 * p
        /\ (2 * p) * n \in Int
  <2> HIDE DEF p, n
  <2> QED BY <1>2, <1>3
<1>12. Tree(N)!first_mutex(t) = f - 1 /\ Tree(N)!first_mutex(t) \in Int
  BY AnyTreeShape DEF Tree!Nodes
<1> DEFINE m == (2 * p) * n
           r == f % p
           c == Tree(N)!get_child(n, t)
<1>13. CASE x = 2 * (n + 1)
  <2>1. f = m + 2 * p + r
    <3>1. p * x = m + 2 * p
      <4> HIDE DEF x, p, n
      <4> QED BY <1>13, <1>11 DEF m
    <3>2. p \in Nat /\ r \in Nat /\ m \in Int /\ f = (p * x) + r
      BY <1>2, <1>9, <1>11
    <3> HIDE DEF x, p, n, m, r, f
    <3> QED BY <3>1, <3>2
  <2>2. m + (3 * p - 2) >= Tree(N)!first_mutex(t)
    <3>1. p \in Nat \ {0} /\ r \in 0..(p - 1) /\ m \in Int
      BY <1>2, <1>9, <1>11
    <3> HIDE DEF p, m, r, f
    <3> QED BY <1>12, <2>1, <3>1
  <2>3. c = 2 * n + 1
    <3> HIDE DEF p, n
    <3> QED BY <1>8, <2>2
  <2>4. c = AncestorIn(N, t, k - 1)
    <3> HIDE DEF x, n, c
    <3> QED BY <1>3, <1>13, <2>3
  <2> QED BY <2>4
<1>14. CASE x = 2 * (n + 1) + 1
  <2>1. f = m + 3 * p + r
    <3>1. p * x = m + 3 * p
      <4> HIDE DEF x, p, n
      <4> QED BY <1>14, <1>11 DEF m
    <3>2. p \in Nat /\ r \in Nat /\ m \in Int /\ f = (p * x) + r
      BY <1>2, <1>9, <1>11
    <3> HIDE DEF x, p, n, m, r, f
    <3> QED BY <3>1, <3>2
  <2>2. ~ (m + (3 * p - 2) >= Tree(N)!first_mutex(t))
    <3>1. p \in Nat \ {0} /\ r \in 0..(p - 1) /\ m \in Int
      BY <1>2, <1>9, <1>11
    <3> HIDE DEF p, m, r, f
    <3> QED BY <1>12, <2>1, <3>1
  <2>3. c = 2 * n + 2
    <3> HIDE DEF p, n
    <3> QED BY <1>8, <2>2
  <2>4. c = AncestorIn(N, t, k - 1)
    <3> HIDE DEF x, n, c
    <3> QED BY <1>3, <1>14, <2>3
  <2> QED BY <2>4
<1> QED BY <1>10, <1>13, <1>14
-----------------------------------------------------------------------------
\* The equation that defines the recursive function of WayUp.
Climbs(f, N) ==
  f = [m \in Nat |-> IF m = 0 THEN <<0>> ELSE <<m>> \o f[Tree(N)!parent_index(m)]]

\* Its solution: the quotients of m + 1 by the powers of two, counted from 0.
Quotients == [m \in Nat |-> [k \in 1..upper_log2(m + 2) |-> (m + 1) \div 2^(k - 1) - 1]]

\* Halving first is as good as halving last.
LEMMA HalvedFirst == ASSUME NEW k \in Nat, NEW x \in Nat
                     PROVE  x \div 2^(k + 1) = (x \div 2) \div 2^k
<1> DEFINE y == x \div 2
           S == {j \in Nat : x \div 2^(j + 1) = y \div 2^j}
<1>1. y \in Nat
  OBVIOUS
<1>2. 0 \in S
  <2>1. 2^(0 + 1) = 2 * 1 /\ 2^0 = 1
    BY PowerOfTwo
  <2>2. x \div (2 * 1) = y /\ y \div 1 = y
    OBVIOUS
  <2> HIDE DEF y
  <2> QED BY <2>1, <2>2
<1>3. ASSUME NEW j \in Nat, j \in S PROVE j + 1 \in S
  <2>1. x \div 2^((j + 1) + 1) = (x \div 2^(j + 1)) \div 2
    <3>1. j + 1 \in Nat
      OBVIOUS
    <3> QED BY <3>1, Halved
  <2>2. y \div 2^(j + 1) = (y \div 2^j) \div 2
    <3> HIDE DEF y
    <3> QED BY <1>1, Halved
  <2>3. x \div 2^(j + 1) = y \div 2^j /\ j + 1 \in Nat
    BY <1>3
  <2> HIDE DEF y
  <2> QED BY <2>1, <2>2, <2>3
<1>4. Nat \subseteq S
  <2> HIDE DEF S
  <2> QED BY <1>2, <1>3, InductionOverNat
<1> QED BY <1>4

\* The quotients from a node on: its parent's follow it, and are one fewer.
LEMMA NextQuotient ==
  ASSUME NEW m \in Nat \ {0}
  PROVE  LET p == (m - 1) \div 2
         IN  /\ p \in Nat /\ p < m /\ upper_log2(m + 2) = upper_log2(p + 2) + 1
             /\ \A k \in Nat : (m + 1) \div 2^(k + 1) = (p + 1) \div 2^k
<1> DEFINE p == (m - 1) \div 2
           h == upper_log2(p + 2)
<1>1. p \in Nat /\ p < m /\ p + 1 = (m + 1) \div 2
        /\ (m = 2 * p + 1 \/ m = 2 * p + 2)
  OBVIOUS
<1>2. h \in Nat \ {0} /\ p + 2 <= 2^h /\ (h = 1 \/ 2^(h - 1) < p + 2)
  <2>1. p + 2 \in Nat \ {0}
    BY <1>1
  <2> HIDE DEF p
  <2> QED BY <2>1, UpperLog
<1>3. 2^(h + 1) = 2 * 2^h /\ 2^h \in Nat /\ (h + 1) - 1 = h
  <2> HIDE DEF h
  <2> QED BY <1>2, PowerOfTwo
<1>4. 2^h < m + 2
  <2>1. CASE h = 1
    <3>1. 2^(0 + 1) = 2 * 2^0 /\ 2^0 = 1
      BY PowerOfTwo
    <3>2. h = 0 + 1
      BY <2>1
    <3>3. 2^h = 2
      <4> HIDE DEF h
      <4> QED BY <3>1, <3>2
    <3> QED BY <3>3
  <2>2. CASE h # 1
    <3>1. h - 1 \in Nat /\ (h - 1) + 1 = h
      BY <1>2, <2>2
    <3>2. 2^((h - 1) + 1) = 2 * 2^(h - 1) /\ 2^(h - 1) \in Nat
      <4> HIDE DEF h
      <4> QED BY <3>1, PowerOfTwo
    <3>3. 2^h = 2 * 2^(h - 1) /\ 2^(h - 1) \in Nat /\ 2^(h - 1) < p + 2
      BY <1>2, <2>2, <3>1, <3>2
    <3> DEFINE b == 2^(h - 1)
    <3>4. 2^h = 2 * b /\ b \in Nat /\ b <= p + 1
      <4> HIDE DEF h, p
      <4> QED BY <1>1, <3>3
    <3> HIDE DEF b, h, p
    <3> QED BY <1>1, <3>4
  <2> QED BY <2>1, <2>2
<1>5. m + 2 <= 2 * 2^h
  <2> DEFINE b == 2^h
  <2>1. b \in Nat /\ p + 2 <= b
    BY <1>2, <1>3
  <2> HIDE DEF b, p
  <2>2. m + 2 <= 2 * b
    BY <1>1, <2>1
  <2> QED BY <2>2 DEF b
<1>6. upper_log2(m + 2) = h + 1
  <2> DEFINE j == h + 1
  <2>1. j \in Nat \ {0} /\ m + 2 \in Nat \ {0} /\ 2^(j - 1) < m + 2 /\ m + 2 <= 2^j
    <3> HIDE DEF h
    <3> QED BY <1>2, <1>3, <1>4, <1>5
  <2> HIDE DEF j
  <2>2. upper_log2(m + 2) = j
    BY <2>1, UpperLogIs
  <2> QED BY <2>2 DEF j
<1>7. ASSUME NEW k \in Nat PROVE (m + 1) \div 2^(k + 1) = (p + 1) \div 2^k
  <2>1. (m + 1) \div 2^(k + 1) = ((m + 1) \div 2) \div 2^k
    <3>1. m + 1 \in Nat
      OBVIOUS
    <3> QED BY <3>1, HalvedFirst
  <2> HIDE DEF p
  <2> QED BY <1>1, <2>1
<1> QED BY <1>1, <1>6, <1>7

\* The recursion of WayUp has a solution.
LEMMA QuotientsClimb == ASSUME NEW N PROVE Climbs(Quotients, N)
<1> DEFINE q == Quotients
<1>1. ASSUME NEW m \in Nat
      PROVE  q[m] = IF m = 0 THEN <<0>> ELSE <<m>> \o q[Tree(N)!parent_index(m)]
  <2>1. q[m] = [k \in 1..upper_log2(m + 2) |-> (m + 1) \div 2^(k - 1) - 1]
    BY DEF Quotients
  <2>2. 2^0 = 1 /\ 2^1 = 2
    <3>1. 2^(0 + 1) = 2 * 2^0 /\ 2^0 = 1
      BY PowerOfTwo
    <3>2. 2^1 = 2 * 1
      BY <3>1
    <3> QED BY <3>1, <3>2
  <2>3. CASE m = 0
    <3>1. upper_log2(0 + 2) = 1
      <4>1. 1 \in Nat \ {0} /\ 0 + 2 \in Nat \ {0} /\ 2^(1 - 1) < 0 + 2 /\ 0 + 2 <= 2^1
        BY <2>2
      <4> QED BY <4>1, UpperLogIs
    <3>2. \A k \in 1..1 : (0 + 1) \div 2^(k - 1) - 1 = 0
      <4>1. ASSUME NEW k \in 1..1 PROVE (0 + 1) \div 2^(k - 1) - 1 = 0
        <5>1. k - 1 = 0
          OBVIOUS
        <5>2. 2^(k - 1) = 1
          BY <2>2, <5>1
        <5>3. (0 + 1) \div 1 - 1 = 0
          OBVIOUS
        <5> QED BY <5>2, <5>3
      <4> QED BY <4>1
    <3>3. q[m] = [k \in 1..1 |-> 0]
      BY <2>1, <2>3, <3>1, <3>2
    <3>4. [k \in 1..1 |-> 0] = <<0>>
      OBVIOUS
    <3> QED BY <2>3, <3>3, <3>4
  <2>4. CASE m # 0
    <3> DEFINE p == (m - 1) \div 2
               h == upper_log2(p + 2)
    <3>1. /\ p \in Nat /\ upper_log2(m + 2) = h + 1
          /\ \A k \in Nat : (m + 1) \div 2^(k + 1) = (p + 1) \div 2^k
      BY <2>4, NextQuotient
    <3>2. h \in Nat
      <4>1. p + 2 \in Nat \ {0}
        BY <3>1
      <4> HIDE DEF p
      <4> QED BY <4>1, UpperLog
    <3>3. q[p] = [k \in 1..h |-> (p + 1) \div 2^(k - 1) - 1]
      BY <3>1 DEF Quotients
    <3>4. q[p] \in Seq(Int) /\ Len(q[p]) = h
      <4>1. \A k \in 1..h : (p + 1) \div 2^(k - 1) - 1 \in Int
        <5>1. ASSUME NEW k \in 1..h PROVE (p + 1) \div 2^(k - 1) - 1 \in Int
          <6>1. k - 1 \in Nat /\ p + 1 \in Nat
            BY <3>1, <3>2
          <6>2. (p + 1) \div 2^(k - 1) \in Nat
            BY <6>1, Halved
          <6> QED BY <6>2
        <5> QED BY <5>1
      <4> HIDE DEF p, h, q
      <4> QED BY <3>2, <3>3, <4>1
    <3>5. q[m] = <<m>> \o q[p]
      <4> DEFINE w == <<m>> \o q[p]
      <4>1. w \in Seq(Int) /\ Len(w) = h + 1 /\ w[1] = m
              /\ \A k \in 2..(h + 1) : w[k] = q[p][k - 1]
        <5> HIDE DEF q, p, h
        <5> QED BY <3>2, <3>4
      <4>2. DOMAIN w = 1..(h + 1)
        <5> HIDE DEF w, h
        <5> QED BY <4>1
      <4>3. ASSUME NEW k \in 1..(h + 1) PROVE w[k] = (m + 1) \div 2^(k - 1) - 1
        <5>1. CASE k = 1
          <6>1. (m + 1) \div 1 - 1 = m /\ k - 1 = 0
            BY <5>1
          <6>2. 2^(k - 1) = 1
            BY <2>2, <6>1
          <6> HIDE DEF w, p, q, h
          <6> QED BY <4>1, <5>1, <6>1, <6>2
        <5>2. CASE k # 1
          <6>1. k \in 2..(h + 1) /\ k - 1 \in 1..h /\ (k - 1) - 1 \in Nat
                  /\ ((k - 1) - 1) + 1 = k - 1
            BY <3>2, <5>2
          <6>2. w[k] = q[p][k - 1]
            BY <4>1, <6>1
          <6>3. q[p][k - 1] = (p + 1) \div 2^((k - 1) - 1) - 1
            <7> HIDE DEF p, q, h
            <7> QED BY <3>3, <6>1
          <6>4. (m + 1) \div 2^(((k - 1) - 1) + 1) = (p + 1) \div 2^((k - 1) - 1)
            <7> HIDE DEF p
            <7> QED BY <3>1, <6>1
          <6> HIDE DEF p, w, q, h
          <6> QED BY <6>1, <6>2, <6>3, <6>4
        <5> QED BY <5>1, <5>2
      <4>4. w = [k \in 1..(h + 1) |-> w[k]]
        <5> HIDE DEF w, h
        <5> QED BY <4>1, <4>2
      <4> HIDE DEF w, h, p
      <4>5. w = [k \in 1..(h + 1) |-> (m + 1) \div 2^(k - 1) - 1]
        BY <4>3, <4>4
      <4>6. q[m] = w
        BY <2>1, <3>1, <4>5
      <4> QED BY <4>6 DEF w
    <3> QED BY <2>4, <3>5 DEF Tree!parent_index
  <2> QED BY <2>3, <2>4
<1>2. q = [m \in Nat |-> q[m]]
  BY DEF Quotients
<1> HIDE DEF q
<1>3. q = [m \in Nat |-> IF m = 0 THEN <<0>> ELSE <<m>> \o q[Tree(N)!parent_index(m)]]
  BY <1>1, <1>2
<1> QED BY <1>3 DEF Climbs, q

\* And only one: the smallest node where another one differed would have a smaller parent.
LEMMA ClimbIs == ASSUME NEW N, NEW f, Climbs(f, N), NEW m \in Nat PROVE f[m] = Quotients[m]
<1> DEFINE T == {n \in Nat : f[n] # Quotients[n]}
<1> SUFFICES ASSUME f[m] # Quotients[m] PROVE FALSE
  OBVIOUS
<1>1. PICK x \in T : \A y \in T : x <= y
  <2>1. T # {}
    OBVIOUS
  <2> QED BY <2>1, Least
<1>2. \A g : Climbs(g, N) => g[x] = IF x = 0 THEN <<0>> ELSE <<x>> \o g[Tree(N)!parent_index(x)]
  <2>1. x \in Nat
    OBVIOUS
  <2> HIDE DEF T
  <2> QED BY <2>1 DEF Climbs
<1>3. x # 0 => Tree(N)!parent_index(x) \in Nat /\ Tree(N)!parent_index(x) < x
  <2>1. x # 0 => (x - 1) \div 2 \in Nat /\ (x - 1) \div 2 < x
    OBVIOUS
  <2> QED BY <2>1 DEF Tree!parent_index
<1>4. x # 0 => f[Tree(N)!parent_index(x)] = Quotients[Tree(N)!parent_index(x)]
  <2> DEFINE p == Tree(N)!parent_index(x)
  <2>1. x # 0 => p \in Nat /\ ~ (p \in T)
    <3> HIDE DEF T, p
    <3>1. x \in Nat
      BY DEF T
    <3> QED BY <1>1, <1>3, <3>1 DEF p
  <2> HIDE DEF p
  <2>2. x # 0 => f[p] = Quotients[p]
    BY <2>1
  <2> QED BY <2>2 DEF p
<1>5. f[x] = Quotients[x]
  BY <1>2, <1>4, QuotientsClimb
<1> QED BY <1>1, <1>5

\* The way of lock(): the ancestors of the first mutex, from itself on.
LEMMA WayUpIs ==
  ASSUME NEW N \in Nat \ {0}, NEW t \in Tree(N)!Threads
  PROVE  WayUp(N, t) = [k \in 1..LevelsIn(N) |-> AncestorIn(N, t, k - 1)]
<1> DEFINE f == Tree(N)!first_mutex(t)
           h == LevelsIn(N)
<1>1. f \in Nat /\ h \in Nat \ {0} /\ 2^(h - 1) < f + 2 /\ f + 2 <= 2^h
  <2>1. /\ h \in Nat \ {0} /\ f \in Nat /\ 2^(h - 1) <= f + 1 /\ f + 1 < 2^h
        /\ 2^(h - 1) \in Nat /\ 2^h = 2 * 2^(h - 1)
    BY AnyTreeShape DEF Tree!Nodes
  <2> HIDE DEF f, h
  <2> QED BY <2>1
<1>2. upper_log2(f + 2) = h
  <2>1. f + 2 \in Nat \ {0}
    BY <1>1
  <2> HIDE DEF f, h
  <2> QED BY <1>1, <2>1, UpperLogIs
<1>3. WayUp(N, t) = (CHOOSE g : Climbs(g, N))[f]
  BY Zenon DEF WayUp, Climbs
<1>4. Climbs(CHOOSE g : Climbs(g, N), N)
  BY QuotientsClimb, Zenon
<1>5. WayUp(N, t) = Quotients[f]
  <2> HIDE DEF f
  <2> QED BY <1>1, <1>3, <1>4, ClimbIs
<1>6. Quotients[f] = [k \in 1..h |-> (f + 1) \div 2^(k - 1) - 1]
  <2> HIDE DEF f, h
  <2> QED BY <1>1, <1>2 DEF Quotients
<1> QED BY <1>5, <1>6 DEF AncestorIn

(***************************************************************************)
(* For every number of threads: lock() passes as many nodes of the vector  *)
(* as there are levels, and get_child leads back through the same nodes.   *)
(***************************************************************************)
THEOREM RetracedAlways ==
  \A N \in Nat \ {0} : \A t \in Tree(N)!Threads : Retraced(N, t)
<1> SUFFICES ASSUME NEW N \in Nat \ {0}, NEW t \in Tree(N)!Threads PROVE Retraced(N, t)
  OBVIOUS
<1> DEFINE way == WayUp(N, t)
           h == LevelsIn(N)
<1>1. h \in Nat \ {0}
  BY AnyTreeShape
<1>2. Len(way) = h /\ DOMAIN way = 1..h /\ \A k \in 1..h : way[k] = AncestorIn(N, t, k - 1)
  <2>1. way = [k \in 1..h |-> AncestorIn(N, t, k - 1)]
    BY WayUpIs
  <2> HIDE DEF way, h
  <2> QED BY <1>1, <2>1
<1>3. h = Tree(N)!upper_log2(N)
  BY DEF LevelsIn, Tree!upper_log2, upper_log2
<1>4. ASSUME NEW k \in DOMAIN way PROVE way[k] \in Tree(N)!Nodes
  <2>1. k \in 1..h /\ k - 1 \in 0..(h - 1)
    BY <1>1, <1>2
  <2> HIDE DEF way
  <2> QED BY <1>2, <2>1, AnyAncestorAt
<1>5. ASSUME NEW k \in 2..Len(way) PROVE Tree(N)!get_child(way[k], t) = way[k - 1]
  <2>1. k \in 2..h
    BY <1>2
  <2>2. k \in 1..h /\ k - 1 \in 1..h /\ k - 1 \in 1..(h - 1)
    BY <1>1, <2>1
  <2>3. Tree(N)!get_child(AncestorIn(N, t, k - 1), t) = AncestorIn(N, t, (k - 1) - 1)
    BY <2>2, AnyChildIs
  <2> HIDE DEF way
  <2> QED BY <1>2, <2>2, <2>3
<1> QED BY <1>2, <1>3, <1>4, <1>5 DEF Retraced

\* unlock() takes the way of lock(), whatever bound MaxThreads puts on the sizes.
THEOREM Retracing == Spec => []UnlockRetracesLock
<1>1. UnlockRetracesLock
  <2>1. \A N \in 1..MaxThreads : N \in Nat \ {0}
    BY MaxThreadsAssumption
  <2> QED BY <2>1, RetracedAlways DEF UnlockRetracesLock
<1> QED BY <1>1, PTL
-----------------------------------------------------------------------------
\* The same of the tree that the threads share.
Levels == upper_log2(NumThreads)
Ancestor(t, k) == (first_mutex(t) + 1) \div 2^k - 1

\* The tree that the threads share is one of those trees.
LEMMA OwnTree ==
  /\ NumThreads \in Nat \ {0}
  /\ LevelsIn(NumThreads) = Levels /\ \A t, k : AncestorIn(NumThreads, t, k) = Ancestor(t, k)
  /\ Tree(NumThreads)!Threads = Threads /\ Tree(NumThreads)!Nodes = Nodes
  /\ Tree(NumThreads)!tree_size = tree_size
  /\ \A t : Tree(NumThreads)!first_mutex(t) = first_mutex(t)
  /\ \A n : Tree(NumThreads)!parent_index(n) = parent_index(n)
  /\ \A n, t : Tree(NumThreads)!get_child(n, t) = get_child(n, t)
BY ThreadsAssumption
   DEF LevelsIn, Levels, AncestorIn, Ancestor, Tree!Threads, Threads, Tree!Nodes, Nodes,
       Tree!tree_size, tree_size, Tree!upper_log2, upper_log2, Tree!first_mutex, first_mutex,
       Tree!parent_index, parent_index, Tree!get_child, get_child

\* The tree has Levels levels; the first mutexes are on the last one.
LEMMA TreeShape ==
  /\ Levels \in Nat \ {0}
  /\ tree_size = 2^Levels - 1 /\ tree_size \in Nat \ {0}
  /\ 2^Levels = 2 * 2^(Levels - 1) /\ 2^(Levels - 1) \in Nat \ {0}
  /\ \A t \in Threads : /\ first_mutex(t) \in Nodes
                        /\ 2^(Levels - 1) <= first_mutex(t) + 1
                        /\ first_mutex(t) + 1 < 2^Levels
BY OwnTree, AnyTreeShape

\* An ancestor's level is read off its index, and its parent is the next ancestor.
LEMMA AncestorAt ==
  ASSUME NEW t \in Threads, NEW k \in 0..(Levels - 1)
  PROVE  /\ Ancestor(t, k) \in Nodes
         /\ 2^(Levels - 1 - k) <= Ancestor(t, k) + 1
         /\ Ancestor(t, k) + 1 < 2 * 2^(Levels - 1 - k)
         /\ parent_index(Ancestor(t, k)) = Ancestor(t, k + 1)
BY OwnTree, AnyAncestorAt

\* Ancestors of different levels are different, whatever threads they belong to.
LEMMA HigherIsSmaller ==
  ASSUME NEW t \in Threads, NEW u \in Threads,
         NEW j \in 0..(Levels - 1), NEW k \in 0..(Levels - 1), j < k
  PROVE  Ancestor(u, k) < Ancestor(t, j)
BY OwnTree, AnyHigherIsSmaller

\* The way starts at the first mutex and ends at the root.
LEMMA WayEnds == ASSUME NEW t \in Threads
                 PROVE  /\ Ancestor(t, 0) = first_mutex(t)
                        /\ Ancestor(t, Levels - 1) = 0
BY OwnTree, AnyWayEnds

\* get_child, which computes with heights alone, undoes parent_index on a thread's way.
LEMMA ChildIs ==
  ASSUME NEW t \in Threads, NEW k \in 1..(Levels - 1)
  PROVE  get_child(Ancestor(t, k), t) = Ancestor(t, k - 1)
BY OwnTree, AnyChildIs

\* Above relates a thread's first mutex to its ancestors.
LEMMA AboveIsAncestor ==
  ASSUME NEW t \in Threads, NEW n \in Nodes
  PROVE  Above(n, first_mutex(t)) <=> \E k \in 0..(Levels - 1) : n = Ancestor(t, k)
<1> DEFINE f == first_mutex(t)
           h == Levels
<1>1. f \in Nat /\ n \in Nat /\ h \in Nat \ {0} /\ 2^(h - 1) <= f + 1 /\ f + 1 < 2^h
        /\ 2^h \in Nat
  <2>1. h \in Nat
    BY TreeShape
  <2>2. 2^h \in Nat
    <3> HIDE DEF h
    <3> QED BY <2>1, PowerOfTwo
  <2> QED BY <2>2, TreeShape DEF Nodes
<1>2. ASSUME NEW k \in 0..f, n + 1 = (f + 1) \div 2^k
      PROVE  \E j \in 0..(h - 1) : n = Ancestor(t, j)
  <2>1. k < h
    <3> SUFFICES ASSUME h <= k PROVE FALSE
      BY <1>1
    <3>1. 2^h <= 2^k
      <4> HIDE DEF h
      <4> QED BY <1>1, PowersGrow
    <3>2. 2^k \in Nat \ {0}
      BY PowerOfTwo
    <3>3. 0 <= f + 1 /\ f + 1 < 2^k
      <4> HIDE DEF h, f
      <4> QED BY <1>1, <3>1, <3>2
    <3>4. (f + 1) \div 2^k = 0
      <4> DEFINE c == 2^k
      <4>1. c * 0 = 0 /\ 0 + c = c
        <5>1. c \in Nat
          BY <3>2
        <5> HIDE DEF c
        <5> QED BY <5>1
      <4>2. c \in Nat \ {0} /\ f + 1 \in Int /\ c * 0 <= f + 1 /\ f + 1 < c * 0 + c
        BY <1>1, <3>2, <3>3, <4>1
      <4> HIDE DEF c, f
      <4>3. (f + 1) \div c = 0
        BY <4>2, Quotient
      <4> QED BY <4>3 DEF c
    <3> QED BY <1>1, <1>2, <3>4
  <2>2. n = Ancestor(t, k)
    <3>1. n + 1 = (f + 1) \div 2^k
      BY <1>2
    <3> DEFINE g == (f + 1) \div 2^k
    <3>2. Ancestor(t, k) = g - 1
      BY DEF Ancestor
    <3> HIDE DEF g
    <3>3. n + 1 = g
      BY <3>1 DEF g
    <3> QED BY <1>1, <3>2, <3>3
  <2>3. k \in 0..(h - 1)
    BY <1>1, <2>1
  <2> QED BY <2>2, <2>3
<1>3. ASSUME NEW k \in 0..(h - 1), n = Ancestor(t, k)
      PROVE  Above(n, f)
  <2>1. k \in 0..f
    <3>1. h - 1 < 2^(h - 1) /\ 2^(h - 1) \in Nat
      <4>1. h - 1 \in Nat
        BY <1>1
      <4> HIDE DEF h
      <4> QED BY <4>1, PowersGrow, PowerOfTwo
    <3> HIDE DEF h, f
    <3> QED BY <1>1, <3>1
  <2>2. n + 1 = (f + 1) \div 2^k
    <3>1. k \in Nat /\ f + 1 \in Nat
      BY <1>1
    <3>2. (f + 1) \div 2^k \in Nat
      <4> HIDE DEF f
      <4> QED BY <3>1, Halved
    <3> DEFINE g == (f + 1) \div 2^k
    <3>3. n = g - 1
      BY <1>3 DEF Ancestor
    <3>4. g \in Nat
      BY <3>2
    <3> HIDE DEF g
    <3>5. n + 1 = g
      BY <3>3, <3>4
    <3> QED BY <3>5 DEF g
  <2> HIDE DEF f
  <2> QED BY <2>1, <2>2 DEF Above
<1> QED BY <1>2, <1>3 DEF Above

\* Way: the nodes between a thread and the root, each with the side it comes from.
LEMMA WayIs ==
  ASSUME NEW t \in Threads
  PROVE  /\ DOMAIN Way[t] = {Ancestor(t, k) : k \in 0..(Levels - 1)}
         /\ Way[t][first_mutex(t)] = side_of(t)
         /\ \A k \in 1..(Levels - 1) :
              Way[t][Ancestor(t, k)] = side_of(Ancestor(t, k - 1))
<1> DEFINE f == first_mutex(t)
           h == Levels
           D == {n \in Nodes : Above(n, f)}
           Below(n) == CHOOSE m \in Nodes : Above(m, f) /\ n = (m + 1) \div 2 - 1
<1>1. Way[t] = [n \in D |-> IF n = f THEN side_of(t) ELSE side_of(Below(n))]
  BY DEF Way
<1>2. D = {Ancestor(t, k) : k \in 0..(h - 1)}
  BY AboveIsAncestor, AncestorAt
<1>3. h \in Nat \ {0} /\ Ancestor(t, 0) = f /\ Ancestor(t, h - 1) = 0
  BY TreeShape, WayEnds
<1>4. Way[t][f] = side_of(t)
  <2>1. f \in D
    <3>1. 0 \in 0..(h - 1)
      BY <1>3
    <3> HIDE DEF D, f, h
    <3> QED BY <1>2, <1>3, <3>1
  <2> HIDE DEF D, f, Below
  <2> QED BY <1>1, <2>1
<1>5. ASSUME NEW k \in 1..(h - 1)
      PROVE  Way[t][Ancestor(t, k)] = side_of(Ancestor(t, k - 1))
  <2> DEFINE n == Ancestor(t, k)
             c == Ancestor(t, k - 1)
  <2>1. k \in 0..(h - 1) /\ k - 1 \in 0..(h - 1) /\ k - 1 < k /\ (k - 1) + 1 = k
        /\ 0 \in 0..(h - 1) /\ 0 < k
    BY <1>3
  <2>2. n \in D /\ c \in D /\ n \in Nodes /\ c \in Nodes
    <3>1. n \in D /\ c \in D
      <4> HIDE DEF D
      <4> QED BY <1>2, <2>1
    <3> QED BY <3>1
  <2>3. n < f
    BY <1>3, <2>1, HigherIsSmaller
  <2>4. \A m \in Nodes : (m + 1) \div 2 - 1 = parent_index(m)
    <3>1. \A m \in Nat : (m + 1) \div 2 - 1 = (m - 1) \div 2
      OBVIOUS
    <3> QED BY <3>1 DEF Nodes, parent_index
  <2>5. parent_index(c) = n
    <3>1. parent_index(c) = Ancestor(t, (k - 1) + 1)
      BY <2>1, AncestorAt
    <3> QED BY <2>1, <3>1
  <2>6. ASSUME NEW m \in Nodes, Above(m, f), n = (m + 1) \div 2 - 1
        PROVE  m = c
    <3>1. PICK i \in 0..(h - 1) : m = Ancestor(t, i)
      BY <2>6, AboveIsAncestor
    <3>2. n = Ancestor(t, i + 1)
      BY <2>4, <2>6, <3>1, AncestorAt
    <3>3. CASE i = h - 1
      <4>1. m = 0
        BY <1>3, <3>1, <3>3
      <4>2. (0 + 1) \div 2 - 1 = 0 - 1
        OBVIOUS
      <4>3. n \in Nat
        BY <2>2 DEF Nodes
      <4> HIDE DEF n
      <4> QED BY <2>6, <4>1, <4>2, <4>3
    <3>4. CASE i # h - 1
      <4>1. i + 1 \in 0..(h - 1) /\ i \in Int
        BY <1>3, <3>4
      <4>2. n \in Nat
        BY <2>2 DEF Nodes
      <4>3. ~ (i + 1 < k) /\ ~ (k < i + 1)
        <5>1. i + 1 < k => n < Ancestor(t, i + 1)
          BY <2>1, <4>1, HigherIsSmaller
        <5>2. k < i + 1 => Ancestor(t, i + 1) < n
          BY <2>1, <4>1, HigherIsSmaller
        <5> HIDE DEF n
        <5> QED BY <3>2, <4>2, <5>1, <5>2
      <4>4. i = k - 1
        BY <2>1, <4>1, <4>3
      <4> QED BY <3>1, <4>4
    <3> QED BY <3>3, <3>4
  <2>7. Below(n) = c
    <3>1. Above(c, f) /\ n = (c + 1) \div 2 - 1
      BY <2>2, <2>4, <2>5
    <3> HIDE DEF n, c, f
    <3> QED BY <2>2, <2>6, <3>1, Zenon
  <2>8. n # f
    <3>1. n \in Nat /\ f \in Nat
      BY <2>2, TreeShape DEF Nodes
    <3> HIDE DEF n, f
    <3> QED BY <2>3, <3>1
  <2>9. Way[t][n] = side_of(c)
    <3> HIDE DEF n, c, D, f, Below
    <3> QED BY <1>1, <2>2, <2>7, <2>8
  <2> QED BY <2>9
<1>6. DOMAIN Way[t] = D
  <2> HIDE DEF D, Below, f
  <2> QED BY <1>1
<1> QED BY <1>2, <1>4, <1>5, <1>6
-----------------------------------------------------------------------------
\* The way of a thread leads from its first mutex, the largest node of it, to the root.
LEMMA OnWay ==
  ASSUME NEW t \in Threads
  PROVE  /\ DOMAIN Way[t] \subseteq Nodes
         /\ {first_mutex(t), 0} \subseteq DOMAIN Way[t]
         /\ Way[t][first_mutex(t)] = side_of(t)
         /\ \A n \in DOMAIN Way[t] : n <= first_mutex(t) /\ Way[t][n] \in Sides
<1>1. /\ Levels \in Nat \ {0} /\ 0 \in 0..(Levels - 1) /\ Levels - 1 \in 0..(Levels - 1)
      /\ Ancestor(t, 0) = first_mutex(t) /\ Ancestor(t, Levels - 1) = 0
  BY TreeShape, WayEnds
<1>2. /\ DOMAIN Way[t] = {Ancestor(t, k) : k \in 0..(Levels - 1)}
      /\ Way[t][first_mutex(t)] = side_of(t)
  BY WayIs
<1>3. {first_mutex(t), 0} \subseteq DOMAIN Way[t]
  BY <1>1, <1>2
<1>4. DOMAIN Way[t] \subseteq Nodes
  BY <1>2, AncestorAt
<1>5. \A i \in Nat : side_of(i) \in Sides
  BY DEF side_of, Sides
<1>6. ASSUME NEW n \in DOMAIN Way[t]
      PROVE  n <= first_mutex(t) /\ Way[t][n] \in Sides
  <2>1. PICK k \in 0..(Levels - 1) : n = Ancestor(t, k)
    BY <1>2
  <2>2. CASE k = 0
    <3>1. n = first_mutex(t) /\ n \in Nat /\ t \in Nat
      BY <1>1, <1>4, <2>1, <2>2, ThreadsAssumption DEF Nodes, Threads
    <3> QED BY <1>2, <1>5, <3>1
  <2>3. CASE k # 0
    <3>1. k \in 1..(Levels - 1) /\ k - 1 \in 0..(Levels - 1) /\ 0 < k
      BY <1>1, <2>3
    <3>2. Ancestor(t, k - 1) \in Nat
      BY <3>1, AncestorAt DEF Nodes
    <3>3. Way[t][n] = side_of(Ancestor(t, k - 1))
      BY <2>1, <3>1, WayIs
    <3>4. n < first_mutex(t)
      BY <1>1, <2>1, <3>1, HigherIsSmaller
    <3>5. n \in Nat /\ first_mutex(t) \in Nat
      BY <1>3, <1>4 DEF Nodes
    <3> QED BY <1>5, <3>2, <3>3, <3>4, <3>5
  <2> QED BY <2>2, <2>3
<1> QED BY <1>2, <1>3, <1>4, <1>6

\* One level up: parent_index stays on the way, and skips no node of it.
LEMMA OneUp ==
  ASSUME NEW t \in Threads, NEW n \in DOMAIN Way[t], n # 0
  PROVE  /\ parent_index(n) \in DOMAIN Way[t] /\ parent_index(n) < n
         /\ Way[t][parent_index(n)] = side_of(n)
         /\ \A m \in DOMAIN Way[t] : parent_index(n) < m => n <= m
<1>1. Levels \in Nat \ {0} /\ Ancestor(t, Levels - 1) = 0
  BY TreeShape, WayEnds
<1>2. DOMAIN Way[t] = {Ancestor(t, k) : k \in 0..(Levels - 1)}
  BY WayIs
<1>3. PICK k \in 0..(Levels - 1) : n = Ancestor(t, k)
  BY <1>2
<1>4. /\ k # Levels - 1 /\ k + 1 \in 1..(Levels - 1) /\ k + 1 \in 0..(Levels - 1)
      /\ (k + 1) - 1 = k /\ k < k + 1
  BY <1>1, <1>3
<1>5. parent_index(n) = Ancestor(t, k + 1)
  BY <1>3, AncestorAt
<1>6. Way[t][parent_index(n)] = side_of(n)
  <2>1. Way[t][Ancestor(t, k + 1)] = side_of(Ancestor(t, (k + 1) - 1))
    BY <1>4, WayIs
  <2> QED BY <1>3, <1>4, <1>5, <2>1
<1>7. parent_index(n) < n
  BY <1>3, <1>4, <1>5, HigherIsSmaller
<1>8. ASSUME NEW m \in DOMAIN Way[t], parent_index(n) < m
      PROVE  n <= m
  <2>1. PICK i \in 0..(Levels - 1) : m = Ancestor(t, i)
    BY <1>2
  <2>2. n \in Nat /\ m \in Nat /\ Ancestor(t, k + 1) \in Nat
    BY <1>3, <1>4, <2>1, AncestorAt DEF Nodes
  <2>3. ~ (k + 1 < i) /\ i # k + 1
    <3>1. k + 1 < i => m < Ancestor(t, k + 1)
      BY <1>4, <2>1, HigherIsSmaller
    <3> QED BY <1>5, <1>8, <2>1, <2>2, <3>1
  <2>4. i = k \/ i < k
    BY <1>1, <2>3
  <2>5. i < k => n < m
    BY <1>3, <2>1, HigherIsSmaller
  <2> QED BY <1>3, <2>1, <2>2, <2>4, <2>5
<1> QED BY <1>2, <1>4, <1>5, <1>6, <1>7, <1>8

\* One level down: get_child stays on the way, skips no node of it, and undoes parent_index.
LEMMA OneDown ==
  ASSUME NEW t \in Threads, NEW n \in DOMAIN Way[t], n # first_mutex(t)
  PROVE  /\ get_child(n, t) \in DOMAIN Way[t] /\ n < get_child(n, t)
         /\ Way[t][n] = side_of(get_child(n, t))
         /\ parent_index(get_child(n, t)) = n
         /\ \A m \in DOMAIN Way[t] : n < m => get_child(n, t) <= m
<1>1. Levels \in Nat \ {0} /\ Ancestor(t, 0) = first_mutex(t)
  BY TreeShape, WayEnds
<1>2. DOMAIN Way[t] = {Ancestor(t, k) : k \in 0..(Levels - 1)}
  BY WayIs
<1>3. PICK k \in 0..(Levels - 1) : n = Ancestor(t, k)
  BY <1>2
<1>4. /\ k \in 1..(Levels - 1) /\ k - 1 \in 0..(Levels - 1)
      /\ (k - 1) + 1 = k /\ k - 1 < k /\ k - 1 # Levels - 1
  BY <1>1, <1>3
<1> DEFINE c == Ancestor(t, k - 1)
<1>5. get_child(n, t) = c
  BY <1>3, <1>4, ChildIs
<1>6. Way[t][n] = side_of(c)
  BY <1>3, <1>4, WayIs
<1>7. parent_index(c) = n
  <2>1. parent_index(c) = Ancestor(t, (k - 1) + 1)
    BY <1>4, AncestorAt
  <2> QED BY <1>3, <1>4, <2>1
<1>8. c \in DOMAIN Way[t]
  BY <1>2, <1>4
<1>9. c # 0
  <2>1. n < c /\ n \in Nat
    BY <1>3, <1>4, HigherIsSmaller, AncestorAt DEF Nodes
  <2> HIDE DEF c
  <2> QED BY <2>1
<1>10. n < c /\ \A m \in DOMAIN Way[t] : n < m => c <= m
  <2> HIDE DEF c
  <2> QED BY <1>7, <1>8, <1>9, OneUp
<1> HIDE DEF c
<1> QED BY <1>5, <1>6, <1>7, <1>8, <1>10

\* unlock() takes the way of lock() backwards: from a node's parent it finds the node again.
THEOREM Retraces ==
  \A t \in Threads : \A n \in DOMAIN Way[t] \ {0} :
    /\ parent_index(n) \in Nodes /\ parent_index(n) # first_mutex(t)
    /\ get_child(parent_index(n), t) = n
<1> SUFFICES ASSUME NEW t \in Threads, NEW n \in DOMAIN Way[t], n # 0
             PROVE  /\ parent_index(n) \in Nodes /\ parent_index(n) # first_mutex(t)
                    /\ get_child(parent_index(n), t) = n
  OBVIOUS
<1> DEFINE p == parent_index(n)
           c == get_child(p, t)
<1>1. p \in DOMAIN Way[t] /\ p < n /\ \A m \in DOMAIN Way[t] : p < m => n <= m
  BY OneUp
<1>2. n \in Nat /\ p \in Nat /\ p \in Nodes /\ n <= first_mutex(t) /\ first_mutex(t) \in Nat
  BY <1>1, OnWay DEF Nodes
<1>3. p # first_mutex(t)
  <2> HIDE DEF p
  <2> QED BY <1>1, <1>2
<1>4. c \in DOMAIN Way[t] /\ p < c /\ \A m \in DOMAIN Way[t] : p < m => c <= m
  <2> HIDE DEF p
  <2> QED BY <1>1, <1>3, OneDown
<1>5. c \in Nat
  BY <1>4, OnWay DEF Nodes
<1>6. c = n
  <2> HIDE DEF c, p
  <2> QED BY <1>1, <1>2, <1>4, <1>5
<1> QED BY <1>2, <1>3, <1>6

\* Threads that enter a node from the same side come through the same node below it.
LEMMA SharedSide ==
  ASSUME NEW t \in Threads, NEW u \in Threads, t # u,
         NEW n \in DOMAIN Way[t] \cap DOMAIN Way[u], Way[t][n] = Way[u][n]
  PROVE  \E c \in DOMAIN Way[t] \cap DOMAIN Way[u] : n < c
<1>1. Levels \in Nat \ {0} /\ tree_size \in Nat
  BY TreeShape
<1>2. PICK k \in 0..(Levels - 1) : n = Ancestor(t, k)
  BY WayIs
<1>3. PICK j \in 0..(Levels - 1) : n = Ancestor(u, j)
  BY WayIs
<1>4. j = k
  <2>1. n \in Nat
    BY <1>2, AncestorAt DEF Nodes
  <2>2. ~ (j < k) /\ ~ (k < j)
    <3>1. j < k => n < n
      BY <1>2, <1>3, HigherIsSmaller
    <3>2. k < j => n < n
      BY <1>2, <1>3, HigherIsSmaller
    <3> QED BY <2>1, <3>1, <3>2
  <2> QED BY <2>2
<1>5. k # 0
  <2> SUFFICES ASSUME k = 0 PROVE t = u
    OBVIOUS
  <2>1. first_mutex(t) = first_mutex(u) /\ side_of(t) = side_of(u)
    <3>1. n = first_mutex(t) /\ n = first_mutex(u)
      BY <1>2, <1>3, <1>4, WayEnds
    <3> QED BY <3>1, WayIs
  <2>2. t \in Nat /\ u \in Nat
    BY ThreadsAssumption DEF Threads
  <2>3. t \div 2 = u \div 2
    BY <1>1, <2>1, <2>2 DEF first_mutex
  <2>4. t % 2 = u % 2
    BY <2>1, <2>2 DEF side_of
  <2> QED BY <2>2, <2>3, <2>4
<1>6. k \in 1..(Levels - 1) /\ k - 1 \in 0..(Levels - 1) /\ k - 1 < k /\ (k - 1) + 1 = k
  BY <1>1, <1>5
<1> DEFINE x == Ancestor(t, k - 1)
           y == Ancestor(u, k - 1)
<1>7. x \in Nat /\ y \in Nat /\ parent_index(x) = n /\ parent_index(y) = n
  <2>1. x \in Nat /\ y \in Nat
    BY <1>6, AncestorAt DEF Nodes
  <2>2. parent_index(x) = Ancestor(t, (k - 1) + 1) /\ parent_index(y) = Ancestor(u, (k - 1) + 1)
    BY <1>6, AncestorAt
  <2> QED BY <1>2, <1>3, <1>4, <1>6, <2>1, <2>2
<1>8. side_of(x) = side_of(y)
  BY <1>2, <1>3, <1>4, <1>6, WayIs, ZenonT(60)
<1>9. x = y
  <2> HIDE DEF x, y
  <2> QED BY <1>7, <1>8 DEF parent_index, side_of
<1>10. x \in DOMAIN Way[t] /\ y \in DOMAIN Way[u]
  BY <1>6, WayIs
<1>11. n < x
  BY <1>2, <1>6, HigherIsSmaller
<1> QED BY <1>9, <1>10, <1>11
-----------------------------------------------------------------------------
\* A thread claims a node of its way from one side.
LEMMA ClaimedSide ==
  ASSUME NEW t \in Threads, NEW n \in Nodes
  PROVE  /\ \A s \in Sides : Claims(t, n, s) => s = Way[t][n]
         /\ (\E s \in Sides : Claims(t, n, s))
              <=> (pc[t] # "idle" /\ n >= node[t] /\ n \in DOMAIN Way[t])
BY OnWay DEF Claims

\* Two threads on one side of a node both hold the node below it, which cannot be.
LEMMA OneSide == Inv => OneThreadPerSide
<1> SUFFICES ASSUME Inv, NEW n \in Nodes, NEW s \in Sides,
                    NEW t \in Claimants(n, s), NEW u \in Claimants(n, s), t # u
             PROVE  FALSE
  BY DEF OneThreadPerSide
<1>1. /\ t \in Threads /\ u \in Threads /\ Claims(t, n, s) /\ Claims(u, n, s)
  BY DEF Claimants
<1>2. n \in DOMAIN Way[t] \cap DOMAIN Way[u] /\ Way[t][n] = Way[u][n]
  BY <1>1 DEF Claims
<1>3. PICK c \in DOMAIN Way[t] \cap DOMAIN Way[u] : n < c
  BY <1>1, <1>2, SharedSide
<1>4. /\ c \in Nodes /\ c \in Nat /\ n \in Nat /\ node[t] \in Nat /\ node[u] \in Nat
      /\ n >= node[t] /\ n >= node[u]
  BY <1>1, OnWay DEF Nodes, Claims, Inv, TypeOK
<1>5. Holds(t, c) /\ Holds(u, c)
  <2>1. pc[t] # "idle" /\ pc[u] # "idle"
    BY <1>1 DEF Claims
  <2>2. c >= node[t] /\ c >= node[u] /\ c # node[t] /\ c # node[u]
    BY <1>3, <1>4
  <2> QED BY <1>1, <1>4, <2>1, <2>2, ClaimedSide DEF Holds
<1> QED BY <1>1, <1>4, <1>5 DEF Inv, HolderIsSafe

\* No thread is inside, and no flag is up, when the constructor is done.
LEMMA InitInv == Init => Inv
<1> SUFFICES ASSUME Init PROVE Inv
  OBVIOUS
<1>1. \A t \in Threads : /\ first_mutex(t) \in DOMAIN Way[t] /\ first_mutex(t) \in Nodes
                         /\ side_of(t) = Way[t][first_mutex(t)] /\ side_of(t) \in Sides
  BY OnWay
<1>2. TypeOK
  BY <1>1 DEF Init, TypeOK, Sides
<1>3. OnTheWay
  BY <1>1 DEF Init, OnTheWay, InNode, Spinning, InLoop
<1>4. FlagsAreClaims
  BY DEF Init, FlagsAreClaims, Claimants, Claims
<1>5. HolderIsSafe
  BY DEF Init, HolderIsSafe, Holds, Claims
<1> QED BY <1>2, <1>3, <1>4, <1>5 DEF Inv

\* A step of t leaves what the other threads have claimed and hold as it is.
LEMMA Others ==
  ASSUME TypeOK, NEW t \in Threads, Step(t), NEW u \in Threads, u # t
  PROVE  /\ pc'[u] = pc[u] /\ node'[u] = node[u] /\ side'[u] = side[u]
         /\ \A n \in Nodes, s \in Sides : Claims(u, n, s)' <=> Claims(u, n, s)
         /\ \A n \in Nodes : Holds(u, n)' <=> Holds(u, n)
         /\ (Spinning(u)' <=> Spinning(u)) /\ (InNode(u)' <=> InNode(u))
<1>1. pc'[u] = pc[u] /\ node'[u] = node[u] /\ side'[u] = side[u]
  BY DEF Step, InLock, ClaimFirst, ClaimParent, Claim, StoreVictim, LoadWant, LoadVictim,
         Release, Goto, TypeOK
<1> QED BY <1>1 DEF Claims, Holds, Spinning, InNode

\* When t's step takes node m from no claim to a claim, or back, the flag of its side follows.
LEMMA FlagFollows ==
  ASSUME Inv, NEW t \in Threads, Step(t), NEW m \in Nodes, NEW x \in Sides, NEW b \in BOOLEAN,
         want' = [want EXCEPT ![m][x] = b],
         Claims(t, m, x)' <=> b,
         \A n \in Nodes, s \in Sides :
            ~ (n = m /\ s = x) => (Claims(t, n, s)' <=> Claims(t, n, s)),
         b \/ \A u \in Threads \ {t} : ~ Claims(u, m, x)
  PROVE  FlagsAreClaims'
<1> SUFFICES ASSUME NEW n \in Nodes, NEW s \in Sides
             PROVE  want'[n][s] <=> \E u \in Threads : Claims(u, n, s)'
  BY DEF FlagsAreClaims, Claimants
<1>1. want[n][s] <=> \E u \in Threads : Claims(u, n, s)
  BY DEF Inv, FlagsAreClaims, Claimants
<1>2. \A u \in Threads \ {t} : Claims(u, n, s)' <=> Claims(u, n, s)
  BY Others DEF Inv
<1>3. want \in [Nodes -> [Sides -> BOOLEAN]]
  BY DEF Inv, TypeOK
<1>4. CASE n = m /\ s = x
  <2>1. want'[n][s] = b
    BY <1>3, <1>4
  <2> QED BY <1>2, <1>4, <2>1
<1>5. CASE ~ (n = m /\ s = x)
  <2>1. want'[n][s] = want[n][s]
    BY <1>3, <1>5
  <2> QED BY <1>1, <1>2, <1>5, <2>1
<1> QED BY <1>4, <1>5

\* A step of t that changes neither flags nor claims.
LEMMA FlagsStay ==
  ASSUME Inv, NEW t \in Threads, Step(t), want' = want,
         \A n \in Nodes, s \in Sides : Claims(t, n, s)' <=> Claims(t, n, s)
  PROVE  FlagsAreClaims'
<1>1. \A u \in Threads, n \in Nodes, s \in Sides : Claims(u, n, s)' <=> Claims(u, n, s)
  BY Others DEF Inv
<1> QED BY <1>1 DEF Inv, FlagsAreClaims, Claimants

\* A step of t by which it gets hold of nothing and starts no loop, and no victim changes.
LEMMA HoldersStay ==
  ASSUME Inv, NEW t \in Threads, Step(t), victim' = victim,
         \A n \in Nodes : Holds(t, n)' => Holds(t, n),
         Spinning(t)' => Spinning(t) /\ node'[t] = node[t] /\ side'[t] = side[t]
  PROVE  HolderIsSafe'
<1>1. /\ \A u \in Threads, n \in Nodes : Holds(u, n)' => Holds(u, n)
      /\ \A u \in Threads : Spinning(u)' =>
            Spinning(u) /\ node'[u] = node[u] /\ side'[u] = side[u]
  BY Others DEF Inv
<1> QED BY <1>1 DEF Inv, HolderIsSafe

\* Claim, when t has claimed nothing yet or everything up to just below n.
LEMMA ClaimInv ==
  ASSUME Inv, NEW t \in Threads, Step(t), NEW n \in DOMAIN Way[t], Claim(t, n, Way[t][n]),
         \A m \in DOMAIN Way[t] :
            m > n <=> (pc[t] # "idle" /\ m >= node[t]),
         pc[t] # "idle" => pc[t] = "climb"
  PROVE  Inv'
<1> DEFINE x == Way[t][n]
<1>1. n \in Nodes /\ n \in Nat /\ x \in Sides /\ \A m \in DOMAIN Way[t] : m \in Nodes /\ m \in Nat
  BY OnWay DEF Nodes
<1>2. /\ want' = [want EXCEPT ![n][x] = TRUE] /\ victim' = victim
      /\ node'[t] = n /\ side'[t] = x /\ pc'[t] = "store_victim"
  BY DEF Claim, Goto, Inv, TypeOK
<1>3. \A m \in Nodes, s \in Sides :
         /\ Claims(t, m, s)' <=> (m \in DOMAIN Way[t] /\ m >= n /\ s = Way[t][m])
         /\ Claims(t, m, s) <=> (m \in DOMAIN Way[t] /\ m > n /\ s = Way[t][m])
  BY <1>1, <1>2 DEF Claims
<1>4. TypeOK'
  BY <1>1 DEF Inv, TypeOK, Claim, Goto
<1>5. OnTheWay'
  <2>1. ASSUME NEW u \in Threads \ {t}
        PROVE  /\ node'[u] \in DOMAIN Way[u]
               /\ InNode(u)' => side'[u] = Way[u][node'[u]]
               /\ pc'[u] = "climb" => node'[u] # 0
               /\ pc'[u] = "critical" => node'[u] = 0
    BY Others DEF Inv, OnTheWay
  <2> QED BY <1>2, <2>1 DEF OnTheWay
<1>6. FlagsAreClaims'
  <2>1. Claims(t, n, x)'
    BY <1>1, <1>3
  <2>2. \A m \in Nodes, s \in Sides :
          ~ (m = n /\ s = x) => (Claims(t, m, s)' <=> Claims(t, m, s))
    BY <1>1, <1>3
  <2> HIDE DEF x
  <2> QED BY <1>1, <1>2, <2>1, <2>2, FlagFollows
<1>7. HolderIsSafe'
  <2>1. ~ Spinning(t)' /\ InNode(t)'
    BY <1>2 DEF Spinning, InNode, InLoop
  <2>2. ASSUME NEW m \in Nodes, Holds(t, m)' PROVE Holds(t, m)
    <3>1. m # n /\ \E s \in Sides : Claims(t, m, s)'
      BY <1>2, <2>1, <2>2 DEF Holds
    <3>2. \E s \in Sides : Claims(t, m, s)
      BY <1>1, <1>3, <3>1
    <3>3. ~ InNode(t)
      BY DEF InNode, Spinning, InLoop
    <3> QED BY <3>2, <3>3 DEF Holds
  <2> QED BY <1>2, <2>1, <2>2, HoldersStay
<1> QED BY <1>4, <1>5, <1>6, <1>7 DEF Inv

\* lock() claims the first mutex, or the parent of the node just locked.
LEMMA ClaimSteps ==
  ASSUME Inv, NEW t \in Threads, ClaimFirst(t) \/ ClaimParent(t)
  PROVE  Inv'
<1>1. Step(t)
  BY DEF Step, InLock
<1>2. CASE ClaimFirst(t)
  <2> DEFINE n == first_mutex(t)
  <2>1. n \in DOMAIN Way[t] /\ Claim(t, n, Way[t][n]) /\ pc[t] = "idle"
    BY <1>2, OnWay DEF ClaimFirst
  <2>2. \A m \in DOMAIN Way[t] : ~ (m > n)
    <3>1. \A m \in DOMAIN Way[t] : m <= n /\ m \in Nat /\ n \in Nat
      BY OnWay DEF Nodes
    <3> HIDE DEF n
    <3> QED BY <3>1
  <2> HIDE DEF n
  <2> QED BY <1>1, <2>1, <2>2, ClaimInv
<1>3. CASE ClaimParent(t)
  <2> DEFINE n == parent_index(node[t])
  <2>1. pc[t] = "climb" /\ node[t] \in DOMAIN Way[t] /\ node[t] # 0
    BY <1>3 DEF ClaimParent, Inv, OnTheWay
  <2>2. /\ n \in DOMAIN Way[t] /\ n < node[t] /\ Way[t][n] = side_of(node[t])
        /\ \A m \in DOMAIN Way[t] : n < m => node[t] <= m
    BY <2>1, OneUp
  <2>3. Claim(t, n, Way[t][n])
    BY <1>3, <2>2 DEF ClaimParent
  <2>4. \A m \in DOMAIN Way[t] : m > n <=> m >= node[t]
    <3>1. \A m \in DOMAIN Way[t] : m \in Nat
      BY OnWay DEF Nodes
    <3> HIDE DEF n
    <3> QED BY <2>1, <2>2, <3>1
  <2> HIDE DEF n
  <2> QED BY <1>1, <2>1, <2>2, <2>3, <2>4, ClaimInv
<1> QED BY <1>2, <1>3

\* A thread that is alone on its side of a node waits for at most one other.
LEMMA RivalSide ==
  ASSUME Inv, NEW t \in Threads, InNode(t), NEW u \in Threads \ {t},
         \E s \in Sides : Claims(u, node[t], s)
  PROVE  /\ Claims(t, node[t], side[t])
         /\ Claims(u, node[t], 1 - side[t])
         /\ Way[u][node[t]] = 1 - side[t] /\ want[node[t]][1 - side[t]]
         /\ \A w \in Threads \ {t, u} : ~ \E s \in Sides : Claims(w, node[t], s)
<1> DEFINE n == node[t]
<1>1. n \in Nodes /\ n \in Nat /\ side[t] \in Sides /\ side[t] = Way[t][n] /\ n \in DOMAIN Way[t]
  BY OnWay DEF Inv, TypeOK, OnTheWay, Nodes
<1>2. pc[t] # "idle"
  BY DEF InNode, Spinning, InLoop
<1>3. Claims(t, n, side[t])
  BY <1>1, <1>2 DEF Claims
<1>4. OneThreadPerSide
  BY OneSide
<1>5. \A w \in Threads \ {t}, s \in Sides : Claims(w, n, s) => s # side[t]
  BY <1>1, <1>3, <1>4 DEF OneThreadPerSide, Claimants
<1>6. \A s \in Sides : s # side[t] => s = 1 - side[t]
  BY <1>1 DEF Sides
<1>7. Claims(u, n, 1 - side[t]) /\ 1 - side[t] \in Sides
  BY <1>1, <1>5, <1>6 DEF Sides
<1>8. Way[u][n] = 1 - side[t]
  BY <1>7 DEF Claims
<1>9. \A w \in Threads \ {t, u} : ~ \E s \in Sides : Claims(w, n, s)
  BY <1>1, <1>4, <1>5, <1>6, <1>7 DEF OneThreadPerSide, Claimants
<1>10. want[n][1 - side[t]]
  BY <1>1, <1>7 DEF Inv, FlagsAreClaims, Claimants
<1> QED BY <1>3, <1>7, <1>8, <1>9, <1>10

\* Steps inside peterson_mutex::lock() claim nothing new.
LEMMA ClaimsStay ==
  ASSUME Inv, NEW t \in Threads, Step(t), InNode(t), pc'[t] # "idle", node'[t] = node[t]
  PROVE  \A n \in Nodes, s \in Sides : Claims(t, n, s)' <=> Claims(t, n, s)
BY DEF Claims, InNode, Spinning, InLoop

\* victim.store(side)
LEMMA StoreVictimInv ==
  ASSUME Inv, NEW t \in Threads, StoreVictim(t)
  PROVE  Inv'
<1> DEFINE n == node[t]
<1>1. Step(t) /\ InNode(t)
  BY DEF Step, InLock, StoreVictim, InNode
<1>2. /\ n \in Nodes /\ side[t] \in Sides
      /\ victim' = [victim EXCEPT ![n] = side[t]] /\ victim'[n] = side[t]
      /\ pc'[t] = "load_want" /\ want' = want /\ node' = node /\ side' = side
  BY DEF StoreVictim, Goto, Inv, TypeOK
<1>3. TypeOK'
  BY <1>2 DEF Inv, TypeOK, StoreVictim, Goto, InLoop
<1>4. \A u \in Threads : InNode(u)' => InNode(u)
  BY <1>1, Others DEF Inv
<1>5. OnTheWay'
  <2>1. \A u \in Threads \ {t} : pc'[u] = pc[u]
    BY <1>1, Others DEF Inv
  <2> QED BY <1>2, <1>4, <2>1 DEF Inv, OnTheWay
<1>6. \A m \in Nodes, s \in Sides : Claims(t, m, s)' <=> Claims(t, m, s)
  BY <1>1, <1>2, ClaimsStay
<1>7. FlagsAreClaims'
  BY <1>1, <1>2, <1>6, FlagsStay
<1>8. HolderIsSafe'
  <2>1. InNode(t)'
    BY <1>2 DEF InNode, Spinning, InLoop
  <2>2. \A u \in Threads, m \in Nodes : Holds(u, m)' <=> Holds(u, m)
    <3>1. \A m \in Nodes : Holds(t, m)' <=> Holds(t, m)
      BY <1>1, <1>2, <1>6, <2>1 DEF Holds
    <3> QED BY <1>1, <3>1, Others DEF Inv
  <2>3. ASSUME NEW w \in Threads, NEW m \in Nodes, Holds(w, m)', NEW u \in Threads \ {w},
               Spinning(u)', node'[u] = m
        PROVE  victim'[m] = side'[u]
    <3>1. Holds(w, m)
      BY <2>2, <2>3
    <3>2. CASE m # n
      <4>1. u # t
        BY <1>2, <2>3, <3>2
      <4>2. Spinning(u) /\ victim[m] = side[u]
        BY <1>1, <1>2, <2>3, <3>1, <4>1, Others DEF Inv, HolderIsSafe
      <4>3. victim'[m] = victim[m]
        BY <1>2, <3>2 DEF Inv, TypeOK
      <4> QED BY <1>2, <4>2, <4>3
    <3>3. CASE m = n
      <4>1. w # t
        BY <1>1, <3>1, <3>3 DEF Holds
      <4>2. \E s \in Sides : Claims(w, n, s)
        BY <3>1, <3>3 DEF Holds
      <4>3. u = t
        <5> SUFFICES ASSUME u # t PROVE FALSE
          OBVIOUS
        <5>1. InNode(u) /\ pc[u] # "idle" /\ node[u] = n
          BY <1>1, <1>2, <2>3, <3>3, Others DEF Inv, InNode, Spinning, InLoop
        <5>2. n \in DOMAIN Way[u] /\ n >= node[u]
          BY <1>2, <5>1 DEF Inv, OnTheWay, Nodes
        <5>3. \E s \in Sides : Claims(u, n, s)
          BY <1>2, <5>1, <5>2, ClaimedSide
        <5> QED BY <1>1, <4>1, <4>2, <5>3, RivalSide
      <4> QED BY <1>2, <3>3, <4>3
    <3> QED BY <3>2, <3>3
  <2> QED BY <2>2, <2>3 DEF Inv, HolderIsSafe
<1> QED BY <1>3, <1>5, <1>7, <1>8 DEF Inv

\* Another round of the loop.
LEMMA SpinInv ==
  ASSUME Inv, NEW t \in Threads, Step(t), Spinning(t), NEW l \in InLoop,
         Goto(t, l), UNCHANGED <<want, victim, node, side>>
  PROVE  Inv'
<1>1. InNode(t) /\ pc'[t] = l
  BY DEF InNode, Goto, Inv, TypeOK
<1>2. TypeOK'
  BY DEF Inv, TypeOK, Goto
<1>3. OnTheWay'
  <2>1. \A u \in Threads \ {t} : pc'[u] = pc[u]
    BY DEF Goto, Inv, TypeOK
  <2> QED BY <1>1, <2>1 DEF Inv, OnTheWay, InNode, Spinning, InLoop
<1>4. \A m \in Nodes, s \in Sides : Claims(t, m, s)' <=> Claims(t, m, s)
  BY <1>1, ClaimsStay DEF InLoop
<1>5. FlagsAreClaims'
  BY <1>4, FlagsStay
<1>6. \A m \in Nodes : Holds(t, m)' => Holds(t, m)
  BY <1>1, <1>4 DEF Holds, InNode, Spinning
<1>7. HolderIsSafe'
  BY <1>6, HoldersStay
<1> QED BY <1>2, <1>3, <1>5, <1>7 DEF Inv

\* peterson_mutex::lock() returns: the rival is not there, or it is the victim.
LEMMA LockedInv ==
  ASSUME Inv, NEW t \in Threads, Step(t), Spinning(t),
         ~ want[node[t]][1 - side[t]] \/ victim[node[t]] # side[t],
         Goto(t, Locked(t)), UNCHANGED <<want, victim, node, side>>
  PROVE  /\ Inv'
         /\ \A u \in Threads \ {t} : ~ Holds(u, node[t])
<1> DEFINE n == node[t]
<1>1. InNode(t) /\ pc'[t] = Locked(t) /\ Locked(t) \in {"critical", "climb"}
      /\ (Locked(t) = "climb" <=> n # 0)
  BY DEF InNode, Goto, Inv, TypeOK, Locked
<1>2. ~ InNode(t)' /\ ~ Spinning(t)'
  BY <1>1 DEF InNode, Spinning, InLoop
<1>3. TypeOK'
  BY <1>1 DEF Inv, TypeOK, Goto
<1>4. OnTheWay'
  <2>1. \A u \in Threads \ {t} : pc'[u] = pc[u]
    BY DEF Goto, Inv, TypeOK
  <2> QED BY <1>1, <1>2, <2>1 DEF Inv, OnTheWay, InNode, Spinning
<1>5. \A m \in Nodes, s \in Sides : Claims(t, m, s)' <=> Claims(t, m, s)
  BY <1>1, ClaimsStay
<1>6. FlagsAreClaims'
  BY <1>5, FlagsStay
<1>7. ASSUME NEW u \in Threads \ {t}
      PROVE  /\ ~ Holds(u, n)
             /\ Spinning(u) /\ node[u] = n => victim[n] = side[u]
  <2>1. n \in Nodes /\ n \in Nat /\ victim[n] \in Sides /\ side[t] \in Sides
    BY DEF Inv, TypeOK, Nodes
  <2>2. CASE \E s \in Sides : Claims(u, n, s)
    <3>1. Way[u][n] = 1 - side[t] /\ want[n][1 - side[t]]
      BY <1>1, <2>2, RivalSide
    <3>2. victim[n] # side[t]
      BY <3>1
    <3>3. ~ Holds(u, n)
      BY <2>1, <3>2 DEF Inv, HolderIsSafe
    <3>4. ASSUME Spinning(u), node[u] = n PROVE victim[n] = side[u]
      <4>1. side[u] = 1 - side[t]
        BY <3>1, <3>4 DEF Inv, OnTheWay, InNode
      <4> QED BY <2>1, <3>2, <4>1 DEF Sides
    <3> QED BY <3>3, <3>4
  <2>3. CASE ~ \E s \in Sides : Claims(u, n, s)
    <3>1. ~ Holds(u, n)
      BY <2>3 DEF Holds
    <3>2. ~ (Spinning(u) /\ node[u] = n)
      <4> SUFFICES ASSUME Spinning(u), node[u] = n PROVE FALSE
        OBVIOUS
      <4>1. pc[u] # "idle" /\ n \in DOMAIN Way[u] /\ n >= node[u]
        BY <2>1 DEF Spinning, InLoop, Inv, OnTheWay
      <4> QED BY <2>1, <2>3, <4>1, ClaimedSide
    <3> QED BY <3>1, <3>2
  <2> QED BY <2>2, <2>3
<1>8. \A m \in Nodes : Holds(t, m)' => Holds(t, m) \/ m = n
  BY <1>5 DEF Holds
<1>9. HolderIsSafe'
  <2>1. \A u \in Threads \ {t} : /\ side'[u] = side[u] /\ node'[u] = node[u]
                                 /\ Spinning(u)' <=> Spinning(u)
                                 /\ \A m \in Nodes : Holds(u, m)' <=> Holds(u, m)
    BY Others DEF Inv
  <2>2. ASSUME NEW w \in Threads, NEW m \in Nodes, Holds(w, m)', NEW u \in Threads \ {w}
        PROVE  ~ Holds(u, m)' /\ (Spinning(u)' /\ node'[u] = m => victim'[m] = side'[u])
    <3>1. CASE w = t /\ m = n
      BY <1>7, <2>1, <3>1
    <3>2. CASE w = t /\ m # n
      BY <1>8, <2>1, <2>2, <3>2 DEF Inv, HolderIsSafe
    <3>3. CASE w # t /\ u = t
      <4>1. Holds(w, m) /\ m # n
        BY <1>7, <2>1, <2>2, <3>3
      <4> QED BY <1>2, <1>8, <3>3, <4>1 DEF Inv, HolderIsSafe
    <3>4. CASE w # t /\ u # t
      BY <2>1, <2>2, <3>4 DEF Inv, HolderIsSafe
    <3> QED BY <3>1, <3>2, <3>3, <3>4
  <2> QED BY <2>2 DEF HolderIsSafe
<1> QED BY <1>3, <1>4, <1>6, <1>7, <1>9 DEF Inv

\* want[1 - side].load()
LEMMA LoadWantInv ==
  ASSUME Inv, NEW t \in Threads, LoadWant(t)
  PROVE  Inv'
<1>1. Step(t) /\ Spinning(t) /\ UNCHANGED <<want, victim, node, side>>
  BY DEF LoadWant, Step, InLock, Spinning, InLoop
<1>2. CASE want[node[t]][1 - side[t]]
  <2>1. Goto(t, "load_victim") /\ "load_victim" \in InLoop
    BY <1>2 DEF LoadWant, InLoop
  <2> QED BY <1>1, <2>1, SpinInv
<1>3. CASE ~ want[node[t]][1 - side[t]]
  <2>1. Goto(t, Locked(t))
    BY <1>3 DEF LoadWant
  <2> QED BY <1>1, <1>3, <2>1, LockedInv
<1> QED BY <1>2, <1>3

\* victim.load() == side
LEMMA LoadVictimInv ==
  ASSUME Inv, NEW t \in Threads, LoadVictim(t)
  PROVE  Inv'
<1>1. Step(t) /\ Spinning(t) /\ UNCHANGED <<want, victim, node, side>>
  BY DEF LoadVictim, Step, InLock, Spinning, InLoop
<1>2. CASE victim[node[t]] = side[t]
  <2>1. Goto(t, "load_want") /\ "load_want" \in InLoop
    BY <1>2 DEF LoadVictim, InLoop
  <2> QED BY <1>1, <2>1, SpinInv
<1>3. CASE victim[node[t]] # side[t]
  <2>1. Goto(t, Locked(t))
    BY <1>3 DEF LoadVictim
  <2> QED BY <1>1, <1>3, <2>1, LockedInv
<1> QED BY <1>2, <1>3

\* What unlock() lowers at one node, and where it goes next.
LEMMA ReleaseStep ==
  ASSUME Inv, NEW t \in Threads, Release(t)
  PROVE  /\ node[t] \in DOMAIN Way[t] /\ Claims(t, node[t], Way[t][node[t]])
         /\ want' = [want EXCEPT ![node[t]][Way[t][node[t]]] = FALSE]
         /\ \A m \in DOMAIN Way[t] :
              (pc'[t] # "idle" /\ m >= node'[t]) <=> (m >= node[t] /\ m # node[t])
         /\ node'[t] \in DOMAIN Way[t] /\ pc' = [pc EXCEPT ![t] = pc'[t]]
         /\ pc'[t] \in {"idle", "release"} /\ node' = [node EXCEPT ![t] = node'[t]]
         /\ UNCHANGED <<victim, side>>
<1> DEFINE n == node[t]
<1>1. n \in DOMAIN Way[t] /\ pc[t] \in {"critical", "release"} /\ UNCHANGED <<victim, side>>
  BY DEF Inv, OnTheWay, Release
<1>2. \A m \in DOMAIN Way[t] : m \in Nat /\ m <= first_mutex(t)
  BY OnWay DEF Nodes
<1>3. Claims(t, n, Way[t][n])
  BY <1>1, <1>2 DEF Claims
<1>4. CASE n = first_mutex(t)
  <2>1. /\ want' = [want EXCEPT ![n][Way[t][n]] = FALSE]
        /\ pc' = [pc EXCEPT ![t] = "idle"] /\ pc'[t] = "idle" /\ node' = node
    BY <1>4, OnWay DEF Release, Goto, Inv, TypeOK
  <2>2. \A m \in DOMAIN Way[t] : ~ (m >= n /\ m # n)
    BY <1>1, <1>2, <1>4
  <2>3. node' = [node EXCEPT ![t] = node'[t]]
    BY <2>1 DEF Inv, TypeOK
  <2> QED BY <1>1, <1>3, <2>1, <2>2, <2>3
<1>5. CASE n # first_mutex(t)
  <2> DEFINE c == get_child(n, t)
  <2>1. /\ c \in DOMAIN Way[t] /\ n < c /\ Way[t][n] = side_of(c)
        /\ \A m \in DOMAIN Way[t] : n < m => c <= m
    BY <1>1, <1>5, OneDown
  <2>2. /\ want' = [want EXCEPT ![n][Way[t][n]] = FALSE]
        /\ pc' = [pc EXCEPT ![t] = "release"] /\ pc'[t] = "release"
        /\ node' = [node EXCEPT ![t] = c] /\ node'[t] = c
    <3>1. /\ want' = [want EXCEPT ![n][side_of(c)] = FALSE]
          /\ node' = [node EXCEPT ![t] = c] /\ pc' = [pc EXCEPT ![t] = "release"]
      BY <1>5 DEF Release, Goto
    <3> HIDE DEF c
    <3> QED BY <2>1, <3>1 DEF Inv, TypeOK
  <2>3. \A m \in DOMAIN Way[t] : m >= c <=> (m >= n /\ m # n)
    <3> HIDE DEF c
    <3> QED BY <1>1, <1>2, <2>1
  <2> HIDE DEF c
  <2> QED BY <1>1, <1>3, <2>1, <2>2, <2>3
<1> QED BY <1>4, <1>5

\* unlock(), one node.
LEMMA ReleaseInv ==
  ASSUME Inv, NEW t \in Threads, Release(t)
  PROVE  Inv'
<1> DEFINE n == node[t]
           x == Way[t][n]
<1>1. /\ n \in DOMAIN Way[t] /\ Claims(t, n, x)
      /\ want' = [want EXCEPT ![n][x] = FALSE]
      /\ \A m \in DOMAIN Way[t] :
            (pc'[t] # "idle" /\ m >= node'[t]) <=> (m >= n /\ m # n)
      /\ node'[t] \in DOMAIN Way[t] /\ pc' = [pc EXCEPT ![t] = pc'[t]]
      /\ pc'[t] \in {"idle", "release"} /\ node' = [node EXCEPT ![t] = node'[t]]
      /\ UNCHANGED <<victim, side>>
  BY ReleaseStep
<1>2. Step(t) /\ pc[t] \in {"critical", "release"}
  BY DEF Step, Release
<1>3. n \in Nodes /\ n \in Nat /\ x \in Sides /\ node'[t] \in Nodes
  BY <1>1, OnWay DEF Nodes
<1>4. TypeOK'
  <2> HIDE DEF x
  <2> QED BY <1>1, <1>3 DEF Inv, TypeOK
<1>5. ~ InNode(t)' /\ ~ Spinning(t)' /\ ~ InNode(t)
  BY <1>1, <1>2 DEF InNode, Spinning, InLoop
<1>6. OnTheWay'
  <2>1. ASSUME NEW u \in Threads \ {t}
        PROVE  /\ node'[u] \in DOMAIN Way[u]
               /\ InNode(u)' => side'[u] = Way[u][node'[u]]
               /\ pc'[u] = "climb" => node'[u] # 0
               /\ pc'[u] = "critical" => node'[u] = 0
    BY <1>2, Others DEF Inv, OnTheWay
  <2> QED BY <1>1, <1>5, <2>1 DEF OnTheWay
<1>7. \A m \in Nodes, s \in Sides : Claims(t, m, s)' <=> (Claims(t, m, s) /\ m # n)
  BY <1>1, <1>2 DEF Claims
<1>8. FlagsAreClaims'
  <2>1. PICK k \in Nodes : k = n
    BY <1>3
  <2>2. PICK y \in Sides : y = x
    BY <1>3
  <2>3. ~ Claims(t, k, y)'
    BY <1>7, <2>1
  <2>4. \A m \in Nodes, s \in Sides :
          ~ (m = k /\ s = y) => (Claims(t, m, s)' <=> Claims(t, m, s))
    BY <1>7, <2>1, <2>2 DEF Claims
  <2>5. \A u \in Threads \ {t} : ~ Claims(u, k, y)
    BY <1>1, <2>1, <2>2, OneSide DEF OneThreadPerSide, Claimants
  <2>6. want' = [want EXCEPT ![k][y] = FALSE]
    BY <1>1, <2>1, <2>2
  <2> HIDE DEF x, n
  <2> QED BY <1>2, <2>3, <2>4, <2>5, <2>6, FlagFollows
<1>9. HolderIsSafe'
  <2>1. \A m \in Nodes : Holds(t, m)' => Holds(t, m)
    BY <1>5, <1>7 DEF Holds
  <2> QED BY <1>1, <1>2, <1>5, <2>1, HoldersStay
<1> QED BY <1>4, <1>6, <1>8, <1>9 DEF Inv

\* Every step of lock() and unlock() preserves the invariant.
LEMMA StepInv == ASSUME Inv, [Next]_vars
                 PROVE  Inv'
<1>1. ASSUME NEW t \in Threads, Step(t)
      PROVE  Inv'
  BY <1>1, ClaimSteps, StoreVictimInv, LoadWantInv, LoadVictimInv, ReleaseInv DEF Step, InLock
<1>2. CASE UNCHANGED vars
  BY <1>2 DEF vars, Inv, TypeOK, OnTheWay, FlagsAreClaims, HolderIsSafe, Claimants, Claims,
              Holds, InNode, Spinning
<1> QED BY <1>1, <1>2 DEF Next

\* The invariant holds in every state of every execution, for any number of threads.
THEOREM Invariance == Spec => []Inv
BY InitInv, StepInv, PTL DEF Spec

\* No two threads ever use a peterson_mutex from the same side.
THEOREM Sided == Spec => []OneThreadPerSide
BY OneSide, Invariance, PTL
-----------------------------------------------------------------------------
\* When one thread moves, the abstract lock sees that thread alone move.
LEMMA PhaseMove ==
  ASSUME TypeOK, NEW t \in Threads, NEW p, pc' = [pc EXCEPT ![t] = p]
  PROVE  LockPhase' = [LockPhase EXCEPT ![t] = Phase(p)]
BY DEF TypeOK, LockPhase

\* Whoever is inside the critical section holds the root.
LEMMA CriticalHolds ==
  ASSUME Inv, NEW t \in Threads, pc[t] = "critical"
  PROVE  Holds(t, 0) /\ 0 \in Nodes
<1>1. node[t] = 0 /\ 0 \in DOMAIN Way[t] /\ 0 \in Nodes
  BY OnWay DEF Inv, OnTheWay
<1>2. ~ InNode(t) /\ 0 >= node[t]
  BY <1>1 DEF InNode, Spinning, InLoop
<1> QED BY <1>1, <1>2, ClaimedSide DEF Holds

\* At most one thread is between its lock() and its unlock().
MutualExclusion == \A t, u \in Threads : pc[t] = "critical" /\ pc[u] = "critical" => t = u

\* The tree of two-thread locks excludes any number of threads from each other.
THEOREM Mutex == Spec => []MutualExclusion
<1>1. Inv => MutualExclusion
  BY CriticalHolds DEF MutualExclusion, Inv, HolderIsSafe
<1> QED BY <1>1, Invariance, PTL

\* Each step of the tree maps to a step of the abstract lock or changes nothing there.
THEOREM ImplementsLock == Spec => LockSafety
<1>1. Init => Abstract!Init
  BY DEF Init, Abstract!Init, LockPhase, Phase
<1>2. ASSUME Inv, [Next]_vars
      PROVE  [Abstract!Next]_LockPhase
  <2>1. TypeOK
    BY <1>2 DEF Inv
  <2>2. \A t \in Threads : LockPhase[t] = Phase(pc[t])
    BY DEF LockPhase
  <2>3. ASSUME NEW t \in Threads, NEW p, pc' = [pc EXCEPT ![t] = p], Phase(pc[t]) = Phase(p)
        PROVE  UNCHANGED LockPhase
    <3>1. LockPhase' = [LockPhase EXCEPT ![t] = LockPhase[t]]
      BY <2>1, <2>2, <2>3, PhaseMove
    <3> QED BY <3>1 DEF LockPhase
  <2>4. ASSUME NEW t \in Threads, ClaimFirst(t)
        PROVE  Abstract!Request(t)
    <3>1. LockPhase' = [LockPhase EXCEPT ![t] = Phase("store_victim")]
      BY <2>1, <2>4, PhaseMove DEF ClaimFirst, Claim, Goto
    <3> QED BY <2>2, <2>4, <3>1 DEF ClaimFirst, Abstract!Request, Phase
  <2>5. ASSUME NEW t \in Threads, ClaimParent(t)
        PROVE  UNCHANGED LockPhase
    <3>1. pc' = [pc EXCEPT ![t] = "store_victim"] /\ pc[t] = "climb"
      BY <2>5 DEF ClaimParent, Claim, Goto
    <3>2. Phase("climb") = "waiting" /\ Phase("store_victim") = "waiting"
      BY DEF Phase
    <3> QED BY <2>3, <3>1, <3>2
  <2>6. ASSUME NEW t \in Threads, StoreVictim(t)
        PROVE  UNCHANGED LockPhase
    <3>1. pc' = [pc EXCEPT ![t] = "load_want"] /\ pc[t] = "store_victim"
      BY <2>6 DEF StoreVictim, Goto
    <3>2. Phase("store_victim") = "waiting" /\ Phase("load_want") = "waiting"
      BY DEF Phase
    <3> QED BY <2>3, <3>1, <3>2
  <2>7. ASSUME NEW t \in Threads, Spinning(t), NEW l \in InLoop, Goto(t, l)
        PROVE  UNCHANGED LockPhase
    <3>1. pc' = [pc EXCEPT ![t] = l] /\ pc[t] \in InLoop
      BY <2>7 DEF Spinning, Goto
    <3>2. \A p \in InLoop : Phase(p) = "waiting"
      BY DEF InLoop, Phase
    <3> QED BY <2>3, <2>7, <3>1, <3>2
  <2>8. ASSUME NEW t \in Threads, Step(t), Spinning(t), Goto(t, Locked(t)),
               ~ want[node[t]][1 - side[t]] \/ victim[node[t]] # side[t],
               UNCHANGED <<want, victim, node, side>>
        PROVE  Abstract!Acquire(t) \/ UNCHANGED LockPhase
    <3>1. CASE node[t] # 0
      <4>1. /\ pc' = [pc EXCEPT ![t] = "climb"]
            /\ Phase(pc[t]) = "waiting" /\ Phase("climb") = "waiting"
        BY <2>8, <3>1 DEF Goto, Locked, Spinning, InLoop, Phase
      <4> QED BY <2>3, <4>1
    <3>2. CASE node[t] = 0
      <4>1. pc' = [pc EXCEPT ![t] = "critical"] /\ Phase(pc[t]) = "waiting"
        BY <2>8, <3>2 DEF Goto, Locked, Spinning, InLoop, Phase
      <4>2. LockPhase' = [LockPhase EXCEPT ![t] = "critical"]
        BY <2>1, <4>1, PhaseMove DEF Phase
      <4>3. \A u \in Threads : pc[u] # "critical"
        <5>1. \A u \in Threads \ {t} : ~ Holds(u, 0)
          BY <1>2, <2>8, <3>2, LockedInv
        <5>2. pc[t] # "critical"
          BY <2>8 DEF Spinning, InLoop
        <5> QED BY <1>2, <5>1, <5>2, CriticalHolds
      <4>4. \A u \in Threads : LockPhase[u] # "critical"
        BY <2>2, <4>3 DEF Phase
      <4> QED BY <2>2, <4>1, <4>2, <4>4 DEF Abstract!Acquire
    <3> QED BY <3>1, <3>2
  <2>9. ASSUME NEW t \in Threads, LoadWant(t)
        PROVE  Abstract!Acquire(t) \/ UNCHANGED LockPhase
    <3>1. Step(t) /\ Spinning(t) /\ UNCHANGED <<want, victim, node, side>>
      BY <2>9 DEF LoadWant, Step, InLock, Spinning, InLoop
    <3>2. CASE want[node[t]][1 - side[t]]
      <4>1. Goto(t, "load_victim") /\ "load_victim" \in InLoop
        BY <2>9, <3>2 DEF LoadWant, InLoop
      <4> QED BY <2>7, <3>1, <4>1
    <3>3. CASE ~ want[node[t]][1 - side[t]]
      <4>1. Goto(t, Locked(t))
        BY <2>9, <3>3 DEF LoadWant
      <4> QED BY <2>8, <3>1, <3>3, <4>1
    <3> QED BY <3>2, <3>3
  <2>10. ASSUME NEW t \in Threads, LoadVictim(t)
         PROVE  Abstract!Acquire(t) \/ UNCHANGED LockPhase
    <3>1. Step(t) /\ Spinning(t) /\ UNCHANGED <<want, victim, node, side>>
      BY <2>10 DEF LoadVictim, Step, InLock, Spinning, InLoop
    <3>2. CASE victim[node[t]] = side[t]
      <4>1. Goto(t, "load_want") /\ "load_want" \in InLoop
        BY <2>10, <3>2 DEF LoadVictim, InLoop
      <4> QED BY <2>7, <3>1, <4>1
    <3>3. CASE victim[node[t]] # side[t]
      <4>1. Goto(t, Locked(t))
        BY <2>10, <3>3 DEF LoadVictim
      <4> QED BY <2>8, <3>1, <3>3, <4>1
    <3> QED BY <3>2, <3>3
  <2>11. ASSUME NEW t \in Threads, Release(t)
         PROVE  Abstract!Release(t) \/ UNCHANGED LockPhase
    <3>1. PICK p \in {"idle", "release"} : pc' = [pc EXCEPT ![t] = p]
      BY <1>2, <2>11, ReleaseStep
    <3>2. Phase(p) = "idle"
      BY DEF Phase
    <3>3. CASE pc[t] = "critical"
      <4>1. LockPhase' = [LockPhase EXCEPT ![t] = "idle"]
        BY <2>1, <3>1, <3>2, PhaseMove
      <4> QED BY <2>2, <3>3, <4>1 DEF Abstract!Release, Phase
    <3>4. CASE pc[t] = "release"
      <4>1. Phase("release") = "idle"
        BY DEF Phase
      <4> QED BY <2>3, <3>1, <3>2, <3>4, <4>1
    <3> QED BY <2>11, <3>3, <3>4 DEF Release
  <2>12. CASE UNCHANGED vars
    BY <2>12 DEF vars, LockPhase
  <2> QED BY <1>2, <2>4, <2>5, <2>6, <2>9, <2>10, <2>11, <2>12
          DEF Next, Step, InLock, Abstract!Next
<1> QED BY <1>1, <1>2, Invariance, PTL DEF Spec, LockSafety, Abstract!Spec
-----------------------------------------------------------------------------
\* Where a claimant of node n is in Peterson's algorithm there.
PcAt(t, n) == IF node[t] = n /\ InNode(t) THEN pc[t] ELSE "critical"

\* Each side of a node sees its only claimant, or nobody.
SidesSeeClaims ==
  \A n \in Nodes :
    /\ NodePc(n) = [s \in Sides |-> NodePc(n)[s]]
    /\ \A s \in Sides :
         /\ (\A t \in Threads : ~ Claims(t, n, s)) => NodePc(n)[s] = "idle"
         /\ \A t \in Threads : Claims(t, n, s) => NodePc(n)[s] = PcAt(t, n)

\* The CHOOSE of NodePc picks the only claimant.
LEMMA NodePcIs == Inv => SidesSeeClaims
<1> SUFFICES ASSUME Inv, NEW n \in Nodes
             PROVE  /\ NodePc(n) = [s \in Sides |-> NodePc(n)[s]]
                    /\ \A s \in Sides :
                        /\ (\A t \in Threads : ~ Claims(t, n, s)) => NodePc(n)[s] = "idle"
                        /\ \A t \in Threads : Claims(t, n, s) => NodePc(n)[s] = PcAt(t, n)
  BY DEF SidesSeeClaims
<1>1. NodePc(n) = [s \in Sides |-> NodePc(n)[s]]
  BY DEF NodePc
<1>2. ASSUME NEW s \in Sides, \A t \in Threads : ~ Claims(t, n, s)
      PROVE  NodePc(n)[s] = "idle"
  <2>1. Claimants(n, s) = {}
    BY <1>2 DEF Claimants
  <2> QED BY <2>1 DEF NodePc
<1>3. ASSUME NEW s \in Sides, NEW t \in Threads, Claims(t, n, s)
      PROVE  NodePc(n)[s] = PcAt(t, n)
  <2>1. t \in Claimants(n, s) /\ \A u \in Claimants(n, s) : u = t
    BY <1>3, OneSide DEF Claimants, OneThreadPerSide
  <2>2. (CHOOSE u \in Claimants(n, s) : TRUE) = t /\ Claimants(n, s) # {}
    BY <2>1, Zenon
  <2> QED BY <2>2 DEF NodePc, PcAt
<1> QED BY <1>1, <1>2, <1>3

\* A step of t that touches one side of node n, and nothing elsewhere.
LEMMA OneNodeMoves ==
  ASSUME Inv, Inv', NEW t \in Threads, Step(t), NEW n \in Nodes, NEW x \in Sides,
         \A m \in Nodes \ {n}, s \in Sides :
            /\ Claims(t, m, s)' <=> Claims(t, m, s)
            /\ Claims(t, m, s) => PcAt(t, m)' = PcAt(t, m),
         \A s \in Sides \ {x} : ~ Claims(t, n, s) /\ ~ Claims(t, n, s)',
         Claims(t, n, x) \/ Claims(t, n, x)',
         \A m \in Nodes \ {n} : want'[m] = want[m] /\ victim'[m] = victim[m]
  PROVE  /\ \A m \in Nodes \ {n} : UNCHANGED <<want[m], victim[m], NodePc(m)>>
         /\ NodePc(n)[x] = IF Claims(t, n, x) THEN PcAt(t, n) ELSE "idle"
         /\ NodePc(n)' = [NodePc(n) EXCEPT ![x] =
                            IF Claims(t, n, x)' THEN PcAt(t, n)' ELSE "idle"]
<1>1. SidesSeeClaims
  BY NodePcIs
<1>2. SidesSeeClaims'
  <2>1. (Inv => SidesSeeClaims)'
    BY NodePcIs, PTL
  <2> QED BY <2>1
<1> USE DEF SidesSeeClaims
<1>3. \A u \in Threads \ {t}, m \in Nodes, s \in Sides :
        (Claims(u, m, s)' <=> Claims(u, m, s)) /\ PcAt(u, m)' = PcAt(u, m)
  BY Others DEF Inv, PcAt
<1>4. ASSUME NEW m \in Nodes, NEW s \in Sides, ~ (m = n /\ s = x)
      PROVE  NodePc(m)'[s] = NodePc(m)[s]
  <2>1. \A u \in Threads : /\ Claims(u, m, s)' <=> Claims(u, m, s)
                           /\ Claims(u, m, s) => PcAt(u, m)' = PcAt(u, m)
    BY <1>3, <1>4
  <2> QED BY <1>1, <1>2, <2>1
<1>5. ASSUME NEW m \in Nodes \ {n}
      PROVE  UNCHANGED <<want[m], victim[m], NodePc(m)>>
  <2>1. \A s \in Sides : NodePc(m)'[s] = NodePc(m)[s]
    BY <1>4
  <2>2. NodePc(m)' = NodePc(m)
    BY <1>1, <1>2, <2>1
  <2> QED BY <2>2
<1>6. \A u \in Threads \ {t} : ~ Claims(u, n, x) /\ ~ Claims(u, n, x)'
  <2>1. OneThreadPerSide
    BY OneSide
  <2>2. OneThreadPerSide'
    <3>1. (Inv => OneThreadPerSide)'
      BY OneSide, PTL
    <3> QED BY <3>1
  <2>3. CASE Claims(t, n, x)
    BY <1>3, <2>1, <2>3 DEF OneThreadPerSide, Claimants
  <2>4. CASE Claims(t, n, x)'
    BY <1>3, <2>2, <2>4 DEF OneThreadPerSide, Claimants
  <2> QED BY <2>3, <2>4
<1>7. NodePc(n)[x] = IF Claims(t, n, x) THEN PcAt(t, n) ELSE "idle"
  BY <1>1, <1>6
<1>8. NodePc(n)'[x] = IF Claims(t, n, x)' THEN PcAt(t, n)' ELSE "idle"
  BY <1>2, <1>6
<1>9. NodePc(n)' = [NodePc(n) EXCEPT ![x] = NodePc(n)'[x]]
  BY <1>1, <1>2, <1>4
<1> QED BY <1>5, <1>7, <1>8, <1>9

\* Claiming a node is the first store of Peterson's lock() there.
LEMMA ClaimIsStoreWant ==
  ASSUME Inv, Inv', NEW t \in Threads, Step(t), NEW n \in DOMAIN Way[t],
         Claim(t, n, Way[t][n]), ~ InNode(t),
         \A m \in DOMAIN Way[t] : m > n <=> (pc[t] # "idle" /\ m >= node[t])
  PROVE  \A m \in Nodes : Node(m)!Next \/ UNCHANGED <<want[m], victim[m], NodePc(m)>>
<1> DEFINE x == Way[t][n]
<1>1. n \in Nodes /\ n \in Nat /\ x \in Sides /\ \A m \in DOMAIN Way[t] : m \in Nat
  BY OnWay DEF Nodes
<1>2. /\ want' = [want EXCEPT ![n][x] = TRUE] /\ victim' = victim
      /\ node'[t] = n /\ pc'[t] = "store_victim"
  BY DEF Claim, Goto, Inv, TypeOK
<1>3. \A m \in Nodes, s \in Sides :
         /\ Claims(t, m, s)' <=> (m \in DOMAIN Way[t] /\ m >= n /\ s = Way[t][m])
         /\ Claims(t, m, s) <=> (m \in DOMAIN Way[t] /\ m > n /\ s = Way[t][m])
  BY <1>2 DEF Claims
<1>4. ASSUME NEW m \in Nodes \ {n}, NEW s \in Sides
      PROVE  /\ Claims(t, m, s)' <=> Claims(t, m, s)
             /\ Claims(t, m, s) => PcAt(t, m)' = PcAt(t, m)
  BY <1>1, <1>2, <1>3 DEF PcAt
<1>5. \A s \in Sides \ {x} : ~ Claims(t, n, s) /\ ~ Claims(t, n, s)'
  BY <1>1, <1>3
<1>6. Claims(t, n, x)' /\ ~ Claims(t, n, x)
  BY <1>1, <1>3
<1>7. \A m \in Nodes \ {n} : want'[m] = want[m] /\ victim'[m] = victim[m]
  BY <1>2 DEF Inv, TypeOK
<1>8. PcAt(t, n)' = "store_victim"
  BY <1>2 DEF PcAt, InNode
<1>9. /\ \A m \in Nodes \ {n} : UNCHANGED <<want[m], victim[m], NodePc(m)>>
      /\ NodePc(n)[x] = "idle"
      /\ NodePc(n)' = [NodePc(n) EXCEPT ![x] = "store_victim"]
  <2> HIDE DEF x
  <2> QED BY <1>1, <1>4, <1>5, <1>6, <1>7, <1>8, OneNodeMoves
<1>10. Node(n)!Next
  <2>1. want'[n] = [want[n] EXCEPT ![x] = TRUE] /\ victim'[n] = victim[n]
    BY <1>1, <1>2 DEF Inv, TypeOK
  <2> HIDE DEF x
  <2>2. Node(n)!StoreWant(x)
    BY <1>9, <2>1 DEF Node!StoreWant
  <2>3. x \in Node(n)!Threads
    BY <1>1 DEF Node!Threads, Sides
  <2> QED BY <2>2, <2>3 DEF Node!Next, Node!Step
<1> QED BY <1>9, <1>10

\* A step inside peterson_mutex::lock() is seen at its node alone, on t's side.
LEMMA InnerStep ==
  ASSUME Inv, Inv', NEW t \in Threads, Step(t), InNode(t), NEW n \in Nodes, n = node[t],
         NEW x \in Sides, x = side[t],
         NEW l \in InLoop \cup {"critical", "climb"}, Goto(t, l), node' = node, want' = want,
         \A m \in Nodes \ {n} : victim'[m] = victim[m]
  PROVE  /\ \A m \in Nodes \ {n} : UNCHANGED <<want[m], victim[m], NodePc(m)>>
         /\ NodePc(n)[x] = pc[t]
         /\ NodePc(n)' = [NodePc(n) EXCEPT ![x] = IF l \in InLoop THEN l ELSE "critical"]
<1>1. pc'[t] = l /\ l # "idle" /\ node'[t] = n
  BY DEF Goto, Inv, TypeOK, InLoop
<1>2. \A m \in Nodes, s \in Sides : Claims(t, m, s)' <=> Claims(t, m, s)
  BY <1>1, ClaimsStay
<1>3. PcAt(t, n) = pc[t] /\ PcAt(t, n)' = IF l \in InLoop THEN l ELSE "critical"
  BY <1>1 DEF PcAt, InNode, Spinning, InLoop
<1>4. \A m \in Nodes \ {n} : PcAt(t, m)' = PcAt(t, m)
  BY <1>1 DEF PcAt
<1>5. Claims(t, n, x) /\ \A s \in Sides \ {x} : ~ Claims(t, n, s)
  <2>1. n \in DOMAIN Way[t] /\ Way[t][n] = x /\ n \in Nat
    BY DEF Inv, OnTheWay, Nodes
  <2>2. pc[t] # "idle"
    BY DEF InNode, Spinning, InLoop
  <2> QED BY <2>1, <2>2 DEF Claims
<1>6. \A m \in Nodes \ {n} : want'[m] = want[m] /\ victim'[m] = victim[m]
  OBVIOUS
<1> QED BY <1>2, <1>3, <1>4, <1>5, <1>6, OneNodeMoves

\* The two ends of a Peterson lock that returns: no rival, or a rival that is the victim.
LEMMA LockedNode ==
  ASSUME NEW t \in Threads
  PROVE  Locked(t) \in {"critical", "climb"} /\ Locked(t) \notin InLoop
BY DEF Locked, InLoop

\* Each step inside peterson_mutex::lock() is that step of Peterson.tla.
LEMMA InnerIsPeterson ==
  ASSUME Inv, Inv', NEW t \in Threads, StoreVictim(t) \/ LoadWant(t) \/ LoadVictim(t)
  PROVE  \A m \in Nodes : Node(m)!Next \/ UNCHANGED <<want[m], victim[m], NodePc(m)>>
<1>1. Step(t) /\ InNode(t)
  BY DEF Step, InLock, StoreVictim, LoadWant, LoadVictim, InNode, Spinning, InLoop
<1>2. PICK n \in Nodes : n = node[t]
  BY DEF Inv, TypeOK
<1>3. PICK x \in Sides : x = side[t]
  BY DEF Inv, TypeOK
<1>4. x \in Node(n)!Threads /\ Node(n)!Other(x) = 1 - x
  BY DEF Sides, Node!Threads, Node!Other
<1>5. CASE StoreVictim(t)
  <2>1. /\ pc[t] = "store_victim" /\ Goto(t, "load_want") /\ node' = node /\ want' = want
        /\ victim' = [victim EXCEPT ![n] = x] /\ "load_want" \in InLoop
    BY <1>2, <1>3, <1>5 DEF StoreVictim, InLoop
  <2>2. victim'[n] = x /\ \A m \in Nodes \ {n} : victim'[m] = victim[m]
    BY <2>1 DEF Inv, TypeOK
  <2>3. /\ \A m \in Nodes \ {n} : UNCHANGED <<want[m], victim[m], NodePc(m)>>
        /\ NodePc(n)[x] = "store_victim"
        /\ NodePc(n)' = [NodePc(n) EXCEPT ![x] = "load_want"]
    BY <1>1, <1>2, <1>3, <2>1, <2>2, InnerStep
  <2>4. Node(n)!StoreVictim(x)
    BY <2>1, <2>2, <2>3 DEF Node!StoreVictim
  <2> QED BY <1>4, <2>3, <2>4 DEF Node!Next, Node!Step
<1>6. CASE LoadWant(t)
  <2> DEFINE l == IF want[n][1 - x] THEN "load_victim" ELSE Locked(t)
  <2>1. /\ pc[t] = "load_want" /\ Goto(t, l) /\ UNCHANGED <<want, victim, node, side>>
    BY <1>2, <1>3, <1>6 DEF LoadWant
  <2>2. /\ l \in InLoop \cup {"critical", "climb"}
        /\ (IF l \in InLoop THEN l ELSE "critical")
             = (IF want[n][1 - x] THEN "load_victim" ELSE "critical")
    BY LockedNode DEF InLoop
  <2> HIDE DEF l
  <2>3. PICK l0 \in InLoop \cup {"critical", "climb"} : l0 = l
    BY <2>2
  <2>4. /\ \A m \in Nodes \ {n} : UNCHANGED <<want[m], victim[m], NodePc(m)>>
        /\ NodePc(n)[x] = "load_want"
        /\ NodePc(n)' = [NodePc(n) EXCEPT ![x] = IF l0 \in InLoop THEN l0 ELSE "critical"]
    BY <1>1, <1>2, <1>3, <2>1, <2>3, InnerStep
  <2>5. NodePc(n)' = [NodePc(n) EXCEPT ![x] = IF want[n][1 - x] THEN "load_victim"
                                                                ELSE "critical"]
    BY <2>2, <2>3, <2>4
  <2>6. Node(n)!LoadWant(x)
    BY <1>4, <2>1, <2>4, <2>5 DEF Node!LoadWant
  <2> QED BY <1>4, <2>4, <2>6 DEF Node!Next, Node!Step
<1>7. CASE LoadVictim(t)
  <2> DEFINE l == IF victim[n] = x THEN "load_want" ELSE Locked(t)
  <2>1. /\ pc[t] = "load_victim" /\ Goto(t, l) /\ UNCHANGED <<want, victim, node, side>>
    BY <1>2, <1>3, <1>7 DEF LoadVictim
  <2>2. /\ l \in InLoop \cup {"critical", "climb"}
        /\ (IF l \in InLoop THEN l ELSE "critical")
             = (IF victim[n] = x THEN "load_want" ELSE "critical")
    BY LockedNode DEF InLoop
  <2> HIDE DEF l
  <2>3. PICK l0 \in InLoop \cup {"critical", "climb"} : l0 = l
    BY <2>2
  <2>4. /\ \A m \in Nodes \ {n} : UNCHANGED <<want[m], victim[m], NodePc(m)>>
        /\ NodePc(n)[x] = "load_victim"
        /\ NodePc(n)' = [NodePc(n) EXCEPT ![x] = IF l0 \in InLoop THEN l0 ELSE "critical"]
    BY <1>1, <1>2, <1>3, <2>1, <2>3, InnerStep
  <2>5. NodePc(n)' = [NodePc(n) EXCEPT ![x] = IF victim[n] = x THEN "load_want"
                                                                ELSE "critical"]
    BY <2>2, <2>3, <2>4
  <2>6. Node(n)!LoadVictim(x)
    BY <2>1, <2>4, <2>5 DEF Node!LoadVictim
  <2> QED BY <1>4, <2>4, <2>6 DEF Node!Next, Node!Step
<1> QED BY <1>5, <1>6, <1>7

\* Releasing a node is Peterson's unlock() there.
LEMMA ReleaseIsUnlock ==
  ASSUME Inv, Inv', NEW t \in Threads, Release(t)
  PROVE  \A m \in Nodes : Node(m)!Next \/ UNCHANGED <<want[m], victim[m], NodePc(m)>>
<1>1. Step(t) /\ pc[t] \in {"critical", "release"}
  BY DEF Step, Release
<1>2. PICK n \in Nodes : n = node[t]
  BY DEF Inv, TypeOK
<1>3. /\ n \in DOMAIN Way[t] /\ Claims(t, n, Way[t][n])
      /\ want' = [want EXCEPT ![n][Way[t][n]] = FALSE]
      /\ \A m \in DOMAIN Way[t] :
            (pc'[t] # "idle" /\ m >= node'[t]) <=> (m >= n /\ m # n)
      /\ pc'[t] \in {"idle", "release"} /\ UNCHANGED victim
  BY <1>2, ReleaseStep
<1>4. PICK x \in Sides : x = Way[t][n]
  BY <1>3, OnWay
<1>5. \A m \in Nodes, s \in Sides : Claims(t, m, s)' <=> (Claims(t, m, s) /\ m # n)
  BY <1>1, <1>2, <1>3 DEF Claims
<1>6. ~ InNode(t) /\ ~ InNode(t)'
  BY <1>1, <1>3 DEF InNode, Spinning, InLoop
<1>7. \A m \in Nodes : PcAt(t, m) = "critical" /\ PcAt(t, m)' = "critical"
  BY <1>6 DEF PcAt
<1>8. Claims(t, n, x) /\ ~ Claims(t, n, x)'
        /\ \A s \in Sides \ {x} : ~ Claims(t, n, s) /\ ~ Claims(t, n, s)'
  BY <1>3, <1>4, <1>5 DEF Claims
<1>9. \A m \in Nodes \ {n} : want'[m] = want[m] /\ victim'[m] = victim[m]
  BY <1>3 DEF Inv, TypeOK
<1>10. /\ \A m \in Nodes \ {n} : UNCHANGED <<want[m], victim[m], NodePc(m)>>
       /\ NodePc(n)[x] = "critical"
       /\ NodePc(n)' = [NodePc(n) EXCEPT ![x] = "idle"]
  BY <1>1, <1>5, <1>7, <1>8, <1>9, OneNodeMoves
<1>11. want'[n] = [want[n] EXCEPT ![x] = FALSE] /\ victim'[n] = victim[n]
  BY <1>3, <1>4 DEF Inv, TypeOK
<1>12. Node(n)!Unlock(x) /\ x \in Node(n)!Threads
  BY <1>10, <1>11 DEF Node!Unlock, Node!Threads, Sides
<1> QED BY <1>10, <1>12 DEF Node!Next, Node!Step

\* Every node of the tree is used as a two-thread lock has to be.
THEOREM EveryNodeIsPeterson == Spec => NodesArePeterson
<1> DEFINE A == \A n \in Nodes : Node(n)!Next \/ UNCHANGED <<want[n], victim[n], NodePc(n)>>
<1>1. ASSUME Inv, Inv', [Next]_vars
      PROVE  [A]_vars
  <2>1. ASSUME NEW t \in Threads, ClaimFirst(t)
        PROVE  A
    <3>1. Step(t) /\ ~ InNode(t) /\ pc[t] = "idle"
      BY <2>1 DEF Step, ClaimFirst, InNode, Spinning, InLoop
    <3>2. PICK n \in DOMAIN Way[t] : n = first_mutex(t)
      BY OnWay
    <3>3. Claim(t, n, Way[t][n])
      BY <2>1, <3>2, OnWay DEF ClaimFirst
    <3>4. \A m \in DOMAIN Way[t] : ~ (m > n)
      <4>1. \A m \in DOMAIN Way[t] : m <= n /\ m \in Nat
        BY <3>2, OnWay DEF Nodes
      <4> QED BY <4>1
    <3> QED BY <1>1, <3>1, <3>3, <3>4, ClaimIsStoreWant
  <2>2. ASSUME NEW t \in Threads, ClaimParent(t)
        PROVE  A
    <3>1. Step(t) /\ ~ InNode(t) /\ pc[t] = "climb"
      BY <2>2 DEF Step, InLock, ClaimParent, InNode, Spinning, InLoop
    <3>2. node[t] \in DOMAIN Way[t] /\ node[t] # 0
      BY <1>1, <3>1 DEF Inv, OnTheWay
    <3>3. PICK n \in DOMAIN Way[t] : n = parent_index(node[t])
      BY <3>2, OneUp
    <3>4. /\ n < node[t] /\ Way[t][n] = side_of(node[t])
          /\ \A m \in DOMAIN Way[t] : n < m => node[t] <= m
      BY <3>2, <3>3, OneUp
    <3>5. Claim(t, n, Way[t][n])
      BY <2>2, <3>3, <3>4 DEF ClaimParent
    <3>6. \A m \in DOMAIN Way[t] : m > n <=> m >= node[t]
      <4>1. \A m \in DOMAIN Way[t] : m \in Nat
        BY OnWay DEF Nodes
      <4> QED BY <3>2, <3>4, <4>1
    <3> QED BY <1>1, <3>1, <3>5, <3>6, ClaimIsStoreWant
  <2>3. ASSUME NEW t \in Threads, StoreVictim(t) \/ LoadWant(t) \/ LoadVictim(t)
        PROVE  A
    BY <1>1, <2>3, InnerIsPeterson
  <2>4. ASSUME NEW t \in Threads, Release(t)
        PROVE  A
    BY <1>1, <2>4, ReleaseIsUnlock
  <2> HIDE DEF A
  <2> QED BY <1>1, <2>1, <2>2, <2>3, <2>4 DEF Next, Step, InLock
<1>2. Inv /\ Inv' /\ [Next]_vars => [A]_vars
  BY <1>1
<1>3. NodesArePeterson <=> [][A]_vars
  BY DEF NodesArePeterson
<1> HIDE DEF A
<1> QED BY <1>2, <1>3, Invariance, PTL DEF Spec
=============================================================================
