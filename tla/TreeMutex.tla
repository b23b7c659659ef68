----------------------------- MODULE TreeMutex -----------------------------
(***************************************************************************)
(* ParallelProgramming/tree_mutex.h: a lock for NumThreads threads made of *)
(* a tree of peterson_mutex.  lock() takes the mutexes from the thread's   *)
(* first one up to the root, unlock() gives them back from the root down,  *)
(* recomputing the way.  The steps inside peterson_mutex are those of      *)
(* Peterson.tla, one atomic access each.                                   *)
(***************************************************************************)
EXTENDS TreeIndex

VARIABLES
  want,    \* want[n][s], victim[n]: the atomics of the mutex at node n
  victim,
  pc,      \* pc[t]: the step that t takes next
  node,    \* node[t]: the node that t is locking, has locked or unlocks next
  side     \* side[t]: the side from which t locks node[t]

vars == <<want, victim, pc, node, side>>

Sides == {0, 1}
InLoop == {"load_want", "load_victim"}
Spinning(t) == pc[t] \in InLoop

\* t is inside peterson_mutex::lock() at node[t].
InNode(t) == Spinning(t) \/ pc[t] = "store_victim"

Init == /\ want = [n \in Nodes |-> [s \in Sides |-> FALSE]]
        /\ victim = [n \in Nodes |-> 0]
        /\ pc = [t \in Threads |-> "idle"]
        /\ node = [t \in Threads |-> first_mutex(t)]
        /\ side = [t \in Threads |-> side_of(t)]

Goto(t, label) == pc' = [pc EXCEPT ![t] = label]
-----------------------------------------------------------------------------
\* want[side].store(true) at node n, the next one on t's way up.
Claim(t, n, s) == /\ want' = [want EXCEPT ![n][s] = TRUE]
                  /\ node' = [node EXCEPT ![t] = n]
                  /\ side' = [side EXCEPT ![t] = s]
                  /\ Goto(t, "store_victim")
                  /\ UNCHANGED victim

\* lock(t): the first mutex, entered from the thread's own side.
ClaimFirst(t) == pc[t] = "idle" /\ Claim(t, first_mutex(t), side_of(t))

\* The loop of lock(): the parent, entered from the node just locked.
ClaimParent(t) == /\ pc[t] = "climb"
                  /\ Claim(t, parent_index(node[t]), side_of(node[t]))

\* victim.store(side)
StoreVictim(t) == /\ pc[t] = "store_victim"
                  /\ victim' = [victim EXCEPT ![node[t]] = side[t]]
                  /\ Goto(t, "load_want")
                  /\ UNCHANGED <<want, node, side>>

\* A mutex is locked: lock() returns at the root, and goes up from any other node.
Locked(t) == IF node[t] = 0 THEN "critical" ELSE "climb"

\* want[1 - side].load()
LoadWant(t) ==
  /\ pc[t] = "load_want"
  /\ Goto(t, IF want[node[t]][1 - side[t]] THEN "load_victim" ELSE Locked(t))
  /\ UNCHANGED <<want, victim, node, side>>

\* victim.load() == side
LoadVictim(t) ==
  /\ pc[t] = "load_victim"
  /\ Goto(t, IF victim[node[t]] = side[t] THEN "load_want" ELSE Locked(t))
  /\ UNCHANGED <<want, victim, node, side>>

\* A mutant: unlock() goes up the tree, as lock() does.
Release_FromLeaf(t) ==
  LET n == IF pc[t] = "critical" THEN first_mutex(t) ELSE node[t]
      s == IF n = first_mutex(t) THEN side_of(t) ELSE side[t]
  IN  /\ pc[t] \in {"critical", "release"}
      /\ want' = [want EXCEPT ![n][s] = FALSE]
      /\ node' = [node EXCEPT ![t] = IF n = 0 THEN first_mutex(t) ELSE parent_index(n)]
      /\ side' = [side EXCEPT ![t] = side_of(n)]
      /\ Goto(t, IF n = 0 THEN "idle" ELSE "release")
      /\ UNCHANGED victim

\* A mutant: the loop of unlock() is not followed by a last unlock.
Release_KeepsFirst(t) ==
  /\ pc[t] \in {"critical", "release"}
  /\ IF node[t] = first_mutex(t)
     THEN Goto(t, "idle") /\ UNCHANGED <<want, node>>
     ELSE LET child == get_child(node[t], t)
          IN  /\ want' = [want EXCEPT ![node[t]][side_of(child)] = FALSE]
              /\ node' = [node EXCEPT ![t] = child]
              /\ Goto(t, "release")
  /\ UNCHANGED <<victim, side>>

\* unlock(t), one node: want[side].store(false), then down to the child.
Release(t) ==
  /\ pc[t] \in {"critical", "release"}
  /\ IF node[t] = first_mutex(t)
     THEN /\ want' = [want EXCEPT ![node[t]][side_of(t)] = FALSE]
          /\ Goto(t, "idle")
          /\ UNCHANGED node
     ELSE LET child == get_child(node[t], t)
          IN  /\ want' = [want EXCEPT ![node[t]][side_of(child)] = FALSE]
              /\ node' = [node EXCEPT ![t] = child]
              /\ Goto(t, "release")
  /\ UNCHANGED <<victim, side>>

InLock(t) == ClaimParent(t) \/ StoreVictim(t) \/ LoadWant(t) \/ LoadVictim(t)

Step(t) == ClaimFirst(t) \/ InLock(t) \/ Release(t)

Next == \E t \in Threads : Step(t)

Spec == Init /\ [][Next]_vars

(***************************************************************************)
(* A thread inside lock() or unlock() keeps being scheduled.  Nothing is   *)
(* assumed of the callers: one may never call, or never unlock.            *)
(***************************************************************************)
Finish(t) == pc[t] = "release" /\ Release(t)
FairSpec == Spec /\ \A t \in Threads : WF_vars(InLock(t)) /\ WF_vars(Finish(t))
-----------------------------------------------------------------------------
\* Threads stay in the tree and on the sides of its mutexes.
TypeOK == /\ want \in [Nodes -> [Sides -> BOOLEAN]]
          /\ victim \in [Nodes -> Sides]
          /\ pc \in [Threads -> InLoop \cup {"idle", "store_victim", "climb",
                                             "critical", "release"}]
          /\ node \in [Threads -> Nodes]
          /\ side \in [Threads -> Sides]

\* n is an ancestor of m in the heap, or m itself.
Above(n, m) == \E k \in 0..m : n + 1 = (m + 1) \div 2^k

\* The nodes between each thread and the root, with the side it comes from.
Way == [t \in Threads |->
          [n \in {n \in Nodes : Above(n, first_mutex(t))} |->
             IF n = first_mutex(t) THEN side_of(t)
             ELSE side_of(CHOOSE m \in Nodes : /\ Above(m, first_mutex(t))
                                               /\ n = (m + 1) \div 2 - 1)]]

\* t has claimed node n from side s and not released it: n is not below node[t].
Claims(t, n, s) == /\ pc[t] # "idle" /\ n >= node[t]
                   /\ n \in DOMAIN Way[t] /\ Way[t][n] = s

Claimants(n, s) == {t \in Threads : Claims(t, n, s)}

(***************************************************************************)
(* A peterson_mutex works for one thread per side.  The tree sees to it:   *)
(* two threads that share a side of a node have met at the node below it,  *)
(* and the loser waits there until the winner has released both.           *)
(***************************************************************************)
OneThreadPerSide ==
  \A n \in Nodes, s \in Sides : \A t, u \in Claimants(n, s) : t = u

(***************************************************************************)
(* unlock() finds its way back: a flag is up exactly while some thread on  *)
(* its way up or down has claimed that side, and so no flag is left up and *)
(* none is taken down under a thread that still needs it.                  *)
(***************************************************************************)
FlagsAreClaims ==
  \A n \in Nodes, s \in Sides : want[n][s] <=> Claimants(n, s) # {}

\* A thread locks the nodes of its way, each from its own side, and all of them.
OnTheWay ==
  \A t \in Threads : /\ node[t] \in DOMAIN Way[t]
                     /\ InNode(t) => side[t] = Way[t][node[t]]
                     /\ pc[t] = "climb" => node[t] # 0
                     /\ pc[t] = "critical" => node[t] = 0

\* t has locked node n, and not released it.
Holds(t, n) == /\ \E s \in Sides : Claims(t, n, s)
               /\ ~ (n = node[t] /\ InNode(t))

(***************************************************************************)
(* A node has one holder, and a thread that spins there has made itself    *)
(* the victim last, so that it stays until the holder is gone.             *)
(***************************************************************************)
HolderIsSafe ==
  \A t \in Threads, n \in Nodes : Holds(t, n) => \A u \in Threads \ {t} :
    /\ ~ Holds(u, n)
    /\ Spinning(u) /\ node[u] = n => victim[n] = side[u]

(***************************************************************************)
(* The inductive invariant.  OneThreadPerSide follows from it: threads on  *)
(* one side of a node would both hold the node below.                      *)
(***************************************************************************)
Inv == TypeOK /\ OnTheWay /\ FlagsAreClaims /\ HolderIsSafe

\* What Peterson.tla knows of the thread on side s of node n.
NodePc(n) ==
  [s \in Sides |->
     IF Claimants(n, s) = {} THEN "idle"
     ELSE LET t == CHOOSE t \in Claimants(n, s) : TRUE
          IN  IF node[t] = n /\ InNode(t)
              THEN pc[t] ELSE "critical"]

Node(n) == INSTANCE Peterson WITH want <- want[n], victim <- victim[n],
                                  pc <- NodePc(n)

(***************************************************************************)
(* Every node is used as a two-thread lock has to be: each step of a       *)
(* thread is a step of Peterson.tla at one node and changes no other.      *)
(***************************************************************************)
NodesArePeterson ==
  [][\A n \in Nodes : Node(n)!Next \/ UNCHANGED <<want[n], victim[n], NodePc(n)>>]_vars

\* The refinement mapping: the lock is free again once the root is.
Phase(p) == CASE p = "critical" -> "critical"
              [] p \in {"idle", "release"} -> "idle"
              [] OTHER -> "waiting"

LockPhase == [t \in Threads |-> Phase(pc[t])]

Abstract == INSTANCE AbstractLock WITH phase <- LockPhase

\* tree_mutex is a lock for all its threads.
LockSafety == Abstract!Spec

\* And lock() starves none of them.
LockRefinement == Abstract!FairSpec
=============================================================================
