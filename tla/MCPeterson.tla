----------------------------- MODULE MCPeterson -----------------------------
(***************************************************************************)
(* Model checking of Peterson.tla with callers: each thread adds one to a  *)
(* plain, non-atomic variable while it holds the lock, again and again.    *)
(* The variable counts modulo Modulus, so that the loop needs no bound.    *)
(***************************************************************************)
EXTENDS Peterson

CONSTANT Modulus    \* bound: where the shared variable wraps around

ASSUME ModulusAssumption == Modulus \in Nat \ {0}

VARIABLES shared,   \* the variable that the lock protects
          added,    \* how often it has been incremented, modulo Modulus
          local     \* local[t]: the value that t has read, or None

client == <<shared, added, local>>
None == Modulus

MCInit == Init /\ shared = 0 /\ added = 0 /\ local = [t \in Threads |-> None]

\* The first half of shared++.
Read(t) == /\ pc[t] = "critical" /\ local[t] = None
           /\ local' = [local EXCEPT ![t] = shared]
           /\ UNCHANGED <<vars, shared, added>>

\* The second half of shared++, and then unlock(t).
WriteAndUnlock(t) == /\ local[t] # None
                     /\ shared' = (local[t] + 1) % Modulus
                     /\ added' = (added + 1) % Modulus
                     /\ local' = [local EXCEPT ![t] = None]
                     /\ Unlock(t)

MCNext == \E t \in Threads :
  \/ Read(t)
  \/ WriteAndUnlock(t)
  \/ StoreWant(t) /\ UNCHANGED client
  \/ InLock(t) /\ UNCHANGED client

MCSpec == /\ MCInit
          /\ [][MCNext]_<<vars, client>>
          /\ \A t \in Threads : WF_<<vars, client>>(InLock(t) /\ UNCHANGED client)

\* What the lock is for: no increment made under it is lost.
NoLostUpdate == shared = added
=============================================================================
