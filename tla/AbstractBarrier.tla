-------------------------- MODULE AbstractBarrier --------------------------
(***************************************************************************)
(* What barrier::enter() promises: nobody comes out of a round before      *)
(* everybody has come in.                                                  *)
(***************************************************************************)
EXTENDS Naturals

CONSTANT Threads

VARIABLES arrivals,    \* arrivals[t]: how often t has called enter()
          departures   \* departures[t]: how often enter() has returned to t

Init == /\ arrivals = [t \in Threads |-> 0]
        /\ departures = [t \in Threads |-> 0]

Arrive(t) == /\ departures[t] = arrivals[t]
             /\ arrivals' = [arrivals EXCEPT ![t] = @ + 1]
             /\ UNCHANGED departures

Depart(t) == /\ departures[t] < arrivals[t]
             /\ \A u \in Threads : arrivals[u] >= arrivals[t]
             /\ departures' = [departures EXCEPT ![t] = @ + 1]
             /\ UNCHANGED arrivals

Next == \E t \in Threads : Arrive(t) \/ Depart(t)

Spec == Init /\ [][Next]_<<arrivals, departures>>
=============================================================================
