---------------------------- MODULE AbstractSet ----------------------------
(***************************************************************************)
(* What striped_hash_set promises: a set, every call on which takes effect *)
(* at one moment between its beginning and its return.                     *)
(***************************************************************************)
CONSTANTS Threads, Values, Initial

VARIABLES set,
          phase,    \* phase[t]: "none", what t has called, or "done" before it returns
          value,    \* value[t]: the argument of t's call
          answer    \* answer[t]: what t's last call of contains() found

Init == /\ set = Initial
        /\ phase = [t \in Threads |-> "none"]
        /\ value \in [Threads -> Values]
        /\ answer = [t \in Threads |-> FALSE]

Invoke(t) == /\ phase[t] = "none"
             /\ \E op \in {"add", "remove", "contains"} : phase' = [phase EXCEPT ![t] = op]
             /\ \E v \in Values : value' = [value EXCEPT ![t] = v]
             /\ UNCHANGED <<set, answer>>

\* The call takes effect, and may return at once.
Finish(t) == /\ \E p \in {"done", "none"} : phase' = [phase EXCEPT ![t] = p]
             /\ UNCHANGED value

Add(t) == /\ phase[t] = "add" /\ Finish(t)
          /\ set' = set \cup {value[t]} /\ UNCHANGED answer

Remove(t) == /\ phase[t] = "remove" /\ Finish(t)
             /\ set' = set \ {value[t]} /\ UNCHANGED answer

Contains(t) == /\ phase[t] = "contains" /\ Finish(t)
               /\ answer' = [answer EXCEPT ![t] = value[t] \in set] /\ UNCHANGED set

\* add may fail, and has no effect then.
Fail(t) == /\ phase[t] = "add"
           /\ phase' = [phase EXCEPT ![t] = "none"]
           /\ UNCHANGED <<set, value, answer>>

Return(t) == /\ phase[t] = "done"
             /\ phase' = [phase EXCEPT ![t] = "none"]
             /\ UNCHANGED <<set, value, answer>>

Next == \E t \in Threads : Invoke(t) \/ Add(t) \/ Remove(t) \/ Contains(t) \/ Fail(t) \/ Return(t)

Spec == Init /\ [][Next]_<<set, phase, value, answer>>
=============================================================================
