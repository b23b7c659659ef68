----------------------------- MODULE MCAvlTree -----------------------------
(***************************************************************************)
(* AVL.cpp: any calls with a few keys; and a longer life of the tree, the  *)
(* calls of Script and then any others.  The script leaves six keys under  *)
(* heights that are stale.                                                 *)
(***************************************************************************)
EXTENDS AvlTree

CONSTANTS FewKeys, FewNodes   \* bounds where there is no script

VARIABLES script,   \* the calls to begin with
          calls     \* how many of them have been made

Ins(key) == [key |-> key, removes |-> FALSE]
Del(key) == [key |-> key, removes |-> TRUE]

Script == <<Ins(4), Ins(2), Ins(8), Ins(1), Ins(3), Ins(6), Ins(9), Ins(5), Ins(7),
            Del(5), Del(7), Del(9), Del(1), Del(3),
            Ins(11), Ins(10), Ins(12), Ins(14), Del(11), Del(2)>>

Scripted == /\ calls < Len(script)
            /\ LET call == script[calls + 1]
               IN  IF call.removes THEN Delete(call.key) ELSE Insert(call.key)
            /\ calls' = calls + 1
            /\ UNCHANGED script

Free == /\ calls = Len(script) /\ Next
        /\ script = <<>> => expected' \subseteq FewKeys /\ Len(heap') <= FewNodes
        /\ UNCHANGED <<script, calls>>

MCInit == Init /\ script \in {<<>>, Script} /\ calls = 0
MCNext == Scripted \/ Free
MCSpec == MCInit /\ [][MCNext]_<<vars, script, calls>>

\* What tells states apart.
MCView == <<View, script, calls>>
=============================================================================
