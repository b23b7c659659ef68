----------------------------- MODULE BoundedFifo -----------------------------
(***************************************************************************)
(* What spsc_ring_buffer promises: a first-in first-out queue of at most   *)
(* Size items.  An operation that returns false changes nothing.           *)
(***************************************************************************)
EXTENDS Naturals, Sequences

CONSTANTS Size, Items

VARIABLES queue,      \* the items put and not yet taken, oldest first
          delivered   \* the items taken, in the order they were taken

Init == queue = <<>> /\ delivered = <<>>

Put(v) == /\ Len(queue) < Size
          /\ queue' = Append(queue, v)
          /\ UNCHANGED delivered

Take == /\ queue # <<>>
        /\ delivered' = Append(delivered, Head(queue))
        /\ queue' = Tail(queue)

Next == Take \/ \E v \in Items : Put(v)

Spec == Init /\ [][Next]_<<queue, delivered>>
=============================================================================
