---------------------------- MODULE BoundedFifo ----------------------------
(* A FIFO of bounded capacity: what a frame queue promises its users. *)
EXTENDS Naturals, Sequences

CONSTANTS Items, Capacity

VARIABLE queue

Init == queue = <<>>

Put(x) == /\ Len(queue) < Capacity
          /\ queue' = Append(queue, x)

Get == /\ queue # <<>>
       /\ queue' = Tail(queue)

Next == (\E x \in Items : Put(x)) \/ Get

Spec == Init /\ [][Next]_queue
=============================================================================
