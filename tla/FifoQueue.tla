----------------------------- MODULE FifoQueue -----------------------------
(***************************************************************************)
(* What LockFreeQueue promises: whatever the threads do meanwhile, an      *)
(* enqueue takes effect at one moment, at the end of the queue, and a      *)
(* dequeue at one moment, at its front.                                    *)
(***************************************************************************)
EXTENDS Sequences

CONSTANT Values

VARIABLE items

Init == items = <<>>

Enqueue(v) == items' = Append(items, v)

Dequeue == items # <<>> /\ items' = Tail(items)

Next == Dequeue \/ \E v \in Values : Enqueue(v)

Spec == Init /\ [][Next]_items
=============================================================================
