----------------------------- MODULE BoundedFifo -----------------------------
(***************************************************************************)
(* What the queue of sound register writes promises the rest of the sound  *)
(* code: a first-in first-out queue that refuses an item when it is full,  *)
(* hands out the oldest item, and can be emptied at once.                  *)
(***************************************************************************)
EXTENDS Sequences, Naturals

CONSTANTS Items,      \* what can be queued
          Capacity    \* how many items it holds

VARIABLES fifo,
          era     \* flips when the queue is emptied, so that emptying it is
                  \* never confused with losing what it holds

Init == fifo = <<>> /\ era = FALSE

Put(x) == /\ Len(fifo) < Capacity
          /\ fifo' = Append(fifo, x)
          /\ UNCHANGED era

Take == /\ fifo # <<>>
        /\ fifo' = Tail(fifo)
        /\ UNCHANGED era

Empty == /\ fifo' = <<>>
         /\ era' = ~era

Next == (\E x \in Items : Put(x)) \/ Take \/ Empty

Spec == Init /\ [][Next]_<<fifo, era>>
=============================================================================
