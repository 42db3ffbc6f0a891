---------------------------- MODULE BoundedFifo ----------------------------
(***************************************************************************)
(* What a bounded single-producer, single-consumer queue promises to its   *)
(* two users: values leave in the order they entered, each exactly once,   *)
(* and never more than Capacity of them are held.  SpscQueue is shown to   *)
(* implement it; TreeRefresh, whose threads talk through four of these     *)
(* queues, relies on that.                                                 *)
(***************************************************************************)
EXTENDS Naturals, Sequences

CONSTANTS
  Capacity,  \* how many values the queue holds
  Value,     \* what is pushed
  None       \* no value has been popped yet

VARIABLES
  fifo,      \* the values held, oldest first
  out        \* the value the last successful pop returned

vars == <<fifo, out>>

Init == /\ fifo = <<>>
        /\ out = None

Push(v) == /\ Len(fifo) < Capacity
           /\ fifo' = Append(fifo, v)
           /\ UNCHANGED out

Pop == /\ fifo # <<>>
       /\ out' = Head(fifo)
       /\ fifo' = Tail(fifo)

Clear == /\ fifo' = <<>>
         /\ UNCHANGED out

Next == (\E v \in Value : Push(v)) \/ Pop \/ Clear

SafeSpec == Init /\ [][Next]_vars

\* The consumer polls: a value that stays in the queue is taken out.
Delivery == WF_vars(Pop)

Spec == SafeSpec /\ Delivery
=============================================================================
