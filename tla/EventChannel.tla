---------------------------- MODULE EventChannel ----------------------------
(***************************************************************************)
(* What the two threads of the plugin may rely on when one sends parameter *)
(* events to the other: a first-in first-out channel of bounded capacity.  *)
(* A send to a full channel is neither refused nor reported: it voids the  *)
(* channel, which from then on promises nothing.                           *)
(***************************************************************************)
EXTENDS Naturals, Sequences

CONSTANTS Event, Capacity

VARIABLES
    fifo,       \* events sent and not yet delivered, oldest first
    delivered,  \* every event delivered so far, in order
    void        \* the contract was broken by a send to a full channel

vars == <<fifo, delivered, void>>

Init == fifo = <<>> /\ delivered = <<>> /\ void = FALSE

Put(e) ==
    /\ ~void
    /\ Len(fifo) < Capacity
    /\ fifo' = Append(fifo, e)
    /\ UNCHANGED <<delivered, void>>

Get ==
    /\ ~void
    /\ fifo # <<>>
    /\ delivered' = Append(delivered, Head(fifo))
    /\ fifo' = Tail(fifo)
    /\ UNCHANGED void

Overflow ==
    /\ ~void
    /\ Len(fifo) = Capacity
    /\ void' = TRUE

Anything == void /\ void'

Next == (\E e \in Event : Put(e)) \/ Get \/ Overflow \/ Anything

Spec == Init /\ [][Next]_vars
=============================================================================
