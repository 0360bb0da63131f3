---------------------------- MODULE BoundedFifo ----------------------------
(***************************************************************************)
(* What the transport expects of one spsc_ring_buffer_t: a bounded first-  *)
(* in first-out queue.  An accepted event is appended, a popped event is   *)
(* the oldest one.  A refused push and an empty pop change nothing.        *)
(***************************************************************************)
EXTENDS Naturals, Sequences

CONSTANTS Capacity,   \* SPSC_RING_CAPACITY
          Event,      \* what monitor_event_t ranges over
          NoEvent     \* nothing popped yet

VARIABLES fifo,       \* accepted events not yet popped, oldest first
          popped      \* the event the last successful pop returned

Init == fifo = <<>> /\ popped = NoEvent

Push(e) ==
    /\ Len(fifo) < Capacity
    /\ fifo' = Append(fifo, e)
    /\ UNCHANGED popped

Pop ==
    /\ fifo # <<>>
    /\ popped' = Head(fifo)
    /\ fifo' = Tail(fifo)

Next == Pop \/ \E e \in Event : Push(e)

Spec == Init /\ [][Next]_<<fifo, popped>>
============================================================================
