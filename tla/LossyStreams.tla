---------------------------- MODULE LossyStreams ----------------------------
(***************************************************************************)
(* What the transport promises: a bounded channel per stream.  An event    *)
(* gets the next number of its stream and is either accepted or, when the  *)
(* channel is full and only then, lost; accepted events are delivered      *)
(* once and in order.  The numbers make every loss that something follows  *)
(* visible, and the count makes every loss visible.                        *)
(***************************************************************************)
EXTENDS Naturals, Sequences

CONSTANTS Stream, Capacity

VARIABLES next,        \* stream -> number of the next event
          pending,     \* stream -> numbers of accepted events, oldest first
          delivered,   \* stream -> numbers of delivered events
          lost         \* stream -> how many events were lost

vars == <<next, pending, delivered, lost>>

Init ==
    /\ next = [s \in Stream |-> 0]
    /\ pending = [s \in Stream |-> <<>>]
    /\ delivered = [s \in Stream |-> <<>>]
    /\ lost = [s \in Stream |-> 0]

Accept(s) ==
    /\ Len(pending[s]) < Capacity
    /\ next' = [next EXCEPT ![s] = @ + 1]
    /\ pending' = [pending EXCEPT ![s] = Append(@, next[s])]
    /\ UNCHANGED <<delivered, lost>>

Lose(s) ==
    /\ Len(pending[s]) = Capacity
    /\ next' = [next EXCEPT ![s] = @ + 1]
    /\ lost' = [lost EXCEPT ![s] = @ + 1]
    /\ UNCHANGED <<pending, delivered>>

Deliver(s) ==
    /\ pending[s] # <<>>
    /\ delivered' = [delivered EXCEPT ![s] = Append(@, Head(pending[s]))]
    /\ pending' = [pending EXCEPT ![s] = Tail(@)]
    /\ UNCHANGED <<next, lost>>

Next == \E s \in Stream : Accept(s) \/ Lose(s) \/ Deliver(s)

Spec == Init /\ [][Next]_vars
=============================================================================
