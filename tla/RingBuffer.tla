----------------------------- MODULE RingBuffer -----------------------------
(***************************************************************************)
(* src/src/ring_buffer.c: the single-producer single-consumer ring that    *)
(* carries one thread's events.  Each call is split at its atomic          *)
(* accesses.  head and tail are the newest values in the modification      *)
(* order of the two atomics; the side that does not own a counter may load *)
(* any value it has not yet passed (C11 coherence), so ptail and chead lag *)
(* behind.  The slot copy of 48 bytes is not atomic: while it is under way *)
(* the slot holds Torn.  Counters keep their width: they wrap at           *)
(* CounterMod (2^64 in the code).                                          *)
(***************************************************************************)
EXTENDS Integers, Sequences

CONSTANTS Capacity,     \* SPSC_RING_CAPACITY, a power of two
          CounterMod,   \* number of values of uint64_t
          Event,        \* what monitor_event_t ranges over
          NoEvent,      \* a slot, or an out-parameter, never written
          Torn          \* a slot whose copy is under way

\* The counter range is a proper multiple of the capacity, as 2^64 is of a
\* smaller power of two: masking a wrapped counter stays continuous.
ASSUME CapacityAssumption ==
    /\ Capacity \in Nat \ {0}
    /\ CounterMod \in Nat
    /\ \E k \in 2 .. CounterMod : CounterMod = Capacity * k

ASSUME EventAssumption == NoEvent \notin Event /\ Torn \notin Event

VARIABLES head,     \* buffer->head, stored by the producer only
          tail,     \* buffer->tail, stored by the consumer only
          slots,    \* buffer->slots
          ppc,      \* where the producer is in try_push
          pevent,   \* the event being pushed
          ptail,    \* tail as last loaded by the producer
          cpc,      \* where the consumer is in try_pop
          cevent,   \* the copy the consumer took out of the slot
          chead,    \* head as last loaded by the consumer
          popped    \* the event the last successful pop returned

producerVars == <<ppc, pevent, ptail>>
consumerVars == <<cpc, cevent, chead, popped>>
vars == <<head, tail, slots, ppc, pevent, ptail, cpc, cevent, chead, popped>>

Counter == 0 .. CounterMod - 1
Index == 0 .. Capacity - 1

\* Unsigned subtraction and increment of the counters.
Distance(a, b) == (a - b) % CounterMod

IncrementUnwrapped(c) == c + 1
Increment(c) == (c + 1) % CounterMod

\* c & SPSC_RING_MASK
Slot(c) == c % Capacity

IsFullOffByOne(h, t) == Distance(h, t) > Capacity
IsFull(h, t) == Distance(h, t) >= Capacity
IsEmpty(h, t) == t = h

\* A load of a counter last seen as `seen` and now at `newest`.
Visible(seen, newest) ==
    {(seen + k) % CounterMod : k \in 0 .. Distance(newest, seen)}

\* spsc_ring_buffer_init
Init ==
    /\ head = 0
    /\ tail = 0
    /\ slots = [i \in Index |-> NoEvent]
    /\ ppc = "idle" /\ pevent = NoEvent /\ ptail = 0
    /\ cpc = "idle" /\ cevent = NoEvent /\ chead = 0
    /\ popped = NoEvent
-----------------------------------------------------------------------------
\* spsc_ring_buffer_try_push returns false: no room as far as tail was seen.
TryPushFull ==
    /\ ppc = "idle"
    /\ \E t \in Visible(ptail, tail) :
          /\ IsFull(head, t)
          /\ ptail' = t
    /\ UNCHANGED <<head, tail, slots, ppc, pevent, consumerVars>>

\* Room was seen; the copy into the slot begins.
TryPushBegin(e) ==
    /\ ppc = "idle"
    /\ \E t \in Visible(ptail, tail) :
          /\ ~IsFull(head, t)
          /\ ptail' = t
    /\ ppc' = "copying"
    /\ pevent' = e
    /\ slots' = [slots EXCEPT ![Slot(head)] = Torn]
    /\ UNCHANGED <<head, tail, consumerVars>>

TryPushCopy ==
    /\ ppc = "copying"
    /\ slots' = [slots EXCEPT ![Slot(head)] = pevent]
    /\ ppc' = "copied"
    /\ UNCHANGED <<head, tail, pevent, ptail, consumerVars>>

\* The release store of head; try_push returns true.
TryPushPublish ==
    /\ ppc = "copied"
    /\ head' = Increment(head)
    /\ ppc' = "idle"
    /\ UNCHANGED <<tail, slots, pevent, ptail, consumerVars>>
-----------------------------------------------------------------------------
\* spsc_ring_buffer_try_pop returns false: nothing there as far as head was seen.
TryPopEmpty ==
    /\ cpc = "idle"
    /\ \E h \in Visible(chead, head) :
          /\ IsEmpty(h, tail)
          /\ chead' = h
    /\ UNCHANGED <<head, tail, slots, producerVars, cpc, cevent, popped>>

TryPopBegin ==
    /\ cpc = "idle"
    /\ \E h \in Visible(chead, head) :
          /\ ~IsEmpty(h, tail)
          /\ chead' = h
    /\ cpc' = "copying"
    /\ UNCHANGED <<head, tail, slots, producerVars, cevent, popped>>

TryPopCopy ==
    /\ cpc = "copying"
    /\ cevent' = slots[Slot(tail)]
    /\ cpc' = "copied"
    /\ UNCHANGED <<head, tail, slots, producerVars, chead, popped>>

\* The consumer gives the slot back before it has copied the event out.
TryPopReleaseFirst ==
    /\ cpc = "copying"
    /\ tail' = Increment(tail)
    /\ cpc' = "idle"
    /\ popped' = cevent
    /\ UNCHANGED <<head, slots, producerVars, cevent, chead>>

\* The release store of tail; try_pop returns true and hands over the event.
TryPopPublish ==
    /\ cpc = "copied"
    /\ tail' = Increment(tail)
    /\ cpc' = "idle"
    /\ popped' = cevent
    /\ UNCHANGED <<head, slots, producerVars, cevent, chead>>
-----------------------------------------------------------------------------
Producer ==
    \/ TryPushFull
    \/ \E e \in Event : TryPushBegin(e)
    \/ TryPushCopy
    \/ TryPushPublish

Consumer ==
    \/ TryPopEmpty
    \/ TryPopBegin
    \/ TryPopCopy
    \/ TryPopPublish

Next == Producer \/ Consumer

Spec == Init /\ [][Next]_vars
-----------------------------------------------------------------------------
(***************************************************************************)
(* Properties.                                                             *)
(***************************************************************************)

\* Every counter stays inside uint64_t, across its wraparound, and each
\* local copy is a counter or an event.
TypeOK ==
    /\ head \in Counter /\ tail \in Counter
    /\ ptail \in Counter /\ chead \in Counter
    /\ slots \in [Index -> Event \cup {NoEvent, Torn}]
    /\ ppc \in {"idle", "copying", "copied"}
    /\ pevent \in Event \cup {NoEvent}
    /\ cpc \in {"idle", "copying", "copied"}
    /\ cevent \in Event \cup {NoEvent, Torn}
    /\ popped \in Event \cup {NoEvent, Torn}

\* Between the loads and the release store of its call a side owns the slot
\* its counter names, and the two sides never own the same slot: the copies
\* in try_push and try_pop are free of data races, even though each side
\* decides from an outdated copy of the other's counter.
NoSlotRace == ppc # "idle" /\ cpc # "idle" => Slot(head) # Slot(tail)

\* Why the properties hold: along the wrapping counter line the order is always
\* ptail, tail, chead, head, spread over at most Capacity positions, and a side
\* inside its call has room (the producer) or an event (the consumer) left.
CountersInOrder ==
    /\ Distance(head, ptail) <= Capacity
    /\ Distance(head, ptail) = Distance(head, tail) + Distance(tail, ptail)
    /\ Distance(head, tail) = Distance(head, chead) + Distance(chead, tail)
    /\ ppc # "idle" => Distance(head, ptail) < Capacity
    /\ cpc # "idle" => Distance(chead, tail) > 0

\* What each side has copied so far.
CopiesInPlace ==
    /\ ppc # "idle" => pevent \in Event
    /\ ppc = "copied" => slots[Slot(head)] = pevent
    /\ cpc = "copied" => cevent = slots[Slot(tail)]

IndInv == TypeOK /\ CountersInOrder /\ CopiesInPlace

\* The published events, oldest first.
Published == [i \in 1 .. Distance(head, tail) |->
                 slots[Slot((tail + i - 1) % CounterMod)]]

Fifo == INSTANCE BoundedFifo WITH fifo <- Published

\* try_push and try_pop implement a bounded FIFO queue: nothing is lost,
\* duplicated, reordered or torn between an accepted push and its pop.
FifoSpec == Fifo!Spec
=============================================================================
