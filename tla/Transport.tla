----------------------------- MODULE Transport -----------------------------
(***************************************************************************)
(* src/src/monitor_runtime.c: registration of application threads in fixed *)
(* context slots, emission into the context's queue with DROP_NEW, the     *)
(* consumer's scan over all queues, startup, and the shutdown that decides *)
(* whether the trace is COMPLETE or DEGRADED.                              *)
(*                                                                         *)
(* One step is one access to state another thread can see.  A queue is the *)
(* bounded FIFO that RingBuffer is shown to implement; an event is what it *)
(* reports (a lifecycle event or an event of the application) and the      *)
(* thread_sequence that lets the consumer see losses.                      *)
(***************************************************************************)
EXTENDS Integers, Sequences, FiniteSetsExt

CONSTANTS Thread,       \* application threads
          MaxThreads,   \* MONITOR_MAX_THREADS
          Capacity,     \* SPSC_RING_CAPACITY
          DrainBatch,   \* MONITOR_DRAIN_BATCH
          MaxEmits      \* bound: calls of monitor_runtime_emit of all threads

ASSUME SizeAssumption ==
    /\ MaxThreads \in Nat \ {0}
    /\ Capacity \in Nat \ {0}
    /\ DrainBatch \in Nat \ {0}
    /\ MaxEmits \in Nat

NoSlot == -1
SlotIndex == 0 .. MaxThreads - 1

\* The bound check of claim_thread_slot.
SlotLeftOffByOne(expected) == expected <= MaxThreads
SlotLeft(expected) == expected < MaxThreads

VARIABLES thread_contexts,       \* slot -> monitor_thread_context_t
          next_thread_slot,      \* slots handed out so far
          unregistered_events,
          lifecycle_registration_failures,
          accept_events,
          consumer_running,
          thread_exit_key_ready,
          thread,     \* thread -> its TLS and where it is in an emit
          consumer,   \* locals of monitor_consumer_main
          main,       \* where start / stop is, and the summary's totals
          delivered,  \* slot -> events handed to the verifier
          atStop      \* slot -> emissions finished when stop was called,
                      \* thread -> emit calls that had returned by then

contextVars == <<thread_contexts, delivered>>
failureVars == <<unregistered_events, lifecycle_registration_failures>>
flagVars == <<accept_events, consumer_running, thread_exit_key_ready>>
mainVars == <<main, atStop>>
vars == <<thread_contexts, next_thread_slot, unregistered_events,
          lifecycle_registration_failures, accept_events, consumer_running,
          thread_exit_key_ready, thread, consumer, main, delivered, atStop>>

\* A context as static storage and register_current_thread leave it.
FreshContext == [active |-> FALSE, queue |-> <<>>, generated |-> 0,
                 dropped |-> 0, next_thread_sequence |-> 0, consumed |-> 0]

Init ==
    /\ thread_contexts = [s \in SlotIndex |-> FreshContext]
    /\ next_thread_slot = 0
    /\ unregistered_events = 0
    /\ lifecycle_registration_failures = 0
    /\ accept_events = FALSE
    /\ consumer_running = FALSE
    /\ thread_exit_key_ready = FALSE
    /\ thread = [t \in Thread |->
                   [pc |-> "idle", emits |-> 0, expected |-> 0, what |-> "event",
                    sequence |-> 0, tls_context |-> NoSlot, key |-> NoSlot,
                    tls_registration_failed |-> FALSE]]
    /\ consumer = [pc |-> "unborn", count |-> 0, i |-> 0, batch |-> 0,
                   consumed_any |-> FALSE]
    /\ main = [pc |-> "start", count |-> 0, i |-> 0, generated |-> 0,
               consumed |-> 0, dropped |-> 0, verdict |-> "none"]
    /\ delivered = [s \in SlotIndex |-> <<>>]
    /\ atStop = [events |-> [s \in SlotIndex |-> 0], calls |-> [t \in Thread |-> 0]]
-----------------------------------------------------------------------------
(***************************************************************************)
(* Startup: monitor_library_init in src/src/interceptor.c.                 *)
(***************************************************************************)

\* dlsym finds no pthread functions: the runtime is not started.  The first lock or
\* unlock call will try again and end the process if it fails too.
ResolveFails ==
    /\ main.pc = "start"
    /\ main' = [main EXCEPT !.pc = "failed"]
    /\ UNCHANGED <<contextVars, next_thread_slot, failureVars, flagVars, thread,
                   consumer, atStop>>

\* pthread_key_create fails: nothing was started.
StartKeyFails ==
    /\ main.pc = "start"
    /\ main' = [main EXCEPT !.pc = "failed"]
    /\ UNCHANGED <<contextVars, next_thread_slot, failureVars, flagVars, thread,
                   consumer, atStop>>

\* pthread_create fails: the key is given back, consumer_running is cleared.
StartThreadFails ==
    /\ main.pc = "start"
    /\ main' = [main EXCEPT !.pc = "failed"]
    /\ thread_exit_key_ready' = FALSE
    /\ consumer_running' = FALSE
    /\ UNCHANGED <<contextVars, next_thread_slot, failureVars, accept_events,
                   thread, consumer, atStop>>

Start ==
    /\ main.pc = "start"
    /\ main' = [main EXCEPT !.pc = "running"]
    /\ thread_exit_key_ready' = TRUE
    /\ consumer_running' = TRUE
    /\ consumer' = [consumer EXCEPT !.pc = "begin"]
    /\ accept_events' = TRUE
    /\ UNCHANGED <<contextVars, next_thread_slot, failureVars, thread, atStop>>
-----------------------------------------------------------------------------
(***************************************************************************)
(* Application threads.                                                    *)
(***************************************************************************)

At(t, pc) == thread[t].pc = pc
Context(t) == thread_contexts[thread[t].tls_context]

\* The emit call under way is over.
Finish(t) == [thread[t] EXCEPT !.pc = "idle"]

\* monitor_runtime_emit finds accept_events set.  A registered thread goes on
\* to stamp its event, an unregistered one to claim a slot, and a thread whose
\* registration failed before only counts the loss.  The load of next_thread_slot
\* is taken together with that of accept_events: slots are only ever handed out, so
\* a load that comes later differs by a ClaimRetry step.
Emit(t) ==
    /\ At(t, "idle")
    /\ MapThenSumSet(LAMBDA u : thread[u].emits, Thread) < MaxEmits
    /\ accept_events
    /\ LET called == [thread[t] EXCEPT !.emits = @ + 1, !.what = "event"] IN
       \/ /\ thread[t].tls_context # NoSlot
          /\ thread' = [thread EXCEPT ![t] = [called EXCEPT !.pc = "stamp"]]
          /\ UNCHANGED unregistered_events
       \/ /\ thread[t].tls_context = NoSlot
          /\ ~thread[t].tls_registration_failed
          /\ thread' = [thread EXCEPT ![t] =
                          [called EXCEPT !.pc = "claim",
                                         !.expected = next_thread_slot]]
          /\ UNCHANGED unregistered_events
       \/ /\ thread[t].tls_context = NoSlot
          /\ thread[t].tls_registration_failed
          /\ thread' = [thread EXCEPT ![t] = called]
          /\ unregistered_events' = unregistered_events + 1
    /\ UNCHANGED <<contextVars, next_thread_slot, flagVars, consumer, mainVars,
                   lifecycle_registration_failures>>

\* The event of a thread that gets no slot is not counted.
ClaimFailsUncounted(t) ==
    /\ At(t, "claim")
    /\ ~SlotLeft(thread[t].expected)
    /\ thread' = [thread EXCEPT ![t] =
                    [Finish(t) EXCEPT !.tls_registration_failed = TRUE]]
    /\ UNCHANGED <<contextVars, next_thread_slot, flagVars, consumer, mainVars,
                   failureVars>>

\* claim_thread_slot: no slot is left.
ClaimFails(t) ==
    /\ At(t, "claim")
    /\ ~SlotLeft(thread[t].expected)
    /\ thread' = [thread EXCEPT ![t] =
                    [Finish(t) EXCEPT !.tls_registration_failed = TRUE]]
    /\ unregistered_events' = unregistered_events + 1
    /\ UNCHANGED <<contextVars, next_thread_slot, flagVars, consumer, mainVars,
                   lifecycle_registration_failures>>

\* The slot is taken from the value read earlier, without comparing again.
ClaimUnchecked(t) ==
    /\ At(t, "claim")
    /\ SlotLeft(thread[t].expected)
    /\ next_thread_slot' = thread[t].expected + 1
    /\ thread' = [thread EXCEPT ![t] =
                    [@ EXCEPT !.pc = "activate", !.tls_context = thread[t].expected]]
    /\ UNCHANGED <<contextVars, failureVars, flagVars, consumer, mainVars>>

\* The compare-and-swap succeeds.
Claim(t) ==
    /\ At(t, "claim")
    /\ SlotLeft(thread[t].expected)
    /\ next_thread_slot = thread[t].expected
    /\ next_thread_slot' = next_thread_slot + 1
    /\ thread' = [thread EXCEPT ![t] =
                    [@ EXCEPT !.pc = "activate", !.tls_context = thread[t].expected]]
    /\ UNCHANGED <<contextVars, failureVars, flagVars, consumer, mainVars>>

\* The compare-and-swap fails and reloads expected.  A spurious failure of the
\* weak form changes nothing.
ClaimRetry(t) ==
    /\ At(t, "claim")
    /\ SlotLeft(thread[t].expected)
    /\ next_thread_slot # thread[t].expected
    /\ thread' = [thread EXCEPT ![t].expected = next_thread_slot]
    /\ UNCHANGED <<contextVars, next_thread_slot, failureVars, flagVars, consumer,
                   mainVars>>

\* register_current_thread fills in its context and publishes it with active.
Activate(t) ==
    /\ At(t, "activate")
    /\ thread_contexts' = [thread_contexts EXCEPT ![thread[t].tls_context] =
                             [FreshContext EXCEPT !.active = TRUE]]
    /\ thread' = [thread EXCEPT ![t].pc = "setspecific"]
    /\ UNCHANGED <<delivered, next_thread_slot, failureVars, flagVars, consumer,
                   mainVars>>

\* pthread_setspecific, which may fail, or is skipped once the key is gone;
\* then THREAD_START is emitted ahead of the event of the call.
SetSpecific(t) ==
    /\ At(t, "setspecific")
    /\ \/ /\ thread_exit_key_ready
          /\ thread' = [thread EXCEPT ![t] =
                          [@ EXCEPT !.key = thread[t].tls_context,
                                    !.what = "start", !.pc = "stamp"]]
          /\ UNCHANGED lifecycle_registration_failures
       \/ /\ thread' = [thread EXCEPT ![t] =
                          [@ EXCEPT !.what = "start", !.pc = "stamp"]]
          /\ lifecycle_registration_failures' = lifecycle_registration_failures + 1
    /\ UNCHANGED <<contextVars, next_thread_slot, unregistered_events, flagVars,
                   consumer, mainVars>>

\* emit_event_to_context reserves the sequence number, then counts the event.
Stamp(t) ==
    /\ At(t, "stamp")
    /\ thread_contexts' =
         [thread_contexts EXCEPT ![thread[t].tls_context] =
            [Context(t) EXCEPT !.next_thread_sequence = @ + 1, !.generated = @ + 1]]
    /\ thread' = [thread EXCEPT ![t] =
                    [@ EXCEPT !.pc = "push", !.sequence = Context(t).next_thread_sequence]]
    /\ UNCHANGED <<delivered, next_thread_slot, failureVars, flagVars, consumer,
                   mainVars>>

\* What follows emit_event_to_context: the event after THREAD_START; back to
\* the application; or, in the exit destructor, tls_context is cleared.
AfterEmit(t) ==
    CASE thread[t].what = "start" ->
           [thread[t] EXCEPT !.pc = "stamp", !.what = "event"]
      [] thread[t].what = "event" -> Finish(t)
      [] thread[t].what = "exit" ->
           [Finish(t) EXCEPT !.tls_context = NoSlot]

\* A stamp taken only once the push has gone through leaves no gap behind.
PushFullUnstamped(t) ==
    /\ At(t, "push")
    /\ Len(Context(t).queue) >= Capacity
    /\ thread_contexts' = [thread_contexts EXCEPT
            ![thread[t].tls_context].next_thread_sequence = @ - 1]
    /\ thread' = [thread EXCEPT ![t].pc = "drop"]
    /\ UNCHANGED <<delivered, next_thread_slot, failureVars, flagVars, consumer,
                   mainVars>>

\* The refused event is not counted as dropped.
PushFullUncounted(t) ==
    /\ At(t, "push")
    /\ Len(Context(t).queue) >= Capacity
    /\ thread' = [thread EXCEPT ![t] = AfterEmit(t)]
    /\ UNCHANGED <<contextVars, next_thread_slot, failureVars, flagVars, consumer,
                   mainVars>>

\* The producer spins on a full queue.
PushFullWaits(t) ==
    /\ At(t, "push")
    /\ Len(Context(t).queue) >= Capacity
    /\ UNCHANGED vars

\* spsc_ring_buffer_try_push returns false.
PushFull(t) ==
    /\ At(t, "push")
    /\ Len(Context(t).queue) >= Capacity
    /\ thread' = [thread EXCEPT ![t].pc = "drop"]
    /\ UNCHANGED <<contextVars, next_thread_slot, failureVars, flagVars, consumer,
                   mainVars>>

Push(t) ==
    /\ At(t, "push")
    /\ Len(Context(t).queue) < Capacity
    /\ thread_contexts' = [thread_contexts EXCEPT
            ![thread[t].tls_context].queue =
                Append(@, [what |-> thread[t].what, sequence |-> thread[t].sequence])]
    /\ thread' = [thread EXCEPT ![t] = AfterEmit(t)]
    /\ UNCHANGED <<delivered, next_thread_slot, failureVars, flagVars, consumer,
                   mainVars>>

\* DROP_NEW: the refused event is counted.
Drop(t) ==
    /\ At(t, "drop")
    /\ thread_contexts' = [thread_contexts EXCEPT
            ![thread[t].tls_context].dropped = @ + 1]
    /\ thread' = [thread EXCEPT ![t] = AfterEmit(t)]
    /\ UNCHANGED <<delivered, next_thread_slot, failureVars, flagVars, consumer,
                   mainVars>>

\* monitor_thread_exit_destructor runs on the value set under the key.  The
\* thread may emit again from a later TLS destructor and is then registered anew.
ThreadExit(t) ==
    /\ At(t, "idle")
    /\ thread[t].key # NoSlot
    /\ thread_exit_key_ready
    /\ thread' = [thread EXCEPT ![t] =
                    IF accept_events
                    THEN [@ EXCEPT !.key = NoSlot, !.what = "exit", !.pc = "stamp"]
                    ELSE [@ EXCEPT !.key = NoSlot, !.tls_context = NoSlot]]
    /\ UNCHANGED <<contextVars, next_thread_slot, failureVars, flagVars, consumer,
                   mainVars>>

\* What a thread does inside a call it has begun.
InEmit(t) ==
    \/ ClaimFails(t) \/ Claim(t) \/ ClaimRetry(t) \/ Activate(t)
    \/ SetSpecific(t) \/ Stamp(t) \/ PushFull(t) \/ Push(t) \/ Drop(t)
-----------------------------------------------------------------------------
(***************************************************************************)
(* monitor_consumer_main.                                                  *)
(***************************************************************************)

ScanBegin ==
    /\ consumer.pc = "begin"
    /\ consumer' = [pc |-> "scan", count |-> next_thread_slot, i |-> 0,
                    batch |-> 0, consumed_any |-> FALSE]
    /\ UNCHANGED <<contextVars, next_thread_slot, failureVars, flagVars, thread,
                   mainVars>>

\* drain_context: one event popped, processed by the verifier and counted.
DrainPop ==
    /\ consumer.pc = "scan"
    /\ consumer.i < consumer.count
    /\ thread_contexts[consumer.i].active
    /\ consumer.batch < DrainBatch
    /\ thread_contexts[consumer.i].queue # <<>>
    /\ delivered' = [delivered EXCEPT
            ![consumer.i] = Append(@, Head(thread_contexts[consumer.i].queue))]
    /\ thread_contexts' = [thread_contexts EXCEPT ![consumer.i] =
            [thread_contexts[consumer.i] EXCEPT !.queue = Tail(@), !.consumed = @ + 1]]
    /\ consumer' = [consumer EXCEPT !.batch = @ + 1, !.consumed_any = TRUE]
    /\ UNCHANGED <<next_thread_slot, failureVars, flagVars, thread, mainVars>>

\* On to the next slot: this one is not active yet, its batch is used up, or a
\* pop found it empty.
DrainNext ==
    /\ consumer.pc = "scan"
    /\ consumer.i < consumer.count
    /\ \/ ~thread_contexts[consumer.i].active
       \/ consumer.batch = DrainBatch
       \/ thread_contexts[consumer.i].queue = <<>>
    /\ consumer' = [consumer EXCEPT !.i = @ + 1, !.batch = 0]
    /\ UNCHANGED <<contextVars, next_thread_slot, failureVars, flagVars, thread,
                   mainVars>>

\* The pass is over; the consumer leaves when it is told to stop and the pass
\* consumed nothing.
ScanEnd ==
    /\ consumer.pc = "scan"
    /\ consumer.i = consumer.count
    /\ consumer' = [consumer EXCEPT !.pc =
                      IF ~consumer_running /\ ~consumer.consumed_any
                      THEN "done" ELSE "begin"]
    /\ UNCHANGED <<contextVars, next_thread_slot, failureVars, flagVars, thread,
                   mainVars>>

ConsumerStep == ScanBegin \/ DrainPop \/ DrainNext \/ ScanEnd
-----------------------------------------------------------------------------
(***************************************************************************)
(* monitor_runtime_stop, called from the library destructor.               *)
(***************************************************************************)

\* Emissions of a slot that have run to completion: pushed or counted as dropped.
Finished(s) == Len(delivered[s]) + Len(thread_contexts[s].queue)
                 + thread_contexts[s].dropped

\* Calls of monitor_runtime_emit by a thread that have returned.
Returned(t) == IF At(t, "idle") \/ thread[t].what = "exit" THEN thread[t].emits
                                                          ELSE thread[t].emits - 1

StopAccept ==
    /\ main.pc = "running"
    /\ accept_events' = FALSE
    /\ main' = [main EXCEPT !.pc = "stopping"]
    /\ atStop' = [events |-> [s \in SlotIndex |-> Finished(s)],
                  calls |-> [t \in Thread |-> Returned(t)]]
    /\ UNCHANGED <<contextVars, next_thread_slot, failureVars, consumer_running,
                   thread_exit_key_ready, thread, consumer>>

\* Only the flag that stops producers is cleared before the join.
StopConsumerForgotten ==
    /\ main.pc = "stopping"
    /\ main' = [main EXCEPT !.pc = "joining"]
    /\ UNCHANGED <<contextVars, next_thread_slot, failureVars, flagVars, thread,
                   consumer, atStop>>

StopConsumer ==
    /\ main.pc = "stopping"
    /\ consumer_running' = FALSE
    /\ main' = [main EXCEPT !.pc = "joining"]
    /\ UNCHANGED <<contextVars, next_thread_slot, failureVars, accept_events,
                   thread_exit_key_ready, thread, consumer, atStop>>

\* The summary starts while the consumer may still be running.
JoinSkipped ==
    /\ main.pc = "joining"
    /\ main' = [main EXCEPT !.pc = "generated", !.count = next_thread_slot]
    /\ UNCHANGED <<contextVars, next_thread_slot, failureVars, flagVars, thread,
                   consumer, atStop>>

\* pthread_join, then print_transport_summary loads the number of slots.
Join ==
    /\ main.pc = "joining"
    /\ consumer.pc = "done"
    /\ main' = [main EXCEPT !.pc = "generated", !.count = next_thread_slot]
    /\ UNCHANGED <<contextVars, next_thread_slot, failureVars, flagVars, thread,
                   consumer, atStop>>

\* The summary adds a slot's generated counter; an inactive slot is skipped.
SumGenerated ==
    /\ main.pc = "generated"
    /\ main.i < main.count
    /\ main' = IF thread_contexts[main.i].active
               THEN [main EXCEPT !.pc = "consumed",
                       !.generated = @ + thread_contexts[main.i].generated]
               ELSE [main EXCEPT !.i = @ + 1]
    /\ UNCHANGED <<contextVars, next_thread_slot, failureVars, flagVars, thread,
                   consumer, atStop>>

\* ... and, later, the slot's consumed and dropped counters.
SumConsumed ==
    /\ main.pc = "consumed"
    /\ main' = [main EXCEPT !.pc = "generated", !.i = @ + 1,
                  !.consumed = @ + thread_contexts[main.i].consumed,
                  !.dropped = @ + thread_contexts[main.i].dropped]
    /\ UNCHANGED <<contextVars, next_thread_slot, failureVars, flagVars, thread,
                   consumer, atStop>>

\* transport_consistent and trace_complete; then the exit key is deleted.
Verdict ==
    /\ main.pc = "generated"
    /\ main.i = main.count
    /\ main' = [main EXCEPT !.pc = "stopped", !.verdict =
                  IF /\ main.generated = main.consumed + main.dropped
                     /\ main.dropped = 0
                     /\ unregistered_events = 0
                     /\ lifecycle_registration_failures = 0
                  THEN "COMPLETE" ELSE "DEGRADED"]
    /\ thread_exit_key_ready' = FALSE
    /\ UNCHANGED <<contextVars, next_thread_slot, failureVars, accept_events,
                   consumer_running, thread, consumer, atStop>>

StopStep == StopConsumer \/ Join \/ SumGenerated \/ SumConsumed \/ Verdict
-----------------------------------------------------------------------------
\* The library constructor, and the destructor, which stops a runtime that was
\* started.
LibraryInit == ResolveFails \/ StartKeyFails \/ StartThreadFails \/ Start
LibraryDestroy == StopAccept \/ StopStep

Next ==
    \/ LibraryInit \/ LibraryDestroy
    \/ ConsumerStep
    \/ \E t \in Thread : Emit(t) \/ ThreadExit(t) \/ InEmit(t)

Spec == Init /\ [][Next]_vars

\* The scheduler runs the consumer and, once the process exits, the thread
\* that called monitor_runtime_stop.  Application threads may stop anywhere.
StopFairness == WF_vars(ConsumerStep) /\ WF_vars(StopStep)

\* The scheduler runs an application thread that is inside an emit call; the
\* monitor's own thread need not run at all.
EmitFairness == \A t \in Thread : WF_vars(InEmit(t))
-----------------------------------------------------------------------------
(***************************************************************************)
(* Properties.                                                             *)
(***************************************************************************)

ThreadPc == {"idle", "claim", "activate", "setspecific", "stamp", "push", "drop"}

EventType == [what : {"start", "event", "exit"}, sequence : Nat]

ContextType == [active : BOOLEAN, queue : Seq(EventType), generated : Nat,
                dropped : Nat, next_thread_sequence : Nat, consumed : Nat]

ThreadType == [pc : ThreadPc, emits : Nat, expected : 0 .. MaxThreads,
               what : {"start", "event", "exit"}, sequence : Nat,
               tls_context : SlotIndex \cup {NoSlot},
               key : SlotIndex \cup {NoSlot}, tls_registration_failed : BOOLEAN]

ConsumerType == [pc : {"unborn", "begin", "scan", "done"}, count : 0 .. MaxThreads,
                 i : 0 .. MaxThreads, batch : 0 .. DrainBatch,
                 consumed_any : BOOLEAN]

MainType == [pc : {"start", "failed", "running", "stopping", "joining",
                   "generated", "consumed", "stopped"},
             count : 0 .. MaxThreads, i : 0 .. MaxThreads, generated : Nat,
             consumed : Nat, dropped : Nat,
             verdict : {"none", "COMPLETE", "DEGRADED"}]

TypeOK ==
    /\ thread_contexts \in [SlotIndex -> ContextType]
    /\ \A s \in SlotIndex : Len(thread_contexts[s].queue) <= Capacity
    /\ next_thread_slot \in 0 .. MaxThreads
    /\ unregistered_events \in Nat
    /\ lifecycle_registration_failures \in Nat
    /\ accept_events \in BOOLEAN
    /\ consumer_running \in BOOLEAN
    /\ thread_exit_key_ready \in BOOLEAN
    /\ thread \in [Thread -> ThreadType]
    /\ consumer \in ConsumerType
    /\ main \in MainType
    /\ delivered \in [SlotIndex -> Seq(EventType)]
    /\ atStop \in [events : [SlotIndex -> Nat], calls : [Thread -> Nat]]

\* claim_thread_slot: no two threads ever produce into the same context, the
\* precondition of the single-producer queue, although slots are claimed
\* concurrently and a thread may be registered more than once.
SingleProducer ==
    \A t, u \in Thread :
        t # u /\ thread[t].tls_context # NoSlot
          => thread[t].tls_context # thread[u].tls_context

\* 1 if the slot's producer is at this point of an emission, else 0.
Producing(s, pc) ==
    IF \E t \in Thread : thread[t].tls_context = s /\ thread[t].pc = pc THEN 1 ELSE 0

\* A slot's event between its stamp and its push or its dropped count.
InFlight(s) == Producing(s, "push") + Producing(s, "drop")

\* emit_event_to_context and drain_context lose track of no event: every stamp
\* of a context was delivered, is queued, was counted as dropped or is in flight.
Accounting ==
    \A s \in SlotIndex :
        /\ thread_contexts[s].generated = Finished(s) + InFlight(s)
        /\ thread_contexts[s].consumed = Len(delivered[s])

Numbers(events) == [i \in DOMAIN events |-> events[i].sequence]

\* The contexts seen as channels: an event gets its fate when it meets the queue.
Streams == INSTANCE LossyStreams WITH
    Stream <- SlotIndex,
    next <- [s \in SlotIndex |->
               thread_contexts[s].next_thread_sequence - Producing(s, "push")],
    pending <- [s \in SlotIndex |-> Numbers(thread_contexts[s].queue)],
    delivered <- [s \in SlotIndex |-> Numbers(delivered[s])],
    lost <- [s \in SlotIndex |-> thread_contexts[s].dropped + Producing(s, "drop")]

\* emit_event_to_context, drain_context and register_current_thread implement the
\* bounded lossy channel of LossyStreams: registration disturbs no channel, every
\* stamp is used once, events are delivered once and in order, and only a full
\* queue loses one.
StreamsSpec == Streams!Spec

\* The verifier got the first events of a slot, and all of them.
Gapless(s) == \A i \in 1 .. Len(delivered[s]) : delivered[s][i].sequence = i - 1

\* print_transport_summary: when the summary says COMPLETE, the verifier has
\* processed every event whose emission had finished when monitor_runtime_stop was
\* called, without a gap, whatever producers are still doing while the totals are
\* read.
CompleteVerdictSound ==
    main.verdict = "COMPLETE" =>
        \A s \in SlotIndex : Len(delivered[s]) >= atStop.events[s] /\ Gapless(s)

\* The places of the application's events among those of a slot that were delivered.
DeliveredCalls(s) == {i \in DOMAIN delivered[s] : delivered[s][i].what = "event"}

\* The elements of a family of sets, kept apart.
Pairs(F) == UNION {{x} \X F[x] : x \in DOMAIN F}

\* print_transport_summary: when the summary says COMPLETE, the verifier has
\* processed at least one event for each call of monitor_runtime_emit that had
\* returned when monitor_runtime_stop was called, the calls of threads that could
\* not be registered included.
CompleteMissesNoCall ==
    main.verdict = "COMPLETE" =>
        Cardinality(Pairs([t \in Thread |-> 1 .. atStop.calls[t]]))
          <= Cardinality(Pairs([s \in SlotIndex |-> DeliveredCalls(s)]))

\* monitor_runtime_stop always returns: the consumer ends once producers are
\* refused, even when application threads are blocked for ever.
StopReturns == StopFairness => ((main.pc = "stopping") ~> (main.pc = "stopped"))

\* monitor_runtime_emit always returns without any help from the consumer,
\* full queue, contended slot claim and failed registration included.
EmitReturns ==
    EmitFairness => \A t \in Thread : (thread[t].pc # "idle") ~> (thread[t].pc = "idle")

\* include/monitor_runtime.h: "The consumer drains all remaining queues before
\* terminating."  When the consumer has ended, every event accepted before
\* monitor_runtime_stop has been consumed.
DrainsBeforeTerminating ==
    consumer.pc = "done" =>
        \A s \in SlotIndex :
            thread_contexts[s].consumed + thread_contexts[s].dropped
              >= atStop.events[s]
-----------------------------------------------------------------------------
(***************************************************************************)
(* What the proofs need: the strengthening that makes the safety           *)
(* properties inductive.                                                   *)
(***************************************************************************)

\* A slot that no thread has registered in yet.
Untouched(s) == thread_contexts[s] = FreshContext /\ delivered[s] = <<>>

\* A thread has a context exactly while it needs one, and only one handed out.
ThreadsInPlace ==
    \A t \in Thread :
        /\ thread[t].expected <= next_thread_slot
        /\ thread[t].tls_context < next_thread_slot
        /\ thread[t].pc = "claim" => thread[t].tls_context = NoSlot
        /\ thread[t].pc \notin {"idle", "claim"} => thread[t].tls_context # NoSlot
        /\ thread[t].pc \in {"claim", "activate", "setspecific"}
             => thread[t].what = "event"
        /\ thread[t].pc # "idle" => thread[t].emits > 0 \/ thread[t].what = "exit"
        /\ thread[t].key # NoSlot => thread[t].tls_context # NoSlot
        /\ thread[t].pc # "idle" /\ thread[t].what = "exit" => thread[t].key = NoSlot

\* Filling in a context overwrites nothing, and only a context that was filled in
\* is used.
SlotsInPlace ==
    /\ \A s \in SlotIndex : s >= next_thread_slot => ~thread_contexts[s].active
    /\ \A s \in SlotIndex : ~thread_contexts[s].active => Untouched(s)
    /\ \A t \in Thread : thread[t].tls_context # NoSlot =>
          (Context(t).active <=> ~At(t, "activate"))

\* The number a thread is about to push is the last one of its context.
SequencesInPlace ==
    /\ \A s \in SlotIndex :
          thread_contexts[s].next_thread_sequence = thread_contexts[s].generated
    /\ \A t \in Thread :
          At(t, "push") => thread[t].sequence = Context(t).next_thread_sequence - 1

SummaryInPlace == main.pc = "consumed" => main.i < main.count

IndInv ==
    /\ TypeOK /\ ThreadsInPlace /\ SingleProducer /\ SlotsInPlace
    /\ SummaryInPlace /\ Accounting /\ SequencesInPlace

\* An event's number is its place in the stream plus at most the losses counted.
NumbersInOrder ==
    \A s \in SlotIndex :
        LET c == thread_contexts[s]
            n == Len(delivered[s]) IN
        /\ \A p \in 1 .. n : delivered[s][p].sequence \in p - 1 .. p - 1 + c.dropped
        /\ \A p \in 1 .. Len(c.queue) :
              c.queue[p].sequence \in n + p - 1 .. n + p - 1 + c.dropped

Covered(s) == Len(delivered[s]) >= atStop.events[s]

\* The totals less a slot's share of the generated events: no slot consumed more than
\* it generated, so equal totals mean that no slot is behind.
TotalsOver(generated) ==
    /\ generated >= main.consumed
    /\ generated = main.consumed => \A s \in 0 .. main.i - 1 : Covered(s)

\* The totals are zero until the consumer has been joined.
SummaryFresh ==
    main.pc \in {"start", "failed", "running", "stopping", "joining"} =>
        main.i = 0 /\ main.generated = 0 /\ main.consumed = 0 /\ main.dropped = 0

\* What the summary knows of the slots it has been through, once the consumer ended.
SummarySound ==
    main.pc \in {"generated", "consumed", "stopped"} =>
        /\ consumer.pc = "done"
        /\ main.i <= main.count
        /\ \A s \in SlotIndex : s >= main.count => delivered[s] = <<>> /\ Covered(s)
        /\ main.dropped = 0 => \A s \in 0 .. main.i - 1 : Gapless(s)
        /\ main.pc # "consumed" => TotalsOver(main.generated)
        /\ main.pc = "consumed" =>
              \E g \in 0 .. main.generated :
                            /\ g >= thread_contexts[main.i].consumed
                            /\ g >= atStop.events[main.i]
                            /\ TotalsOver(main.generated - g)

VerdictInPlace ==
    main.verdict = "COMPLETE" =>
        /\ main.pc = "stopped" /\ main.i = main.count
        /\ main.generated = main.consumed /\ main.dropped = 0

\* The emissions that were over when stop was called are still over.
StopBehind == \A s \in SlotIndex : atStop.events[s] <= Finished(s)

VerdictInv ==
    NumbersInOrder /\ StopBehind /\ SummaryFresh /\ SummarySound /\ VerdictInPlace

\* The places of the application's events in the stream of a slot, queued ones
\* included.
CallPlaces(s) ==
    DeliveredCalls(s)
      \cup {Len(delivered[s]) + i : i \in
              {j \in DOMAIN thread_contexts[s].queue :
                 thread_contexts[s].queue[j].what = "event"}}

CallsReturned == Pairs([t \in Thread |-> 1 .. Returned(t)])
CallsTaken == Pairs([s \in SlotIndex |-> CallPlaces(s)])
Losses(dropped) == Pairs([s \in SlotIndex |-> 1 .. dropped[s]])

\* A call that has returned left its event in a queue or was counted as a loss.
CallsAccounted ==
    /\ IsFiniteSet(CallsReturned)
    /\ Cardinality(CallsReturned)
         <= unregistered_events
              + Cardinality(Losses([s \in SlotIndex |-> thread_contexts[s].dropped]))
              + Cardinality(CallsTaken)

\* The same of the calls that had returned at the stop and of the counters then,
\* which the totals of the summary include: dropped of each slot, and unregistered.
StopAccounted(dropped, unregistered) ==
    /\ unregistered <= unregistered_events
    /\ main.verdict = "COMPLETE" => unregistered = 0
    /\ \A s \in SlotIndex : /\ dropped[s] <= thread_contexts[s].dropped
                            /\ dropped[s] <= atStop.events[s]
    /\ main.dropped = 0 => \A s \in 0 .. main.i - 1 : dropped[s] = 0
    /\ IsFiniteSet(Pairs([t \in Thread |-> 1 .. atStop.calls[t]]))
    /\ Cardinality(Pairs([t \in Thread |-> 1 .. atStop.calls[t]]))
         <= unregistered + Cardinality(Losses(dropped))
              + Cardinality({c \in CallsTaken : c[2] <= atStop.events[c[1]]})

CallsInv ==
    /\ CallsAccounted
    /\ \E dropped \in [SlotIndex -> Nat], unregistered \in Nat :
          StopAccounted(dropped, unregistered)
=============================================================================
