------------------------------ MODULE Monitor ------------------------------
(***************************************************************************)
(* The monitor as a whole: application threads that lock and unlock        *)
(* through src/src/interceptor.c, the contexts and the consumer of         *)
(* src/src/monitor_runtime.c with its shutdown, and the verifier with its  *)
(* summary.  Each intercepted call is split where another thread can get   *)
(* in between: the real pthread call, the stamping of an event and its     *)
(* push are steps of their own.                                            *)
(*                                                                         *)
(* The application is arbitrary: in each call a thread picks any mutex it  *)
(* may legally lock or unlock.  Startup and the steps inside registration  *)
(* and inside the summary are in Transport.                                *)
(***************************************************************************)
EXTENDS Verifier, Sequences, SequencesExt

CONSTANTS Kind,         \* Mutex -> "normal", "errorcheck" or "recursive"
          Operation,    \* what happens: "lock", "unlock", "exit", "stop"
          KeyMayFail,   \* pthread_setspecific may fail
          MaxThreads,   \* MONITOR_MAX_THREADS
          Capacity,     \* SPSC_RING_CAPACITY
          DrainBatch,   \* MONITOR_DRAIN_BATCH
          MaxCalls,     \* bound: lock and unlock calls of all threads together
          MaxTime       \* bound: CLOCK_MONOTONIC_RAW

ASSUME MonitorAssumption ==
    /\ Kind \in [Mutex -> {"normal", "errorcheck", "recursive"}]
    /\ Operation \subseteq {"lock", "unlock", "exit", "stop"}
    /\ KeyMayFail \in BOOLEAN
    /\ MaxThreads \in Nat \ {0}
    /\ Capacity \in Nat \ {0}
    /\ DrainBatch \in Nat \ {0}
    /\ MaxCalls \in Nat /\ MaxTime \in Nat

VARIABLES calls,      \* lock and unlock calls the application has made
          lock,       \* mutex -> its real owner and recursion count
          app,        \* thread -> its TLS and where it is in an intercepted call
          contexts,   \* the contexts handed out so far, in slot order
          unregistered_events,
          lifecycle_registration_failures,
          global_sequence,
          newest,     \* mutex -> owner according to the newest stamped event
          times,      \* thread -> mutex -> when it was last taken, LOCK_ACQUIRED
                      \* was stamped, and it was last released
          truth,      \* what happened before stop, counted as a report would be
          now,        \* the clock
          consumer,   \* locals of monitor_consumer_main
          verifier,   \* the verifier's state
          main        \* how far monitor_runtime_stop is, and what it printed

mutexVars == <<calls, lock>>
transportVars == <<contexts, unregistered_events,
                   lifecycle_registration_failures, global_sequence>>
ghostVars == <<newest, times, truth>>
monitorVars == <<now, consumer, verifier, main>>
vars == <<calls, lock, app, contexts, unregistered_events,
          lifecycle_registration_failures, global_sequence, newest, times, truth,
          now, consumer, verifier, main>>

NoEvent == [event_type |-> "INVALID"]

\* tls_context of a thread without a context, and of one whose registration failed.
NoContext == 0
RegistrationFailed == -1

NoTimes == [taken |-> 0, acquired |-> 0, released |-> 0]

Init ==
    /\ calls = 0
    /\ lock = [m \in Mutex |-> [owner |-> None, count |-> 0]]
    /\ app = [t \in Thread |-> [pc |-> "run", mutex |-> None, event |-> NoEvent,
                                tls_context |-> NoContext]]
    /\ contexts = <<>>
    /\ unregistered_events = 0
    /\ lifecycle_registration_failures = 0
    /\ global_sequence = 0
    /\ newest = [m \in Mutex |-> None]
    /\ times = [t \in Thread |-> [m \in Mutex |-> NoTimes]]
    /\ truth = [self_deadlock |-> 0, non_owner |-> 0, held_at_exit |-> 0,
                hold_time |-> 0, deadlocked |-> FALSE]
    /\ now = 0
    /\ consumer = [i |-> 1, count |-> 0, batch |-> 0, consumed_any |-> FALSE,
                   done |-> FALSE]
    /\ verifier = InitVerifier
    /\ main = [pc |-> "running", interpretation |-> "none"]

accept_events == main.pc = "running"
consumer_running == main.pc \in {"running", "stopping"}
-----------------------------------------------------------------------------
(***************************************************************************)
(* The real mutexes (pthread, outside this repository).                    *)
(***************************************************************************)

RealHeld(t) == {m \in Mutex : lock[m].owner = t}

\* How many times the thread holds each mutex.
RealDepth(t) == [m \in Mutex |-> IF lock[m].owner = t THEN lock[m].count ELSE 0]

\* pthread_mutex_lock: the result, or "blocks".
RealLockResult(t, m) ==
    IF lock[m].owner = None THEN "ok"
    ELSE IF lock[m].owner = t /\ Kind[m] = "recursive" THEN "ok"
    ELSE IF lock[m].owner = t /\ Kind[m] = "errorcheck" THEN "EDEADLK"
    ELSE "blocks"

\* pthread_mutex_unlock
RealUnlockResult(t, m) == IF lock[m].owner = t THEN "ok" ELSE "EPERM"

\* Unlocking a normal mutex one does not own is undefined; a legal program
\* does not do it.
MayUnlock(t, m) == lock[m].owner = t \/ Kind[m] # "normal"

\* t is blocked in the real lock call on a mutex u owns.
ReallyWaitsFor(t, u) ==
    /\ app[t].pc = "lock"
    /\ lock[app[t].mutex].owner = u
    /\ RealLockResult(t, app[t].mutex) = "blocks"

\* Every thread of the set waits for another one of the set: none can go on.
ReallyDeadlocked(threads) ==
    \A t \in threads : \E u \in threads \ {t} : ReallyWaitsFor(t, u)

DeadlockExists == \E threads \in SUBSET Thread : threads # {} /\ ReallyDeadlocked(threads)
-----------------------------------------------------------------------------
(***************************************************************************)
(* Emission.                                                               *)
(***************************************************************************)

\* What really happens when an event of this type is stamped, whether or not
\* the monitor gets to see it: who owns the mutex by the order of stamps, when it
\* was taken, and how many of the mistakes that the verifier reports were made.
Witness(t, type, m) ==
    /\ newest' = CASE type = "LOCK_ACQUIRED" -> [newest EXCEPT ![m] = t]
                   [] type = "UNLOCKED" ->
                        [newest EXCEPT ![m] = IF lock[m].owner = t THEN t ELSE None]
                   [] OTHER -> newest
    /\ times' = IF type = "LOCK_ACQUIRED" /\ lock[m].count = 1
                THEN [times EXCEPT ![t][m].acquired = now] ELSE times
    /\ truth' =
         CASE type = "LOCK_REQUEST" /\ m \in RealHeld(t) ->
                [truth EXCEPT !.self_deadlock = @ + 1]
           [] type = "UNLOCK_FAILED" -> [truth EXCEPT !.non_owner = @ + 1]
           [] type = "THREAD_EXIT" /\ RealHeld(t) # {} ->
                [truth EXCEPT !.held_at_exit = @ + 1]
           [] /\ type = "UNLOCKED" /\ lock[m].owner # t
              /\ MaxHold # 0 /\ now - times[t][m].acquired > MaxHold ->
                [truth EXCEPT !.hold_time = @ + 1]
           [] OTHER -> truth

\* The fields emit_event_to_context fills in.  The last two record how many times
\* the thread really holds each mutex at this point and the times of its mutexes;
\* the monitor does not see them.
NewEvent(t, type, m, result, sequence_id, thread_sequence) ==
    [event_type |-> type, thread_id |-> t, object |-> m, result |-> result,
     sequence_id |-> sequence_id, thread_sequence |-> thread_sequence,
     timestamp |-> now, really_held |-> RealDepth(t), times |-> times[t]]

\* The thread goes on after an emit call: to the real lock call, back to the
\* application, or, at its end, without a context.  A thread that runs on after its
\* exit destructor, or a new thread with the same id, then starts anew.
Resume(a, pc) ==
    [a EXCEPT !.event = NoEvent,
              !.pc = IF pc = "push_request" THEN "lock" ELSE "run",
              !.mutex = IF pc = "push_request" THEN a.mutex ELSE None,
              !.tls_context = IF pc = "push_exit" THEN NoContext ELSE a.tls_context]

\* monitor_runtime_emit when events are no longer accepted.
EmitRefused(t, m, pc) ==
    /\ ~accept_events
    /\ app' = [app EXCEPT ![t] = Resume([@ EXCEPT !.mutex = m], pc)]
    /\ UNCHANGED <<transportVars, ghostVars>>

\* The event of a registered thread is stamped and about to be pushed.
EmitRegistered(t, type, m, result, pc) ==
    LET slot == app[t].tls_context IN
    /\ accept_events
    /\ slot > NoContext
    /\ app' = [app EXCEPT ![t] = [@ EXCEPT !.pc = pc, !.mutex = m, !.event =
                 NewEvent(t, type, m, result, global_sequence,
                          contexts[slot].next_thread_sequence)]]
    /\ contexts' = [contexts EXCEPT ![slot].next_thread_sequence = @ + 1]
    /\ global_sequence' = global_sequence + 1
    /\ Witness(t, type, m)
    /\ UNCHANGED <<unregistered_events, lifecycle_registration_failures>>

\* register_current_thread: the next slot is taken, pthread_setspecific arranges
\* for the exit destructor or fails, and THREAD_START goes into the new queue ahead
\* of the event of the call.  Its push is not a step of its own: the queue is empty, and
\* its sequence_id matters only as the barrier of a thread that registers again.  In the
\* code that may be smaller, by the stamps of other threads between the two events.
EmitFirst(t, type, m, result, pc, key) ==
    /\ accept_events
    /\ app[t].tls_context = NoContext
    /\ Len(contexts) < MaxThreads
    /\ app' = [app EXCEPT ![t] =
                 [pc |-> pc, mutex |-> m, tls_context |-> Len(contexts) + 1,
                  event |-> NewEvent(t, type, m, result, global_sequence + 1, 1)]]
    /\ contexts' = Append(contexts,
         [thread_id |-> t, key |-> key, dropped |-> 0, next_thread_sequence |-> 2,
          queue |-> <<NewEvent(t, "THREAD_START", None, "ok", global_sequence, 0)>>])
    /\ global_sequence' = global_sequence + 2
    /\ lifecycle_registration_failures' =
         lifecycle_registration_failures + IF key THEN 0 ELSE 1
    /\ Witness(t, type, m)
    /\ UNCHANGED unregistered_events

\* No slot is left: this event and all later ones of the thread are only counted.
EmitUnregistered(t, type, m, pc) ==
    /\ accept_events
    /\ \/ app[t].tls_context = RegistrationFailed
       \/ app[t].tls_context = NoContext /\ Len(contexts) = MaxThreads
    /\ app' = [app EXCEPT ![t] =
                 Resume([@ EXCEPT !.mutex = m, !.tls_context = RegistrationFailed], pc)]
    /\ unregistered_events' = unregistered_events + 1
    /\ Witness(t, type, m)
    /\ UNCHANGED <<contexts, lifecycle_registration_failures, global_sequence>>

\* monitor_runtime_emit up to the push of the event.
Emit(t, type, m, result, pc) ==
    \/ EmitRefused(t, m, pc)
    \/ EmitRegistered(t, type, m, result, pc)
    \/ \E key \in {TRUE, ~KeyMayFail} : EmitFirst(t, type, m, result, pc, key)
    \/ EmitUnregistered(t, type, m, pc)

\* spsc_ring_buffer_try_push with DROP_NEW, then on with the intercepted call.
Push(t) ==
    LET slot == app[t].tls_context
        context == contexts[slot] IN
    /\ app[t].pc \in {"push_request", "push", "push_exit"}
    /\ contexts' = [contexts EXCEPT ![slot] =
         IF Len(context.queue) < Capacity
         THEN [context EXCEPT !.queue = Append(context.queue, app[t].event)]
         ELSE [context EXCEPT !.dropped = context.dropped + 1]]
    /\ app' = [app EXCEPT ![t] = Resume(app[t], app[t].pc)]
    /\ UNCHANGED <<mutexVars, unregistered_events, lifecycle_registration_failures,
                   global_sequence, ghostVars, monitorVars>>
-----------------------------------------------------------------------------
(***************************************************************************)
(* Interception.                                                           *)
(***************************************************************************)

\* The application makes another lock or unlock call.
NewCall(t, op) == /\ app[t].pc = "run"
                  /\ op \in Operation
                  /\ calls < MaxCalls
                  /\ calls' = calls + 1

\* pthread_mutex_lock: LOCK_REQUEST is emitted ahead of the real call.
LockRequest(t, m) ==
    /\ NewCall(t, "lock")
    /\ Emit(t, "LOCK_REQUEST", m, "ok", "push_request")
    /\ UNCHANGED <<lock, monitorVars>>

\* The real lock call returns: the mutex is taken, or EDEADLK.
RealLock(t) ==
    /\ app[t].pc = "lock"
    /\ RealLockResult(t, app[t].mutex) # "blocks"
    /\ IF RealLockResult(t, app[t].mutex) = "ok"
       THEN /\ lock' = [lock EXCEPT ![app[t].mutex] =
                          [owner |-> t, count |-> @.count + 1]]
            /\ times' = [times EXCEPT ![t][app[t].mutex].taken =
                           IF lock[app[t].mutex].count = 0 THEN now ELSE @]
            /\ app' = [app EXCEPT ![t].pc = "acquired"]
       ELSE /\ app' = [app EXCEPT ![t].pc = "lock_failed"]
            /\ UNCHANGED <<lock, times>>
    /\ UNCHANGED <<calls, transportVars, newest, truth, monitorVars>>

\* LOCK_ACQUIRED is stamped after the real call returned 0.
LockAcquired(t) ==
    /\ app[t].pc = "acquired"
    /\ Emit(t, "LOCK_ACQUIRED", app[t].mutex, "ok", "push")
    /\ UNCHANGED <<mutexVars, monitorVars>>

LockFailed(t) ==
    /\ app[t].pc = "lock_failed"
    /\ Emit(t, "LOCK_FAILED", app[t].mutex, "EDEADLK", "push")
    /\ UNCHANGED <<mutexVars, monitorVars>>

\* pthread_mutex_unlock: the real call comes first.
RealUnlock(t, m) ==
    /\ NewCall(t, "unlock")
    /\ MayUnlock(t, m)
    /\ IF RealUnlockResult(t, m) = "ok"
       THEN /\ lock' = [lock EXCEPT ![m] = IF @.count = 1
                          THEN [owner |-> None, count |-> 0]
                          ELSE [owner |-> t, count |-> @.count - 1]]
            /\ times' = [times EXCEPT ![t][m].released = now]
            /\ app' = [app EXCEPT ![t] = [@ EXCEPT !.pc = "unlocked", !.mutex = m]]
       ELSE /\ app' = [app EXCEPT ![t] = [@ EXCEPT !.pc = "unlock_failed", !.mutex = m]]
            /\ UNCHANGED <<lock, times>>
    /\ UNCHANGED <<transportVars, newest, truth, monitorVars>>

\* ... and UNLOCKED is stamped after it, when another thread may already have
\* taken the mutex.
Unlocked(t) ==
    /\ app[t].pc = "unlocked"
    /\ Emit(t, "UNLOCKED", app[t].mutex, "ok", "push")
    /\ UNCHANGED <<mutexVars, monitorVars>>

UnlockFailed(t) ==
    /\ app[t].pc = "unlock_failed"
    /\ Emit(t, "UNLOCK_FAILED", app[t].mutex, "EPERM", "push")
    /\ UNCHANGED <<mutexVars, monitorVars>>

\* A thread with a context ends: monitor_thread_exit_destructor runs if
\* pthread_setspecific had succeeded, and otherwise nothing tells the monitor.
ThreadExit(t) ==
    /\ "exit" \in Operation
    /\ app[t].pc = "run"
    /\ app[t].tls_context > NoContext
    /\ \/ /\ contexts[app[t].tls_context].key
          /\ \/ EmitRegistered(t, "THREAD_EXIT", None, "ok", "push_exit")
             \/ EmitRefused(t, None, "push_exit")
       \/ /\ ~contexts[app[t].tls_context].key
          /\ app' = [app EXCEPT ![t] = Resume(@, "push_exit")]
          /\ IF accept_events THEN Witness(t, "THREAD_EXIT", None)
                              ELSE UNCHANGED ghostVars
          /\ UNCHANGED transportVars
    /\ UNCHANGED <<mutexVars, monitorVars>>

\* What an application thread does once it is inside an intercepted call.
InCall(t) ==
    \/ RealLock(t) \/ LockAcquired(t) \/ LockFailed(t)
    \/ Unlocked(t) \/ UnlockFailed(t) \/ Push(t)

\* A call of the application.
Call(t) ==
    \/ \E m \in Mutex : LockRequest(t, m) \/ RealUnlock(t, m)
    \/ ThreadExit(t)
-----------------------------------------------------------------------------
(***************************************************************************)
(* monitor_consumer_main.                                                  *)
(***************************************************************************)

Scanning == ~consumer.done /\ consumer.i <= consumer.count
ScannedQueue == contexts[consumer.i].queue

\* The consumer leaves after a pass that still found events.
LeavesAfterWork == ~consumer_running /\ consumer.consumed_any

\* At the end of a pass: told to stop, and nothing was consumed.
Leaves == ~consumer_running /\ ~consumer.consumed_any

\* Where the loop goes next: a visit to a context ends with a full batch or when a
\* pop finds the queue empty; after a pass the consumer leaves, or starts the next one
\* with the contexts handed out by now.
NextConsumer ==
    CASE Scanning /\ ScannedQueue # <<>> ->
           IF consumer.batch + 1 < DrainBatch
           THEN [consumer EXCEPT !.consumed_any = TRUE, !.batch = @ + 1]
           ELSE [consumer EXCEPT !.consumed_any = TRUE, !.batch = 0, !.i = @ + 1]
      [] Scanning /\ ScannedQueue = <<>> ->
           [consumer EXCEPT !.i = @ + 1, !.batch = 0]
      [] ~Scanning ->
           [i |-> 1, count |-> Len(contexts), batch |-> 0, consumed_any |-> FALSE,
            done |-> Leaves]

\* drain_context: pop, process, count.
Drain ==
    /\ Scanning
    /\ ScannedQueue # <<>>
    /\ consumer' = NextConsumer
    /\ contexts' = [contexts EXCEPT ![consumer.i].queue = Tail(@)]
    /\ verifier' = ProcessEvent(verifier, Head(ScannedQueue))
    /\ UNCHANGED <<mutexVars, app, unregistered_events, now, main, ghostVars,
                   lifecycle_registration_failures, global_sequence>>

DrainEmpty ==
    /\ Scanning
    /\ ScannedQueue = <<>>
    /\ consumer' = NextConsumer
    /\ UNCHANGED <<mutexVars, app, transportVars, ghostVars, now, verifier, main>>

\* The end of a pass: if it consumed nothing, the wait-for graph is checked.
PassEnd ==
    /\ ~consumer.done /\ ~Scanning
    /\ consumer' = NextConsumer
    /\ verifier' = IF consumer.consumed_any THEN verifier
                   ELSE CheckDeadlocks(verifier)
    /\ UNCHANGED <<mutexVars, app, transportVars, ghostVars, now, main>>

ConsumerStep == Drain \/ DrainEmpty \/ PassEnd
-----------------------------------------------------------------------------
(***************************************************************************)
(* monitor_runtime_stop: the two flags, the join, and the two summaries.   *)
(***************************************************************************)

StopAccept ==
    /\ main.pc = "running"
    /\ main' = [main EXCEPT !.pc = "stopping"]
    /\ truth' = [truth EXCEPT !.deadlocked = DeadlockExists]
    /\ UNCHANGED <<mutexVars, app, transportVars, newest, times, now, consumer,
                   verifier>>

StopConsumer ==
    /\ main.pc = "stopping"
    /\ main' = [main EXCEPT !.pc = "joining"]
    /\ UNCHANGED <<mutexVars, app, transportVars, ghostVars, now, consumer, verifier>>

\* Threads whose exit cannot be seen do not count.
TraceCompleteWithoutExits ==
    LET total(field) == FoldLeft(LAMBDA n, c : n + c[field], 0, contexts) IN
    /\ total("dropped") = 0
    /\ total("next_thread_sequence") = verifier.processed_events
    /\ unregistered_events = 0

\* Events left in a queue do not count.
TraceCompleteByDrops ==
    /\ \A i \in DOMAIN contexts : contexts[i].dropped = 0
    /\ unregistered_events = 0
    /\ lifecycle_registration_failures = 0

\* trace_complete of print_transport_summary.  drain_context counts an event as
\* consumed when the verifier has processed it.
TraceComplete ==
    LET total(field) == FoldLeft(LAMBDA n, c : n + c[field], 0, contexts) IN
    /\ total("dropped") = 0
    /\ total("next_thread_sequence") = verifier.processed_events
    /\ unregistered_events = 0
    /\ lifecycle_registration_failures = 0

\* The consumer has been joined: the summaries are printed.
Summary ==
    /\ main.pc = "joining"
    /\ consumer.done
    /\ main' = [pc |-> "stopped",
                interpretation |-> Interpretation(verifier, TraceComplete)]
    /\ UNCHANGED <<mutexVars, app, transportVars, ghostVars, now, consumer, verifier>>

StopStep == StopConsumer \/ Summary

Tick ==
    /\ now < MaxTime
    /\ now' = now + 1
    /\ UNCHANGED <<mutexVars, app, transportVars, ghostVars, consumer, verifier, main>>
-----------------------------------------------------------------------------
Next ==
    \/ \E t \in Thread : Call(t) \/ InCall(t)
    \/ ConsumerStep
    \/ "stop" \in Operation /\ StopAccept
    \/ StopStep

\* Spec leaves the clock alone, for what does not depend on it.
Spec == Init /\ [][Next]_vars
TimedSpec == Init /\ [][Next \/ Tick]_vars

\* The consumer is scheduled: it goes on until it is done.
ConsumerFairness == WF_consumer(~consumer.done /\ consumer' = NextConsumer)
-----------------------------------------------------------------------------
(***************************************************************************)
(* Properties.                                                             *)
(***************************************************************************)

Times == [taken : Nat, acquired : Nat, released : Nat]

MonitorEvent ==
    {e \in [event_type : LifecycleEvent \cup MutexEvent, thread_id : Thread,
            object : Mutex \cup {None}, result : {"ok", "EDEADLK", "EPERM"},
            sequence_id : Nat, thread_sequence : Nat, timestamp : Nat,
            really_held : [Mutex -> Nat], times : [Mutex -> Times]] : WellFormed(e)}

ThreadContext ==
    [thread_id : Thread, key : BOOLEAN, dropped : Nat, next_thread_sequence : Nat,
     queue : {q \in Seq(MonitorEvent) : Len(q) <= Capacity}]

PushPc == {"push_request", "push", "push_exit"}
MutexPc == {"push_request", "lock", "acquired", "lock_failed", "unlocked",
            "unlock_failed"}

AppThread ==
    [pc : {"run"} \cup PushPc \cup MutexPc, mutex : Mutex \cup {None},
     event : MonitorEvent \cup {NoEvent}, tls_context : Int]

TypeOK ==
    /\ calls \in Nat
    /\ lock \in [Mutex -> [owner : Thread \cup {None}, count : Nat]]
    /\ app \in [Thread -> AppThread]
    /\ contexts \in Seq(ThreadContext) /\ Len(contexts) <= MaxThreads
    /\ \A t \in Thread :
         app[t].tls_context \in {NoContext, RegistrationFailed} \cup DOMAIN contexts
    /\ unregistered_events \in Nat /\ lifecycle_registration_failures \in Nat
    /\ global_sequence \in Nat
    /\ newest \in [Mutex -> Thread \cup {None}]
    /\ times \in [Thread -> [Mutex -> Times]]
    /\ truth \in [self_deadlock : Nat, non_owner : Nat, held_at_exit : Nat,
                  hold_time : Nat, deadlocked : BOOLEAN]
    /\ now \in Nat
    /\ consumer \in [i : Nat \ {0}, count : 0 .. Len(contexts), batch : Nat,
                     consumed_any : BOOLEAN, done : BOOLEAN]
    /\ verifier \in VerifierState
    /\ verifier.waiting_thread_count <= Cardinality(Thread)
    /\ main \in [pc : {"running", "stopping", "joining", "stopped"},
                 interpretation : {"none", "AUTHORITATIVE", "INCOMPLETE TRACE"}]

\* No event of the thread was refused.
Complete(t) == /\ app[t].tls_context # RegistrationFailed
               /\ \A i \in DOMAIN contexts :
                     contexts[i].thread_id = t => contexts[i].dropped = 0

NothingDropped == \A t \in Thread : Complete(t)

NewDeadlockReport == verifier'.deadlock_cycle_violations
                       > verifier.deadlock_cycle_violations

\* monitor_verifier_check_deadlocks: a DEADLOCK_CYCLE report about threads none
\* of which lost an event names threads that really block each other at the
\* moment of the report, although the queues are drained one after the other
\* while the application runs.
NoFalseDeadlock ==
    [][ /\ NewDeadlockReport
        /\ \A t \in verifier'.reported_cycle : Complete(t)
        => ReallyDeadlocked(verifier'.reported_cycle) ]_vars

\* handle_lock_request, handle_thread_exit and release_held_mutex: even when
\* events were dropped, a SELF_DEADLOCK_CANDIDATE report is about a mutex the
\* thread held when it asked for it, a LOCK_HELD_AT_THREAD_EXIT report about a
\* thread that held one, and a HOLD_TIME_VIOLATION about a mutex whose events
\* are that far apart.
StreamReportsReal ==
    [][ LET e == Head(ScannedQueue) IN
        /\ verifier'.self_deadlock_candidates > verifier.self_deadlock_candidates
             => e.really_held[e.object] > 0
        /\ verifier'.lock_held_at_exit_violations
             > verifier.lock_held_at_exit_violations
             => \E m \in Mutex : e.really_held[m] > 0
        /\ verifier'.hold_time_violations > verifier.hold_time_violations
             => e.timestamp - e.times[e.object].acquired > MaxHold ]_vars

\* monitor_verifier_print_summary: when the interpretation is AUTHORITATIVE, the
\* reports drawn from single streams are exact: as many self-deadlock candidates,
\* non-owner unlocks, exits with a held mutex and holds over the threshold were
\* counted as were stamped before monitor_runtime_stop.  Drops, full tables, refused
\* and repeated registrations, an exit without its destructor and events left in
\* a queue at shutdown all take the verdict away.
AuthoritativeExact ==
    main.interpretation = "AUTHORITATIVE" =>
        /\ verifier.self_deadlock_candidates = truth.self_deadlock
        /\ verifier.non_owner_unlock_violations = truth.non_owner
        /\ verifier.lock_held_at_exit_violations = truth.held_at_exit
        /\ verifier.hold_time_violations = truth.hold_time

\* The early return of monitor_verifier_check_deadlocks hides no cycle: the
\* waiting count is exact through requests, failures, gaps and exits.
EarlyReturnHidesNothing ==
    /\ WaitingCounted(verifier)
    /\ FindAnyCycle(verifier) # {} => verifier.waiting_thread_count >= 2

\* Every event has been stamped, pushed and processed.
Quiescent ==
    /\ \A i \in DOMAIN contexts : contexts[i].queue = <<>>
    /\ \A t \in Thread : app[t].pc \in {"run", "lock"}

\* Nothing was lost: no event was refused, and the verifier, which knows of no gap
\* and of no full table, would call the trace authoritative.
NothingMissed == NothingDropped /\ Interpretation(verifier, TRUE) = "AUTHORITATIVE"

\* "This makes current mutex state independent of round-robin cross-queue
\* consumption order": once everything is processed and nothing was lost, the
\* owner recorded for a mutex is the one the newest event by sequence_id gives, in
\* whatever order the queues were drained.
OwnershipOrderIndependent ==
    Quiescent /\ NothingMissed =>
        \A m \in Mutex : verifier.mutex_states[m].owner = newest[m]

\* README: "The verifier reconstructs: current mutex ownership".  Once every
\* event has been processed and none was lost, the recorded owner is the real one.
ReconstructsOwnership ==
    Quiescent /\ NothingDropped =>
        \A m \in Mutex : verifier.mutex_states[m].owner = lock[m].owner

\* README on gaps: "This prevents stale state from generating false violations."
\* A DEADLOCK_CYCLE report is about a real deadlock also after losses.
NoFalseDeadlockAfterLoss ==
    [][ NewDeadlockReport => ReallyDeadlocked(verifier'.reported_cycle) ]_vars

\* README: "complete trace -> authoritative conclusion".  An AUTHORITATIVE summary
\* counts a deadlock that existed when monitor_runtime_stop was called.
AuthoritativeOnDeadlock ==
    main.interpretation = "AUTHORITATIVE" /\ truth.deadlocked =>
        verifier.deadlock_cycle_violations > 0

\* README on HOLD_TIME_VIOLATION: "Detects a mutex being held longer than a
\* configured threshold", from when the lock is acquired until it is released.
HoldTimeReal ==
    [][ verifier'.hold_time_violations > verifier.hold_time_violations
          => LET e == Head(ScannedQueue)
             IN  e.times[e.object].released - e.times[e.object].taken > MaxHold ]_vars
-----------------------------------------------------------------------------
(***************************************************************************)
(* What the proofs need.                                                   *)
(***************************************************************************)

\* An event is pushed into the context of its thread, and only a mutex call has a
\* mutex.
AppInPlace ==
    \A t \in Thread :
        /\ app[t].pc \in PushPc =>
              app[t].event \in MonitorEvent /\ app[t].tls_context \in DOMAIN contexts
        /\ app[t].pc \in MutexPc => app[t].mutex \in Mutex

\* The recursion count says whether a mutex has an owner.
LocksInPlace == \A m \in Mutex : lock[m].owner = None <=> lock[m].count = 0

IndInv == TypeOK /\ AppInPlace /\ LocksInPlace /\ WaitingCounted(verifier)
=============================================================================
