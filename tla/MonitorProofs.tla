--------------------------- MODULE MonitorProofs ---------------------------
(***************************************************************************)
(* Theorems about Monitor, for any number of threads, mutexes and          *)
(* contexts, queues and tables of any size, with or without a clock.       *)
(***************************************************************************)
EXTENDS Monitor, VerifierProofs, SequenceTheorems

\* The parts of the inductive invariant, each about the variables that change together.
LockInv ==
    /\ calls \in Nat
    /\ lock \in [Mutex -> [owner : Thread \cup {None}, count : Nat]]
    /\ LocksInPlace

CountersInv == /\ unregistered_events \in Nat
               /\ lifecycle_registration_failures \in Nat
               /\ global_sequence \in Nat

ContextsInv == contexts \in Seq(ThreadContext) /\ Len(contexts) <= MaxThreads

AppInv ==
    /\ app \in [Thread -> AppThread]
    /\ \A t \in Thread :
         app[t].tls_context \in {NoContext, RegistrationFailed} \cup DOMAIN contexts
    /\ AppInPlace

GhostInv ==
    /\ newest \in [Mutex -> Thread \cup {None}]
    /\ times \in [Thread -> [Mutex -> Times]]
    /\ truth \in [self_deadlock : Nat, non_owner : Nat, held_at_exit : Nat,
                  hold_time : Nat, deadlocked : BOOLEAN]

ConsumerInv ==
    consumer \in [i : Nat \ {0}, count : 0 .. Len(contexts), batch : Nat,
                  consumed_any : BOOLEAN, done : BOOLEAN]

MainInv ==
    main \in [pc : {"running", "stopping", "joining", "stopped"},
              interpretation : {"none", "AUTHORITATIVE", "INCOMPLETE TRACE"}]

Parts == /\ LockInv /\ CountersInv /\ ContextsInv /\ AppInv /\ GhostInv /\ now \in Nat
         /\ ConsumerInv /\ Consistent(verifier) /\ MainInv

\* An exact count is at most the number of threads.
LEMMA CountBounded ==
    ASSUME NEW v, Consistent(v)
    PROVE  v.waiting_thread_count <= Cardinality(Thread)
    <1>1. v.waiting_thread_count = Cardinality(WaitingThreads(v))
        BY DEF Consistent, WaitingCounted
    <1>2. WaitingThreads(v) \subseteq Thread
        BY DEF WaitingThreads
    <1> QED
        BY <1>1, <1>2, FS_Subset, VerifierAssumption

LEMMA Split == IndInv <=> Parts
    <1>1. ASSUME IndInv PROVE Parts
        BY <1>1 DEF IndInv, TypeOK, Parts, LockInv, CountersInv, ContextsInv, AppInv,
                    GhostInv, ConsumerInv, MainInv, Consistent
    <1>2. ASSUME Parts PROVE IndInv
        <2>1. verifier.waiting_thread_count <= Cardinality(Thread)
            BY <1>2, CountBounded DEF Parts
        <2> QED
            BY <1>2, <2>1 DEF IndInv, TypeOK, Parts, LockInv, CountersInv, ContextsInv,
                              AppInv, GhostInv, ConsumerInv, MainInv, Consistent
    <1> QED
        BY <1>1, <1>2

LEMMA InitParts == Init => Parts
    <1> SUFFICES ASSUME Init PROVE Parts
        OBVIOUS
    <1>1. LockInv /\ CountersInv
        BY DEF Init, LockInv, LocksInPlace, CountersInv
    <1>2. ContextsInv /\ contexts = <<>>
        BY MonitorAssumption DEF Init, ContextsInv
    <1>3. AppInv
        <2> DEFINE a == [pc |-> "run", mutex |-> None, event |-> NoEvent,
                         tls_context |-> NoContext]
        <2>1. a \in AppThread /\ a.tls_context = NoContext /\ a.pc = "run"
            BY DEF AppThread, NoContext
        <2> HIDE DEF a
        <2>2. app = [t \in Thread |-> a]
            BY DEF Init, a
        <2> QED
            BY <2>1, <2>2 DEF AppInv, AppInPlace, PushPc, MutexPc
    <1>4. GhostInv
        BY DEF Init, GhostInv, Times, NoTimes
    <1>5. ConsumerInv
        BY <1>2 DEF Init, ConsumerInv
    <1>6. Consistent(verifier)
        BY Initialised DEF Init
    <1>7. MainInv /\ now \in Nat
        BY DEF Init, MainInv
    <1> QED
        BY <1>1, <1>2, <1>3, <1>4, <1>5, <1>6, <1>7 DEF Parts
-----------------------------------------------------------------------------
(***************************************************************************)
(* Emission.                                                               *)
(***************************************************************************)

\* A longer sequence of contexts keeps the slots that were handed out.
LEMMA AppKept ==
    ASSUME AppInv, ContextsInv, ContextsInv', Len(contexts') >= Len(contexts), app' = app
    PROVE  AppInv'
    <1>1. DOMAIN contexts \subseteq DOMAIN contexts'
        BY LenProperties DEF ContextsInv
    <1> QED
        BY <1>1 DEF AppInv, AppInPlace

\* One thread's entry changes.
LEMMA AppEntry ==
    ASSUME AppInv, ContextsInv, ContextsInv', Len(contexts') >= Len(contexts),
           NEW t \in Thread, NEW a \in AppThread, app' = [app EXCEPT ![t] = a],
           a.tls_context \in {NoContext, RegistrationFailed} \cup DOMAIN contexts',
           a.pc \in PushPc => a.event \in MonitorEvent /\ a.tls_context \in DOMAIN contexts',
           a.pc \in MutexPc => a.mutex \in Mutex
    PROVE  AppInv'
    <1>1. DOMAIN contexts \subseteq DOMAIN contexts'
        BY LenProperties DEF ContextsInv
    <1>2. app \in [Thread -> AppThread]
        BY DEF AppInv
    <1>3. app' \in [Thread -> AppThread]
        BY <1>2
    <1>4. app'[t] = a /\ \A u \in Thread \ {t} : app'[u] = app[u]
        BY <1>2
    <1>5. ASSUME NEW u \in Thread
          PROVE  /\ app'[u].tls_context
                      \in {NoContext, RegistrationFailed} \cup DOMAIN contexts'
                 /\ app'[u].pc \in PushPc => /\ app'[u].event \in MonitorEvent
                                             /\ app'[u].tls_context \in DOMAIN contexts'
                 /\ app'[u].pc \in MutexPc => app'[u].mutex \in Mutex
        BY <1>1, <1>4 DEF AppInv, AppInPlace
    <1> QED
        BY <1>3, <1>5 DEF AppInv, AppInPlace

LEMMA EventTyped ==
    ASSUME NEW t \in Thread, NEW type \in LifecycleEvent \cup MutexEvent,
           NEW m \in Mutex \cup {None}, type \in MutexEvent => m \in Mutex,
           NEW result \in {"ok", "EDEADLK", "EPERM"}, NEW i \in Nat, NEW j \in Nat,
           LockInv, GhostInv, now \in Nat
    PROVE  NewEvent(t, type, m, result, i, j) \in MonitorEvent
    <1> DEFINE h == RealDepth(t)
               x == times[t]
    <1>1. h \in [Mutex -> Nat]
        BY DEF RealDepth, LockInv
    <1>2. x \in [Mutex -> Times]
        BY DEF GhostInv
    <1> HIDE DEF h, x
    <1> DEFINE e == [event_type |-> type, thread_id |-> t, object |-> m,
                     result |-> result, sequence_id |-> i, thread_sequence |-> j,
                     timestamp |-> now, really_held |-> h, times |-> x]
    <1>3. WellFormed(e)
        BY DEF WellFormed
    <1>4. e \in MonitorEvent
        BY <1>1, <1>2, <1>3 DEF MonitorEvent
    <1> QED
        BY <1>4 DEF NewEvent, h, x

LEMMA GhostsTyped ==
    ASSUME NEW t \in Thread, NEW type \in LifecycleEvent \cup MutexEvent,
           NEW m \in Mutex \cup {None}, type \in MutexEvent => m \in Mutex,
           GhostInv, now \in Nat, Witness(t, type, m)
    PROVE  GhostInv'
    <1>1. newest' \in [Mutex -> Thread \cup {None}]
        BY DEF Witness, GhostInv, MutexEvent
    <1>2. times' \in [Thread -> [Mutex -> Times]]
        <2>1. CASE times' = times
            BY <2>1 DEF GhostInv
        <2>2. CASE times' # times
            <3> DEFINE x == [times[t][m] EXCEPT !.acquired = now]
            <3>1. type = "LOCK_ACQUIRED" /\ times' = [times EXCEPT ![t][m].acquired = now]
                BY <2>2 DEF Witness
            <3>2. m \in Mutex /\ times \in [Thread -> [Mutex -> Times]]
                BY <3>1 DEF MutexEvent, GhostInv
            <3>3. times[t][m] \in Times /\ times[t] \in [Mutex -> Times]
                BY <3>2
            <3>4. x \in Times
                BY <3>3 DEF Times
            <3>5. times' = [times EXCEPT ![t] = [times[t] EXCEPT ![m] = x]]
                BY <3>1
            <3> HIDE DEF x
            <3>6. [times[t] EXCEPT ![m] = x] \in [Mutex -> Times]
                BY <3>3, <3>4
            <3> QED
                BY <3>2, <3>5, <3>6
        <2> QED
            BY <2>1, <2>2
    <1>3. truth' \in [self_deadlock : Nat, non_owner : Nat, held_at_exit : Nat,
                      hold_time : Nat, deadlocked : BOOLEAN]
        <2>1. \/ truth' = truth
              \/ truth' = [truth EXCEPT !.self_deadlock = @ + 1]
              \/ truth' = [truth EXCEPT !.non_owner = @ + 1]
              \/ truth' = [truth EXCEPT !.held_at_exit = @ + 1]
              \/ truth' = [truth EXCEPT !.hold_time = @ + 1]
            BY DEF Witness
        <2> QED
            BY <2>1 DEF GhostInv
    <1> QED
        BY <1>1, <1>2, <1>3 DEF GhostInv

\* What an emit call keeps: the contexts only grow.
EmitInv == LockInv /\ CountersInv /\ ContextsInv /\ AppInv /\ GhostInv /\ now \in Nat
EmitDone == /\ CountersInv' /\ ContextsInv' /\ AppInv' /\ GhostInv'
            /\ Len(contexts') >= Len(contexts)

LEMMA Resumed ==
    ASSUME NEW a \in AppThread, NEW pc \in PushPc, pc = "push_request" => a.mutex \in Mutex
    PROVE  LET b == Resume(a, pc) IN
           /\ b \in AppThread /\ b.pc \notin PushPc
           /\ b.pc \in MutexPc => b.mutex \in Mutex
           /\ b.tls_context \in {NoContext, a.tls_context}
    <1> DEFINE q == IF pc = "push_request" THEN "lock" ELSE "run"
               m == IF pc = "push_request" THEN a.mutex ELSE None
               c == IF pc = "push_exit" THEN NoContext ELSE a.tls_context
               b == [a EXCEPT !.event = NoEvent, !.pc = q, !.mutex = m, !.tls_context = c]
    <1>1. /\ q \in {"lock", "run"} /\ m \in Mutex \cup {None}
          /\ q = "lock" => m \in Mutex
          /\ c \in Int /\ c \in {NoContext, a.tls_context}
        BY DEF AppThread, NoContext
    <1> HIDE DEF q, m, c
    <1>2. b \in AppThread /\ b.pc = q /\ b.mutex = m /\ b.tls_context = c
        BY <1>1 DEF AppThread, MutexPc
    <1>3. b = Resume(a, pc)
        BY DEF Resume, q, m, c
    <1> HIDE DEF b
    <1>4. b.pc \notin PushPc /\ (b.pc \in MutexPc => b.mutex \in Mutex)
        BY <1>1, <1>2 DEF PushPc, MutexPc
    <1> QED
        BY <1>1, <1>2, <1>3, <1>4

LEMMA AppFields ==
    ASSUME AppInv, NEW t \in Thread
    PROVE  /\ app[t] \in AppThread
           /\ app[t].tls_context \in Int
           /\ app[t].tls_context \in {NoContext, RegistrationFailed} \cup DOMAIN contexts
           /\ app[t].mutex \in Mutex \cup {None}
           /\ app[t].pc \in PushPc => /\ app[t].event \in MonitorEvent
                                      /\ app[t].tls_context \in DOMAIN contexts
           /\ app[t].pc \in MutexPc => app[t].mutex \in Mutex
    <1>1. app[t] \in AppThread
        BY DEF AppInv
    <1> QED
        BY <1>1 DEF AppInv, AppInPlace, AppThread

LEMMA ContextFields ==
    ASSUME ContextsInv, NEW i \in DOMAIN contexts
    PROVE  /\ DOMAIN contexts = 1 .. Len(contexts) /\ Len(contexts) \in Nat
           /\ contexts[i] \in ThreadContext
           /\ contexts[i].next_thread_sequence \in Nat
           /\ contexts[i].dropped \in Nat
           /\ contexts[i].key \in BOOLEAN
           /\ contexts[i].thread_id \in Thread
           /\ contexts[i].queue \in Seq(MonitorEvent)
           /\ Len(contexts[i].queue) <= Capacity
    <1>1. DOMAIN contexts = 1 .. Len(contexts) /\ Len(contexts) \in Nat
        BY LenProperties DEF ContextsInv
    <1>2. contexts[i] \in ThreadContext
        BY <1>1, ElementOfSeq DEF ContextsInv
    <1> QED
        BY <1>1, <1>2 DEF ThreadContext

\* One context changes.
LEMMA ContextEntry ==
    ASSUME ContextsInv, NEW i \in DOMAIN contexts, NEW c \in ThreadContext,
           contexts' = [contexts EXCEPT ![i] = c]
    PROVE  /\ ContextsInv' /\ Len(contexts') = Len(contexts)
    <1>1. i \in 1 .. Len(contexts)
        BY ContextFields
    <1>2. contexts \in Seq(ThreadContext) /\ Len(contexts) <= MaxThreads
        BY DEF ContextsInv
    <1>3. /\ [contexts EXCEPT ![i] = c] \in Seq(ThreadContext)
          /\ Len([contexts EXCEPT ![i] = c]) = Len(contexts)
        BY <1>1, <1>2, ExceptSeq
    <1> QED
        BY <1>2, <1>3 DEF ContextsInv

LEMMA RefusedKeeps ==
    ASSUME EmitInv, NEW t \in Thread, NEW m \in Mutex \cup {None}, NEW pc \in PushPc,
           pc = "push_request" => m \in Mutex, EmitRefused(t, m, pc)
    PROVE  EmitDone
    <1> DEFINE a == [app[t] EXCEPT !.mutex = m]
               b == Resume(a, pc)
    <1>1. app[t] \in AppThread
        BY AppFields DEF EmitInv
    <1>2. a \in AppThread /\ a.mutex = m /\ a.tls_context = app[t].tls_context
        BY <1>1 DEF AppThread
    <1>3. app' = [app EXCEPT ![t] = b]
        BY DEF EmitRefused
    <1> HIDE DEF a
    <1>4. /\ b \in AppThread /\ b.pc \notin PushPc
          /\ b.pc \in MutexPc => b.mutex \in Mutex
          /\ b.tls_context \in {NoContext, app[t].tls_context}
        BY <1>2, Resumed
    <1> HIDE DEF b
    <1>5. /\ contexts' = contexts /\ CountersInv' /\ GhostInv' /\ ContextsInv'
          /\ Len(contexts) \in Nat
        BY LenProperties DEF EmitRefused, transportVars, ghostVars, EmitInv, CountersInv,
                             GhostInv, ContextsInv
    <1>6. b.tls_context \in {NoContext, RegistrationFailed} \cup DOMAIN contexts'
        BY <1>4, <1>5, AppFields DEF EmitInv
    <1>7. Len(contexts') >= Len(contexts)
        BY <1>5
    <1>8. AppInv'
        BY <1>3, <1>4, <1>5, <1>6, <1>7, AppEntry DEF EmitInv
    <1> QED
        BY <1>5, <1>7, <1>8 DEF EmitDone

LEMMA RegisteredKeeps ==
    ASSUME EmitInv, NEW t \in Thread, NEW type \in LifecycleEvent \cup MutexEvent,
           NEW m \in Mutex \cup {None}, type \in MutexEvent => m \in Mutex,
           NEW result \in {"ok", "EDEADLK", "EPERM"},
           NEW pc \in PushPc, pc = "push_request" => m \in Mutex,
           EmitRegistered(t, type, m, result, pc)
    PROVE  EmitDone
    <1> DEFINE slot == app[t].tls_context
               j == contexts[slot].next_thread_sequence
               e == NewEvent(t, type, m, result, global_sequence, j)
               a == [app[t] EXCEPT !.pc = pc, !.mutex = m, !.event = e]
               n == j + 1
               c == [contexts[slot] EXCEPT !.next_thread_sequence = n]
    <1>1. app[t] \in AppThread /\ slot \in DOMAIN contexts
        BY AppFields DEF EmitInv, EmitRegistered, NoContext, RegistrationFailed
    <1>2. contexts[slot] \in ThreadContext /\ j \in Nat /\ Len(contexts) \in Nat
        BY <1>1, ContextFields DEF EmitInv
    <1>3. e \in MonitorEvent
        BY <1>2, EventTyped DEF EmitInv, CountersInv
    <1>4. /\ app' = [app EXCEPT ![t] = a]
          /\ contexts' = [contexts EXCEPT ![slot] = c]
          /\ global_sequence' = global_sequence + 1
          /\ Witness(t, type, m)
          /\ UNCHANGED <<unregistered_events, lifecycle_registration_failures>>
        BY DEF EmitRegistered
    <1> HIDE DEF e
    <1>5. a \in AppThread /\ a.pc = pc /\ a.mutex = m /\ a.event = e /\ a.tls_context = slot
        BY <1>1, <1>3 DEF AppThread
    <1> HIDE DEF a
    <1>6. n \in Nat
        BY <1>2
    <1> HIDE DEF n
    <1>7. c \in ThreadContext
        BY <1>2, <1>6 DEF ThreadContext
    <1> HIDE DEF c
    <1>8. ContextsInv' /\ Len(contexts') = Len(contexts)
        BY <1>1, <1>4, <1>7, ContextEntry DEF EmitInv
    <1>9. Len(contexts') >= Len(contexts) /\ slot \in DOMAIN contexts'
        BY <1>1, <1>2, <1>8, LenProperties DEF EmitInv, ContextsInv
    <1>10. AppInv'
        <2>1. /\ a.tls_context \in {NoContext, RegistrationFailed} \cup DOMAIN contexts'
              /\ a.pc \in PushPc => /\ a.event \in MonitorEvent
                                     /\ a.tls_context \in DOMAIN contexts'
              /\ a.pc \in MutexPc => a.mutex \in Mutex
            BY <1>3, <1>5, <1>9 DEF PushPc, MutexPc
        <2>2. app' = [app EXCEPT ![t] = a] /\ a \in AppThread
            BY <1>4, <1>5
        <2> QED
            BY <1>8, <1>9, <2>1, <2>2, AppEntry DEF EmitInv
    <1>11. GhostInv'
        BY <1>4, GhostsTyped DEF EmitInv
    <1>12. CountersInv'
        BY <1>4 DEF EmitInv, CountersInv
    <1> QED
        BY <1>8, <1>9, <1>10, <1>11, <1>12 DEF EmitDone

LEMMA FirstKeeps ==
    ASSUME EmitInv, NEW t \in Thread, NEW type \in LifecycleEvent \cup MutexEvent,
           NEW m \in Mutex \cup {None}, type \in MutexEvent => m \in Mutex,
           NEW result \in {"ok", "EDEADLK", "EPERM"},
           NEW pc \in PushPc, pc = "push_request" => m \in Mutex,
           NEW key \in BOOLEAN, EmitFirst(t, type, m, result, pc, key)
    PROVE  EmitDone
    <1> DEFINE i == Len(contexts) + 1
               e == NewEvent(t, type, m, result, global_sequence + 1, 1)
               start == NewEvent(t, "THREAD_START", None, "ok", global_sequence, 0)
               a == [pc |-> pc, mutex |-> m, tls_context |-> i, event |-> e]
               q == <<start>>
               c == [thread_id |-> t, key |-> key, dropped |-> 0,
                     next_thread_sequence |-> 2, queue |-> q]
    <1>1. /\ contexts \in Seq(ThreadContext) /\ Len(contexts) \in Nat
          /\ Len(contexts) < MaxThreads /\ global_sequence \in Nat
        BY LenProperties DEF EmitInv, ContextsInv, CountersInv, EmitFirst
    <1>2. global_sequence + 1 \in Nat /\ 1 \in Nat /\ 0 \in Nat
        BY <1>1
    <1>3. e \in MonitorEvent
        BY <1>2, EventTyped DEF EmitInv
    <1>4. start \in MonitorEvent
        <2>1. /\ "THREAD_START" \in LifecycleEvent \cup MutexEvent
              /\ "THREAD_START" \notin MutexEvent
            BY DEF LifecycleEvent, MutexEvent
        <2> QED
            BY <1>1, <1>2, <2>1, EventTyped DEF EmitInv
    <1>5. /\ app' = [app EXCEPT ![t] = a]
          /\ contexts' = Append(contexts, c)
          /\ global_sequence' = global_sequence + 2
          /\ lifecycle_registration_failures' =
               lifecycle_registration_failures + IF key THEN 0 ELSE 1
          /\ Witness(t, type, m)
          /\ UNCHANGED unregistered_events
        BY DEF EmitFirst
    <1> HIDE DEF e, start
    <1>6. i \in Int
        BY <1>1
    <1>7. /\ a \in AppThread /\ a.pc = pc /\ a.mutex = m /\ a.event = e
          /\ a.tls_context = i
        <2> HIDE DEF i
        <2> QED
            BY <1>3, <1>6 DEF AppThread
    <1>8. q \in Seq(MonitorEvent) /\ Len(q) <= Capacity
        BY <1>4, MonitorAssumption
    <1> HIDE DEF a, q
    <1>9. c \in ThreadContext
        BY <1>8 DEF ThreadContext
    <1> HIDE DEF c
    <1>10. /\ contexts' \in Seq(ThreadContext) /\ Len(contexts') = Len(contexts) + 1
           /\ DOMAIN contexts' = 1 .. Len(contexts) + 1
        BY <1>1, <1>5, <1>9, AppendProperties, LenProperties
    <1>11. ContextsInv'
        BY <1>1, <1>10, MonitorAssumption DEF ContextsInv
    <1>12. Len(contexts') >= Len(contexts) /\ i \in DOMAIN contexts'
        BY <1>1, <1>10
    <1>13. AppInv'
        <2>1. /\ a.tls_context \in {NoContext, RegistrationFailed} \cup DOMAIN contexts'
              /\ a.pc \in PushPc => /\ a.event \in MonitorEvent
                                     /\ a.tls_context \in DOMAIN contexts'
              /\ a.pc \in MutexPc => a.mutex \in Mutex
            BY <1>3, <1>7, <1>12 DEF PushPc, MutexPc
        <2>2. app' = [app EXCEPT ![t] = a] /\ a \in AppThread
            BY <1>5, <1>7
        <2> QED
            BY <1>11, <1>12, <2>1, <2>2, AppEntry DEF EmitInv
    <1>14. GhostInv'
        BY <1>5, GhostsTyped DEF EmitInv
    <1>15. CountersInv'
        BY <1>5 DEF EmitInv, CountersInv
    <1> QED
        BY <1>11, <1>12, <1>13, <1>14, <1>15 DEF EmitDone

LEMMA UnregisteredKeeps ==
    ASSUME EmitInv, NEW t \in Thread, NEW type \in LifecycleEvent \cup MutexEvent,
           NEW m \in Mutex \cup {None}, type \in MutexEvent => m \in Mutex,
           NEW pc \in PushPc, pc = "push_request" => m \in Mutex,
           EmitUnregistered(t, type, m, pc)
    PROVE  EmitDone
    <1> DEFINE a == [app[t] EXCEPT !.mutex = m, !.tls_context = RegistrationFailed]
               b == Resume(a, pc)
    <1>1. app[t] \in AppThread
        BY AppFields DEF EmitInv
    <1>2. a \in AppThread /\ a.mutex = m /\ a.tls_context = RegistrationFailed
        <2>1. RegistrationFailed \in Int
            BY DEF RegistrationFailed
        <2> QED
            BY <1>1, <2>1 DEF AppThread
    <1>3. /\ app' = [app EXCEPT ![t] = b]
          /\ unregistered_events' = unregistered_events + 1
          /\ Witness(t, type, m)
          /\ UNCHANGED <<contexts, lifecycle_registration_failures, global_sequence>>
        BY DEF EmitUnregistered
    <1> HIDE DEF a
    <1>4. /\ b \in AppThread /\ b.pc \notin PushPc
          /\ b.pc \in MutexPc => b.mutex \in Mutex
          /\ b.tls_context \in {NoContext, RegistrationFailed}
        BY <1>2, Resumed
    <1> HIDE DEF b
    <1>5. ContextsInv' /\ Len(contexts') >= Len(contexts)
        BY <1>3, LenProperties DEF EmitInv, ContextsInv
    <1>6. b.tls_context \in {NoContext, RegistrationFailed} \cup DOMAIN contexts'
        BY <1>4
    <1>7. app' = [app EXCEPT ![t] = b]
        BY <1>3
    <1>8. AppInv'
        BY <1>4, <1>5, <1>6, <1>7, AppEntry DEF EmitInv
    <1>9. GhostInv'
        BY <1>3, GhostsTyped DEF EmitInv
    <1>10. CountersInv'
        BY <1>3 DEF EmitInv, CountersInv
    <1> QED
        BY <1>5, <1>8, <1>9, <1>10 DEF EmitDone

\* monitor_runtime_emit up to the push.
LEMMA EmitKeeps ==
    ASSUME EmitInv, NEW t \in Thread, NEW type \in LifecycleEvent \cup MutexEvent,
           NEW m \in Mutex \cup {None}, type \in MutexEvent => m \in Mutex,
           NEW result \in {"ok", "EDEADLK", "EPERM"},
           NEW pc \in PushPc, pc = "push_request" => m \in Mutex,
           Emit(t, type, m, result, pc)
    PROVE  EmitDone
    <1>1. CASE EmitRefused(t, m, pc)
        BY <1>1, RefusedKeeps
    <1>2. CASE EmitRegistered(t, type, m, result, pc)
        BY <1>2, RegisteredKeeps
    <1>3. CASE \E key \in {TRUE, ~KeyMayFail} : EmitFirst(t, type, m, result, pc, key)
        <2>1. PICK key \in {TRUE, ~KeyMayFail} : EmitFirst(t, type, m, result, pc, key)
            BY <1>3
        <2>2. key \in BOOLEAN
            BY MonitorAssumption
        <2> QED
            BY <2>1, <2>2, FirstKeeps
    <1>4. CASE EmitUnregistered(t, type, m, pc)
        BY <1>4, UnregisteredKeeps
    <1> QED
        BY <1>1, <1>2, <1>3, <1>4 DEF Emit

-----------------------------------------------------------------------------
(***************************************************************************)
(* Every action keeps the invariant.                                       *)
(***************************************************************************)

\* The parts that an emit call leaves alone.
LEMMA EmitFrame ==
    ASSUME Parts, LockInv', EmitDone, UNCHANGED monitorVars
    PROVE  Parts'
    <1>1. now' \in Nat /\ Consistent(verifier)' /\ MainInv'
        BY DEF Parts, monitorVars, MainInv, Consistent, WaitingCounted, WaitingThreads
    <1>2. Len(contexts) \in Nat /\ Len(contexts') \in Nat
        BY LenProperties DEF Parts, ContextsInv, EmitDone
    <1>3. ConsumerInv'
        BY <1>2 DEF Parts, monitorVars, ConsumerInv, EmitDone
    <1> QED
        BY <1>1, <1>3 DEF Parts, EmitDone

LEMMA ToEmit ==
    ASSUME Parts
    PROVE  EmitInv
    BY DEF Parts, EmitInv

LEMMA LockRequestKeeps ==
    ASSUME Parts, NEW t \in Thread, NEW m \in Mutex, LockRequest(t, m)
    PROVE  Parts'
    <1>1. /\ "LOCK_REQUEST" \in LifecycleEvent \cup MutexEvent
          /\ "push_request" \in PushPc
        BY DEF MutexEvent, PushPc
    <1>2. Emit(t, "LOCK_REQUEST", m, "ok", "push_request")
        BY DEF LockRequest
    <1>3. EmitDone
        BY <1>1, <1>2, EmitKeeps, ToEmit
    <1>4. LockInv'
        BY DEF Parts, LockInv, LocksInPlace, LockRequest, NewCall
    <1> QED
        BY <1>3, <1>4, EmitFrame DEF LockRequest

LEMMA EmitsKeep ==
    ASSUME Parts, NEW t \in Thread,
           LockAcquired(t) \/ LockFailed(t) \/ Unlocked(t) \/ UnlockFailed(t)
    PROVE  Parts'
    <1>1. /\ {"LOCK_ACQUIRED", "LOCK_FAILED", "UNLOCKED", "UNLOCK_FAILED"}
               \subseteq LifecycleEvent \cup MutexEvent
          /\ "push" \in PushPc /\ "push" # "push_request"
        BY DEF MutexEvent, PushPc
    <1>2. app[t].mutex \in Mutex
        BY AppFields DEF Parts, LockAcquired, LockFailed, Unlocked, UnlockFailed, MutexPc
    <1>3. /\ UNCHANGED <<mutexVars, monitorVars>>
          /\ \/ Emit(t, "LOCK_ACQUIRED", app[t].mutex, "ok", "push")
             \/ Emit(t, "LOCK_FAILED", app[t].mutex, "EDEADLK", "push")
             \/ Emit(t, "UNLOCKED", app[t].mutex, "ok", "push")
             \/ Emit(t, "UNLOCK_FAILED", app[t].mutex, "EPERM", "push")
        BY DEF LockAcquired, LockFailed, Unlocked, UnlockFailed
    <1>4. EmitDone
        BY <1>1, <1>2, <1>3, EmitKeeps, ToEmit
    <1>5. LockInv'
        BY <1>3 DEF Parts, LockInv, LocksInPlace, mutexVars
    <1> QED
        BY <1>3, <1>4, <1>5, EmitFrame

LEMMA ThreadExitKeeps ==
    ASSUME Parts, NEW t \in Thread, ThreadExit(t)
    PROVE  Parts'
    <1>1. /\ "THREAD_EXIT" \in LifecycleEvent \cup MutexEvent
          /\ "THREAD_EXIT" \notin MutexEvent
          /\ "push_exit" \in PushPc /\ "push_exit" # "push_request"
        BY DEF LifecycleEvent, MutexEvent, PushPc
    <1>2. UNCHANGED <<mutexVars, monitorVars>>
        BY DEF ThreadExit
    <1>3. EmitDone
        <2>1. CASE EmitRegistered(t, "THREAD_EXIT", None, "ok", "push_exit")
            BY <1>1, <2>1, RegisteredKeeps, ToEmit
        <2>2. CASE EmitRefused(t, None, "push_exit")
            BY <1>1, <2>2, RefusedKeeps, ToEmit
        <2>3. CASE /\ app' = [app EXCEPT ![t] = Resume(@, "push_exit")]
                   /\ IF accept_events THEN Witness(t, "THREAD_EXIT", None)
                                       ELSE UNCHANGED ghostVars
                   /\ UNCHANGED transportVars
            <3> DEFINE b == Resume(app[t], "push_exit")
            <3>1. app[t] \in AppThread
                BY AppFields DEF Parts
            <3>2. /\ b \in AppThread /\ b.pc \notin PushPc
                  /\ b.pc \in MutexPc => b.mutex \in Mutex
                  /\ b.tls_context \in {NoContext, app[t].tls_context}
                BY <1>1, <3>1, Resumed
            <3>3. app' = [app EXCEPT ![t] = b]
                BY <2>3
            <3> HIDE DEF b
            <3>4. /\ contexts' = contexts /\ CountersInv' /\ ContextsInv'
                  /\ Len(contexts') >= Len(contexts)
                BY <2>3, LenProperties DEF transportVars, Parts, CountersInv, ContextsInv
            <3>5. GhostInv'
                <4>1. CASE accept_events
                    BY <1>1, <2>3, <4>1, GhostsTyped DEF Parts
                <4>2. CASE ~accept_events
                    BY <2>3, <4>2 DEF Parts, GhostInv, ghostVars
                <4> QED
                    BY <4>1, <4>2
            <3>6. b.tls_context \in {NoContext, RegistrationFailed} \cup DOMAIN contexts'
                BY <3>2, <3>4, AppFields DEF Parts
            <3>7. AppInv'
                BY <3>2, <3>3, <3>4, <3>6, AppEntry DEF Parts
            <3> QED
                BY <3>4, <3>5, <3>7 DEF EmitDone
        <2> QED
            BY <2>1, <2>2, <2>3 DEF ThreadExit
    <1>4. LockInv'
        BY <1>2 DEF Parts, LockInv, LocksInPlace, mutexVars
    <1> QED
        BY <1>2, <1>3, <1>4, EmitFrame

\* A step of a thread that emits nothing.
LEMMA QuietFrame ==
    ASSUME Parts, LockInv', AppInv', GhostInv', UNCHANGED <<transportVars, monitorVars>>
    PROVE  Parts'
    BY DEF Parts, transportVars, monitorVars, CountersInv, ContextsInv, ConsumerInv,
           MainInv, Consistent, WaitingCounted, WaitingThreads

LEMMA RealLockKeeps ==
    ASSUME Parts, NEW t \in Thread, RealLock(t)
    PROVE  Parts'
    <1> DEFINE m == app[t].mutex
               ok == RealLockResult(t, m) = "ok"
               pc == IF ok THEN "acquired" ELSE "lock_failed"
               a == [app[t] EXCEPT !.pc = pc]
    <1>1. m \in Mutex /\ app[t] \in AppThread
        BY AppFields DEF Parts, RealLock, MutexPc
    <1>2. /\ UNCHANGED <<calls, transportVars, newest, truth, monitorVars>>
          /\ app' = [app EXCEPT ![t] = a]
        BY DEF RealLock
    <1>3. LockInv'
        <2>1. CASE ok
            <3> DEFINE n == lock[m].count + 1
                       r == [owner |-> t, count |-> n]
            <3>1. lock \in [Mutex -> [owner : Thread \cup {None}, count : Nat]]
                BY DEF Parts, LockInv
            <3>2. n \in Nat /\ n # 0 /\ t # None
                BY <1>1, <3>1, VerifierAssumption
            <3>3. lock' = [lock EXCEPT ![m] = r]
                BY <2>1 DEF RealLock
            <3> HIDE DEF n
            <3>4. lock' \in [Mutex -> [owner : Thread \cup {None}, count : Nat]]
                BY <3>1, <3>2, <3>3
            <3>5. LocksInPlace'
                BY <1>1, <3>1, <3>2, <3>3 DEF Parts, LockInv, LocksInPlace
            <3> QED
                BY <1>2, <3>4, <3>5 DEF Parts, LockInv
        <2>2. CASE ~ok
            BY <1>2, <2>2 DEF RealLock, Parts, LockInv, LocksInPlace
        <2> QED
            BY <2>1, <2>2
    <1>4. GhostInv'
        <2>1. CASE ok
            <3> DEFINE n == IF lock[m].count = 0 THEN now ELSE times[t][m].taken
                       x == [times[t][m] EXCEPT !.taken = n]
                       y == [times[t] EXCEPT ![m] = x]
            <3>1. times \in [Thread -> [Mutex -> Times]] /\ now \in Nat
                BY DEF Parts, GhostInv
            <3>2. times[t] \in [Mutex -> Times] /\ times[t][m] \in Times
                BY <1>1, <3>1
            <3>3. n \in Nat
                BY <3>1, <3>2 DEF Times
            <3>4. times' = [times EXCEPT ![t] = y]
                BY <2>1 DEF RealLock
            <3> HIDE DEF n
            <3>5. x \in Times
                BY <3>2, <3>3 DEF Times
            <3> HIDE DEF x
            <3>6. y \in [Mutex -> Times]
                BY <3>2, <3>5
            <3> HIDE DEF y
            <3>7. times' \in [Thread -> [Mutex -> Times]]
                BY <3>1, <3>4, <3>6
            <3> QED
                BY <1>2, <3>7 DEF Parts, GhostInv
        <2>2. CASE ~ok
            BY <1>2, <2>2 DEF RealLock, Parts, GhostInv
        <2> QED
            BY <2>1, <2>2
    <1>5. AppInv'
        <2>1. /\ a \in AppThread /\ a.pc \in {"acquired", "lock_failed"}
              /\ a.mutex = m /\ a.tls_context = app[t].tls_context
            <3>1. pc \in {"acquired", "lock_failed"}
                OBVIOUS
            <3> HIDE DEF pc
            <3> QED
                BY <1>1, <3>1 DEF AppThread, MutexPc
        <2> HIDE DEF a
        <2>2. contexts' = contexts /\ ContextsInv' /\ Len(contexts') >= Len(contexts)
            BY <1>2, LenProperties DEF transportVars, Parts, ContextsInv
        <2>3. /\ a.tls_context \in {NoContext, RegistrationFailed} \cup DOMAIN contexts'
              /\ a.pc \notin PushPc /\ a.mutex \in Mutex
            BY <1>1, <2>1, <2>2, AppFields DEF Parts, PushPc
        <2>4. app' = [app EXCEPT ![t] = a]
            BY <1>2
        <2> QED
            BY <2>1, <2>2, <2>3, <2>4, AppEntry DEF Parts
    <1> QED
        BY <1>2, <1>3, <1>4, <1>5, QuietFrame

LEMMA RealUnlockKeeps ==
    ASSUME Parts, NEW t \in Thread, NEW m \in Mutex, RealUnlock(t, m)
    PROVE  Parts'
    <1> DEFINE ok == RealUnlockResult(t, m) = "ok"
               pc == IF ok THEN "unlocked" ELSE "unlock_failed"
               a == [app[t] EXCEPT !.pc = pc, !.mutex = m]
    <1>1. app[t] \in AppThread
        BY AppFields DEF Parts
    <1>2. /\ UNCHANGED <<transportVars, newest, truth, monitorVars>>
          /\ calls' = calls + 1
          /\ app' = [app EXCEPT ![t] = a]
        BY DEF RealUnlock, NewCall
    <1>3. LockInv'
        <2>1. CASE ok
            <3> DEFINE n == lock[m].count - 1
                       r == IF lock[m].count = 1 THEN [owner |-> None, count |-> 0]
                            ELSE [owner |-> t, count |-> n]
            <3>1. lock \in [Mutex -> [owner : Thread \cup {None}, count : Nat]]
                BY DEF Parts, LockInv
            <3>2. lock[m].owner = t /\ t # None /\ lock[m].count \in Nat
                BY <2>1, <3>1, VerifierAssumption DEF RealUnlockResult
            <3>3. lock[m].count # 0
                BY <3>2 DEF Parts, LockInv, LocksInPlace
            <3>4. n \in Nat /\ (lock[m].count # 1 => n # 0)
                BY <3>2, <3>3
            <3>5. lock' = [lock EXCEPT ![m] = r]
                BY <2>1 DEF RealUnlock
            <3> HIDE DEF n
            <3>6. /\ r \in [owner : Thread \cup {None}, count : Nat]
                  /\ r.owner = None <=> r.count = 0
                BY <3>2, <3>4
            <3> HIDE DEF r
            <3>7. lock' \in [Mutex -> [owner : Thread \cup {None}, count : Nat]]
                BY <3>1, <3>5, <3>6
            <3>8. LocksInPlace'
                BY <3>1, <3>5, <3>6 DEF Parts, LockInv, LocksInPlace
            <3> QED
                BY <1>2, <3>7, <3>8 DEF Parts, LockInv
        <2>2. CASE ~ok
            BY <1>2, <2>2 DEF RealUnlock, Parts, LockInv, LocksInPlace
        <2> QED
            BY <2>1, <2>2
    <1>4. GhostInv'
        <2>1. CASE ok
            <3> DEFINE x == [times[t][m] EXCEPT !.released = now]
                       y == [times[t] EXCEPT ![m] = x]
            <3>1. times \in [Thread -> [Mutex -> Times]] /\ now \in Nat
                BY DEF Parts, GhostInv
            <3>2. times[t] \in [Mutex -> Times] /\ times[t][m] \in Times
                BY <3>1
            <3>3. times' = [times EXCEPT ![t] = y]
                BY <2>1 DEF RealUnlock
            <3>4. x \in Times
                BY <3>1, <3>2 DEF Times
            <3> HIDE DEF x
            <3>5. y \in [Mutex -> Times]
                BY <3>2, <3>4
            <3> HIDE DEF y
            <3>6. times' \in [Thread -> [Mutex -> Times]]
                BY <3>1, <3>3, <3>5
            <3> QED
                BY <1>2, <3>6 DEF Parts, GhostInv
        <2>2. CASE ~ok
            BY <1>2, <2>2 DEF RealUnlock, Parts, GhostInv
        <2> QED
            BY <2>1, <2>2
    <1>5. AppInv'
        <2>1. /\ a \in AppThread /\ a.pc \in {"unlocked", "unlock_failed"}
              /\ a.mutex = m /\ a.tls_context = app[t].tls_context
            <3>1. pc \in {"unlocked", "unlock_failed"}
                OBVIOUS
            <3> HIDE DEF pc
            <3> QED
                BY <1>1, <3>1 DEF AppThread, MutexPc
        <2> HIDE DEF a
        <2>2. contexts' = contexts /\ ContextsInv' /\ Len(contexts') >= Len(contexts)
            BY <1>2, LenProperties DEF transportVars, Parts, ContextsInv
        <2>3. /\ a.tls_context \in {NoContext, RegistrationFailed} \cup DOMAIN contexts'
              /\ a.pc \notin PushPc /\ a.mutex \in Mutex
            BY <2>1, <2>2, AppFields DEF Parts, PushPc
        <2>4. app' = [app EXCEPT ![t] = a]
            BY <1>2
        <2> QED
            BY <2>1, <2>2, <2>3, <2>4, AppEntry DEF Parts
    <1> QED
        BY <1>2, <1>3, <1>4, <1>5, QuietFrame

LEMMA PushKeeps ==
    ASSUME Parts, NEW t \in Thread, Push(t)
    PROVE  Parts'
    <1> DEFINE slot == app[t].tls_context
               old == contexts[slot]
               q == Append(old.queue, app[t].event)
               n == old.dropped + 1
               c == IF Len(old.queue) < Capacity
                    THEN [old EXCEPT !.queue = q] ELSE [old EXCEPT !.dropped = n]
               b == Resume(app[t], app[t].pc)
    <1>1. /\ app[t] \in AppThread /\ app[t].pc \in PushPc /\ slot \in DOMAIN contexts
          /\ app[t].event \in MonitorEvent
          /\ app[t].pc = "push_request" => app[t].mutex \in Mutex
        BY AppFields DEF Parts, Push, PushPc, MutexPc
    <1>2. /\ old \in ThreadContext /\ old.queue \in Seq(MonitorEvent)
          /\ old.dropped \in Nat /\ Len(old.queue) <= Capacity /\ Len(contexts) \in Nat
        BY <1>1, ContextFields DEF Parts
    <1>3. /\ contexts' = [contexts EXCEPT ![slot] = c]
          /\ app' = [app EXCEPT ![t] = b]
          /\ UNCHANGED <<mutexVars, unregistered_events, lifecycle_registration_failures,
                         global_sequence, ghostVars, monitorVars>>
        BY DEF Push
    <1>4. c \in ThreadContext
        <2>1. n \in Nat
            BY <1>2
        <2>2. q \in Seq(MonitorEvent) /\ Len(q) = Len(old.queue) + 1
              /\ Len(old.queue) \in Nat
            BY <1>1, <1>2, AppendProperties, LenProperties
        <2>3. Len(old.queue) < Capacity => Len(q) <= Capacity
            BY <2>2, MonitorAssumption
        <2> HIDE DEF n, q, old
        <2> QED
            BY <1>2, <2>1, <2>2, <2>3 DEF ThreadContext
    <1> HIDE DEF c
    <1>5. ContextsInv' /\ Len(contexts') = Len(contexts)
        BY <1>1, <1>3, <1>4, ContextEntry DEF Parts
    <1>6. Len(contexts') >= Len(contexts) /\ DOMAIN contexts' = DOMAIN contexts
        BY <1>2, <1>5, LenProperties DEF Parts, ContextsInv
    <1>7. /\ b \in AppThread /\ b.pc \notin PushPc
          /\ b.pc \in MutexPc => b.mutex \in Mutex
          /\ b.tls_context \in {NoContext, slot}
        BY <1>1, Resumed
    <1> HIDE DEF b
    <1>8. b.tls_context \in {NoContext, RegistrationFailed} \cup DOMAIN contexts'
        BY <1>1, <1>6, <1>7
    <1>9. app' = [app EXCEPT ![t] = b]
        BY <1>3
    <1>10. AppInv'
        BY <1>5, <1>6, <1>7, <1>8, <1>9, AppEntry DEF Parts
    <1>11. GhostInv' /\ CountersInv' /\ LockInv'
        BY <1>3 DEF Parts, GhostInv, CountersInv, LockInv, LocksInPlace, ghostVars, mutexVars
    <1> QED
        BY <1>3, <1>5, <1>6, <1>10, <1>11, EmitFrame DEF EmitDone

LEMMA NextConsumerTyped ==
    ASSUME ConsumerInv, Len(contexts) \in Nat
    PROVE  NextConsumer \in [i : Nat \ {0}, count : 0 .. Len(contexts), batch : Nat,
                             consumed_any : BOOLEAN, done : BOOLEAN]
    <1> DEFINE CT == [i : Nat \ {0}, count : 0 .. Len(contexts), batch : Nat,
                      consumed_any : BOOLEAN, done : BOOLEAN]
               n == consumer.i + 1
               k == consumer.batch + 1
    <1>1. consumer \in CT
        BY DEF ConsumerInv
    <1>2. n \in Nat \ {0} /\ k \in Nat
        BY <1>1
    <1> HIDE DEF n, k
    <1>3. [consumer EXCEPT !.consumed_any = TRUE, !.batch = k] \in CT
        BY <1>1, <1>2
    <1>4. [consumer EXCEPT !.consumed_any = TRUE, !.batch = 0, !.i = n] \in CT
        BY <1>1, <1>2
    <1>5. [consumer EXCEPT !.i = n, !.batch = 0] \in CT
        BY <1>1, <1>2
    <1>6. [i |-> 1, count |-> Len(contexts), batch |-> 0, consumed_any |-> FALSE,
           done |-> Leaves] \in CT
        <2>1. Leaves \in BOOLEAN
            BY DEF Leaves
        <2>2. Len(contexts) \in 0 .. Len(contexts)
            OBVIOUS
        <2> QED
            BY <2>1, <2>2
    <1>7. \/ NextConsumer = [consumer EXCEPT !.consumed_any = TRUE, !.batch = k]
          \/ NextConsumer = [consumer EXCEPT !.consumed_any = TRUE, !.batch = 0, !.i = n]
          \/ NextConsumer = [consumer EXCEPT !.i = n, !.batch = 0]
          \/ NextConsumer = [i |-> 1, count |-> Len(contexts), batch |-> 0,
                             consumed_any |-> FALSE, done |-> Leaves]
        BY DEF NextConsumer, n, k
    <1> QED
        BY <1>3, <1>4, <1>5, <1>6, <1>7

LEMMA ScannedContext ==
    ASSUME Parts, Scanning
    PROVE  consumer.i \in DOMAIN contexts
    <1>1. consumer.i \in Nat \ {0} /\ consumer.count \in 0 .. Len(contexts)
        BY DEF Parts, ConsumerInv
    <1>2. consumer.i <= consumer.count
        BY DEF Scanning
    <1>3. DOMAIN contexts = 1 .. Len(contexts) /\ Len(contexts) \in Nat
        BY LenProperties DEF Parts, ContextsInv
    <1> QED
        BY <1>1, <1>2, <1>3

LEMMA DrainKeeps ==
    ASSUME Parts, Drain
    PROVE  Parts'
    <1> DEFINE i == consumer.i
               old == contexts[i]
               q == Tail(old.queue)
               e == Head(old.queue)
               c == [old EXCEPT !.queue = q]
    <1>1. i \in DOMAIN contexts
        BY ScannedContext DEF Drain
    <1>2. /\ old \in ThreadContext /\ old.queue \in Seq(MonitorEvent)
          /\ Len(old.queue) <= Capacity /\ Len(contexts) \in Nat
        BY <1>1, ContextFields DEF Parts
    <1>3. /\ contexts' = [contexts EXCEPT ![i] = c]
          /\ consumer' = NextConsumer
          /\ verifier' = ProcessEvent(verifier, e)
          /\ old.queue # <<>>
          /\ UNCHANGED <<mutexVars, app, unregistered_events, now, main, ghostVars,
                         lifecycle_registration_failures, global_sequence>>
        BY DEF Drain, ScannedQueue
    <1>4. e \in MonitorEvent /\ q \in Seq(MonitorEvent) /\ Len(q) <= Capacity
        BY <1>2, <1>3, HeadTailProperties, LenProperties, MonitorAssumption
    <1>5. WellFormed(e)
        BY <1>4 DEF MonitorEvent
    <1> HIDE DEF e, q
    <1>6. c \in ThreadContext
        <2> HIDE DEF old
        <2> QED
            BY <1>2, <1>4 DEF ThreadContext
    <1> HIDE DEF c
    <1>7. ContextsInv' /\ Len(contexts') = Len(contexts)
        BY <1>1, <1>3, <1>6, ContextEntry DEF Parts
    <1>8. Len(contexts') >= Len(contexts)
        BY <1>2, <1>7
    <1>9. AppInv'
        BY <1>3, <1>7, <1>8, AppKept DEF Parts
    <1>10. ConsumerInv'
        <2>1. NextConsumer \in [i : Nat \ {0}, count : 0 .. Len(contexts), batch : Nat,
                                consumed_any : BOOLEAN, done : BOOLEAN]
            BY <1>2, NextConsumerTyped DEF Parts
        <2> QED
            BY <1>3, <1>7, <2>1 DEF ConsumerInv
    <1>11. Consistent(verifier')
        BY <1>3, <1>5, Processed DEF Parts
    <1>12. GhostInv' /\ CountersInv' /\ LockInv' /\ MainInv' /\ now' \in Nat
        BY <1>3 DEF Parts, GhostInv, CountersInv, LockInv, LocksInPlace, MainInv, ghostVars,
                    mutexVars
    <1>13. Consistent(verifier)'
        BY <1>11 DEF Consistent, WaitingCounted, WaitingThreads
    <1> QED
        BY <1>7, <1>9, <1>10, <1>12, <1>13 DEF Parts

\* The steps of the consumer and of stop that leave threads and contexts alone.
LEMMA AsideKeeps ==
    ASSUME Parts, DrainEmpty \/ PassEnd \/ StopAccept \/ StopStep \/ Tick
    PROVE  Parts'
    <1>1. UNCHANGED <<mutexVars, app, transportVars, newest, times>>
        BY DEF DrainEmpty, PassEnd, StopAccept, StopStep, StopConsumer, Summary, Tick,
               ghostVars
    <1>2. LockInv' /\ CountersInv' /\ ContextsInv' /\ AppInv'
        BY <1>1 DEF Parts, LockInv, LocksInPlace, CountersInv, ContextsInv, AppInv,
                    AppInPlace, mutexVars, transportVars
    <1>3. GhostInv'
        <2>1. \/ truth' = truth
              \/ truth' = [truth EXCEPT !.deadlocked = DeadlockExists]
            BY DEF DrainEmpty, PassEnd, StopAccept, StopStep, StopConsumer, Summary, Tick,
                   ghostVars
        <2>2. DeadlockExists \in BOOLEAN
            BY DEF DeadlockExists
        <2>3. truth' \in [self_deadlock : Nat, non_owner : Nat, held_at_exit : Nat,
                          hold_time : Nat, deadlocked : BOOLEAN]
            BY <2>1, <2>2 DEF Parts, GhostInv
        <2> QED
            BY <1>1, <2>3 DEF Parts, GhostInv
    <1>4. now' \in Nat
        BY DEF Parts, DrainEmpty, PassEnd, StopAccept, StopStep, StopConsumer, Summary, Tick
    <1>5. ConsumerInv'
        <2>1. consumer' = consumer \/ consumer' = NextConsumer
            BY DEF DrainEmpty, PassEnd, StopAccept, StopStep, StopConsumer, Summary, Tick
        <2>2. Len(contexts) \in Nat /\ contexts' = contexts
            BY <1>1, LenProperties DEF Parts, ContextsInv, transportVars
        <2>3. NextConsumer \in [i : Nat \ {0}, count : 0 .. Len(contexts), batch : Nat,
                                consumed_any : BOOLEAN, done : BOOLEAN]
            BY <2>2, NextConsumerTyped DEF Parts
        <2> QED
            BY <2>1, <2>2, <2>3 DEF Parts, ConsumerInv
    <1>6. Consistent(verifier)'
        <2>1. verifier' = verifier \/ verifier' = CheckDeadlocks(verifier)
            BY DEF DrainEmpty, PassEnd, StopAccept, StopStep, StopConsumer, Summary, Tick
        <2>2. Consistent(verifier')
            BY <2>1, Checked DEF Parts
        <2> QED
            BY <2>2 DEF Consistent, WaitingCounted, WaitingThreads
    <1>7. MainInv'
        <2> DEFINE conclusion == Interpretation(verifier, TraceComplete)
        <2>1. \/ main' = main
              \/ main' = [main EXCEPT !.pc = "stopping"]
              \/ main' = [main EXCEPT !.pc = "joining"]
              \/ main' = [pc |-> "stopped", interpretation |-> conclusion]
            BY DEF DrainEmpty, PassEnd, StopAccept, StopStep, StopConsumer, Summary, Tick
        <2>2. conclusion \in {"none", "AUTHORITATIVE", "INCOMPLETE TRACE"}
            BY DEF Interpretation
        <2> HIDE DEF conclusion
        <2>3. main \in [pc : {"running", "stopping", "joining", "stopped"},
                        interpretation : {"none", "AUTHORITATIVE", "INCOMPLETE TRACE"}]
            BY DEF Parts, MainInv
        <2>4. ASSUME NEW p \in {"stopping", "joining"}, main' = [main EXCEPT !.pc = p]
              PROVE  MainInv'
            BY <2>3, <2>4 DEF MainInv
        <2>5. ASSUME main' = [pc |-> "stopped", interpretation |-> conclusion]
              PROVE  MainInv'
            BY <2>2, <2>5 DEF MainInv
        <2>6. ASSUME main' = main PROVE MainInv'
            BY <2>3, <2>6 DEF MainInv
        <2> QED
            BY <2>1, <2>4, <2>5, <2>6
    <1> QED
        BY <1>2, <1>3, <1>4, <1>5, <1>6, <1>7 DEF Parts

LEMMA StepKeeps == Parts /\ [Next \/ Tick]_vars => Parts'
    <1> SUFFICES ASSUME Parts, [Next \/ Tick]_vars PROVE Parts'
        OBVIOUS
    <1>1. ASSUME NEW t \in Thread, Call(t) PROVE Parts'
        BY <1>1, LockRequestKeeps, RealUnlockKeeps, ThreadExitKeeps DEF Call
    <1>2. ASSUME NEW t \in Thread, InCall(t) PROVE Parts'
        BY <1>2, RealLockKeeps, EmitsKeep, PushKeeps DEF InCall
    <1>3. CASE ConsumerStep
        BY <1>3, DrainKeeps, AsideKeeps DEF ConsumerStep
    <1>4. CASE StopAccept \/ StopStep \/ Tick
        BY <1>4, AsideKeeps
    <1>5. CASE UNCHANGED vars
        BY <1>5 DEF vars, Parts, LockInv, LocksInPlace, CountersInv, ContextsInv, AppInv,
                    AppInPlace, GhostInv, ConsumerInv, MainInv, Consistent, WaitingCounted,
                    WaitingThreads
    <1> QED
        BY <1>1, <1>2, <1>3, <1>4, <1>5 DEF Next
-----------------------------------------------------------------------------
\* The inductive invariant, with a clock that runs.
THEOREM TimedInvariance == TimedSpec => []IndInv
    BY InitParts, StepKeeps, Split, PTL DEF TimedSpec

\* ... and with one that stands still.
THEOREM Invariance == Spec => []IndInv
    <1>1. [Next]_vars => [Next \/ Tick]_vars
        OBVIOUS
    <1>2. Spec => TimedSpec
        BY <1>1, PTL DEF Spec, TimedSpec
    <1> QED
        BY <1>2, TimedInvariance, PTL

\* Every variable keeps its type: interceptor, contexts, consumer and verifier never hand
\* each other a slot, a mutex or an event that does not exist, no queue grows past its
\* capacity, and clear_thread_waiting and find_thread stay within their bounds.
THEOREM TypeCorrect == TimedSpec => []TypeOK
    BY TimedInvariance, PTL DEF IndInv

\* monitor_verifier_check_deadlocks: the waiting count is exact through requests,
\* failures, gaps, full tables, exits and second registrations, for any number of threads
\* and however events are lost or interleaved; so the early return hides no cycle.
THEOREM WaitingCountExact == TimedSpec => []EarlyReturnHidesNothing
    <1>1. IndInv => EarlyReturnHidesNothing
        BY AnyCycleWaits DEF IndInv, TypeOK, EarlyReturnHidesNothing, Consistent
    <1> QED
        BY <1>1, TimedInvariance, PTL
=============================================================================
