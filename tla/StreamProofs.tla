---------------------------- MODULE StreamProofs ----------------------------
(***************************************************************************)
(* StreamReportsReal for any number of threads, mutexes and contexts, any  *)
(* queue and table sizes, any losses and any interleaving.                 *)
(*                                                                         *)
(* The argument follows one thread's stream from the interceptor to the    *)
(* verifier.  A view says how many times the thread holds each mutex and   *)
(* when it acquired it.  Every stamped event has the view before and the   *)
(* view after it; consecutive events of a context agree on the view        *)
(* between them; and what the verifier recorded for a thread it trusts is  *)
(* bounded by the view before the event it expects next.  A thread that    *)
(* registers a second time is distrusted at the THREAD_START of its second *)
(* context, because the consumer has always taken an event of the first    *)
(* context by then.                                                        *)
(***************************************************************************)
EXTENDS MonitorProofs

\* What the stamped events of the thread tell: a mutex that was really taken or
\* given up counts once its event is stamped.
StampedView(t) ==
    [held |-> [m \in Mutex |->
        IF app[t].pc = "acquired" /\ app[t].mutex = m THEN RealDepth(t)[m] - 1
        ELSE IF app[t].pc = "unlocked" /\ app[t].mutex = m THEN RealDepth(t)[m] + 1
        ELSE RealDepth(t)[m]],
     acquired |-> [m \in Mutex |-> times[t][m].acquired]]

ViewBefore(e) ==
    [held |-> [m \in Mutex |->
        IF e.event_type = "LOCK_ACQUIRED" /\ e.object = m THEN e.really_held[m] - 1
        ELSE IF e.event_type = "UNLOCKED" /\ e.object = m THEN e.really_held[m] + 1
        ELSE e.really_held[m]],
     acquired |-> [m \in Mutex |-> e.times[m].acquired]]

ViewAfter(e) ==
    [held |-> e.really_held,
     acquired |-> [m \in Mutex |->
        IF e.event_type = "LOCK_ACQUIRED" /\ e.object = m /\ e.really_held[m] = 1
        THEN e.timestamp ELSE e.times[m].acquired]]

\* A thread whose context is new may have taken mutexes that its first event gives up.
Agree(x, y) == \A m \in Mutex : /\ x.held[m] <= y.held[m]
                                /\ x.acquired[m] = y.acquired[m]

\* The verifier's entry s of a thread records no more than the view x.
Bounded(s, x) == \A m \in Mutex :
    /\ s.depth[m] <= x.held[m]
    /\ s.depth[m] > 0 => x.acquired[m] <= s.since[m]

Owner(c) == contexts[c].thread_id
Queue(c) == contexts[c].queue
Live(c) == app[Owner(c)].tls_context = c
Pending(c) == Live(c) /\ app[Owner(c)].pc \in PushPc

\* The view before the event that follows the k-th one in the queue of c, if its
\* thread_sequence is n; at the end of the stream, what the thread has done by now.
NextViews(c, k, n) ==
    IF k < Len(Queue(c))
    THEN IF Queue(c)[k + 1].thread_sequence = n THEN {ViewBefore(Queue(c)[k + 1])} ELSE {}
    ELSE IF Pending(c)
    THEN IF app[Owner(c)].event.thread_sequence = n
         THEN {ViewBefore(app[Owner(c)].event)} ELSE {}
    ELSE IF Live(c) /\ accept_events /\ contexts[c].next_thread_sequence = n
    THEN {StampedView(Owner(c))} ELSE {}

Overflowed(v, t) == /\ v.thread_states[t].slot = 0
                    /\ Cardinality(KnownThreads(v)) >= VerifierThreads
Tainted(v, t) == v.thread_states[t].trace_tainted
Expected(v, t) == v.thread_states[t].next_expected_sequence
Seen(v, t) == Expected(v, t) > 0 \/ Overflowed(v, t)

First(c) == \A d \in DOMAIN contexts : d < c => Owner(d) # Owner(c)

Plausible(e) ==
    /\ \A m \in Mutex : e.times[m].acquired <= e.timestamp
    /\ e.event_type = "LOCK_ACQUIRED" => e.really_held[e.object] > 0

\* The application side.
ThreadInv(t) ==
    /\ app[t].tls_context \in DOMAIN contexts => Owner(app[t].tls_context) = t
    /\ app[t].pc = "acquired" => lock[app[t].mutex].owner = t
    /\ app[t].pc \in {"lock", "acquired"} /\ accept_events =>
          app[t].tls_context # NoContext
    /\ \A m \in Mutex : times[t][m].acquired <= now

\* The event about to be pushed is the newest of its context.
NewestPending(c) ==
    LET e == app[Owner(c)].event IN
    /\ e.thread_id = Owner(c) /\ Plausible(e)
    /\ e.thread_sequence + 1 = contexts[c].next_thread_sequence
    /\ \A k \in DOMAIN Queue(c) : Queue(c)[k].thread_sequence < e.thread_sequence
    /\ accept_events => Agree(ViewAfter(e), StampedView(Owner(c)))

ThreadsInv == \A t \in Thread : ThreadInv(t)
PendingInv == \A c \in DOMAIN contexts : Pending(c) => NewestPending(c)

QueueInv == \A c \in DOMAIN contexts : \A k \in DOMAIN Queue(c) :
    LET e == Queue(c)[k] IN
    /\ e.thread_id = Owner(c) /\ Plausible(e)
    /\ e.thread_sequence < contexts[c].next_thread_sequence
    /\ \A y \in NextViews(c, k, e.thread_sequence + 1) : Agree(ViewAfter(e), y)

\* What the verifier recorded, against the first context of the thread.
BoundInv == \A c \in DOMAIN contexts :
    LET t == Owner(c) IN
    First(c) /\ ~Tainted(verifier, t) =>
        \A y \in NextViews(c, 0, Expected(verifier, t)) :
            Bounded(verifier.thread_states[t], y)

\* A further context of the thread starts with THREAD_START.
AgainInv == \A c \in DOMAIN contexts :
    ~First(c) /\ ~Tainted(verifier, Owner(c)) /\ ~Overflowed(verifier, Owner(c)) =>
        Queue(c) # <<>> /\ Queue(c)[1].thread_sequence = 0

\* The consumer leaves no context behind without having taken an event of it.
SeenInv == \A c \in DOMAIN contexts :
    Queue(c) = <<>> \/ (c < consumer.i /\ c <= consumer.count)
       => Seen(verifier, Owner(c))

FreshInv == \A t \in Thread :
    LET s == verifier.thread_states[t] IN
    /\ s.slot = 0 <=> s.next_expected_sequence = 0
    /\ s.slot = 0 => \A m \in Mutex : s.depth[m] = 0

StreamInv == /\ ThreadsInv /\ PendingInv /\ QueueInv /\ BoundInv /\ AgainInv
             /\ SeenInv /\ FreshInv
-----------------------------------------------------------------------------
(***************************************************************************)
(* One event in the verifier.                                              *)
(***************************************************************************)

Counts(v) == <<v.self_deadlock_candidates, v.lock_held_at_exit_violations,
               v.hold_time_violations>>

Others(v, w, t) == \A u \in Thread \ {t} : w.thread_states[u] = v.thread_states[u]

\* The entry of t changes at most in waiting_mutex and exited, and nothing is reported.
Kept(v, w, t) ==
    /\ w.thread_states[t].slot = v.thread_states[t].slot
    /\ w.thread_states[t].trace_tainted = v.thread_states[t].trace_tainted
    /\ w.thread_states[t].next_expected_sequence
         = v.thread_states[t].next_expected_sequence
    /\ w.thread_states[t].depth = v.thread_states[t].depth
    /\ w.thread_states[t].since = v.thread_states[t].since
    /\ Others(v, w, t)
    /\ Counts(w) = Counts(v)

LEMMA KeptTwice ==
    ASSUME NEW v, NEW w, NEW x, NEW t, Kept(v, w, t), Kept(w, x, t)
    PROVE  Kept(v, x, t)
    BY DEF Kept, Others

LEMMA TableKept ==
    ASSUME NEW v, NEW w, NEW t, w.thread_states = v.thread_states, Counts(w) = Counts(v)
    PROVE  Kept(v, w, t)
    BY DEF Kept, Others

LEMMA FindMutexKeeps ==
    ASSUME NEW v \in VerifierState, NEW m, NEW t
    PROVE  Kept(v, FindOrCreateMutex(v, m), t)
    <1> DEFINE w == FindOrCreateMutex(v, m)
    <1>1. w.thread_states = v.thread_states /\ Counts(w) = Counts(v)
        BY DEF FindOrCreateMutex, VerifierState, Counts
    <1> QED
        BY <1>1, TableKept

LEMMA SetOwnerKeeps ==
    ASSUME NEW v \in VerifierState, NEW e, NEW owner, NEW t
    PROVE  Kept(v, SetOwner(v, e, owner), t)
    <1> DEFINE w == SetOwner(v, e, owner)
    <1>1. w.thread_states = v.thread_states /\ Counts(w) = Counts(v)
        BY DEF SetOwner, VerifierState, Counts
    <1> QED
        BY <1>1, TableKept

\* One entry of the thread table is replaced.
LEMMA EntryReplaced ==
    ASSUME NEW v \in VerifierState, NEW t \in Thread, NEW s,
           NEW w, w.thread_states = [v.thread_states EXCEPT ![t] = s]
    PROVE  w.thread_states[t] = s /\ Others(v, w, t)
    <1>1. v.thread_states \in [Thread -> ThreadState]
        BY Fields
    <1> QED
        BY <1>1 DEF Others

LEMMA SetWaitingKeeps ==
    ASSUME NEW v \in VerifierState, NEW t \in Thread, NEW m
    PROVE  Kept(v, SetThreadWaiting(v, t, m), t)
    <1> DEFINE s == [v.thread_states[t] EXCEPT !.waiting_mutex = m]
               w == SetThreadWaiting(v, t, m)
    <1>1. v.thread_states[t] \in ThreadState
        BY ThreadFields
    <1>2. /\ s.slot = v.thread_states[t].slot
          /\ s.trace_tainted = v.thread_states[t].trace_tainted
          /\ s.next_expected_sequence = v.thread_states[t].next_expected_sequence
          /\ s.depth = v.thread_states[t].depth /\ s.since = v.thread_states[t].since
        BY <1>1 DEF ThreadState
    <1>3. /\ w.thread_states = [v.thread_states EXCEPT ![t] = s]
          /\ Counts(w) = Counts(v)
        BY DEF SetThreadWaiting, VerifierState, Counts
    <1> HIDE DEF s, w
    <1>4. w.thread_states[t] = s /\ Others(v, w, t)
        BY <1>3, EntryReplaced
    <1>5. Kept(v, w, t)
        BY <1>2, <1>3, <1>4 DEF Kept
    <1> QED
        BY <1>5 DEF w

LEMMA ClearWaitingKeeps ==
    ASSUME NEW v \in VerifierState, NEW t \in Thread, NEW m
    PROVE  Kept(v, ClearThreadWaiting(v, t, m), t)
    <1> DEFINE s == [v.thread_states[t] EXCEPT !.waiting_mutex = None]
               w == ClearThreadWaiting(v, t, m)
    <1>1. v.thread_states[t] \in ThreadState
        BY ThreadFields
    <1>2. /\ s.slot = v.thread_states[t].slot
          /\ s.trace_tainted = v.thread_states[t].trace_tainted
          /\ s.next_expected_sequence = v.thread_states[t].next_expected_sequence
          /\ s.depth = v.thread_states[t].depth /\ s.since = v.thread_states[t].since
        BY <1>1 DEF ThreadState
    <1>3. CASE m = None \/ v.thread_states[t].waiting_mutex # m
        BY <1>3 DEF ClearThreadWaiting, Kept, Others
    <1>4. CASE ~(m = None \/ v.thread_states[t].waiting_mutex # m)
        <2>1. /\ w.thread_states = [v.thread_states EXCEPT ![t] = s]
              /\ Counts(w) = Counts(v)
            BY <1>4 DEF ClearThreadWaiting, VerifierState, Counts
        <2> HIDE DEF s, w
        <2>2. w.thread_states[t] = s /\ Others(v, w, t)
            BY <2>1, EntryReplaced
        <2>3. Kept(v, w, t)
            BY <1>2, <2>1, <2>2 DEF Kept
        <2> QED
            BY <2>3 DEF w
    <1> QED
        BY <1>3, <1>4

LEMMA ChangeExitedKeeps ==
    ASSUME NEW v \in VerifierState, NEW t \in Thread, NEW b
    PROVE  Kept(v, [v EXCEPT !.thread_states[t].exited = b], t)
    <1> DEFINE s == [v.thread_states[t] EXCEPT !.exited = b]
               w == [v EXCEPT !.thread_states[t].exited = b]
    <1>1. v.thread_states[t] \in ThreadState
        BY ThreadFields
    <1>2. /\ s.slot = v.thread_states[t].slot
          /\ s.trace_tainted = v.thread_states[t].trace_tainted
          /\ s.next_expected_sequence = v.thread_states[t].next_expected_sequence
          /\ s.depth = v.thread_states[t].depth /\ s.since = v.thread_states[t].since
        BY <1>1 DEF ThreadState
    <1>3. /\ w.thread_states = [v.thread_states EXCEPT ![t] = s]
          /\ Counts(w) = Counts(v)
        BY DEF VerifierState, Counts
    <1> HIDE DEF s, w
    <1>4. w.thread_states[t] = s /\ Others(v, w, t)
        BY <1>3, EntryReplaced
    <1>5. Kept(v, w, t)
        BY <1>2, <1>3, <1>4 DEF Kept
    <1> QED
        BY <1>5 DEF w

\* The reports that a handler makes between v and w are real.
ReportsReal(v, w, e) ==
    /\ w.self_deadlock_candidates > v.self_deadlock_candidates
         => e.really_held[e.object] > 0
    /\ w.lock_held_at_exit_violations > v.lock_held_at_exit_violations
         => \E m \in Mutex : e.really_held[m] > 0
    /\ w.hold_time_violations > v.hold_time_violations
         => e.timestamp - e.times[e.object].acquired > MaxHold

\* What a handler does to the entry of the event's thread.
Handled(v, w, e) ==
    LET t == e.thread_id
        s == v.thread_states[t]
        r == w.thread_states[t] IN
    /\ r.slot = s.slot /\ r.trace_tainted = s.trace_tainted
    /\ r.next_expected_sequence = s.next_expected_sequence
    /\ Others(v, w, t)
    /\ s.trace_tainted => Counts(w) = Counts(v)
    /\ ~s.trace_tainted /\ Bounded(s, ViewBefore(e)) =>
          Bounded(r, ViewAfter(e)) /\ ReportsReal(v, w, e)

\* The counters are numbers.
LEMMA CountFields ==
    ASSUME NEW v \in VerifierState
    PROVE  /\ v.self_deadlock_candidates \in Nat
           /\ v.lock_held_at_exit_violations \in Nat
           /\ v.hold_time_violations \in Nat
    BY DEF VerifierState

LEMMA NothingReported ==
    ASSUME NEW v \in VerifierState, NEW w, NEW e, Counts(w) = Counts(v)
    PROVE  ReportsReal(v, w, e)
    BY CountFields DEF Counts, ReportsReal

LEMMA EventFields ==
    ASSUME NEW e \in MonitorEvent
    PROVE  /\ e.thread_id \in Thread /\ e.timestamp \in Nat
           /\ e.sequence_id \in Nat /\ e.thread_sequence \in Nat
           /\ e.really_held \in [Mutex -> Nat]
           /\ \A m \in Mutex : e.times[m].acquired \in Nat
           /\ e.event_type \in LifecycleEvent \cup MutexEvent
           /\ e.event_type \in MutexEvent => e.object \in Mutex
           /\ WellFormed(e)
    <1>1. e.times \in [Mutex -> Times]
        BY DEF MonitorEvent
    <1>2. \A m \in Mutex : e.times[m].acquired \in Nat
        BY <1>1 DEF Times
    <1> QED
        BY <1>2 DEF MonitorEvent, WellFormed

\* The views around an event.
LEMMA Views ==
    ASSUME NEW e \in MonitorEvent, NEW m \in Mutex
    PROVE  /\ ViewAfter(e).held[m] = e.really_held[m]
           /\ ViewBefore(e).acquired[m] = e.times[m].acquired
           /\ ViewAfter(e).acquired[m] =
                IF e.event_type = "LOCK_ACQUIRED" /\ e.object = m /\ e.really_held[m] = 1
                THEN e.timestamp ELSE e.times[m].acquired
           /\ ViewBefore(e).held[m] =
                IF e.event_type = "LOCK_ACQUIRED" /\ e.object = m
                THEN e.really_held[m] - 1
                ELSE IF e.event_type = "UNLOCKED" /\ e.object = m
                THEN e.really_held[m] + 1
                ELSE e.really_held[m]
    BY DEF ViewAfter, ViewBefore

\* An entry that is not changed stays bounded, except by the unlock of a mutex.
LEMMA StaysBounded ==
    ASSUME NEW e \in MonitorEvent, NEW s, s.depth \in [Mutex -> Nat],
           s.since \in [Mutex -> Nat], Bounded(s, ViewBefore(e)),
           NEW m \in Mutex,
           e.event_type = "UNLOCKED" /\ e.object = m => s.depth[m] = 0
    PROVE  /\ s.depth[m] <= ViewAfter(e).held[m]
           /\ s.depth[m] > 0 => ViewAfter(e).acquired[m] <= s.since[m]
    <1>1. /\ s.depth[m] <= ViewBefore(e).held[m]
          /\ s.depth[m] > 0 => ViewBefore(e).acquired[m] <= s.since[m]
        BY DEF Bounded
    <1>2. /\ s.depth[m] \in Nat /\ s.since[m] \in Nat /\ e.really_held[m] \in Nat
          /\ e.timestamp \in Nat
        BY EventFields
    <1>3. CASE e.event_type = "LOCK_ACQUIRED" /\ e.object = m
        BY <1>1, <1>2, <1>3, Views
    <1>4. CASE ~(e.event_type = "LOCK_ACQUIRED" /\ e.object = m)
        BY <1>1, <1>2, <1>4, Views
    <1> QED
        BY <1>3, <1>4

LEMMA KeptHandled ==
    ASSUME NEW v \in VerifierState, NEW w, NEW e \in MonitorEvent,
           Kept(v, w, e.thread_id), e.event_type # "UNLOCKED"
    PROVE  Handled(v, w, e)
    <1> DEFINE t == e.thread_id
               s == v.thread_states[t]
               r == w.thread_states[t]
    <1>1. t \in Thread
        BY EventFields
    <1>2. s.depth \in [Mutex -> Nat] /\ s.since \in [Mutex -> Nat]
        BY <1>1, ThreadFields
    <1>3. r.depth = s.depth /\ r.since = s.since /\ Counts(w) = Counts(v)
        BY DEF Kept
    <1>4. ASSUME Bounded(s, ViewBefore(e)) PROVE Bounded(r, ViewAfter(e))
        <2> HIDE DEF s, r
        <2> SUFFICES ASSUME NEW m \in Mutex
                     PROVE  /\ r.depth[m] <= ViewAfter(e).held[m]
                            /\ r.depth[m] > 0 => ViewAfter(e).acquired[m] <= r.since[m]
            BY DEF Bounded
        <2> QED
            BY <1>2, <1>3, <1>4, StaysBounded
    <1>5. ReportsReal(v, w, e)
        BY <1>3, NothingReported
    <1> QED
        BY <1>3, <1>4, <1>5 DEF Handled, Kept

LEMMA HandledThenKept ==
    ASSUME NEW v, NEW w, NEW x, NEW e, Handled(v, w, e), Kept(w, x, e.thread_id)
    PROVE  Handled(v, x, e)
    <1> DEFINE t == e.thread_id
    <1>1. /\ Counts(x) = Counts(w) /\ Others(w, x, t)
          /\ x.thread_states[t].slot = w.thread_states[t].slot
          /\ x.thread_states[t].trace_tainted = w.thread_states[t].trace_tainted
          /\ x.thread_states[t].next_expected_sequence
               = w.thread_states[t].next_expected_sequence
          /\ x.thread_states[t].depth = w.thread_states[t].depth
          /\ x.thread_states[t].since = w.thread_states[t].since
        BY DEF Kept
    <1>2. Others(v, w, t) => Others(v, x, t)
        BY <1>1 DEF Others
    <1>3. ReportsReal(v, w, e) => ReportsReal(v, x, e)
        BY <1>1 DEF Counts, ReportsReal
    <1>4. Bounded(w.thread_states[t], ViewAfter(e))
            => Bounded(x.thread_states[t], ViewAfter(e))
        BY <1>1 DEF Bounded
    <1> QED
        BY <1>1, <1>2, <1>3, <1>4 DEF Handled

LEMMA KeptThenHandled ==
    ASSUME NEW v, NEW w, NEW x, NEW e, Kept(v, w, e.thread_id), Handled(w, x, e)
    PROVE  Handled(v, x, e)
    <1> DEFINE t == e.thread_id
    <1>1. /\ Counts(w) = Counts(v) /\ Others(v, w, t)
          /\ w.thread_states[t].slot = v.thread_states[t].slot
          /\ w.thread_states[t].trace_tainted = v.thread_states[t].trace_tainted
          /\ w.thread_states[t].next_expected_sequence
               = v.thread_states[t].next_expected_sequence
          /\ w.thread_states[t].depth = v.thread_states[t].depth
          /\ w.thread_states[t].since = v.thread_states[t].since
        BY DEF Kept
    <1>2. Others(w, x, t) => Others(v, x, t)
        BY <1>1 DEF Others
    <1>3. ReportsReal(w, x, e) => ReportsReal(v, x, e)
        BY <1>1 DEF Counts, ReportsReal
    <1>4. Bounded(v.thread_states[t], ViewBefore(e))
            => Bounded(w.thread_states[t], ViewBefore(e))
        BY <1>1 DEF Bounded
    <1> QED
        BY <1>1, <1>2, <1>3, <1>4 DEF Handled

\* One entry of the thread table has a new depth, and perhaps a new time.
DepthChange(v, w, t, m, n, k) ==
    /\ w.thread_states[t].slot = v.thread_states[t].slot
    /\ w.thread_states[t].trace_tainted = v.thread_states[t].trace_tainted
    /\ w.thread_states[t].next_expected_sequence
         = v.thread_states[t].next_expected_sequence
    /\ w.thread_states[t].depth = [v.thread_states[t].depth EXCEPT ![m] = n]
    /\ w.thread_states[t].since = [v.thread_states[t].since EXCEPT ![m] = k]
    /\ Others(v, w, t) /\ Counts(w) = Counts(v)

LEMMA DepthSet ==
    ASSUME NEW v \in VerifierState, NEW t \in Thread, NEW m \in Mutex, NEW n
    PROVE  DepthChange(v, [v EXCEPT !.thread_states[t].depth[m] = n], t, m, n,
                       v.thread_states[t].since[m])
    <1> DEFINE d == [v.thread_states[t].depth EXCEPT ![m] = n]
               i == [v.thread_states[t].since EXCEPT ![m] = v.thread_states[t].since[m]]
               s == [v.thread_states[t] EXCEPT !.depth = d]
               w == [v EXCEPT !.thread_states[t].depth[m] = n]
    <1>1. v.thread_states[t] \in ThreadState
        BY ThreadFields
    <1>2. i = v.thread_states[t].since
        BY <1>1 DEF ThreadState
    <1>3. w.thread_states = [v.thread_states EXCEPT ![t] = s] /\ Counts(w) = Counts(v)
        BY DEF VerifierState, Counts
    <1> HIDE DEF d, i
    <1>4. /\ s.slot = v.thread_states[t].slot
          /\ s.trace_tainted = v.thread_states[t].trace_tainted
          /\ s.next_expected_sequence = v.thread_states[t].next_expected_sequence
          /\ s.depth = d /\ s.since = i
        BY <1>1, <1>2 DEF ThreadState
    <1> HIDE DEF s, w
    <1>5. w.thread_states[t] = s /\ Others(v, w, t)
        BY <1>3, EntryReplaced
    <1>6. DepthChange(v, w, t, m, n, v.thread_states[t].since[m])
        BY <1>3, <1>4, <1>5 DEF DepthChange, d, i
    <1> QED
        BY <1>6 DEF w

LEMMA DepthAndTimeSet ==
    ASSUME NEW v \in VerifierState, NEW t \in Thread, NEW m \in Mutex, NEW n, NEW k
    PROVE  DepthChange(v, [v EXCEPT !.thread_states[t] =
                             [@ EXCEPT !.depth[m] = n, !.since[m] = k]], t, m, n, k)
    <1> DEFINE d == [v.thread_states[t].depth EXCEPT ![m] = n]
               i == [v.thread_states[t].since EXCEPT ![m] = k]
               s == [v.thread_states[t] EXCEPT !.depth = d, !.since = i]
               w == [v EXCEPT !.thread_states[t] =
                       [@ EXCEPT !.depth[m] = n, !.since[m] = k]]
    <1>1. v.thread_states[t] \in ThreadState
        BY ThreadFields
    <1>2. w.thread_states = [v.thread_states EXCEPT ![t] = s] /\ Counts(w) = Counts(v)
        BY DEF VerifierState, Counts
    <1> HIDE DEF d, i
    <1>3. /\ s.slot = v.thread_states[t].slot
          /\ s.trace_tainted = v.thread_states[t].trace_tainted
          /\ s.next_expected_sequence = v.thread_states[t].next_expected_sequence
          /\ s.depth = d /\ s.since = i
        BY <1>1 DEF ThreadState
    <1> HIDE DEF s, w
    <1>4. w.thread_states[t] = s /\ Others(v, w, t)
        BY <1>2, EntryReplaced
    <1>5. DepthChange(v, w, t, m, n, k)
        BY <1>2, <1>3, <1>4 DEF DepthChange, d, i
    <1> QED
        BY <1>5 DEF w

\* add_held_mutex records a mutex that the thread has just acquired.
LEMMA AddHeldHandled ==
    ASSUME NEW v \in VerifierState, NEW e \in MonitorEvent, Plausible(e),
           e.event_type = "LOCK_ACQUIRED"
    PROVE  Handled(v, AddHeldMutex(v, e), e)
    <1> DEFINE t == e.thread_id
               m == e.object
               s == v.thread_states[t]
               n == s.depth[m] + 1
               w == AddHeldMutex(v, e)
               r == w.thread_states[t]
    <1>1. t \in Thread /\ m \in Mutex
        BY EventFields DEF MutexEvent
    <1>2. s.depth \in [Mutex -> Nat] /\ s.since \in [Mutex -> Nat]
        BY <1>1, ThreadFields
    <1>3. ASSUME Counts(w) = Counts(v), w.thread_states = v.thread_states
          PROVE  Handled(v, w, e)
        <2>1. Kept(v, w, t)
            BY <1>3, TableKept
        <2> HIDE DEF w
        <2> QED
            BY <2>1, KeptHandled
    <1>4. ASSUME NEW j \in Nat, NEW k \in Nat, j = n,
                 s.depth[m] = 0 => k = e.timestamp, s.depth[m] > 0 => k = s.since[m],
                 DepthChange(v, w, t, m, j, k)
          PROVE  Handled(v, w, e)
        <2>0. /\ r.slot = s.slot /\ r.trace_tainted = s.trace_tainted
              /\ r.next_expected_sequence = s.next_expected_sequence
              /\ r.depth = [s.depth EXCEPT ![m] = j]
              /\ r.since = [s.since EXCEPT ![m] = k]
              /\ Others(v, w, t) /\ Counts(w) = Counts(v)
            BY <1>4 DEF DepthChange
        <2>1. ReportsReal(v, w, e)
            BY <2>0, NothingReported
        <2>2. ASSUME Bounded(s, ViewBefore(e)) PROVE Bounded(r, ViewAfter(e))
            <3> HIDE DEF s, r
            <3> SUFFICES ASSUME NEW q \in Mutex
                         PROVE  /\ r.depth[q] <= ViewAfter(e).held[q]
                                /\ r.depth[q] > 0
                                     => ViewAfter(e).acquired[q] <= r.since[q]
                BY DEF Bounded
            <3>1. CASE q # m
                <4>1. r.depth[q] = s.depth[q] /\ r.since[q] = s.since[q]
                    BY <1>2, <2>0, <3>1
                <4> QED
                    BY <1>2, <2>2, <4>1, StaysBounded
            <3>2. CASE q = m
                <4>1. r.depth[m] = s.depth[m] + 1 /\ r.since[m] = k
                    BY <1>1, <1>2, <1>4, <2>0
                <4>2. /\ s.depth[m] <= ViewBefore(e).held[m]
                      /\ s.depth[m] > 0 => ViewBefore(e).acquired[m] <= s.since[m]
                    BY <1>1, <2>2 DEF Bounded
                <4>3. /\ s.depth[m] \in Nat /\ s.since[m] \in Nat
                      /\ e.really_held[m] \in Nat /\ e.timestamp \in Nat
                      /\ e.times[m].acquired \in Nat /\ e.times[m].acquired <= e.timestamp
                    BY <1>1, <1>2, EventFields DEF Plausible
                <4>4. s.depth[m] <= e.really_held[m] - 1
                    BY <1>1, <4>2, Views
                <4>5. r.depth[m] <= ViewAfter(e).held[m]
                    BY <1>1, <4>1, <4>3, <4>4, Views
                <4>6. ViewAfter(e).acquired[m] <= r.since[m]
                    BY <1>1, <1>4, <4>1, <4>2, <4>3, <4>4, Views
                <4> QED
                    BY <3>2, <4>5, <4>6
            <3> QED
                BY <3>1, <3>2
        <2> QED
            BY <2>0, <2>1, <2>2 DEF Handled
    <1>5. CASE s.trace_tainted
        BY <1>3, <1>5 DEF AddHeldMutex
    <1>6. CASE ~s.trace_tainted /\ m \in HeldMutexes(v, t)
        <2>1. n \in Nat /\ s.since[m] \in Nat /\ s.depth[m] > 0
            BY <1>1, <1>2, <1>6 DEF HeldMutexes
        <2>2. w = [v EXCEPT !.thread_states[t].depth[m] = n]
            BY <1>6 DEF AddHeldMutex
        <2>3. DepthChange(v, w, t, m, n, s.since[m])
            <3> HIDE DEF w, n
            <3> QED
                BY <1>1, <2>2, DepthSet
        <2> QED
            BY <1>4, <2>1, <2>3
    <1>7. CASE /\ ~s.trace_tainted /\ m \notin HeldMutexes(v, t)
               /\ Cardinality(HeldMutexes(v, t)) >= VerifierHeld
        <2>1. w = [v EXCEPT !.state_overflow_events = @ + 1]
            BY <1>7 DEF AddHeldMutex
        <2>2. w.thread_states = v.thread_states /\ Counts(w) = Counts(v)
            BY <2>1 DEF VerifierState, Counts
        <2> QED
            BY <1>3, <2>2
    <1>8. CASE /\ ~s.trace_tainted /\ m \notin HeldMutexes(v, t)
               /\ ~(Cardinality(HeldMutexes(v, t)) >= VerifierHeld)
        <2>1. s.depth[m] = 0
            BY <1>1, <1>2, <1>8 DEF HeldMutexes
        <2>2. n = 1 /\ 1 \in Nat /\ e.timestamp \in Nat
            BY <2>1, EventFields
        <2>3. w = [v EXCEPT !.thread_states[t] =
                     [@ EXCEPT !.depth[m] = 1, !.since[m] = e.timestamp]]
            BY <1>8 DEF AddHeldMutex
        <2>4. DepthChange(v, w, t, m, 1, e.timestamp)
            <3> HIDE DEF w
            <3> QED
                BY <1>1, <2>3, DepthAndTimeSet
        <2> QED
            BY <1>4, <2>1, <2>2, <2>4
    <1> QED
        BY <1>5, <1>6, <1>7, <1>8

\* release_held_mutex forgets a mutex that the thread has just given up, and reports a
\* hold time no longer than the one between the stamps.
LEMMA ReleaseHeldHandled ==
    ASSUME NEW v \in VerifierState, NEW e \in MonitorEvent, e.event_type = "UNLOCKED"
    PROVE  Handled(v, ReleaseHeldMutex(v, e), e)
    <1> DEFINE t == e.thread_id
               m == e.object
               s == v.thread_states[t]
               n == s.depth[m] - 1
               w == ReleaseHeldMutex(v, e)
               r == w.thread_states[t]
    <1>1. t \in Thread /\ m \in Mutex
        BY EventFields DEF MutexEvent
    <1>2. s.depth \in [Mutex -> Nat] /\ s.since \in [Mutex -> Nat]
        BY <1>1, ThreadFields
    <1>3. ASSUME w = v, s.trace_tainted \/ s.depth[m] = 0
          PROVE  Handled(v, w, e)
        <2>1. ASSUME ~s.trace_tainted, Bounded(s, ViewBefore(e))
              PROVE  Bounded(s, ViewAfter(e))
            <3>1. s.depth[m] = 0
                BY <1>3, <2>1
            <3> HIDE DEF s
            <3> SUFFICES ASSUME NEW q \in Mutex
                         PROVE  /\ s.depth[q] <= ViewAfter(e).held[q]
                                /\ s.depth[q] > 0
                                     => ViewAfter(e).acquired[q] <= s.since[q]
                BY DEF Bounded
            <3> QED
                BY <1>2, <2>1, <3>1, StaysBounded
        <2>2. ReportsReal(v, v, e)
            BY NothingReported
        <2> QED
            BY <1>3, <2>1, <2>2 DEF Handled, Others
    <1>4. ASSUME NEW x \in VerifierState, x.thread_states = v.thread_states,
                 NEW j \in Nat, NEW k \in Nat, s.depth[m] > 0, j = n,
                 j > 0 => k = s.since[m], ~s.trace_tainted,
                 DepthChange(x, w, t, m, j, k),
                 Bounded(s, ViewBefore(e)) => ReportsReal(v, x, e)
          PROVE  Handled(v, w, e)
        <2>0. /\ r.slot = s.slot /\ r.trace_tainted = s.trace_tainted
              /\ r.next_expected_sequence = s.next_expected_sequence
              /\ r.depth = [s.depth EXCEPT ![m] = j]
              /\ r.since = [s.since EXCEPT ![m] = k]
              /\ Others(v, w, t) /\ Counts(w) = Counts(x)
            BY <1>4 DEF DepthChange, Others
        <2>1. Bounded(s, ViewBefore(e)) => ReportsReal(v, w, e)
            BY <1>4, <2>0 DEF ReportsReal, Counts
        <2>2. ASSUME Bounded(s, ViewBefore(e)) PROVE Bounded(r, ViewAfter(e))
            <3> HIDE DEF s, r
            <3> SUFFICES ASSUME NEW q \in Mutex
                         PROVE  /\ r.depth[q] <= ViewAfter(e).held[q]
                                /\ r.depth[q] > 0
                                     => ViewAfter(e).acquired[q] <= r.since[q]
                BY DEF Bounded
            <3>1. CASE q # m
                <4>1. r.depth[q] = s.depth[q] /\ r.since[q] = s.since[q]
                    BY <1>2, <2>0, <3>1
                <4> QED
                    BY <1>2, <2>2, <3>1, <4>1, StaysBounded
            <3>2. CASE q = m
                <4>1. r.depth[m] = s.depth[m] - 1 /\ r.since[m] = k
                    BY <1>1, <1>2, <1>4, <2>0
                <4>2. /\ s.depth[m] <= ViewBefore(e).held[m]
                      /\ s.depth[m] > 0 => ViewBefore(e).acquired[m] <= s.since[m]
                    BY <1>1, <2>2 DEF Bounded
                <4>3. /\ s.depth[m] \in Nat /\ s.since[m] \in Nat
                      /\ e.really_held[m] \in Nat
                    BY <1>1, <1>2, EventFields
                <4>4. s.depth[m] <= e.really_held[m] + 1
                    BY <1>1, <4>2, Views
                <4>5. r.depth[m] <= ViewAfter(e).held[m]
                    BY <1>1, <4>1, <4>3, <4>4, Views
                <4>6. r.depth[m] > 0 => ViewAfter(e).acquired[m] <= r.since[m]
                    BY <1>1, <1>4, <4>1, <4>2, <4>3, Views
                <4> QED
                    BY <3>2, <4>5, <4>6
            <3> QED
                BY <3>1, <3>2
        <2> QED
            BY <1>4, <2>0, <2>1, <2>2 DEF Handled
    <1>5. CASE s.trace_tainted \/ m \notin HeldMutexes(v, t)
        <2>1. s.trace_tainted \/ s.depth[m] = 0
            BY <1>1, <1>2, <1>5 DEF HeldMutexes
        <2>2. w = v
            BY <1>5 DEF ReleaseHeldMutex
        <2> QED
            BY <1>3, <2>1, <2>2
    <1>6. CASE ~s.trace_tainted /\ m \in HeldMutexes(v, t) /\ s.depth[m] > 1
        <2>1. n \in Nat /\ s.since[m] \in Nat /\ s.depth[m] > 0 /\ n > 0
            BY <1>1, <1>2, <1>6
        <2>2. w = [v EXCEPT !.thread_states[t].depth[m] = n]
            BY <1>6 DEF ReleaseHeldMutex
        <2>3. DepthChange(v, w, t, m, n, s.since[m])
            <3> HIDE DEF w, n
            <3> QED
                BY <1>1, <2>2, DepthSet
        <2>4. ReportsReal(v, v, e)
            BY NothingReported
        <2> QED
            BY <1>4, <1>6, <2>1, <2>3, <2>4
    <1>7. CASE ~s.trace_tainted /\ m \in HeldMutexes(v, t) /\ ~(s.depth[m] > 1)
        <2> DEFINE x == IF HeldTooLong(v, e) THEN ReportHoldTimeViolation(v) ELSE v
        <2>1. s.depth[m] = 1 /\ n = 0 /\ 0 \in Nat
            BY <1>1, <1>2, <1>7 DEF HeldMutexes
        <2>2. /\ x \in VerifierState /\ x.thread_states = v.thread_states
              /\ x.self_deadlock_candidates = v.self_deadlock_candidates
              /\ x.lock_held_at_exit_violations = v.lock_held_at_exit_violations
              /\ ~HeldTooLong(v, e) => x.hold_time_violations = v.hold_time_violations
            <3>1. CASE HeldTooLong(v, e)
                <4> DEFINE y == v.hold_time_violations + 1
                <4>1. y \in Nat
                    BY CountFields
                <4>2. x = [v EXCEPT !.hold_time_violations = y]
                    BY <3>1 DEF ReportHoldTimeViolation
                <4> HIDE DEF y
                <4> QED
                    BY <3>1, <4>1, <4>2 DEF VerifierState
            <3>2. CASE ~HeldTooLong(v, e)
                BY <3>2
            <3> QED
                BY <3>1, <3>2
        <2>3. w = [x EXCEPT !.thread_states[t] = [@ EXCEPT !.depth[m] = 0, !.since[m] = 0]]
            BY <1>7 DEF ReleaseHeldMutex
        <2>4. DepthChange(x, w, t, m, 0, 0)
            <3> HIDE DEF w, x
            <3> QED
                BY <1>1, <2>2, <2>3, DepthAndTimeSet
        <2>5. ASSUME Bounded(s, ViewBefore(e)) PROVE ReportsReal(v, x, e)
            <3>1. /\ s.since[m] \in Nat /\ e.timestamp \in Nat
                  /\ e.times[m].acquired \in Nat /\ MaxHold \in Nat
                BY <1>1, <1>2, EventFields, VerifierAssumption DEF MaxHold
            <3>2. e.times[m].acquired <= s.since[m]
                BY <1>1, <2>1, <2>5, Views DEF Bounded
            <3>3. HeldTooLong(v, e) => e.timestamp - e.times[m].acquired > MaxHold
                BY <3>1, <3>2 DEF HeldTooLong
            <3> HIDE DEF x
            <3> QED
                BY <2>2, <3>3, CountFields DEF ReportsReal
        <2> HIDE DEF x
        <2> QED
            BY <1>4, <1>7, <2>1, <2>2, <2>4, <2>5
    <1> QED
        BY <1>5, <1>6, <1>7

\* monitor_verifier_process_event, from the handler on.
LEMMA HandleHandled ==
    ASSUME NEW v, Consistent(v), NEW e \in MonitorEvent, Plausible(e)
    PROVE  Handled(v, Handle(v, e), e)
    <1> DEFINE t == e.thread_id
               m == e.object
               s == v.thread_states[t]
    <1>0. /\ v \in VerifierState /\ t \in Thread /\ WellFormed(e)
          /\ e.sequence_id \in Nat /\ e.timestamp \in Nat
        BY EventFields DEF Consistent
    <1>1. s.waiting_mutex \in Mutex \cup {None} /\ s.depth \in [Mutex -> Nat]
        BY <1>0, ThreadFields
    <1>2. CASE e.event_type = "THREAD_START"
        <2>1. Kept(v, HandleThreadStart(v, e), t)
            BY <1>0, ChangeExitedKeeps DEF HandleThreadStart
        <2>2. Handled(v, HandleThreadStart(v, e), e)
            BY <1>0, <1>2, <2>1, KeptHandled
        <2> QED
            BY <1>2, <2>2 DEF Handle
    <1>3. CASE e.event_type = "THREAD_EXIT"
        <2> DEFINE held == ~s.trace_tainted /\ HeldMutexes(v, t) # {}
                   w == IF held THEN ReportLockHeldAtThreadExit(v) ELSE v
                   c == ClearThreadWaiting(w, t, s.waiting_mutex)
                   x == [c EXCEPT !.thread_states[t].exited = TRUE]
        <2>1. Consistent(w)
            BY Counters
        <2>2. Handled(v, w, e)
            <3>1. CASE held
                <4>1. w = [v EXCEPT !.lock_held_at_exit_violations = @ + 1]
                    BY <3>1 DEF ReportLockHeldAtThreadExit
                <4>2. /\ w.thread_states = v.thread_states
                      /\ w.self_deadlock_candidates = v.self_deadlock_candidates
                      /\ w.hold_time_violations = v.hold_time_violations
                    BY <1>0, <4>1 DEF VerifierState
                <4>3. ASSUME Bounded(s, ViewBefore(e))
                      PROVE  Bounded(s, ViewAfter(e)) /\ \E q \in Mutex : e.really_held[q] > 0
                    <5>1. PICK q \in Mutex : s.depth[q] > 0
                        BY <3>1 DEF HeldMutexes
                    <5>2. s.depth[q] <= ViewBefore(e).held[q] /\ s.depth[q] \in Nat
                        BY <1>1, <4>3 DEF Bounded
                    <5>3. e.really_held[q] > 0
                        BY <1>3, <5>1, <5>2, Views, EventFields
                    <5>4. ViewAfter(e).held[q] = ViewBefore(e).held[q]
                        BY <1>3, Views
                    <5>5. Bounded(s, ViewAfter(e))
                        BY <1>3, <4>3, Views DEF Bounded
                    <5> QED
                        BY <5>3, <5>5
                <4> HIDE DEF w
                <4> QED
                    BY <1>0, <3>1, <4>2, <4>3, CountFields DEF Handled, Others, ReportsReal
            <3>2. CASE ~held
                <4>1. Kept(v, v, t)
                    BY DEF Kept, Others
                <4> QED
                    BY <1>0, <1>3, <3>2, <4>1, KeptHandled
            <3> QED
                BY <3>1, <3>2
        <2> HIDE DEF w
        <2>3. Consistent(c) /\ Kept(w, c, t)
            BY <1>0, <1>1, <2>1, ClearWaiting, ClearWaitingKeeps DEF Consistent
        <2> HIDE DEF c
        <2>4. Kept(c, x, t)
            BY <1>0, <2>3, ChangeExitedKeeps DEF Consistent
        <2>5. Handled(v, x, e)
            BY <2>2, <2>3, <2>4, HandledThenKept
        <2>6. x = HandleThreadExit(v, e)
            BY DEF HandleThreadExit, w, c
        <2> QED
            BY <1>3, <2>5, <2>6 DEF Handle
    <1>4. CASE e.event_type = "LOCK_REQUEST"
        <2> DEFINE f == FindOrCreateMutex(v, m)
                   self == ~s.trace_tainted /\ m \in HeldMutexes(v, t)
                   w == IF self THEN ReportSelfDeadlockCandidate(f) ELSE f
                   x == SetThreadWaiting(w, t, m)
        <2>0. m \in Mutex
            BY <1>4, EventFields DEF MutexEvent
        <2>1. Consistent(f) /\ Kept(v, f, t)
            BY <1>0, <2>0, FindMutex, FindMutexKeeps
        <2> HIDE DEF f
        <2>2. Consistent(w)
            BY <2>1, Counters
        <2>3. Handled(f, w, e)
            <3>1. CASE self
                <4>1. w = [f EXCEPT !.self_deadlock_candidates = @ + 1]
                    BY <3>1 DEF ReportSelfDeadlockCandidate
                <4>2. /\ w.thread_states = f.thread_states
                      /\ w.lock_held_at_exit_violations = f.lock_held_at_exit_violations
                      /\ w.hold_time_violations = f.hold_time_violations
                      /\ f \in VerifierState
                    BY <2>1, <4>1 DEF VerifierState, Consistent
                <4>3. /\ f.thread_states[t].depth = s.depth
                      /\ f.thread_states[t].trace_tainted = s.trace_tainted
                    BY <2>1 DEF Kept
                <4>4. ASSUME Bounded(f.thread_states[t], ViewBefore(e))
                      PROVE  /\ Bounded(f.thread_states[t], ViewAfter(e))
                             /\ e.really_held[m] > 0
                    <5>1. s.depth[m] > 0
                        BY <3>1 DEF HeldMutexes
                    <5>2. s.depth[m] <= ViewBefore(e).held[m] /\ s.depth[m] \in Nat
                        BY <1>1, <2>0, <4>3, <4>4 DEF Bounded
                    <5>3. e.really_held[m] > 0
                        BY <1>4, <2>0, <5>1, <5>2, Views, EventFields
                    <5>5. Bounded(f.thread_states[t], ViewAfter(e))
                        BY <1>4, <4>4, Views DEF Bounded
                    <5> QED
                        BY <5>3, <5>5
                <4> HIDE DEF w
                <4> QED
                    BY <3>1, <4>2, <4>3, <4>4, CountFields DEF Handled, Others, ReportsReal
            <3>2. CASE ~self
                <4>1. Kept(f, f, t) /\ f \in VerifierState
                    BY <2>1 DEF Kept, Others, Consistent
                <4> QED
                    BY <1>4, <3>2, <4>1, KeptHandled
            <3> QED
                BY <3>1, <3>2
        <2> HIDE DEF w
        <2>4. Kept(w, x, t)
            BY <1>0, <2>2, SetWaitingKeeps DEF Consistent
        <2>5. Handled(v, x, e)
            BY <2>1, <2>3, <2>4, KeptThenHandled, HandledThenKept
        <2>6. x = HandleLockRequest(v, e)
            BY DEF HandleLockRequest, f, w
        <2> QED
            BY <1>4, <2>5, <2>6 DEF Handle
    <1>5. CASE e.event_type = "LOCK_ACQUIRED"
        <2> DEFINE f == FindOrCreateMutex(v, m)
                   c == ClearThreadWaiting(f, t, m)
                   w == AddHeldMutex(c, e)
                   x == SetOwner(w, e, t)
        <2>0. m \in Mutex
            BY <1>5, EventFields DEF MutexEvent
        <2>1. Consistent(f) /\ Kept(v, f, t)
            BY <1>0, <2>0, FindMutex, FindMutexKeeps
        <2> HIDE DEF f
        <2>2. Consistent(c) /\ Kept(f, c, t)
            BY <1>0, <2>0, <2>1, ClearWaiting, ClearWaitingKeeps DEF Consistent
        <2> HIDE DEF c
        <2>3. Consistent(w) /\ Handled(c, w, e)
            BY <1>0, <1>5, <2>0, <2>2, AddHeld, AddHeldHandled DEF Consistent
        <2> HIDE DEF w
        <2>4. Kept(w, x, t)
            BY <2>3, SetOwnerKeeps DEF Consistent
        <2>5. Handled(v, x, e)
            BY <2>1, <2>2, <2>3, <2>4, KeptThenHandled, HandledThenKept
        <2>6. Handled(v, f, e)
            BY <1>0, <1>5, <2>1, KeptHandled
        <2>7. HandleLockAcquired(v, e) \in {f, x}
            BY DEF HandleLockAcquired, f, c, w
        <2> QED
            BY <1>5, <2>5, <2>6, <2>7 DEF Handle
    <1>6. CASE e.event_type = "LOCK_FAILED"
        <2>1. Kept(v, HandleLockFailed(v, e), t)
            BY <1>0, ClearWaitingKeeps DEF HandleLockFailed
        <2>2. Handled(v, HandleLockFailed(v, e), e)
            BY <1>0, <1>6, <2>1, KeptHandled
        <2> QED
            BY <1>6, <2>2 DEF Handle
    <1>7. CASE e.event_type = "UNLOCKED"
        <2> DEFINE f == FindOrCreateMutex(v, m)
                   w == ReleaseHeldMutex(f, e)
                   owner == IF FullyReleased(v, e) THEN None ELSE t
                   x == SetOwner(w, e, owner)
        <2>0. m \in Mutex
            BY <1>7, EventFields DEF MutexEvent
        <2>1. Consistent(f) /\ Kept(v, f, t)
            BY <1>0, <2>0, FindMutex, FindMutexKeeps
        <2> HIDE DEF f
        <2>2. Consistent(w) /\ Handled(f, w, e)
            BY <1>0, <1>7, <2>0, <2>1, ReleaseHeld, ReleaseHeldHandled DEF Consistent
        <2> HIDE DEF w, owner
        <2>3. Kept(w, x, t)
            BY <2>2, SetOwnerKeeps DEF Consistent
        <2>4. Handled(v, w, e) /\ Handled(v, x, e)
            BY <2>1, <2>2, <2>3, KeptThenHandled, HandledThenKept
        <2>5. HandleUnlocked(v, e) \in {w, x}
            BY DEF HandleUnlocked, f, w, owner
        <2> QED
            BY <1>7, <2>4, <2>5 DEF Handle
    <1>8. CASE e.event_type = "UNLOCK_FAILED"
        <2> DEFINE w == HandleUnlockFailed(v, e)
        <2>1. w.thread_states = v.thread_states /\ Counts(w) = Counts(v)
            BY <1>0 DEF HandleUnlockFailed, ReportNonOwnerUnlock, VerifierState, Counts
        <2> HIDE DEF w
        <2>2. Handled(v, w, e)
            BY <1>0, <1>8, <2>1, TableKept, KeptHandled
        <2> QED
            BY <1>8, <2>2 DEF Handle, w
    <1> QED
        BY <1>0, <1>2, <1>3, <1>4, <1>5, <1>6, <1>7, <1>8 DEF WellFormed, LifecycleEvent,
           MutexEvent

\* find_thread(id, true) gives the thread a slot unless the table is full.
LEMMA FindThreadEffect ==
    ASSUME NEW v \in VerifierState, NEW t \in Thread
    PROVE  LET w == FindOrCreateThread(v, t)
               s == v.thread_states[t]
               r == w.thread_states[t] IN
           /\ Others(v, w, t) /\ Counts(w) = Counts(v)
           /\ r.trace_tainted = s.trace_tainted
           /\ r.next_expected_sequence = s.next_expected_sequence
           /\ r.depth = s.depth /\ r.since = s.since
           /\ Overflowed(v, t) => w.thread_states = v.thread_states
           /\ ~Overflowed(v, t) => r.slot # 0
    <1> DEFINE n == Cardinality(KnownThreads(v))
               j == n + 1
               s == v.thread_states[t]
               r == [s EXCEPT !.slot = j]
               w == FindOrCreateThread(v, t)
    <1>1. s \in ThreadState
        BY ThreadFields
    <1>2. n \in Nat /\ VerifierThreads \in Nat
        BY FS_CardinalityType, FS_Subset, VerifierAssumption DEF KnownThreads
    <1>3. CASE s.slot # 0
        <2>1. w = v
            BY <1>3 DEF FindOrCreateThread, KnownThreads
        <2> QED
            BY <1>3, <2>1 DEF Overflowed, Others
    <1>4. CASE s.slot = 0 /\ n < VerifierThreads
        <2>1. w = [v EXCEPT !.thread_states[t].slot = j]
            BY <1>4 DEF FindOrCreateThread, KnownThreads
        <2>2. w.thread_states = [v.thread_states EXCEPT ![t] = r] /\ Counts(w) = Counts(v)
            BY <2>1 DEF VerifierState, Counts
        <2>3. j # 0
            BY <1>2
        <2>4. ~Overflowed(v, t)
            BY <1>2, <1>4 DEF Overflowed
        <2> HIDE DEF w, j
        <2>5. /\ r.trace_tainted = s.trace_tainted /\ r.slot = j
              /\ r.next_expected_sequence = s.next_expected_sequence
              /\ r.depth = s.depth /\ r.since = s.since
            BY <1>1 DEF ThreadState
        <2> HIDE DEF r
        <2>6. w.thread_states[t] = r /\ Others(v, w, t)
            BY <2>2, EntryReplaced
        <2> QED
            BY <2>2, <2>3, <2>4, <2>5, <2>6 DEF w
    <1>5. CASE s.slot = 0 /\ ~(n < VerifierThreads)
        <2>1. w = [v EXCEPT !.state_overflow_events = @ + 1]
            BY <1>5 DEF FindOrCreateThread, KnownThreads
        <2>2. w.thread_states = v.thread_states /\ Counts(w) = Counts(v)
            BY <2>1 DEF VerifierState, Counts
        <2>3. Overflowed(v, t)
            BY <1>2, <1>5 DEF Overflowed
        <2> HIDE DEF w
        <2> QED
            BY <2>2, <2>3 DEF Others, w
    <1> QED
        BY <1>3, <1>4, <1>5

\* mark_thread_stream_tainted touches no other thread and reports nothing.
LEMMA TaintEffect ==
    ASSUME NEW v, Consistent(v), NEW t \in Thread, NEW barrier
    PROVE  LET w == MarkThreadStreamTainted(v, t, barrier) IN
           /\ w.thread_states[t].slot = v.thread_states[t].slot
           /\ w.thread_states[t].trace_tainted
           /\ Others(v, w, t) /\ Counts(w) = Counts(v)
    <1>0. v \in VerifierState
        BY DEF Consistent
    <1>1. CASE v.thread_states[t].trace_tainted
        BY <1>1 DEF MarkThreadStreamTainted, Others
    <1>2. CASE ~v.thread_states[t].trace_tainted
        <2> DEFINE c == ClearThreadWaiting(v, t, v.thread_states[t].waiting_mutex)
                   zero == [m \in Mutex |-> 0]
                   s == [c.thread_states[t] EXCEPT !.trace_tainted = TRUE,
                                                   !.depth = zero, !.since = zero]
                   x == [c EXCEPT !.tainted_thread_streams = @ + 1,
                                  !.thread_states[t] = [@ EXCEPT !.trace_tainted = TRUE,
                                                 !.depth = [m \in Mutex |-> 0],
                                                 !.since = [m \in Mutex |-> 0]]]
                   w == InvalidateMutexes(x, t, barrier)
        <2>1. c \in VerifierState /\ Kept(v, c, t)
            <3>1. v.thread_states[t].waiting_mutex \in Mutex \cup {None}
                BY <1>0, ThreadFields
            <3> QED
                BY <1>0, <3>1, ClearWaiting, ClearWaitingKeeps DEF Consistent
        <2>2. w = MarkThreadStreamTainted(v, t, barrier)
            BY <1>2 DEF MarkThreadStreamTainted
        <2> HIDE DEF c
        <2>3. x.thread_states = [c.thread_states EXCEPT ![t] = s] /\ Counts(x) = Counts(c)
            BY <2>1 DEF VerifierState, Counts
        <2>4. w.thread_states = x.thread_states /\ Counts(w) = Counts(x)
            <3> DEFINE ms == w.mutex_states
            <3>1. DOMAIN x = DOMAIN c /\ DOMAIN c = DOMAIN v
                BY <1>0, <2>1 DEF VerifierState
            <3> QED
                BY <1>0, <2>1, <3>1 DEF InvalidateMutexes, VerifierState, Counts
        <2>5. c.thread_states[t] \in ThreadState
            BY <2>1, ThreadFields
        <2> HIDE DEF x, zero
        <2>6. s.slot = c.thread_states[t].slot /\ s.trace_tainted
            BY <2>5 DEF ThreadState
        <2> HIDE DEF s, w
        <2>7. w.thread_states[t] = s /\ Others(c, w, t)
            BY <2>1, <2>3, <2>4, EntryReplaced
        <2>8. /\ c.thread_states[t].slot = v.thread_states[t].slot
              /\ Others(v, c, t) /\ Counts(c) = Counts(v)
            BY <2>1 DEF Kept
        <2>9. Others(v, w, t) /\ Counts(w) = Counts(v)
            BY <2>3, <2>4, <2>7, <2>8 DEF Others
        <2> QED
            BY <2>2, <2>6, <2>7, <2>8, <2>9
    <1> QED
        BY <1>1, <1>2

\* observe_thread_sequence: a gap taints the stream, otherwise only the expectation moves.
LEMMA ObserveEffect ==
    ASSUME NEW v, Consistent(v), NEW e \in MonitorEvent
    PROVE  LET t == e.thread_id
               w == ObserveThreadSequence(v, e)
               s == v.thread_states[t]
               r == w.thread_states[t] IN
           /\ Others(v, w, t) /\ Counts(w) = Counts(v)
           /\ r.slot = s.slot /\ r.next_expected_sequence = e.thread_sequence + 1
           /\ e.thread_sequence # s.next_expected_sequence => r.trace_tainted
           /\ e.thread_sequence = s.next_expected_sequence =>
                /\ r.trace_tainted = s.trace_tainted
                /\ r.depth = s.depth /\ r.since = s.since
    <1> DEFINE t == e.thread_id
               s == v.thread_states[t]
               gap == e.thread_sequence # s.next_expected_sequence
               g == [v EXCEPT !.detected_stream_gaps = @ + 1]
               c == IF gap THEN MarkThreadStreamTainted(g, t, e.sequence_id) ELSE v
               n == e.thread_sequence + 1
               r == [c.thread_states[t] EXCEPT !.next_expected_sequence = n]
               w == ObserveThreadSequence(v, e)
    <1>0. t \in Thread /\ e.sequence_id \in Nat /\ v \in VerifierState
        BY EventFields DEF Consistent
    <1>1. Consistent(g) /\ g.thread_states = v.thread_states /\ Counts(g) = Counts(v)
        BY <1>0, Counters DEF VerifierState, Counts
    <1> HIDE DEF g
    <1>2. /\ c \in VerifierState /\ Others(v, c, t) /\ Counts(c) = Counts(v)
          /\ c.thread_states[t].slot = s.slot
          /\ gap => c.thread_states[t].trace_tainted
          /\ ~gap => c = v
        <2>1. CASE gap
            <3>1. c = MarkThreadStreamTainted(g, t, e.sequence_id)
                BY <2>1
            <3> HIDE DEF c
            <3>2. /\ c.thread_states[t].slot = g.thread_states[t].slot
                  /\ c.thread_states[t].trace_tainted
                  /\ Others(g, c, t) /\ Counts(c) = Counts(g)
                BY <1>0, <1>1, <3>1, TaintEffect
            <3>3. c \in VerifierState
                BY <1>0, <1>1, <3>1, MarkTainted DEF Consistent
            <3> QED
                BY <1>1, <2>1, <3>2, <3>3 DEF Others
        <2>2. CASE ~gap
            BY <1>0, <2>2 DEF Others
        <2> QED
            BY <2>1, <2>2
    <1>3. w = [c EXCEPT !.thread_states[t].next_expected_sequence = n]
        BY DEF ObserveThreadSequence, g
    <1> HIDE DEF c, n, w
    <1>4. w.thread_states = [c.thread_states EXCEPT ![t] = r] /\ Counts(w) = Counts(c)
        BY <1>2, <1>3 DEF VerifierState, Counts
    <1>5. c.thread_states[t] \in ThreadState
        BY <1>0, <1>2, ThreadFields
    <1>6. /\ r.slot = c.thread_states[t].slot /\ r.next_expected_sequence = n
          /\ r.trace_tainted = c.thread_states[t].trace_tainted
          /\ r.depth = c.thread_states[t].depth /\ r.since = c.thread_states[t].since
        BY <1>5 DEF ThreadState
    <1> HIDE DEF r
    <1>7. w.thread_states[t] = r /\ Others(c, w, t)
        BY <1>0, <1>2, <1>4, EntryReplaced
    <1>8. Others(v, w, t) /\ Counts(w) = Counts(v)
        BY <1>2, <1>4, <1>7 DEF Others
    <1> QED
        BY <1>2, <1>6, <1>7, <1>8 DEF n, w

\* monitor_verifier_process_event, as far as the entry of the event's thread goes.
LEMMA ProcessEffect ==
    ASSUME NEW v, Consistent(v), NEW e \in MonitorEvent, Plausible(e)
    PROVE  LET t == e.thread_id
               w == ProcessEvent(v, e)
               s == v.thread_states[t]
               r == w.thread_states[t]
               gap == e.thread_sequence # s.next_expected_sequence IN
           /\ Others(v, w, t)
           /\ Overflowed(v, t) =>
                w.thread_states = v.thread_states /\ Counts(w) = Counts(v)
           /\ ~Overflowed(v, t) =>
                /\ r.slot # 0 /\ r.next_expected_sequence = e.thread_sequence + 1
                /\ gap \/ s.trace_tainted => r.trace_tainted /\ Counts(w) = Counts(v)
                /\ ~gap /\ ~s.trace_tainted =>
                     /\ ~r.trace_tainted
                     /\ Bounded(s, ViewBefore(e)) =>
                          Bounded(r, ViewAfter(e)) /\ ReportsReal(v, w, e)
    <1> DEFINE t == e.thread_id
               s == v.thread_states[t]
               gap == e.thread_sequence # s.next_expected_sequence
               n == v.processed_events + 1
               l == IF e.sequence_id > v.last_processed_sequence THEN e.sequence_id
                    ELSE v.last_processed_sequence
               counted == [v EXCEPT !.processed_events = n,
                                    !.last_processed_sequence = l]
               f == FindOrCreateThread(counted, t)
               o == ObserveThreadSequence(f, e)
               observed == [o EXCEPT !.candidate_cycle = {}, !.confirmations = 0]
               h == Handle(observed, e)
               w == ProcessEvent(v, e)
    <1>0. v \in VerifierState /\ t \in Thread /\ WellFormed(e)
        BY EventFields DEF Consistent
    <1>1. n \in Nat /\ l \in Nat
        BY <1>0, Fields DEF WellFormed
    <1>2. /\ Consistent(counted) /\ counted.thread_states = v.thread_states
          /\ Counts(counted) = Counts(v)
        <2> HIDE DEF n, l
        <2>1. /\ counted \in VerifierState /\ counted.thread_states = v.thread_states
              /\ counted.waiting_thread_count = v.waiting_thread_count
              /\ Counts(counted) = Counts(v)
            BY <1>0, <1>1 DEF VerifierState, Counts
        <2> HIDE DEF counted
        <2> QED
            BY <2>1, ThreadsAlone
    <1>3. w = IF t \in KnownThreads(f) THEN h ELSE f
        BY DEF ProcessEvent
    <1>4. Overflowed(counted, t) <=> Overflowed(v, t)
        BY <1>2 DEF Overflowed, KnownThreads
    <1> HIDE DEF counted
    <1>5. /\ Consistent(f) /\ Others(v, f, t) /\ Counts(f) = Counts(v)
          /\ f.thread_states[t].trace_tainted = s.trace_tainted
          /\ f.thread_states[t].next_expected_sequence = s.next_expected_sequence
          /\ f.thread_states[t].depth = s.depth /\ f.thread_states[t].since = s.since
          /\ Overflowed(v, t) => f.thread_states = v.thread_states
          /\ ~Overflowed(v, t) => f.thread_states[t].slot # 0
        <2>1. Consistent(f)
            BY <1>0, <1>2, FindThread
        <2>2. /\ Others(counted, f, t) /\ Counts(f) = Counts(counted)
              /\ f.thread_states[t].trace_tainted = counted.thread_states[t].trace_tainted
              /\ f.thread_states[t].next_expected_sequence
                   = counted.thread_states[t].next_expected_sequence
              /\ f.thread_states[t].depth = counted.thread_states[t].depth
              /\ f.thread_states[t].since = counted.thread_states[t].since
              /\ Overflowed(counted, t) => f.thread_states = counted.thread_states
              /\ ~Overflowed(counted, t) => f.thread_states[t].slot # 0
            BY <1>0, <1>2, FindThreadEffect DEF Consistent
        <2> HIDE DEF f
        <2> QED
            BY <1>2, <1>4, <2>1, <2>2 DEF Others
    <1> HIDE DEF f
    <1>6. CASE Overflowed(v, t)
        <2>1. w = f
            BY <1>3, <1>5, <1>6 DEF KnownThreads, Overflowed
        <2> QED
            BY <1>5, <1>6, <2>1
    <1>7. CASE ~Overflowed(v, t)
        <2>1. w = h
            BY <1>0, <1>3, <1>5, <1>7 DEF KnownThreads
        <2>2. /\ Consistent(o) /\ Others(f, o, t) /\ Counts(o) = Counts(f)
              /\ o.thread_states[t].slot = f.thread_states[t].slot
              /\ o.thread_states[t].next_expected_sequence = e.thread_sequence + 1
              /\ gap => o.thread_states[t].trace_tainted
              /\ ~gap => /\ o.thread_states[t].trace_tainted = s.trace_tainted
                         /\ o.thread_states[t].depth = s.depth
                         /\ o.thread_states[t].since = s.since
            <3>1. Consistent(o)
                BY <1>0, <1>5, Observe
            <3>2. /\ Others(f, o, t) /\ Counts(o) = Counts(f)
                  /\ o.thread_states[t].slot = f.thread_states[t].slot
                  /\ o.thread_states[t].next_expected_sequence = e.thread_sequence + 1
                  /\ e.thread_sequence # f.thread_states[t].next_expected_sequence
                       => o.thread_states[t].trace_tainted
                  /\ e.thread_sequence = f.thread_states[t].next_expected_sequence =>
                       /\ o.thread_states[t].trace_tainted = f.thread_states[t].trace_tainted
                       /\ o.thread_states[t].depth = f.thread_states[t].depth
                       /\ o.thread_states[t].since = f.thread_states[t].since
                BY <1>5, ObserveEffect
            <3> HIDE DEF o
            <3> QED
                BY <1>5, <3>1, <3>2
        <2>3. s.trace_tainted => o.thread_states[t].trace_tainted
            BY <2>2
        <2> HIDE DEF o
        <2>4. /\ Consistent(observed) /\ observed.thread_states = o.thread_states
              /\ Counts(observed) = Counts(o)
            <3>1. {} \in SUBSET Thread /\ 0 \in 0 .. Confirmations
                BY VerifierAssumption
            <3>2. Consistent(observed)
                BY <2>2, <3>1, CycleFields
            <3>3. observed.thread_states = o.thread_states /\ Counts(observed) = Counts(o)
                BY <2>2 DEF VerifierState, Counts, Consistent
            <3> QED
                BY <3>2, <3>3
        <2> HIDE DEF observed
        <2>5. Handled(observed, h, e)
            BY <2>4, HandleHandled
        <2> HIDE DEF h
        <2>6. /\ Others(v, h, t)
              /\ h.thread_states[t].slot # 0
              /\ h.thread_states[t].next_expected_sequence = e.thread_sequence + 1
              /\ h.thread_states[t].trace_tainted = o.thread_states[t].trace_tainted
            BY <1>5, <1>7, <2>2, <2>4, <2>5 DEF Handled, Others
        <2>7. ASSUME gap \/ s.trace_tainted
              PROVE  h.thread_states[t].trace_tainted /\ Counts(h) = Counts(v)
            BY <1>5, <2>2, <2>3, <2>4, <2>5, <2>7 DEF Handled
        <2>8. ASSUME ~gap, ~s.trace_tainted
              PROVE  /\ ~h.thread_states[t].trace_tainted
                     /\ Bounded(s, ViewBefore(e)) =>
                          Bounded(h.thread_states[t], ViewAfter(e)) /\ ReportsReal(v, h, e)
            <3>1. /\ observed.thread_states[t].depth = s.depth
                  /\ observed.thread_states[t].since = s.since
                  /\ observed.thread_states[t].trace_tainted = s.trace_tainted
                BY <2>2, <2>4, <2>8
            <3>2. Bounded(s, ViewBefore(e))
                    => Bounded(observed.thread_states[t], ViewBefore(e))
                BY <3>1 DEF Bounded
            <3>3. ReportsReal(observed, h, e) => ReportsReal(v, h, e)
                BY <1>5, <2>2, <2>4 DEF ReportsReal, Counts
            <3> QED
                BY <2>5, <2>8, <3>1, <3>2, <3>3 DEF Handled
        <2> QED
            BY <1>7, <2>1, <2>6, <2>7, <2>8
    <1> QED
        BY <1>6, <1>7

\* A full table stays full, and a thread that was seen stays so.
LEMMA SeenStays ==
    ASSUME NEW v, Consistent(v), NEW e \in MonitorEvent, Plausible(e), NEW u \in Thread
    PROVE  LET w == ProcessEvent(v, e) IN
           /\ Overflowed(v, u) => Overflowed(w, u)
           /\ Seen(v, u) => Seen(w, u)
           /\ Seen(w, e.thread_id)
           /\ Tainted(v, u) => Tainted(w, u)
    <1> DEFINE w == ProcessEvent(v, e)
               t == e.thread_id
    <1>0. t \in Thread /\ WellFormed(e) /\ e.thread_sequence \in Nat
        BY EventFields
    <1>1. w \in VerifierState
        BY <1>0, Processed DEF Consistent
    <1>2. /\ Others(v, w, t)
          /\ Overflowed(v, t) => w.thread_states = v.thread_states
          /\ ~Overflowed(v, t) =>
                /\ w.thread_states[t].slot # 0
                /\ w.thread_states[t].next_expected_sequence = e.thread_sequence + 1
                /\ v.thread_states[t].trace_tainted => w.thread_states[t].trace_tainted
        BY ProcessEffect
    <1> HIDE DEF w
    <1>3. KnownThreads(v) \subseteq KnownThreads(w)
        BY <1>2 DEF KnownThreads, Others, Overflowed
    <1>4. Cardinality(KnownThreads(v)) <= Cardinality(KnownThreads(w))
        <2>1. IsFiniteSet(KnownThreads(w))
            BY FS_Subset, VerifierAssumption DEF KnownThreads
        <2> QED
            BY <1>3, <2>1, FS_Subset
    <1>5. /\ Cardinality(KnownThreads(v)) \in Nat /\ Cardinality(KnownThreads(w)) \in Nat
          /\ VerifierThreads \in Nat
        BY FS_CardinalityType, FS_Subset, VerifierAssumption DEF KnownThreads
    <1>6. ASSUME Overflowed(v, u) PROVE Overflowed(w, u)
        <2>1. w.thread_states[u].slot = 0
            BY <1>2, <1>6 DEF Others, Overflowed
        <2> QED
            BY <1>4, <1>5, <1>6, <2>1 DEF Overflowed
    <1>7. Seen(v, u) => Seen(w, u)
        <2>1. CASE u = t
            BY <1>0, <1>2, <1>6, <2>1 DEF Seen, Expected
        <2>2. CASE u # t
            BY <1>2, <1>6, <2>2 DEF Seen, Expected, Others
        <2> QED
            BY <2>1, <2>2
    <1>8. Seen(w, t)
        <2>1. CASE Overflowed(v, t)
            <3>1. Overflowed(w, t)
                BY <1>2, <2>1 DEF Overflowed, KnownThreads
            <3> QED
                BY <3>1 DEF Seen
        <2>2. CASE ~Overflowed(v, t)
            BY <1>0, <1>2, <2>2 DEF Seen, Expected
        <2> QED
            BY <2>1, <2>2
    <1>9. Tainted(v, u) => Tainted(w, u)
        BY <1>2 DEF Tainted, Others
    <1> QED
        BY <1>6, <1>7, <1>8, <1>9 DEF w

-----------------------------------------------------------------------------
(***************************************************************************)
(* Steps of an application thread.                                         *)
(***************************************************************************)

\* The step is one of thread t and leaves the queues alone.
OnlyThread(t) ==
    /\ DOMAIN contexts' = DOMAIN contexts
    /\ \A c \in DOMAIN contexts :
          /\ Owner(c)' = Owner(c) /\ Queue(c)' = Queue(c)
          /\ contexts'[c].next_thread_sequence >= contexts[c].next_thread_sequence
    /\ \A c \in DOMAIN contexts : Owner(c) # t =>
          contexts'[c].next_thread_sequence = contexts[c].next_thread_sequence
    /\ \A u \in Thread \ {t} :
          /\ app'[u] = app[u] /\ times'[u] = times[u]
          /\ StampedView(u)' = StampedView(u)
    /\ \A m \in Mutex : lock[m].owner \notin {None, t} => lock'[m].owner = lock[m].owner
    /\ UNCHANGED <<main, now, verifier, consumer>>

\* A context of another thread goes on as before.
LEMMA OtherContext ==
    ASSUME NEW t \in Thread, OnlyThread(t), ContextsInv, NEW c \in DOMAIN contexts,
           Owner(c) # t
    PROVE  /\ \A k, n : NextViews(c, k, n)' = NextViews(c, k, n)
           /\ PendingInv /\ Pending(c)' => NewestPending(c)'
    <1>1. Owner(c) \in Thread
        BY ContextFields DEF Owner
    <1>2. /\ Owner(c)' = Owner(c) /\ Queue(c)' = Queue(c)
          /\ contexts'[c].next_thread_sequence = contexts[c].next_thread_sequence
          /\ app'[Owner(c)] = app[Owner(c)]
          /\ StampedView(Owner(c))' = StampedView(Owner(c))
          /\ main' = main
        BY <1>1 DEF OnlyThread
    <1>3. /\ Live(c)' <=> Live(c)
          /\ Pending(c)' <=> Pending(c)
          /\ accept_events' <=> accept_events
        BY <1>2 DEF Live, Pending, accept_events
    <1>4. ASSUME NEW k, NEW n PROVE NextViews(c, k, n)' = NextViews(c, k, n)
        BY <1>2, <1>3 DEF NextViews
    <1>5. ASSUME PendingInv, Pending(c)' PROVE NewestPending(c)'
        BY <1>2, <1>3, <1>5 DEF PendingInv, NewestPending
    <1> QED
        BY <1>4, <1>5

\* The streams in their queues continue in fewer ways than before.
LEMMA StreamsFrame ==
    ASSUME ContextsInv, QueueInv, BoundInv, AgainInv, FreshInv,
           DOMAIN contexts' = DOMAIN contexts,
           \A c \in DOMAIN contexts :
              /\ Owner(c)' = Owner(c) /\ Queue(c)' = Queue(c)
              /\ contexts'[c].next_thread_sequence \in Nat
              /\ contexts'[c].next_thread_sequence >= contexts[c].next_thread_sequence
              /\ \A k \in Nat, n \in Nat : NextViews(c, k, n)' \subseteq NextViews(c, k, n),
           Consistent(verifier), verifier'.thread_states = verifier.thread_states
    PROVE  QueueInv' /\ BoundInv' /\ AgainInv' /\ FreshInv'
    <1>1. ASSUME NEW c \in DOMAIN contexts
          PROVE  First(c)' <=> First(c)
        BY <1>1 DEF First
    <1>2. \A t : /\ Tainted(verifier', t) <=> Tainted(verifier, t)
                 /\ Expected(verifier', t) = Expected(verifier, t)
                 /\ Overflowed(verifier', t) <=> Overflowed(verifier, t)
        BY DEF Tainted, Expected, Overflowed, KnownThreads
    <1>3. QueueInv'
        <2> SUFFICES ASSUME NEW c \in DOMAIN contexts, NEW k \in DOMAIN Queue(c)
                     PROVE  /\ Queue(c)[k].thread_id = Owner(c) /\ Plausible(Queue(c)[k])
                            /\ Queue(c)[k].thread_sequence
                                 < contexts'[c].next_thread_sequence
                            /\ \A y \in NextViews(c, k, Queue(c)[k].thread_sequence + 1)' :
                                  Agree(ViewAfter(Queue(c)[k]), y)
            BY DEF QueueInv
        <2>1. Queue(c) \in Seq(MonitorEvent)
            BY ContextFields DEF Queue
        <2>2. k \in Nat /\ Queue(c)[k] \in MonitorEvent
            BY <2>1, LenProperties, ElementOfSeq
        <2>3. Queue(c)[k].thread_sequence + 1 \in Nat
            BY <2>2, EventFields
        <2>4. NextViews(c, k, Queue(c)[k].thread_sequence + 1)'
                \subseteq NextViews(c, k, Queue(c)[k].thread_sequence + 1)
            <3> DEFINE n == Queue(c)[k].thread_sequence + 1
            <3>1. n' = n
                OBVIOUS
            <3> HIDE DEF n
            <3> QED
                BY <2>2, <2>3, <3>1 DEF n
        <2>5. /\ Queue(c)[k].thread_sequence < contexts[c].next_thread_sequence
              /\ Queue(c)[k].thread_sequence \in Nat
              /\ contexts[c].next_thread_sequence \in Nat
            BY <2>2, EventFields, ContextFields DEF QueueInv
        <2>6. Queue(c)[k].thread_sequence < contexts'[c].next_thread_sequence
            BY <2>5
        <2> QED
            BY <2>4, <2>6 DEF QueueInv
    <1>4. BoundInv'
        <2> SUFFICES ASSUME NEW c \in DOMAIN contexts, First(c), ~Tainted(verifier, Owner(c)),
                            NEW y \in NextViews(c, 0, Expected(verifier, Owner(c)))'
                     PROVE  Bounded(verifier.thread_states[Owner(c)], y)
            BY <1>1, <1>2 DEF BoundInv
        <2>1. Owner(c) \in Thread
            BY ContextFields DEF Owner
        <2>2. Expected(verifier, Owner(c)) \in Nat
            BY <2>1, ThreadFields DEF Expected, Consistent
        <2>3. y \in NextViews(c, 0, Expected(verifier, Owner(c)))
            BY <1>2, <2>2
        <2> QED
            BY <2>3 DEF BoundInv
    <1>5. AgainInv'
        BY <1>1, <1>2 DEF AgainInv
    <1>6. FreshInv'
        BY DEF FreshInv
    <1> QED
        BY <1>3, <1>4, <1>5, <1>6

LEMMA SeenFrame ==
    ASSUME SeenInv, DOMAIN contexts' = DOMAIN contexts,
           \A c \in DOMAIN contexts : Owner(c)' = Owner(c) /\ Queue(c)' = Queue(c),
           consumer' = consumer, verifier'.thread_states = verifier.thread_states
    PROVE  SeenInv'
    <1>1. \A t : Seen(verifier', t) <=> Seen(verifier, t)
        BY DEF Seen, Expected, Overflowed, KnownThreads
    <1> QED
        BY <1>1 DEF SeenInv

\* A step of thread t keeps the invariant if it does so for t and for its contexts.
LEMMA ThreadStep ==
    ASSUME Parts, ContextsInv', StreamInv, NEW t \in Thread, OnlyThread(t), ThreadInv(t)',
           \A c \in DOMAIN contexts : Owner(c) = t =>
              /\ \A k \in Nat, n \in Nat : NextViews(c, k, n)' \subseteq NextViews(c, k, n)
              /\ Pending(c)' => NewestPending(c)'
    PROVE  StreamInv'
    <1>1. ContextsInv /\ AppInv /\ Consistent(verifier)
        BY DEF Parts
    <1>2. /\ DOMAIN contexts' = DOMAIN contexts
          /\ \A c \in DOMAIN contexts :
                /\ Owner(c)' = Owner(c) /\ Queue(c)' = Queue(c)
                /\ contexts'[c].next_thread_sequence >= contexts[c].next_thread_sequence
          /\ UNCHANGED <<main, now, verifier, consumer>>
        BY DEF OnlyThread
    <1>3. ThreadsInv'
        <2> SUFFICES ASSUME NEW u \in Thread PROVE ThreadInv(u)'
            BY DEF ThreadsInv
        <2>1. CASE u = t
            BY <2>1
        <2>2. CASE u # t
            <3>1. /\ ThreadInv(u) /\ app'[u] = app[u] /\ times'[u] = times[u]
                BY <2>2 DEF StreamInv, ThreadsInv, OnlyThread
            <3>2. app[u].pc = "acquired" => app[u].mutex \in Mutex
                BY <1>1, AppFields DEF MutexPc
            <3>3. app'[u].pc = "acquired" => lock'[app'[u].mutex].owner = u
                BY <2>2, <3>1, <3>2, VerifierAssumption DEF ThreadInv, OnlyThread
            <3>4. app'[u].tls_context \in DOMAIN contexts' => Owner(app[u].tls_context)' = u
                BY <1>2, <3>1 DEF ThreadInv, Owner
            <3>5. accept_events' <=> accept_events
                BY <1>2 DEF accept_events
            <3> QED
                BY <1>2, <3>1, <3>3, <3>4, <3>5 DEF ThreadInv
        <2> QED
            BY <2>1, <2>2
    <1>4. PendingInv'
        <2> SUFFICES ASSUME NEW c \in DOMAIN contexts, Pending(c)' PROVE NewestPending(c)'
            BY <1>2 DEF PendingInv
        <2>1. CASE Owner(c) = t
            BY <2>1
        <2>2. CASE Owner(c) # t
            BY <1>1, <2>2, OtherContext DEF StreamInv
        <2> QED
            BY <2>1, <2>2
    <1>5. ASSUME NEW c \in DOMAIN contexts, NEW k \in Nat, NEW n \in Nat
          PROVE  NextViews(c, k, n)' \subseteq NextViews(c, k, n)
        <2>1. CASE Owner(c) = t
            BY <2>1
        <2>2. CASE Owner(c) # t
            BY <1>1, <2>2, OtherContext
        <2> QED
            BY <2>1, <2>2
    <1>6. QueueInv' /\ BoundInv' /\ AgainInv' /\ FreshInv'
        <2>1. \A c \in DOMAIN contexts : contexts'[c].next_thread_sequence \in Nat
            <3> SUFFICES ASSUME NEW c \in DOMAIN contexts
                         PROVE  contexts'[c].next_thread_sequence \in Nat
                OBVIOUS
            <3>1. contexts' \in Seq(ThreadContext) /\ c \in DOMAIN contexts'
                BY <1>2 DEF ContextsInv
            <3>2. contexts'[c] \in ThreadContext
                BY <3>1, ElementOfSeq, LenProperties
            <3> QED
                BY <3>2 DEF ThreadContext
        <2> QED
            BY <1>1, <1>2, <1>5, <2>1, StreamsFrame DEF StreamInv
    <1>7. SeenInv'
        BY <1>2, SeenFrame DEF StreamInv
    <1> QED
        BY <1>3, <1>4, <1>6, <1>7 DEF StreamInv

\* The real calls come before the stamp of their event or after the one of their request,
\* so they change no view.
LEMMA RealCallStep ==
    ASSUME Parts, StreamInv, NEW t \in Thread, UNCHANGED <<transportVars, monitorVars>>,
           \A u \in Thread \ {t} : app'[u] = app[u] /\ times'[u] = times[u],
           \A u \in Thread : StampedView(u)' = StampedView(u),
           \A m \in Mutex : lock[m].owner \notin {None, t} => lock'[m].owner = lock[m].owner,
           app[t].pc \notin PushPc, app'[t].pc \notin PushPc,
           app'[t].tls_context = app[t].tls_context, ThreadInv(t)'
    PROVE  StreamInv'
    <1>1. /\ contexts' = contexts /\ UNCHANGED <<main, now, verifier, consumer>>
          /\ ContextsInv'
        BY DEF transportVars, monitorVars, Parts, ContextsInv
    <1>2. OnlyThread(t)
        <2>1. \A c \in DOMAIN contexts :
                 contexts'[c].next_thread_sequence >= contexts[c].next_thread_sequence
            BY <1>1, ContextFields DEF Parts
        <2> QED
            BY <1>1, <2>1 DEF OnlyThread, Owner, Queue
    <1>3. ASSUME NEW c \in DOMAIN contexts, Owner(c) = t
          PROVE  /\ \A k \in Nat, n \in Nat : NextViews(c, k, n)' \subseteq NextViews(c, k, n)
                 /\ ~Pending(c)'
        <2>1. /\ Owner(c)' = t /\ Queue(c)' = Queue(c)
              /\ ~Pending(c) /\ ~Pending(c)' /\ (Live(c)' <=> Live(c))
              /\ accept_events' <=> accept_events
            BY <1>1, <1>3 DEF Owner, Queue, Pending, Live, accept_events
        <2>2. StampedView(Owner(c))' = StampedView(Owner(c))
            BY <1>3, <2>1
        <2> QED
            BY <1>1, <2>1, <2>2 DEF NextViews
    <1> QED
        BY <1>1, <1>2, <1>3, ThreadStep

\* Two views of a thread are equal if they are so for each mutex.
LEMMA ViewSame ==
    ASSUME NEW u \in Thread, \A m \in Mutex : times'[u][m].acquired = times[u][m].acquired,
           \A m \in Mutex : StampedView(u)'.held[m] = StampedView(u).held[m]
    PROVE  StampedView(u)' = StampedView(u)
    BY DEF StampedView

\* What a real call does to the mutexes and to its thread; nothing is stamped yet.
RealCall(t, m0) ==
    /\ UNCHANGED <<transportVars, monitorVars>> /\ contexts' = contexts
    /\ (accept_events' <=> accept_events) /\ now' = now
    /\ app'[t].mutex = m0 /\ app'[t].tls_context = app[t].tls_context
    /\ \A u \in Thread \ {t} : app'[u] = app[u] /\ times'[u] = times[u]
    /\ \A u \in Thread, m \in Mutex : times'[u][m].acquired = times[u][m].acquired
    /\ \A u \in Thread : StampedView(u)' = StampedView(u)
    /\ \A m \in Mutex \ {m0} : lock'[m] = lock[m]

LEMMA RealLockEffect ==
    ASSUME Parts, NEW t \in Thread, RealLock(t)
    PROVE  LET m0 == app[t].mutex IN
           /\ app[t].pc = "lock" /\ m0 \in Mutex
           /\ app'[t].pc \in {"acquired", "lock_failed"}
           /\ lock[m0].owner \in {None, t} /\ lock'[m0].owner = t
           /\ RealCall(t, m0)
    <1> DEFINE m0 == app[t].mutex
    <1>1. /\ app[t] \in AppThread /\ app[t].pc = "lock" /\ m0 \in Mutex
          /\ app \in [Thread -> AppThread]
        BY AppFields DEF Parts, RealLock, MutexPc, AppInv
    <1>2. /\ lock \in [Mutex -> [owner : Thread \cup {None}, count : Nat]]
          /\ \A m \in Mutex : lock[m].owner = None <=> lock[m].count = 0
          /\ times \in [Thread -> [Mutex -> Times]]
        BY DEF Parts, LockInv, LocksInPlace, GhostInv
    <1>3. UNCHANGED <<transportVars, monitorVars>> /\ contexts' = contexts
          /\ (accept_events' <=> accept_events) /\ now' = now
        BY DEF RealLock, transportVars, monitorVars, accept_events
    <1>4. CASE RealLockResult(t, m0) = "ok"
        <2>1. /\ lock' = [lock EXCEPT ![m0] = [owner |-> t, count |-> lock[m0].count + 1]]
              /\ times' = [times EXCEPT ![t][m0].taken =
                             IF lock[m0].count = 0 THEN now ELSE @]
              /\ app' = [app EXCEPT ![t].pc = "acquired"]
              /\ lock[m0].owner \in {None, t}
            BY <1>4 DEF RealLock, RealLockResult
        <2>2. /\ app'[t].pc = "acquired" /\ app'[t].mutex = m0
              /\ app'[t].tls_context = app[t].tls_context
              /\ \A u \in Thread \ {t} : app'[u] = app[u]
            <3>1. app' = [app EXCEPT ![t] = [app[t] EXCEPT !.pc = "acquired"]]
                BY <2>1
            <3> DEFINE a == [app[t] EXCEPT !.pc = "acquired"]
            <3>2. /\ a.pc = "acquired" /\ a.mutex = m0
                  /\ a.tls_context = app[t].tls_context
                BY <1>1 DEF AppThread
            <3> HIDE DEF a
            <3>3. app'[t] = a /\ \A u \in Thread \ {t} : app'[u] = app[u]
                BY <1>1, <3>1 DEF a
            <3> QED
                BY <3>2, <3>3
        <2>3. /\ \A u \in Thread \ {t} : times'[u] = times[u]
              /\ \A u \in Thread, m \in Mutex : times'[u][m].acquired = times[u][m].acquired
            <3> DEFINE x == IF lock[m0].count = 0 THEN now ELSE times[t][m0].taken
                       y == [times[t][m0] EXCEPT !.taken = x]
            <3>1. times' = [times EXCEPT ![t] = [times[t] EXCEPT ![m0] = y]]
                BY <2>1
            <3>2. times[t] \in [Mutex -> Times] /\ times[t][m0] \in Times
                BY <1>1, <1>2
            <3> HIDE DEF x
            <3>3. y.acquired = times[t][m0].acquired
                BY <3>2 DEF Times
            <3> HIDE DEF y
            <3> QED
                BY <1>1, <1>2, <3>1, <3>2, <3>3
        <2>4. /\ lock'[m0].owner = t /\ lock'[m0].count = lock[m0].count + 1
              /\ \A m \in Mutex \ {m0} : lock'[m] = lock[m]
            BY <1>1, <1>2, <2>1
        <2>5. ASSUME NEW u \in Thread PROVE StampedView(u)' = StampedView(u)
            <3>1. ASSUME NEW m \in Mutex
                  PROVE  StampedView(u)'.held[m] = StampedView(u).held[m]
                <4>1. lock[m].count \in Nat
                    BY <1>2
                <4>2. CASE u = t /\ m = m0
                    <5>1. StampedView(u).held[m] = IF lock[m].owner = t THEN lock[m].count
                                                                          ELSE 0
                        BY <1>1, <4>2 DEF StampedView, RealDepth
                    <5>2. StampedView(u)'.held[m] = lock'[m].count - 1
                        BY <1>1, <2>2, <2>4, <4>2 DEF StampedView, RealDepth
                    <5> QED
                        BY <1>2, <2>1, <2>4, <4>1, <4>2, <5>1, <5>2
                <4>3. CASE u = t /\ m # m0
                    BY <1>1, <2>2, <2>4, <4>3 DEF StampedView, RealDepth
                <4>4. CASE u # t
                    <5>1. RealDepth(u)'[m] = RealDepth(u)[m]
                        BY <2>1, <2>4, <4>4, VerifierAssumption DEF RealDepth
                    <5> QED
                        BY <2>2, <4>4, <5>1 DEF StampedView
                <4> QED
                    BY <4>2, <4>3, <4>4
            <3> QED
                BY <2>3, <3>1, ViewSame
        <2> QED
            BY <1>1, <1>3, <2>1, <2>2, <2>3, <2>4, <2>5 DEF RealCall
    <1>5. CASE RealLockResult(t, m0) # "ok"
        <2>1. /\ app' = [app EXCEPT ![t].pc = "lock_failed"]
              /\ UNCHANGED <<lock, times>>
            BY <1>5 DEF RealLock
        <2>2. /\ app'[t].pc = "lock_failed" /\ app'[t].mutex = m0
              /\ app'[t].tls_context = app[t].tls_context
              /\ \A u \in Thread \ {t} : app'[u] = app[u]
            <3>1. app' = [app EXCEPT ![t] = [app[t] EXCEPT !.pc = "lock_failed"]]
                BY <2>1
            <3> DEFINE a == [app[t] EXCEPT !.pc = "lock_failed"]
            <3>2. /\ a.pc = "lock_failed" /\ a.mutex = m0
                  /\ a.tls_context = app[t].tls_context
                BY <1>1 DEF AppThread
            <3> HIDE DEF a
            <3>3. app'[t] = a /\ \A u \in Thread \ {t} : app'[u] = app[u]
                BY <1>1, <3>1 DEF a
            <3> QED
                BY <3>2, <3>3
        <2>3. ASSUME NEW u \in Thread PROVE StampedView(u)' = StampedView(u)
            <3>1. ASSUME NEW m \in Mutex
                  PROVE  StampedView(u)'.held[m] = StampedView(u).held[m]
                BY <1>1, <2>1, <2>2 DEF StampedView, RealDepth
            <3> QED
                BY <2>1, <3>1, ViewSame
        <2>4. lock[m0].owner = t
            BY <1>5 DEF RealLock, RealLockResult
        <2> QED
            BY <1>1, <1>3, <2>1, <2>2, <2>3, <2>4 DEF RealCall
    <1> QED
        BY <1>4, <1>5

LEMMA RealLockStreams ==
    ASSUME Parts, StreamInv, NEW t \in Thread, RealLock(t)
    PROVE  StreamInv'
    <1> DEFINE m0 == app[t].mutex
    <1>1. /\ app[t].pc = "lock" /\ m0 \in Mutex /\ ThreadInv(t)
          /\ app'[t].pc \in {"acquired", "lock_failed"}
          /\ lock[m0].owner \in {None, t} /\ lock'[m0].owner = t
          /\ RealCall(t, m0)
        BY RealLockEffect DEF StreamInv, ThreadsInv
    <1> HIDE DEF m0
    <1>2. ThreadInv(t)'
        BY <1>1 DEF ThreadInv, Owner, RealCall
    <1>3. \A m \in Mutex : lock[m].owner \notin {None, t}
                              => lock'[m].owner = lock[m].owner
        BY <1>1 DEF RealCall
    <1> QED
        BY <1>1, <1>2, <1>3, RealCallStep DEF PushPc, RealCall

LEMMA RealUnlockEffect ==
    ASSUME Parts, NEW t \in Thread, NEW m0 \in Mutex, RealUnlock(t, m0)
    PROVE  /\ app[t].pc = "run" /\ app'[t].pc \in {"unlocked", "unlock_failed"}
           /\ \/ lock' = lock
              \/ lock[m0].owner = t /\ lock'[m0].owner \in {None, t}
           /\ RealCall(t, m0)
    <1> DEFINE ok == RealUnlockResult(t, m0) = "ok"
               pc == IF ok THEN "unlocked" ELSE "unlock_failed"
    <1>1. /\ app[t] \in AppThread /\ app[t].pc = "run"
          /\ app \in [Thread -> AppThread]
        BY AppFields DEF Parts, RealUnlock, NewCall, AppInv
    <1>2. /\ lock \in [Mutex -> [owner : Thread \cup {None}, count : Nat]]
          /\ \A m \in Mutex : lock[m].owner = None <=> lock[m].count = 0
          /\ times \in [Thread -> [Mutex -> Times]]
        BY DEF Parts, LockInv, LocksInPlace, GhostInv
    <1>3. UNCHANGED <<transportVars, monitorVars>> /\ contexts' = contexts
          /\ (accept_events' <=> accept_events) /\ now' = now
        BY DEF RealUnlock, transportVars, monitorVars, accept_events
    <1>4. /\ app'[t].pc = pc /\ app'[t].mutex = m0
          /\ app'[t].tls_context = app[t].tls_context
          /\ \A u \in Thread \ {t} : app'[u] = app[u]
        <2> DEFINE a == [app[t] EXCEPT !.pc = pc, !.mutex = m0]
        <2>1. app' = [app EXCEPT ![t] = a]
            BY DEF RealUnlock
        <2> HIDE DEF pc
        <2>2. a.pc = pc /\ a.mutex = m0 /\ a.tls_context = app[t].tls_context
            BY <1>1 DEF AppThread
        <2> HIDE DEF a
        <2>3. app'[t] = a /\ \A u \in Thread \ {t} : app'[u] = app[u]
            BY <1>1, <2>1
        <2> QED
            BY <2>2, <2>3
    <1>5. CASE ok
        <2>1. /\ lock' = [lock EXCEPT ![m0] = IF lock[m0].count = 1
                            THEN [owner |-> None, count |-> 0]
                            ELSE [owner |-> t, count |-> lock[m0].count - 1]]
              /\ times' = [times EXCEPT ![t][m0].released = now]
              /\ lock[m0].owner = t
            BY <1>5 DEF RealUnlock, RealUnlockResult
        <2>3. /\ \A u \in Thread \ {t} : times'[u] = times[u]
              /\ \A u \in Thread, m \in Mutex : times'[u][m].acquired = times[u][m].acquired
            <3> DEFINE y == [times[t][m0] EXCEPT !.released = now]
            <3>1. times' = [times EXCEPT ![t] = [times[t] EXCEPT ![m0] = y]]
                BY <2>1
            <3>2. times[t] \in [Mutex -> Times] /\ times[t][m0] \in Times
                BY <1>1, <1>2
            <3>3. y.acquired = times[t][m0].acquired
                BY <3>2 DEF Times
            <3> HIDE DEF y
            <3> QED
                BY <1>1, <1>2, <3>1, <3>2, <3>3
        <2>4. /\ lock[m0].count = 1 => lock'[m0].owner = None
              /\ lock[m0].count # 1 =>
                   lock'[m0].owner = t /\ lock'[m0].count = lock[m0].count - 1
              /\ \A m \in Mutex \ {m0} : lock'[m] = lock[m]
            BY <1>1, <1>2, <2>1
        <2>5. ASSUME NEW u \in Thread PROVE StampedView(u)' = StampedView(u)
            <3>1. ASSUME NEW m \in Mutex
                  PROVE  StampedView(u)'.held[m] = StampedView(u).held[m]
                <4>1. lock[m].count \in Nat
                    BY <1>2
                <4>2. CASE u = t /\ m = m0
                    <5>1. StampedView(u).held[m] = lock[m].count
                        BY <1>1, <2>1, <4>2 DEF StampedView, RealDepth
                    <5>2. StampedView(u)'.held[m] = RealDepth(t)'[m] + 1
                        BY <1>1, <1>4, <1>5, <4>2 DEF StampedView
                    <5>3. RealDepth(t)'[m] = lock[m].count - 1
                        BY <1>1, <2>4, <4>1, <4>2, VerifierAssumption DEF RealDepth
                    <5> QED
                        BY <4>1, <5>1, <5>2, <5>3
                <4>3. CASE u = t /\ m # m0
                    BY <1>1, <1>4, <2>4, <4>3 DEF StampedView, RealDepth
                <4>4. CASE u # t
                    <5>1. RealDepth(u)'[m] = RealDepth(u)[m]
                        BY <2>1, <2>4, <4>4, VerifierAssumption DEF RealDepth
                    <5> QED
                        BY <1>4, <4>4, <5>1 DEF StampedView
                <4> QED
                    BY <4>2, <4>3, <4>4
            <3> QED
                BY <2>3, <3>1, ViewSame
        <2> QED
            BY <1>1, <1>3, <1>4, <1>5, <2>1, <2>3, <2>4, <2>5 DEF RealCall
    <1>6. CASE ~ok
        <2>1. UNCHANGED <<lock, times>>
            BY <1>6 DEF RealUnlock
        <2>3. ASSUME NEW u \in Thread PROVE StampedView(u)' = StampedView(u)
            <3>1. ASSUME NEW m \in Mutex
                  PROVE  StampedView(u)'.held[m] = StampedView(u).held[m]
                BY <1>1, <1>4, <1>6, <2>1 DEF StampedView, RealDepth
            <3> QED
                BY <2>1, <3>1, ViewSame
        <2> QED
            BY <1>1, <1>3, <1>4, <1>6, <2>1, <2>3 DEF RealCall
    <1> QED
        BY <1>5, <1>6

LEMMA RealUnlockStreams ==
    ASSUME Parts, StreamInv, NEW t \in Thread, NEW m0 \in Mutex, RealUnlock(t, m0)
    PROVE  StreamInv'
    <1>1. /\ app[t].pc = "run" /\ app'[t].pc \in {"unlocked", "unlock_failed"}
          /\ \/ lock' = lock
             \/ lock[m0].owner = t /\ lock'[m0].owner \in {None, t}
          /\ RealCall(t, m0) /\ ThreadInv(t)
        BY RealUnlockEffect DEF StreamInv, ThreadsInv
    <1>2. ThreadInv(t)'
        BY <1>1 DEF ThreadInv, Owner, RealCall
    <1>3. \A m \in Mutex : lock[m].owner \notin {None, t}
                              => lock'[m].owner = lock[m].owner
        BY <1>1 DEF RealCall
    <1> QED
        BY <1>1, <1>2, <1>3, RealCallStep DEF PushPc, RealCall

\* The event that is stamped is the one of the call the thread is in.
Matching(t, type, m) ==
    /\ app[t].pc \notin PushPc
    /\ type = "LOCK_ACQUIRED" <=> app[t].pc = "acquired"
    /\ type = "UNLOCKED" <=> app[t].pc = "unlocked"
    /\ app[t].pc \in {"acquired", "unlocked"} => app[t].mutex = m

Stamping(t, type, m) ==
    /\ type \in LifecycleEvent \cup MutexEvent
    /\ m \in Mutex \cup {None}
    /\ type \in MutexEvent => m \in Mutex
    /\ Matching(t, type, m)
    /\ UNCHANGED <<lock, monitorVars>>

LEMMA OtherView ==
    ASSUME NEW u \in Thread, app'[u] = app[u], times'[u] = times[u], lock' = lock
    PROVE  StampedView(u)' = StampedView(u)
    BY DEF StampedView, RealDepth

LEMMA WitnessTimes ==
    ASSUME Parts, NEW t \in Thread, NEW type, NEW m, Stamping(t, type, m),
           Witness(t, type, m)
    PROVE  /\ \A u \in Thread \ {t} : times'[u] = times[u]
           /\ \A q \in Mutex : times'[t][q].acquired =
                IF type = "LOCK_ACQUIRED" /\ q = m /\ lock[m].count = 1
                THEN now ELSE times[t][q].acquired
    <1>1. times \in [Thread -> [Mutex -> Times]]
        BY DEF Parts, GhostInv
    <1>2. CASE type = "LOCK_ACQUIRED" /\ lock[m].count = 1
        <2> DEFINE x == [times[t][m] EXCEPT !.acquired = now]
                   y == [times[t] EXCEPT ![m] = x]
        <2>1. m \in Mutex
            BY <1>2 DEF Stamping, MutexEvent
        <2>2. times[t] \in [Mutex -> Times] /\ times[t][m] \in Times
            BY <1>1, <2>1
        <2>3. times' = [times EXCEPT ![t] = y]
            BY <1>2 DEF Witness
        <2>4. x.acquired = now
            BY <2>2 DEF Times
        <2> HIDE DEF x
        <2>5. \A q \in Mutex : y[q] = IF q = m THEN x ELSE times[t][q]
            BY <2>1, <2>2
        <2> HIDE DEF y
        <2>6. times'[t] = y /\ \A u \in Thread \ {t} : times'[u] = times[u]
            BY <1>1, <2>3
        <2> QED
            BY <1>2, <2>4, <2>5, <2>6
    <1>3. CASE ~(type = "LOCK_ACQUIRED" /\ lock[m].count = 1)
        <2>1. times' = times
            BY <1>3 DEF Witness
        <2> QED
            BY <1>3, <2>1
    <1> QED
        BY <1>2, <1>3

\* The views before and after a stamped event are those of its thread.
LEMMA Stamped ==
    ASSUME Parts, StreamInv, NEW t \in Thread, NEW type, NEW m, Stamping(t, type, m),
           NEW result, NEW i, NEW j
    PROVE  LET e == NewEvent(t, type, m, result, i, j) IN
           /\ e.thread_id = t /\ e.thread_sequence = j
           /\ ViewBefore(e) = StampedView(t) /\ Plausible(e)
           /\ Witness(t, type, m) /\ app'[t].pc \in PushPc =>
                Agree(ViewAfter(e), StampedView(t)')
    <1> DEFINE e == NewEvent(t, type, m, result, i, j)
    <1>1. /\ e.thread_id = t /\ e.thread_sequence = j /\ e.event_type = type
          /\ e.object = m /\ e.really_held = RealDepth(t) /\ e.times = times[t]
          /\ e.timestamp = now
        BY DEF NewEvent
    <1> HIDE DEF e
    <1>2. Matching(t, type, m) /\ lock' = lock /\ (type \in MutexEvent => m \in Mutex)
        BY DEF Stamping
    <1>3. /\ lock \in [Mutex -> [owner : Thread \cup {None}, count : Nat]]
          /\ \A q \in Mutex : lock[q].owner = None <=> lock[q].count = 0
        BY DEF Parts, LockInv, LocksInPlace
    <1>4. ThreadInv(t)
        BY DEF StreamInv, ThreadsInv
    <1>5. ViewBefore(e) = StampedView(t)
        <2>1. ASSUME NEW q \in Mutex
              PROVE  /\ e.event_type = "LOCK_ACQUIRED" /\ e.object = q
                          <=> app[t].pc = "acquired" /\ app[t].mutex = q
                     /\ e.event_type = "UNLOCKED" /\ e.object = q
                          <=> app[t].pc = "unlocked" /\ app[t].mutex = q
            BY <1>1, <1>2 DEF Matching
        <2> QED
            BY <1>1, <2>1 DEF ViewBefore, StampedView
    <1>6. type = "LOCK_ACQUIRED" =>
             m \in Mutex /\ lock[m].owner = t /\ RealDepth(t)[m] = lock[m].count
        BY <1>2, <1>4 DEF Matching, ThreadInv, MutexEvent, RealDepth
    <1>7. Plausible(e)
        <2>1. type = "LOCK_ACQUIRED" => RealDepth(t)[m] > 0
            BY <1>3, <1>6, VerifierAssumption
        <2> QED
            BY <1>1, <1>4, <2>1 DEF Plausible, ThreadInv
    <1>8. ASSUME Witness(t, type, m), app'[t].pc \in PushPc
          PROVE  Agree(ViewAfter(e), StampedView(t)')
        <2> SUFFICES ASSUME NEW q \in Mutex
                     PROVE  /\ ViewAfter(e).held[q] <= StampedView(t)'.held[q]
                            /\ ViewAfter(e).acquired[q] = StampedView(t)'.acquired[q]
            BY DEF Agree
        <2>1. StampedView(t)'.held[q] = RealDepth(t)[q]
            BY <1>2, <1>8 DEF StampedView, RealDepth, PushPc
        <2>2. ViewAfter(e).held[q] = RealDepth(t)[q] /\ RealDepth(t)[q] \in Nat
            BY <1>1, <1>3 DEF ViewAfter, RealDepth
        <2>3. StampedView(t)'.acquired[q] = times'[t][q].acquired
            BY DEF StampedView
        <2>4. times'[t][q].acquired =
                IF type = "LOCK_ACQUIRED" /\ q = m /\ lock[m].count = 1
                THEN now ELSE times[t][q].acquired
            BY <1>8, WitnessTimes
        <2>5. ViewAfter(e).acquired[q] =
                IF type = "LOCK_ACQUIRED" /\ m = q /\ RealDepth(t)[q] = 1
                THEN now ELSE times[t][q].acquired
            BY <1>1 DEF ViewAfter
        <2>6. ViewAfter(e).acquired[q] = StampedView(t)'.acquired[q]
            BY <1>6, <2>3, <2>4, <2>5
        <2> QED
            BY <2>1, <2>2, <2>6
    <1> QED
        BY <1>1, <1>5, <1>7, <1>8 DEF e

LEMMA ResumedAt ==
    ASSUME NEW a \in AppThread, NEW pc
    PROVE  /\ Resume(a, pc).pc = IF pc = "push_request" THEN "lock" ELSE "run"
           /\ Resume(a, pc).tls_context = IF pc = "push_exit" THEN NoContext
                                                              ELSE a.tls_context
    <1> DEFINE q == IF pc = "push_request" THEN "lock" ELSE "run"
               m == IF pc = "push_request" THEN a.mutex ELSE None
               c == IF pc = "push_exit" THEN NoContext ELSE a.tls_context
               b == [a EXCEPT !.event = NoEvent, !.pc = q, !.mutex = m, !.tls_context = c]
    <1>1. b = Resume(a, pc)
        BY DEF Resume
    <1> HIDE DEF q, m, c
    <1>2. b.pc = q /\ b.tls_context = c
        BY DEF AppThread
    <1> QED
        BY <1>1, <1>2 DEF q, c

\* A thread goes on without an event, and its streams end or go on as before.
LEMMA SilentStep ==
    ASSUME Parts, StreamInv, NEW t \in Thread, UNCHANGED <<lock, contexts, monitorVars>>,
           \A u \in Thread \ {t} : app'[u] = app[u] /\ times'[u] = times[u],
           \A m \in Mutex : times'[t][m].acquired <= now,
           app[t].pc \notin PushPc, app'[t].pc \in {"run", "lock"},
           \/ ~accept_events /\ app'[t].tls_context \in {app[t].tls_context, NoContext}
           \/ /\ app'[t].tls_context \in {NoContext, RegistrationFailed}
              /\ app'[t].pc = "lock" => app'[t].tls_context # NoContext
    PROVE  StreamInv'
    <1>1. /\ contexts' = contexts /\ UNCHANGED <<main, now, verifier, consumer>>
          /\ ContextsInv'
        BY DEF monitorVars, Parts, ContextsInv
    <1>2. OnlyThread(t)
        <2>1. \A c \in DOMAIN contexts :
                 contexts'[c].next_thread_sequence >= contexts[c].next_thread_sequence
            BY <1>1, ContextFields DEF Parts
        <2> QED
            BY <1>1, <2>1, OtherView DEF OnlyThread, Owner, Queue
    <1>3. NoContext \notin DOMAIN contexts /\ RegistrationFailed \notin DOMAIN contexts
        BY LenProperties DEF Parts, ContextsInv, NoContext, RegistrationFailed
    <1>4. ThreadInv(t)
        BY DEF StreamInv, ThreadsInv
    <1>5. accept_events' <=> accept_events
        BY <1>1 DEF accept_events
    <1>6. ThreadInv(t)'
        BY <1>1, <1>3, <1>4, <1>5 DEF ThreadInv, Owner
    <1>7. ASSUME NEW c \in DOMAIN contexts, Owner(c) = t
          PROVE  /\ \A k \in Nat, n \in Nat : NextViews(c, k, n)' \subseteq NextViews(c, k, n)
                 /\ ~Pending(c)'
        <2>1. /\ Owner(c)' = t /\ Queue(c)' = Queue(c) /\ ~Pending(c) /\ ~Pending(c)'
            BY <1>1, <1>7 DEF Owner, Queue, Pending, PushPc
        <2>2. ~(Live(c)' /\ accept_events')
            BY <1>3, <1>5, <1>7, <2>1 DEF Live
        <2> QED
            BY <1>1, <2>1, <2>2 DEF NextViews
    <1> QED
        BY <1>1, <1>2, <1>6, <1>7, ThreadStep

LEMMA RefusedStreams ==
    ASSUME Parts, StreamInv, NEW t \in Thread, NEW type, NEW m, Stamping(t, type, m),
           NEW pc \in PushPc, EmitRefused(t, m, pc)
    PROVE  StreamInv'
    <1> DEFINE a == [app[t] EXCEPT !.mutex = m]
    <1>1. app[t] \in AppThread /\ app \in [Thread -> AppThread]
        BY AppFields DEF Parts, AppInv
    <1>2. a \in AppThread /\ a.tls_context = app[t].tls_context
        BY <1>1 DEF AppThread, Stamping
    <1>3. /\ app' = [app EXCEPT ![t] = Resume(a, pc)]
          /\ ~accept_events /\ UNCHANGED <<contexts, times>>
        BY DEF EmitRefused, transportVars, ghostVars
    <1> HIDE DEF a
    <1>4. /\ app'[t] = Resume(a, pc)
          /\ \A u \in Thread \ {t} : app'[u] = app[u] /\ times'[u] = times[u]
        BY <1>1, <1>3
    <1>5. /\ app'[t].pc \in {"run", "lock"}
          /\ app'[t].tls_context \in {app[t].tls_context, NoContext}
        BY <1>2, <1>4, ResumedAt
    <1>6. \A q \in Mutex : times'[t][q].acquired <= now
        BY <1>3 DEF StreamInv, ThreadsInv, ThreadInv
    <1>7. app[t].pc \notin PushPc /\ UNCHANGED <<lock, contexts, monitorVars>>
        BY <1>3 DEF Stamping, Matching
    <1> QED
        BY <1>3, <1>4, <1>5, <1>6, <1>7, SilentStep

LEMMA WitnessBounded ==
    ASSUME Parts, StreamInv, NEW t \in Thread, NEW type, NEW m, Stamping(t, type, m),
           Witness(t, type, m)
    PROVE  \A q \in Mutex : times'[t][q].acquired <= now
    <1>1. \A q \in Mutex : times[t][q].acquired <= now
        BY DEF StreamInv, ThreadsInv, ThreadInv
    <1>2. now \in Nat
        BY DEF Parts
    <1> QED
        BY <1>1, <1>2, WitnessTimes

LEMMA UnregisteredStreams ==
    ASSUME Parts, StreamInv, NEW t \in Thread, NEW type, NEW m, Stamping(t, type, m),
           NEW pc \in PushPc, EmitUnregistered(t, type, m, pc)
    PROVE  StreamInv'
    <1> DEFINE a == [app[t] EXCEPT !.mutex = m, !.tls_context = RegistrationFailed]
    <1>1. app[t] \in AppThread /\ app \in [Thread -> AppThread]
        BY AppFields DEF Parts, AppInv
    <1>2. a \in AppThread /\ a.tls_context = RegistrationFailed
        <2>1. RegistrationFailed \in Int
            BY DEF RegistrationFailed
        <2> QED
            BY <1>1, <2>1 DEF AppThread, Stamping
    <1>3. /\ app' = [app EXCEPT ![t] = Resume(a, pc)]
          /\ Witness(t, type, m) /\ UNCHANGED contexts
        BY DEF EmitUnregistered
    <1> HIDE DEF a
    <1>4. /\ app'[t] = Resume(a, pc)
          /\ \A u \in Thread \ {t} : app'[u] = app[u] /\ times'[u] = times[u]
        BY <1>1, <1>3, WitnessTimes
    <1>5. /\ app'[t].pc \in {"run", "lock"}
          /\ app'[t].tls_context \in {NoContext, RegistrationFailed}
          /\ app'[t].pc = "lock" => app'[t].tls_context # NoContext
        BY <1>2, <1>4, ResumedAt DEF NoContext, RegistrationFailed
    <1>6. \A q \in Mutex : times'[t][q].acquired <= now
        BY <1>3, WitnessBounded
    <1>7. app[t].pc \notin PushPc /\ UNCHANGED <<lock, contexts, monitorVars>>
        BY <1>3 DEF Stamping, Matching
    <1> QED
        BY <1>4, <1>5, <1>6, <1>7, SilentStep

LEMMA RegisteredStreams ==
    ASSUME Parts, StreamInv, NEW t \in Thread, NEW type, NEW m, Stamping(t, type, m),
           NEW result, NEW pc \in PushPc, EmitRegistered(t, type, m, result, pc), ContextsInv'
    PROVE  StreamInv'
    <1> DEFINE slot == app[t].tls_context
               j == contexts[slot].next_thread_sequence
               n == j + 1
               e == NewEvent(t, type, m, result, global_sequence, j)
               a == [app[t] EXCEPT !.pc = pc, !.mutex = m, !.event = e]
               c == [contexts[slot] EXCEPT !.next_thread_sequence = n]
    <1>1. app[t] \in AppThread /\ app \in [Thread -> AppThread] /\ slot \in DOMAIN contexts
        BY AppFields DEF Parts, AppInv, EmitRegistered, NoContext, RegistrationFailed
    <1>2. /\ contexts[slot] \in ThreadContext /\ j \in Nat
          /\ contexts \in Seq(ThreadContext)
        BY <1>1, ContextFields DEF Parts, ContextsInv
    <1>3. /\ app' = [app EXCEPT ![t] = a]
          /\ contexts' = [contexts EXCEPT ![slot] = c]
          /\ accept_events /\ Witness(t, type, m)
          /\ UNCHANGED <<main, now, verifier, consumer, lock>>
        BY DEF EmitRegistered, Stamping, monitorVars
    <1>4. /\ e.thread_id = t /\ e.thread_sequence = j /\ Plausible(e)
          /\ ViewBefore(e) = StampedView(t)
          /\ app'[t].pc \in PushPc => Agree(ViewAfter(e), StampedView(t)')
        BY <1>3, Stamped
    <1> HIDE DEF e, n
    <1>5. a.pc = pc /\ a.mutex = m /\ a.event = e /\ a.tls_context = slot
        BY <1>1 DEF AppThread
    <1>6. c.queue = contexts[slot].queue /\ c.thread_id = contexts[slot].thread_id
          /\ c.next_thread_sequence = n
        BY <1>2 DEF ThreadContext
    <1> HIDE DEF a, c
    <1>7. app'[t] = a /\ \A u \in Thread \ {t} : app'[u] = app[u]
        BY <1>1, <1>3
    <1>8. /\ DOMAIN contexts' = DOMAIN contexts /\ contexts'[slot] = c
          /\ \A d \in DOMAIN contexts : d # slot => contexts'[d] = contexts[d]
        BY <1>1, <1>3
    <1>9. ThreadInv(t) /\ Owner(slot) = t
        BY <1>1 DEF StreamInv, ThreadsInv, ThreadInv
    <1>10. OnlyThread(t)
        <2>1. ASSUME NEW d \in DOMAIN contexts
              PROVE  /\ Owner(d)' = Owner(d) /\ Queue(d)' = Queue(d)
                     /\ contexts'[d].next_thread_sequence
                          >= contexts[d].next_thread_sequence
                     /\ Owner(d) # t => contexts'[d].next_thread_sequence
                                          = contexts[d].next_thread_sequence
            <3>1. contexts[d].next_thread_sequence \in Nat
                BY ContextFields DEF Parts
            <3> QED
                BY <1>2, <1>6, <1>8, <1>9, <3>1 DEF Owner, Queue, n
        <2>2. \A u \in Thread \ {t} : /\ times'[u] = times[u]
                                      /\ StampedView(u)' = StampedView(u)
            BY <1>3, <1>7, WitnessTimes, OtherView
        <2> QED
            BY <1>3, <1>7, <1>8, <2>1, <2>2 DEF OnlyThread
    <1>11. ThreadInv(t)'
        <2>1. \A q \in Mutex : times'[t][q].acquired <= now
            BY <1>3, WitnessBounded
        <2>2. app'[t].pc \notin {"acquired", "lock"} /\ app'[t].tls_context = slot
            BY <1>5, <1>7 DEF PushPc
        <2>3. contexts'[slot].thread_id = t
            BY <1>6, <1>8, <1>9 DEF Owner
        <2> QED
            BY <1>3, <2>1, <2>2, <2>3 DEF ThreadInv, Owner
    <1>12. ASSUME NEW d \in DOMAIN contexts, Owner(d) = t
           PROVE  /\ \A k \in Nat, i \in Nat : NextViews(d, k, i)' \subseteq NextViews(d, k, i)
                  /\ Pending(d)' => NewestPending(d)'
        <2>0. ~Pending(d)
            BY <1>12 DEF Stamping, Matching, Pending
        <2>1. Owner(d)' = t /\ Queue(d)' = Queue(d) /\ (accept_events' <=> accept_events)
            BY <1>3, <1>10, <1>12 DEF OnlyThread, accept_events
        <2>2. CASE d # slot
            <3>1. ~Live(d) /\ ~Live(d)' /\ ~Pending(d)'
                BY <1>5, <1>7, <1>12, <2>1, <2>2 DEF Live, Pending
            <3> QED
                BY <2>0, <2>1, <3>1 DEF NextViews
        <2>3. CASE d = slot
            <3>1. Live(d) /\ Pending(d)' /\ app'[t].event = e
                BY <1>5, <1>7, <1>9, <2>1, <2>3 DEF Live, Pending
            <3>2. /\ Queue(d) \in Seq(MonitorEvent) /\ Len(Queue(d)) \in Nat
                  /\ DOMAIN Queue(d) = 1 .. Len(Queue(d))
                BY ContextFields, LenProperties DEF Parts, Queue
            <3>3. ASSUME NEW k \in Nat, NEW i \in Nat
                  PROVE  NextViews(d, k, i)' \subseteq NextViews(d, k, i)
                <4>1. CASE k < Len(Queue(d))
                    BY <2>1, <4>1 DEF NextViews
                <4>2. CASE ~(k < Len(Queue(d)))
                    <5>1. NextViews(d, k, i)' = IF j = i THEN {ViewBefore(e)} ELSE {}
                        BY <1>4, <2>1, <3>1, <4>2 DEF NextViews
                    <5>2. NextViews(d, k, i) = IF j = i THEN {StampedView(t)} ELSE {}
                        BY <1>3, <1>12, <2>0, <2>3, <3>1, <4>2 DEF NextViews
                    <5> QED
                        BY <1>4, <5>1, <5>2
                <4> QED
                    BY <4>1, <4>2
            <3>4. ASSUME NEW k \in DOMAIN Queue(d)
                  PROVE  Queue(d)[k].thread_sequence < j
                BY <2>3, <3>4 DEF StreamInv, QueueInv
            <3>5. /\ contexts'[d].next_thread_sequence = j + 1
                  /\ Agree(ViewAfter(e), StampedView(t)')
                BY <1>4, <1>5, <1>6, <1>7, <1>8, <2>3 DEF n
            <3>6. NewestPending(d)'
                BY <1>4, <2>1, <3>1, <3>4, <3>5 DEF NewestPending
            <3> QED
                BY <3>3, <3>6
        <2> QED
            BY <2>2, <2>3
    <1> QED
        BY <1>10, <1>11, <1>12, ThreadStep

\* The invariants on the queues after a step, one event at a time.
LEMMA QueueInvAfter ==
    ASSUME \A c \in DOMAIN contexts' : \A k \in DOMAIN contexts'[c].queue :
               LET f == contexts'[c].queue[k] IN
               /\ f.thread_id = contexts'[c].thread_id /\ Plausible(f)
               /\ f.thread_sequence < contexts'[c].next_thread_sequence
               /\ \A n : n = f.thread_sequence + 1 =>
                     \A y \in NextViews(c, k, n)' : Agree(ViewAfter(f), y)
    PROVE  QueueInv'
    <1> SUFFICES ASSUME NEW c \in DOMAIN contexts', NEW k \in DOMAIN contexts'[c].queue
                 PROVE  (LET f == Queue(c)[k] IN
                         /\ f.thread_id = Owner(c) /\ Plausible(f)
                         /\ f.thread_sequence < contexts[c].next_thread_sequence
                         /\ \A y \in NextViews(c, k, f.thread_sequence + 1) :
                               Agree(ViewAfter(f), y))'
        BY DEF QueueInv, Queue
    <1>1. PICK n : n = contexts'[c].queue[k].thread_sequence + 1
        OBVIOUS
    <1>2. Queue(c)' = contexts'[c].queue /\ Owner(c)' = contexts'[c].thread_id
        BY DEF Queue, Owner
    <1>3. n = (Queue(c)[k].thread_sequence + 1)'
        BY <1>1, <1>2
    <1>4. NextViews(c, k, Queue(c)[k].thread_sequence + 1)' = NextViews(c, k, n)'
        BY <1>3 DEF NextViews
    <1> QED
        BY <1>1, <1>2, <1>4

LEMMA BoundInvAfter ==
    ASSUME \A c \in DOMAIN contexts' : \A u, n :
               /\ u = contexts'[c].thread_id /\ n = Expected(verifier', u)
               /\ First(c)' /\ ~Tainted(verifier', u)
               => \A y \in NextViews(c, 0, n)' : Bounded(verifier'.thread_states[u], y)
    PROVE  BoundInv'
    <1> SUFFICES ASSUME NEW c \in DOMAIN contexts', First(c)',
                        ~Tainted(verifier', contexts'[c].thread_id)
                 PROVE  (\A y \in NextViews(c, 0, Expected(verifier, Owner(c))) :
                            Bounded(verifier.thread_states[Owner(c)], y))'
        BY DEF BoundInv, Owner
    <1>1. PICK u, n : u = contexts'[c].thread_id /\ n = Expected(verifier', u)
        OBVIOUS
    <1>2. Owner(c)' = u /\ Expected(verifier, Owner(c))' = n
        BY <1>1 DEF Owner
    <1>3. NextViews(c, 0, Expected(verifier, Owner(c)))' = NextViews(c, 0, n)'
        BY <1>2 DEF NextViews
    <1> QED
        BY <1>1, <1>2, <1>3

\* Registration: the new context starts with THREAD_START, and the verifier has recorded
\* nothing for a thread it has not seen.
LEMMA FirstStreams ==
    ASSUME Parts, StreamInv, NEW t \in Thread, NEW type, NEW m, Stamping(t, type, m),
           NEW result, NEW pc \in PushPc, NEW key,
           EmitFirst(t, type, m, result, pc, key)
    PROVE  StreamInv'
    <1> DEFINE last == Len(contexts) + 1
               e == NewEvent(t, type, m, result, global_sequence + 1, 1)
               start == NewEvent(t, "THREAD_START", None, "ok", global_sequence, 0)
               q == <<start>>
               x == [thread_id |-> t, key |-> key, dropped |-> 0,
                     next_thread_sequence |-> 2, queue |-> q]
               a == [pc |-> pc, mutex |-> m, tls_context |-> last, event |-> e]
    <1>1. /\ contexts \in Seq(ThreadContext) /\ Len(contexts) \in Nat
          /\ DOMAIN contexts = 1 .. Len(contexts) /\ app \in [Thread -> AppThread]
        BY LenProperties DEF Parts, ContextsInv, AppInv
    <1>2. /\ app' = [app EXCEPT ![t] = a]
          /\ contexts' = Append(contexts, x)
          /\ accept_events /\ Witness(t, type, m) /\ app[t].tls_context = NoContext
          /\ UNCHANGED <<main, now, verifier, consumer, lock>>
        BY DEF EmitFirst, Stamping, monitorVars
    <1>3. /\ e.thread_id = t /\ e.thread_sequence = 1 /\ Plausible(e)
          /\ ViewBefore(e) = StampedView(t)
          /\ app'[t].pc \in PushPc => Agree(ViewAfter(e), StampedView(t)')
        BY <1>2, Stamped
    <1>4. ThreadInv(t) /\ app[t].pc # "acquired" /\ app[t].pc \notin PushPc
        BY <1>2 DEF StreamInv, ThreadsInv, ThreadInv, Stamping, Matching
    <1>5. /\ start.thread_id = t /\ start.thread_sequence = 0
          /\ start.event_type = "THREAD_START"
          /\ start.really_held = RealDepth(t) /\ start.times = times[t]
          /\ start.timestamp = now
        BY DEF NewEvent
    <1> HIDE DEF e, start
    <1>6. a.pc = pc /\ a.mutex = m /\ a.event = e /\ a.tls_context = last
        OBVIOUS
    <1>7. /\ x.thread_id = t /\ x.next_thread_sequence = 2 /\ x.queue = q
          /\ Len(q) = 1 /\ q[1] = start /\ DOMAIN q = {1} /\ q # <<>>
        OBVIOUS
    <1> HIDE DEF a, x, q
    <1>8. /\ DOMAIN contexts' = 1 .. last /\ contexts'[last] = x
          /\ \A c \in DOMAIN contexts : contexts'[c] = contexts[c]
        BY <1>1, <1>2
    <1>9. app'[t] = a /\ \A u \in Thread \ {t} : app'[u] = app[u]
        BY <1>1, <1>2
    <1>10. /\ \A u \in Thread \ {t} : times'[u] = times[u]
                                      /\ StampedView(u)' = StampedView(u)
           /\ \A i \in Mutex : times'[t][i].acquired <= now
        BY <1>2, <1>9, WitnessTimes, WitnessBounded, OtherView
    <1>11. \A c \in DOMAIN contexts : c # last /\ c < last /\ c \in DOMAIN contexts'
        BY <1>1, <1>8
    <1>12. \A c \in DOMAIN contexts' : c \in DOMAIN contexts \/ c = last
        BY <1>1, <1>8
    <1>13. accept_events' <=> accept_events
        BY <1>2 DEF accept_events
    \* Old contexts go on as before; those of t have ended.
    <1>14. ASSUME NEW c \in DOMAIN contexts
           PROVE  /\ Owner(c)' = Owner(c) /\ Queue(c)' = Queue(c)
                  /\ \A k, n : NextViews(c, k, n)' = NextViews(c, k, n)
                  /\ Pending(c)' => NewestPending(c)'
                  /\ First(c)' <=> First(c)
        <2>1. Owner(c)' = Owner(c) /\ Queue(c)' = Queue(c) /\ contexts'[c] = contexts[c]
            BY <1>8 DEF Owner, Queue
        <2>2. First(c)' <=> First(c)
            <3>1. \A d \in DOMAIN contexts : Owner(d)' = Owner(d)
                BY <1>8 DEF Owner
            <3>2. \A d \in DOMAIN contexts' : d < c => d \in DOMAIN contexts
                BY <1>1, <1>8
            <3> QED
                BY <1>11, <2>1, <3>1, <3>2 DEF First
        <2>3. Owner(c) \in Thread
            BY ContextFields DEF Owner, Parts
        <2>4. CASE Owner(c) = t
            <3>1. ~Live(c) /\ ~Live(c)' /\ ~Pending(c) /\ ~Pending(c)'
                BY <1>1, <1>2, <1>6, <1>9, <1>11, <2>1, <2>4 DEF Live, Pending, NoContext
            <3> QED
                BY <2>1, <2>2, <3>1 DEF NextViews
        <2>5. CASE Owner(c) # t
            <3>1. /\ app'[Owner(c)] = app[Owner(c)]
                  /\ StampedView(Owner(c))' = StampedView(Owner(c))
                BY <1>9, <1>10, <2>1, <2>3, <2>5
            <3>2. (Live(c)' <=> Live(c)) /\ (Pending(c)' <=> Pending(c))
                BY <2>1, <3>1 DEF Live, Pending
            <3>3. Pending(c)' => NewestPending(c)'
                BY <1>13, <2>1, <3>1, <3>2 DEF StreamInv, PendingInv, NewestPending
            <3> QED
                BY <1>13, <2>1, <2>2, <3>1, <3>2, <3>3 DEF NextViews
        <2> QED
            BY <2>4, <2>5
    <1>15. /\ contexts'[last].thread_id = t /\ contexts'[last].queue = q
           /\ contexts'[last].next_thread_sequence = 2
        BY <1>7, <1>8
    <1>16. /\ app'[t].tls_context = last /\ app'[t].pc \in PushPc /\ app'[t].event = e
        BY <1>6, <1>9
    <1>17. Plausible(start)
        BY <1>4, <1>5 DEF Plausible, ThreadInv
    <1>18. ASSUME NEW i \in Mutex
           PROVE  /\ ViewAfter(start).held[i] = RealDepth(t)[i]
                  /\ ViewBefore(start).held[i] = RealDepth(t)[i]
                  /\ ViewAfter(start).acquired[i] = times[t][i].acquired
                  /\ RealDepth(t)[i] \in Nat
        <2>1. RealDepth(t)[i] \in Nat
            BY DEF Parts, LockInv, RealDepth
        <2> QED
            BY <1>5, <2>1 DEF ViewAfter, ViewBefore
    <1>19. Agree(ViewAfter(start), StampedView(t))
        <2> SUFFICES ASSUME NEW i \in Mutex
                     PROVE  /\ ViewAfter(start).held[i] <= StampedView(t).held[i]
                            /\ ViewAfter(start).acquired[i] = StampedView(t).acquired[i]
            BY DEF Agree
        <2> QED
            BY <1>4, <1>18 DEF StampedView
    <1>20. ThreadsInv'
        <2> SUFFICES ASSUME NEW u \in Thread PROVE ThreadInv(u)'
            BY DEF ThreadsInv
        <2>1. CASE u = t
            <3>1. app'[t].pc \notin {"lock", "acquired"}
                BY <1>16 DEF PushPc
            <3> QED
                BY <1>2, <1>10, <1>15, <1>16, <2>1, <3>1 DEF ThreadInv, Owner
        <2>2. CASE u # t
            <3>1. ThreadInv(u) /\ app'[u] = app[u] /\ times'[u] = times[u]
                BY <1>9, <1>10, <2>2 DEF StreamInv, ThreadsInv
            <3>2. app[u].tls_context \in {NoContext, RegistrationFailed} \cup DOMAIN contexts
                BY AppFields DEF Parts
            <3>3. NoContext \notin DOMAIN contexts' /\ RegistrationFailed \notin DOMAIN contexts'
                BY <1>8 DEF NoContext, RegistrationFailed
            <3> QED
                BY <1>2, <1>8, <1>13, <3>1, <3>2, <3>3 DEF ThreadInv, Owner
        <2> QED
            BY <2>1, <2>2
    <1>21. PendingInv'
        <2> SUFFICES ASSUME NEW c \in DOMAIN contexts', Pending(c)' PROVE NewestPending(c)'
            BY DEF PendingInv
        <2>1. CASE c \in DOMAIN contexts
            BY <1>14, <2>1
        <2>2. CASE c = last
            <3>1. /\ contexts'[c].thread_id = t /\ contexts'[c].queue = q
                  /\ contexts'[c].next_thread_sequence = 2
                BY <1>15, <2>2
            <3>2. \A k \in DOMAIN q : q[k].thread_sequence < e.thread_sequence
                BY <1>3, <1>5, <1>7
            <3>3. Agree(ViewAfter(e), StampedView(t)')
                BY <1>3, <1>16
            <3> QED
                BY <1>3, <1>16, <3>1, <3>2, <3>3 DEF NewestPending, Owner, Queue
        <2> QED
            BY <1>12, <2>1, <2>2
    <1>22. QueueInv'
        <2> SUFFICES ASSUME NEW c \in DOMAIN contexts', NEW k \in DOMAIN contexts'[c].queue,
                            NEW n, n = contexts'[c].queue[k].thread_sequence + 1
                     PROVE  LET f == contexts'[c].queue[k] IN
                            /\ f.thread_id = contexts'[c].thread_id /\ Plausible(f)
                            /\ f.thread_sequence < contexts'[c].next_thread_sequence
                            /\ \A y \in NextViews(c, k, n)' : Agree(ViewAfter(f), y)
            BY QueueInvAfter
        <2>1. CASE c \in DOMAIN contexts
            <3> DEFINE f == contexts[c].queue[k]
            <3>1. contexts'[c] = contexts[c]
                BY <1>8, <2>1
            <3>2. /\ f.thread_id = contexts[c].thread_id /\ Plausible(f)
                  /\ f.thread_sequence < contexts[c].next_thread_sequence
                  /\ \A y \in NextViews(c, k, f.thread_sequence + 1) : Agree(ViewAfter(f), y)
                BY <2>1, <3>1 DEF StreamInv, QueueInv, Queue, Owner
            <3>3. n = f.thread_sequence + 1
                BY <3>1
            <3>4. NextViews(c, k, n)' = NextViews(c, k, n)
                BY <1>14, <2>1
            <3> QED
                BY <3>1, <3>2, <3>3, <3>4
        <2>2. CASE c = last
            <3>1. /\ contexts'[c].thread_id = t /\ contexts'[c].queue = q
                  /\ contexts'[c].next_thread_sequence = 2
                BY <1>15, <2>2
            <3>2. k = 1 /\ q[k] = start
                BY <1>7, <3>1
            <3>3. Pending(c)'
                BY <1>16, <2>2, <3>1 DEF Pending, Live, Owner
            <3>4. \A i : NextViews(c, k, i)' \subseteq {StampedView(t)}
                <4> SUFFICES ASSUME NEW i PROVE NextViews(c, k, i)' \subseteq {StampedView(t)}
                    OBVIOUS
                <4>1. ~(k < Len(q))
                    BY <1>7, <3>2
                <4> QED
                    BY <1>3, <1>16, <3>1, <3>3, <4>1 DEF NextViews, Queue, Owner
            <3> QED
                BY <1>5, <1>17, <1>19, <3>1, <3>2, <3>4
        <2> QED
            BY <1>12, <2>1, <2>2
    <1>23. BoundInv'
        <2> SUFFICES ASSUME NEW c \in DOMAIN contexts', NEW u, NEW n,
                            u = contexts'[c].thread_id, n = Expected(verifier, u),
                            First(c)', ~Tainted(verifier, u),
                            NEW y \in NextViews(c, 0, n)'
                     PROVE  Bounded(verifier.thread_states[u], y)
            BY <1>2, BoundInvAfter
        <2>1. CASE c \in DOMAIN contexts
            <3>1. First(c) /\ Owner(c) = u
                BY <1>8, <1>14, <2>1 DEF Owner
            <3>2. y \in NextViews(c, 0, n)
                BY <1>14, <2>1
            <3> QED
                BY <2>1, <3>1, <3>2 DEF StreamInv, BoundInv
        <2>2. CASE c = last
            <3>1. u = t /\ contexts'[c].queue = q
                BY <1>15, <2>2
            <3>2. 0 < Len(q) /\ q[0 + 1] = start
                BY <1>7
            <3>3. NextViews(c, 0, n)' =
                      IF start.thread_sequence = n THEN {ViewBefore(start)} ELSE {}
                BY <3>1, <3>2 DEF NextViews, Queue
            <3>4. y = ViewBefore(start) /\ Expected(verifier, t) = 0
                BY <1>5, <3>1, <3>3
            <3>5. \A i \in Mutex : verifier.thread_states[t].depth[i] = 0
                BY <3>4 DEF StreamInv, FreshInv, Expected
            <3> QED
                BY <1>18, <3>1, <3>4, <3>5 DEF Bounded
        <2> QED
            BY <1>12, <2>1, <2>2
    <1>24. AgainInv'
        <2> SUFFICES ASSUME NEW c \in DOMAIN contexts', ~First(c)',
                            ~Tainted(verifier, contexts'[c].thread_id),
                            ~Overflowed(verifier, contexts'[c].thread_id)
                     PROVE  contexts'[c].queue # <<>>
                            /\ contexts'[c].queue[1].thread_sequence = 0
            BY <1>2 DEF AgainInv, Owner, Queue
        <2>1. CASE c \in DOMAIN contexts
            <3>1. contexts'[c] = contexts[c] /\ ~First(c)
                BY <1>8, <1>14, <2>1
            <3> QED
                BY <2>1, <3>1 DEF StreamInv, AgainInv, Owner, Queue
        <2>2. CASE c = last
            BY <1>5, <1>7, <1>15, <2>2
        <2> QED
            BY <1>12, <2>1, <2>2
    <1>25. SeenInv'
        <2> SUFFICES ASSUME NEW c \in DOMAIN contexts',
                            \/ contexts'[c].queue = <<>>
                            \/ c < consumer.i /\ c <= consumer.count
                     PROVE  Seen(verifier, contexts'[c].thread_id)
            BY <1>2 DEF SeenInv, Owner, Queue
        <2>1. CASE c \in DOMAIN contexts
            <3>1. contexts'[c] = contexts[c]
                BY <1>8, <2>1
            <3> QED
                BY <2>1, <3>1 DEF StreamInv, SeenInv, Owner, Queue
        <2>2. CASE c = last
            <3>1. consumer.count \in 0 .. Len(contexts)
                BY DEF Parts, ConsumerInv
            <3> QED
                BY <1>1, <1>7, <1>15, <2>2, <3>1
        <2> QED
            BY <1>12, <2>1, <2>2
    <1>26. FreshInv'
        BY <1>2 DEF StreamInv, FreshInv
    <1> QED
        BY <1>20, <1>21, <1>22, <1>23, <1>24, <1>25, <1>26 DEF StreamInv

LEMMA EmitStreams ==
    ASSUME Parts, StreamInv, NEW t \in Thread, NEW type, NEW m, Stamping(t, type, m),
           NEW result, NEW pc \in PushPc, Emit(t, type, m, result, pc), ContextsInv'
    PROVE  StreamInv'
    <1>1. CASE EmitRefused(t, m, pc)
        BY <1>1, RefusedStreams
    <1>2. CASE EmitRegistered(t, type, m, result, pc)
        BY <1>2, RegisteredStreams
    <1>3. ASSUME NEW key, EmitFirst(t, type, m, result, pc, key) PROVE StreamInv'
        BY <1>3, FirstStreams
    <1>4. CASE EmitUnregistered(t, type, m, pc)
        BY <1>4, UnregisteredStreams
    <1> QED
        BY <1>1, <1>2, <1>3, <1>4 DEF Emit

\* Each intercepted call emits where its event fits.
LEMMA CallsEmitStreams ==
    ASSUME Parts, StreamInv, ContextsInv', NEW t \in Thread,
           \/ \E m \in Mutex : LockRequest(t, m)
           \/ LockAcquired(t) \/ LockFailed(t) \/ Unlocked(t) \/ UnlockFailed(t)
    PROVE  StreamInv'
    <1>1. app[t].pc \in MutexPc => app[t].mutex \in Mutex
        BY AppFields DEF Parts
    <1>2. ASSUME NEW m \in Mutex, LockRequest(t, m) PROVE StreamInv'
        <2>1. Stamping(t, "LOCK_REQUEST", m)
            BY <1>2 DEF LockRequest, NewCall, Stamping, Matching, MutexEvent, PushPc
        <2>2. Emit(t, "LOCK_REQUEST", m, "ok", "push_request") /\ "push_request" \in PushPc
            BY <1>2 DEF LockRequest, PushPc
        <2> QED
            BY <2>1, <2>2, EmitStreams
    <1>3. CASE LockAcquired(t)
        <2>1. Stamping(t, "LOCK_ACQUIRED", app[t].mutex)
            BY <1>1, <1>3 DEF LockAcquired, Stamping, Matching, MutexPc, mutexVars, PushPc,
                                MutexEvent
        <2>2. Emit(t, "LOCK_ACQUIRED", app[t].mutex, "ok", "push") /\ "push" \in PushPc
            BY <1>3 DEF LockAcquired, PushPc
        <2> QED
            BY <2>1, <2>2, EmitStreams
    <1>4. CASE LockFailed(t)
        <2>1. Stamping(t, "LOCK_FAILED", app[t].mutex)
            BY <1>1, <1>4 DEF LockFailed, Stamping, Matching, MutexPc, mutexVars, PushPc,
                                MutexEvent
        <2>2. Emit(t, "LOCK_FAILED", app[t].mutex, "EDEADLK", "push") /\ "push" \in PushPc
            BY <1>4 DEF LockFailed, PushPc
        <2> QED
            BY <2>1, <2>2, EmitStreams
    <1>5. CASE Unlocked(t)
        <2>1. Stamping(t, "UNLOCKED", app[t].mutex)
            BY <1>1, <1>5 DEF Unlocked, Stamping, Matching, MutexPc, mutexVars, PushPc,
                                MutexEvent
        <2>2. Emit(t, "UNLOCKED", app[t].mutex, "ok", "push") /\ "push" \in PushPc
            BY <1>5 DEF Unlocked, PushPc
        <2> QED
            BY <2>1, <2>2, EmitStreams
    <1>6. CASE UnlockFailed(t)
        <2>1. Stamping(t, "UNLOCK_FAILED", app[t].mutex)
            BY <1>1, <1>6 DEF UnlockFailed, Stamping, Matching, MutexPc, mutexVars, PushPc,
                                MutexEvent
        <2>2. Emit(t, "UNLOCK_FAILED", app[t].mutex, "EPERM", "push") /\ "push" \in PushPc
            BY <1>6 DEF UnlockFailed, PushPc
        <2> QED
            BY <2>1, <2>2, EmitStreams
    <1> QED
        BY <1>2, <1>3, <1>4, <1>5, <1>6

LEMMA ThreadExitStreams ==
    ASSUME Parts, StreamInv, ContextsInv', NEW t \in Thread, ThreadExit(t)
    PROVE  StreamInv'
    <1>1. Stamping(t, "THREAD_EXIT", None) /\ "push_exit" \in PushPc
        BY DEF ThreadExit, Stamping, Matching, MutexEvent, LifecycleEvent, mutexVars,
               PushPc
    <1>2. CASE EmitRegistered(t, "THREAD_EXIT", None, "ok", "push_exit")
        BY <1>1, <1>2, RegisteredStreams
    <1>3. CASE EmitRefused(t, None, "push_exit")
        BY <1>1, <1>3, RefusedStreams
    <1>4. CASE /\ app' = [app EXCEPT ![t] = Resume(@, "push_exit")]
               /\ IF accept_events THEN Witness(t, "THREAD_EXIT", None)
                                   ELSE UNCHANGED ghostVars
               /\ UNCHANGED transportVars
        <2>1. app[t] \in AppThread /\ app \in [Thread -> AppThread]
            BY AppFields DEF Parts, AppInv
        <2>2. times' = times
            BY <1>4 DEF Witness, ghostVars
        <2>3. UNCHANGED <<lock, contexts, monitorVars>>
            BY <1>4 DEF ThreadExit, mutexVars, transportVars
        <2>4. /\ app'[t] = Resume(app[t], "push_exit")
              /\ \A u \in Thread \ {t} : app'[u] = app[u] /\ times'[u] = times[u]
            BY <1>4, <2>1, <2>2
        <2>5. app'[t].pc = "run" /\ app'[t].tls_context = NoContext
            BY <1>1, <2>1, <2>4, ResumedAt
        <2>6. \A m \in Mutex : times'[t][m].acquired <= now
            BY <2>2 DEF StreamInv, ThreadsInv, ThreadInv
        <2>7. app[t].pc \notin PushPc
            BY DEF ThreadExit, PushPc
        <2> QED
            BY <2>3, <2>4, <2>5, <2>6, <2>7, SilentStep
    <1> QED
        BY <1>2, <1>3, <1>4 DEF ThreadExit

\* The event goes to the end of its queue, or is lost at the end of a full one: then the
\* next event does not follow on what the queue holds.
LEMMA PushStreams ==
    ASSUME Parts, StreamInv, NEW t \in Thread, Push(t)
    PROVE  StreamInv'
    <1> DEFINE slot == app[t].tls_context
               old == contexts[slot]
               q == old.queue
               e == app[t].event
               b == Resume(app[t], app[t].pc)
               p == Append(q, e)
               longer == [old EXCEPT !.queue = p]
               j == old.dropped + 1
               lossy == [old EXCEPT !.dropped = j]
               c == IF Len(q) < Capacity THEN longer ELSE lossy
               r == c.queue
    <1>1. /\ app[t].pc \in PushPc /\ app[t] \in AppThread /\ app \in [Thread -> AppThread]
          /\ e \in MonitorEvent /\ slot \in DOMAIN contexts
        BY AppFields DEF Parts, AppInv, Push, PushPc
    <1>2. /\ old \in ThreadContext /\ q \in Seq(MonitorEvent)
          /\ old.next_thread_sequence \in Nat /\ Len(q) \in Nat /\ DOMAIN q = 1 .. Len(q)
        BY <1>1, ContextFields, LenProperties DEF Parts
    <1>3. /\ contexts' = [contexts EXCEPT ![slot] = c]
          /\ app' = [app EXCEPT ![t] = b]
          /\ UNCHANGED <<lock, times, main, now, verifier, consumer>>
        BY DEF Push, mutexVars, ghostVars, monitorVars
    <1>4. ThreadInv(t) /\ Owner(slot) = t /\ old.thread_id = t
        BY <1>1 DEF StreamInv, ThreadsInv, ThreadInv, Owner
    <1>5. Live(slot) /\ Pending(slot)
        BY <1>1, <1>4 DEF Live, Pending
    <1>6. /\ e.thread_id = t /\ Plausible(e)
          /\ e.thread_sequence + 1 = old.next_thread_sequence /\ e.thread_sequence \in Nat
          /\ \A k \in DOMAIN q : q[k].thread_sequence < e.thread_sequence
          /\ accept_events => Agree(ViewAfter(e), StampedView(t))
        BY <1>1, <1>4, <1>5, EventFields DEF StreamInv, PendingInv, NewestPending, Queue
    <1>7. /\ b.pc \in {"run", "lock"} /\ b.tls_context \in {slot, NoContext}
          /\ b.pc = "lock" => b.tls_context = slot
        BY <1>1, ResumedAt
    <1>8. /\ p \in Seq(MonitorEvent) /\ Len(p) = Len(q) + 1 /\ p[Len(q) + 1] = e
          /\ DOMAIN p = 1 .. Len(q) + 1
          /\ \A k \in DOMAIN q : p[k] = q[k]
        BY <1>1, <1>2, AppendProperties
    <1> HIDE DEF b, p, e, j
    <1>9. /\ c.thread_id = t /\ c.next_thread_sequence = old.next_thread_sequence
          /\ Len(q) < Capacity => r = p
          /\ ~(Len(q) < Capacity) => r = q
        <2>1. longer.thread_id = old.thread_id /\ longer.queue = p
              /\ longer.next_thread_sequence = old.next_thread_sequence
            BY <1>2 DEF ThreadContext
        <2>2. lossy.thread_id = old.thread_id /\ lossy.queue = q
              /\ lossy.next_thread_sequence = old.next_thread_sequence
            BY <1>2 DEF ThreadContext
        <2> QED
            BY <1>4, <2>1, <2>2
    <1>10. /\ Len(r) \in Nat /\ Len(r) > 0 /\ r # <<>> /\ DOMAIN r = 1 .. Len(r)
           /\ Len(r) >= Len(q) /\ \A k \in DOMAIN q : r[k] = q[k]
        <2>1. CASE Len(q) < Capacity
            BY <1>2, <1>8, <1>9, <2>1, EmptySeq
        <2>2. CASE ~(Len(q) < Capacity)
            BY <1>2, <1>9, <2>2, MonitorAssumption, EmptySeq
        <2> QED
            BY <2>1, <2>2
    <1> HIDE DEF c, r
    <1>11. app'[t] = b /\ \A u \in Thread \ {t} : app'[u] = app[u]
        BY <1>1, <1>3
    <1>12. /\ DOMAIN contexts' = DOMAIN contexts /\ contexts'[slot] = c
           /\ \A d \in DOMAIN contexts : d # slot => contexts'[d] = contexts[d]
        BY <1>1, <1>3
    <1>13. \A d \in DOMAIN contexts :
               /\ contexts'[d].thread_id = Owner(d) /\ Owner(d)' = Owner(d)
               /\ contexts'[d].next_thread_sequence = contexts[d].next_thread_sequence
               /\ First(d)' <=> First(d)
        <2>1. \A d \in DOMAIN contexts :
                 /\ contexts'[d].thread_id = Owner(d)
                 /\ contexts'[d].next_thread_sequence = contexts[d].next_thread_sequence
            BY <1>4, <1>9, <1>12 DEF Owner
        <2>2. \A d \in DOMAIN contexts : Owner(d)' = Owner(d)
            BY <2>1 DEF Owner
        <2>3. \A d \in DOMAIN contexts : First(d)' <=> First(d)
            BY <1>12, <2>2 DEF First
        <2> QED
            BY <2>1, <2>2, <2>3
    <1>14. accept_events' <=> accept_events
        BY <1>3 DEF accept_events
    <1>15. NoContext \notin DOMAIN contexts
        BY LenProperties DEF Parts, ContextsInv, NoContext
    <1>16. StampedView(t)' = StampedView(t)
        <2>1. /\ app[t].pc \notin {"acquired", "unlocked"}
              /\ app'[t].pc \notin {"acquired", "unlocked"}
            BY <1>1, <1>7, <1>11 DEF PushPc
        <2> QED
            BY <1>3, <2>1 DEF StampedView, RealDepth
    <1>17. ASSUME NEW d \in DOMAIN contexts, d = slot PROVE ~Pending(d)' /\ Owner(d)' = t
        BY <1>4, <1>7, <1>11, <1>13, <1>17 DEF Pending, PushPc
    \* Other contexts go on as before.
    <1>18. ASSUME NEW d \in DOMAIN contexts, d # slot
           PROVE  /\ Queue(d)' = Queue(d) /\ contexts'[d] = contexts[d]
                  /\ \A k, n : NextViews(d, k, n)' = NextViews(d, k, n)
                  /\ Pending(d)' => NewestPending(d)'
        <2>1. Owner(d)' = Owner(d) /\ Queue(d)' = Queue(d) /\ contexts'[d] = contexts[d]
            BY <1>12, <1>18 DEF Owner, Queue
        <2>2. Owner(d) \in Thread
            BY ContextFields DEF Owner, Parts
        <2>3. CASE Owner(d) = t
            <3>1. ~Live(d) /\ ~Live(d)' /\ ~Pending(d) /\ ~Pending(d)'
                BY <1>7, <1>11, <1>15, <1>18, <2>1, <2>3 DEF Live, Pending
            <3> QED
                BY <2>1, <3>1 DEF NextViews
        <2>4. CASE Owner(d) # t
            <3>1. /\ app'[Owner(d)] = app[Owner(d)]
                  /\ StampedView(Owner(d))' = StampedView(Owner(d))
                BY <1>3, <1>11, <2>1, <2>2, <2>4, OtherView
            <3>2. (Live(d)' <=> Live(d)) /\ (Pending(d)' <=> Pending(d))
                BY <2>1, <3>1 DEF Live, Pending
            <3>3. Pending(d)' => NewestPending(d)'
                BY <1>14, <2>1, <3>1, <3>2 DEF StreamInv, PendingInv, NewestPending
            <3> QED
                BY <1>14, <2>1, <3>1, <3>2, <3>3 DEF NextViews
        <2> QED
            BY <2>3, <2>4
    \* In front of the new event nothing changes.
    <1>19. ASSUME NEW d \in DOMAIN contexts, NEW k \in Nat, NEW n, d = slot, k < Len(r),
                  k <= Len(q)
           PROVE  NextViews(d, k, n)' = NextViews(d, k, n)
        <2>1. /\ contexts'[d].queue = r /\ contexts[d].queue = q
            BY <1>12, <1>19 DEF r
        <2>2. NextViews(d, k, n)' =
                 IF r[k + 1].thread_sequence = n THEN {ViewBefore(r[k + 1])} ELSE {}
            BY <1>19, <2>1 DEF NextViews, Queue
        <2>3. CASE k < Len(q)
            <3>1. r[k + 1] = q[k + 1]
                BY <1>2, <1>10, <2>3
            <3> QED
                BY <2>1, <2>2, <2>3, <3>1 DEF NextViews, Queue
        <2>4. CASE ~(k < Len(q))
            <3>1. r[k + 1] = e
                BY <1>2, <1>8, <1>9, <1>19, <2>4
            <3>2. Pending(d) /\ app[Owner(d)].event = e
                BY <1>4, <1>5, <1>19 DEF e
            <3> QED
                BY <2>1, <2>2, <2>4, <3>1, <3>2 DEF NextViews, Queue
        <2> QED
            BY <2>3, <2>4
    \* Behind it, the stream goes on with what the thread does next.
    <1>20. ASSUME NEW d \in DOMAIN contexts, NEW k, NEW n, d = slot, k = Len(r),
                  NEW y \in NextViews(d, k, n)'
           PROVE  accept_events /\ n = old.next_thread_sequence /\ y = StampedView(t)
        <2>1. contexts'[d].queue = r /\ ~Pending(d)' /\ Owner(d)' = t
              /\ contexts'[d].next_thread_sequence = old.next_thread_sequence
            BY <1>9, <1>12, <1>17, <1>20 DEF r
        <2>2. ~(k < Len(r))
            BY <1>10, <1>20
        <2>3. StampedView(Owner(d))' = StampedView(t)
            BY <1>16, <2>1
        <2> QED
            BY <1>14, <2>1, <2>2, <2>3, <1>20 DEF NextViews, Queue
    <1>21. ThreadsInv'
        <2> SUFFICES ASSUME NEW u \in Thread PROVE ThreadInv(u)'
            BY DEF ThreadsInv
        <2>1. CASE u = t
            <3>1. /\ app'[t].pc \in {"run", "lock"}
                  /\ app'[t].tls_context \in {slot, NoContext}
                  /\ app'[t].pc = "lock" => app'[t].tls_context = slot
                BY <1>7, <1>11
            <3>2. slot # NoContext /\ contexts'[slot].thread_id = t
                BY <1>1, <1>9, <1>12, <1>15
            <3>3. \A m \in Mutex : times'[t][m].acquired <= now'
                BY <1>3, <1>4 DEF ThreadInv
            <3> QED
                BY <1>12, <1>15, <2>1, <3>1, <3>2, <3>3 DEF ThreadInv, Owner
        <2>2. CASE u # t
            <3>1. ThreadInv(u) /\ app'[u] = app[u]
                BY <1>11, <2>2 DEF StreamInv, ThreadsInv
            <3> QED
                BY <1>3, <1>12, <1>13, <1>14, <3>1 DEF ThreadInv, Owner
        <2> QED
            BY <2>1, <2>2
    <1>22. PendingInv'
        BY <1>12, <1>17, <1>18 DEF PendingInv
    <1>23. QueueInv'
        <2> SUFFICES ASSUME NEW d \in DOMAIN contexts', NEW k \in DOMAIN contexts'[d].queue,
                            NEW n, n = contexts'[d].queue[k].thread_sequence + 1
                     PROVE  LET f == contexts'[d].queue[k] IN
                            /\ f.thread_id = contexts'[d].thread_id /\ Plausible(f)
                            /\ f.thread_sequence < contexts'[d].next_thread_sequence
                            /\ \A y \in NextViews(d, k, n)' : Agree(ViewAfter(f), y)
            BY QueueInvAfter
        <2>0. d \in DOMAIN contexts
            BY <1>12
        <2>1. CASE d # slot
            <3>1. /\ contexts'[d] = contexts[d]
                  /\ NextViews(d, k, n)' = NextViews(d, k, n)
                BY <1>18, <2>0, <2>1
            <3> QED
                BY <2>0, <3>1 DEF StreamInv, QueueInv, Queue, Owner
        <2>2. CASE d = slot /\ k \in DOMAIN q
            <3>1. /\ contexts'[d].queue = r /\ r[k] = q[k] /\ contexts'[d].thread_id = t
                  /\ contexts'[d].next_thread_sequence = old.next_thread_sequence
                BY <1>9, <1>10, <1>12, <2>2 DEF r
            <3>2. /\ q[k].thread_id = t /\ Plausible(q[k])
                  /\ q[k].thread_sequence < old.next_thread_sequence
                  /\ \A y \in NextViews(d, k, n) : Agree(ViewAfter(q[k]), y)
                BY <1>4, <2>0, <2>2, <3>1 DEF StreamInv, QueueInv, Queue, Owner
            <3>3. CASE k < Len(r)
                <4>1. NextViews(d, k, n)' = NextViews(d, k, n)
                    BY <1>2, <1>19, <2>0, <2>2, <3>3
                <4> QED
                    BY <3>1, <3>2, <4>1
            <3>4. CASE ~(k < Len(r))
                <4>1. k = Len(r)
                    BY <1>2, <1>10, <2>2, <3>4
                <4>2. q[k] \in MonitorEvent /\ q[k].thread_sequence < e.thread_sequence
                    BY <1>2, <1>6, <2>2, ElementOfSeq
                <4>3. n # old.next_thread_sequence
                    BY <1>2, <1>6, <3>1, <4>2, EventFields
                <4>4. \A y \in NextViews(d, k, n)' : FALSE
                    BY <1>20, <2>0, <2>2, <4>1, <4>3
                <4> QED
                    BY <3>1, <3>2, <4>4
            <3> QED
                BY <3>3, <3>4
        <2>3. CASE d = slot /\ k \notin DOMAIN q
            <3>1. contexts'[d].queue = r /\ contexts'[d].thread_id = t
                  /\ contexts'[d].next_thread_sequence = old.next_thread_sequence
                BY <1>9, <1>12, <2>3 DEF r
            <3>2. r = p /\ k = Len(r) /\ r[k] = e
                <4>1. k \in DOMAIN r
                    BY <3>1
                <4>2. r = p
                    BY <1>9, <2>3, <4>1
                <4>3. k \in 1 .. Len(q) + 1 /\ k \notin 1 .. Len(q)
                    BY <1>2, <1>8, <2>3, <4>1, <4>2
                <4>4. Len(q) \in Nat
                    BY <1>2, LenProperties
                <4>5. PICK i \in Nat : i = Len(q)
                    BY <4>4
                <4>6. k \in 1 .. i + 1 /\ k \notin 1 .. i
                    BY <4>3, <4>5
                <4>7. k = i + 1
                    BY <4>6
                <4>8. k = Len(q) + 1
                    BY <4>5, <4>7
                <4> QED
                    BY <1>8, <4>2, <4>8
            <3>3. \A y \in NextViews(d, k, n)' : accept_events /\ y = StampedView(t)
                BY <1>20, <2>0, <2>3, <3>2
            <3> QED
                BY <1>2, <1>6, <3>1, <3>2, <3>3
        <2> QED
            BY <2>1, <2>2, <2>3
    <1>24. BoundInv'
        <2> SUFFICES ASSUME NEW d \in DOMAIN contexts', NEW u, NEW n,
                            u = contexts'[d].thread_id, n = Expected(verifier, u),
                            First(d)', ~Tainted(verifier, u),
                            NEW y \in NextViews(d, 0, n)'
                     PROVE  Bounded(verifier.thread_states[u], y)
            BY <1>3, BoundInvAfter
        <2>1. d \in DOMAIN contexts /\ First(d) /\ Owner(d) = u
            BY <1>12, <1>13
        <2>2. y \in NextViews(d, 0, n)
            <3>1. CASE d = slot
                BY <1>2, <1>10, <1>19, <2>1, <3>1
            <3>2. CASE d # slot
                BY <1>18, <2>1, <3>2
            <3> QED
                BY <3>1, <3>2
        <2> QED
            BY <2>1, <2>2 DEF StreamInv, BoundInv
    <1>25. AgainInv'
        <2> SUFFICES ASSUME NEW d \in DOMAIN contexts, ~First(d),
                            ~Tainted(verifier, Owner(d)), ~Overflowed(verifier, Owner(d))
                     PROVE  contexts'[d].queue # <<>>
                            /\ contexts'[d].queue[1].thread_sequence = 0
            BY <1>3, <1>12, <1>13 DEF AgainInv, Queue
        <2>1. Queue(d) # <<>> /\ Queue(d)[1].thread_sequence = 0
            BY DEF StreamInv, AgainInv
        <2>2. CASE d = slot
            <3>1. 1 \in DOMAIN q
                BY <1>2, <2>1, <2>2, EmptySeq DEF Queue
            <3>2. r # <<>> /\ r[1] = q[1] /\ contexts'[d].queue = r
                BY <1>10, <1>12, <2>2, <3>1 DEF r
            <3> QED
                BY <2>1, <2>2, <3>2 DEF Queue
        <2>3. CASE d # slot
            BY <1>18, <2>1, <2>3 DEF Queue
        <2> QED
            BY <2>2, <2>3
    <1>26. SeenInv'
        <2> SUFFICES ASSUME NEW d \in DOMAIN contexts,
                            \/ contexts'[d].queue = <<>>
                            \/ d < consumer.i /\ d <= consumer.count
                     PROVE  Seen(verifier, Owner(d))
            BY <1>3, <1>12, <1>13 DEF SeenInv, Queue
        <2>1. CASE d = slot
            <3>1. contexts'[d].queue # <<>>
                BY <1>10, <1>12, <2>1 DEF r
            <3> QED
                BY <3>1 DEF StreamInv, SeenInv
        <2>2. CASE d # slot
            BY <1>18, <2>2 DEF StreamInv, SeenInv, Queue
        <2> QED
            BY <2>1, <2>2
    <1>27. FreshInv'
        BY <1>3 DEF StreamInv, FreshInv
    <1> QED
        BY <1>21, <1>22, <1>23, <1>24, <1>25, <1>26, <1>27 DEF StreamInv

-----------------------------------------------------------------------------
(***************************************************************************)
(* Steps of the consumer and of stop that take no event.                   *)
(***************************************************************************)

LEMMA CheckedKeeps ==
    ASSUME NEW v \in VerifierState
    PROVE  LET w == CheckDeadlocks(v) IN
           w.thread_states = v.thread_states /\ Counts(w) = Counts(v)
    <1> DEFINE cycle == FindAnyCycle(v)
               n == IF v.confirmations < Confirmations THEN v.confirmations + 1
                                                       ELSE v.confirmations
               r == [v EXCEPT !.confirmations = n, !.reported_cycle = cycle]
               i == r.deadlock_cycle_violations + 1
               w == CheckDeadlocks(v)
    <1>1. \/ w = [v EXCEPT !.candidate_cycle = {}, !.confirmations = 0, !.reported_cycle = {}]
          \/ w = [v EXCEPT !.candidate_cycle = cycle, !.confirmations = 1]
          \/ w = [v EXCEPT !.confirmations = n]
          \/ w = [r EXCEPT !.deadlock_cycle_violations = i]
        BY DEF CheckDeadlocks, ReportDeadlockCycle
    <1> HIDE DEF cycle, n, i, w
    <1>2. ASSUME w = [r EXCEPT !.deadlock_cycle_violations = i]
          PROVE  w.thread_states = v.thread_states /\ Counts(w) = Counts(v)
        BY <1>2 DEF VerifierState, Counts
    <1>3. ASSUME NEW x, NEW y, NEW z,
                 w = [v EXCEPT !.candidate_cycle = x, !.confirmations = y, !.reported_cycle = z]
          PROVE  w.thread_states = v.thread_states /\ Counts(w) = Counts(v)
        BY <1>3 DEF VerifierState, Counts
    <1>4. ASSUME NEW x, NEW y, w = [v EXCEPT !.candidate_cycle = x, !.confirmations = y]
          PROVE  w.thread_states = v.thread_states /\ Counts(w) = Counts(v)
        BY <1>4 DEF VerifierState, Counts
    <1>5. ASSUME w = [v EXCEPT !.confirmations = n]
          PROVE  w.thread_states = v.thread_states /\ Counts(w) = Counts(v)
        BY <1>5 DEF VerifierState, Counts
    <1> QED
        BY <1>1, <1>2, <1>3, <1>4, <1>5 DEF w

\* Once stopped, events are not accepted again.
LEMMA StopsAccepting ==
    ASSUME Parts, DrainEmpty \/ PassEnd \/ StopAccept \/ StopStep \/ Tick
    PROVE  accept_events' => accept_events
    <1>1. main \in [pc : {"running", "stopping", "joining", "stopped"},
                    interpretation : {"none", "AUTHORITATIVE", "INCOMPLETE TRACE"}]
        BY DEF Parts, MainInv
    <1>2. CASE main' = main
        BY <1>2 DEF accept_events
    <1>3. CASE StopAccept \/ StopConsumer \/ Summary
        <2>1. \/ \E pc \in {"stopping", "joining"} : main' = [main EXCEPT !.pc = pc]
              \/ Summary
            BY <1>3 DEF StopAccept, StopConsumer
        <2>2. ASSUME NEW pc \in {"stopping", "joining"}, main' = [main EXCEPT !.pc = pc]
              PROVE  main'.pc # "running"
            BY <1>1, <2>2
        <2>3. Summary => main'.pc # "running"
            BY DEF Summary
        <2> QED
            BY <2>1, <2>2, <2>3 DEF accept_events
    <1> QED
        BY <1>2, <1>3 DEF DrainEmpty, PassEnd, StopStep, Tick

LEMMA AsideStreams ==
    ASSUME Parts, StreamInv, DrainEmpty \/ PassEnd \/ StopAccept \/ StopStep \/ Tick
    PROVE  StreamInv' /\ Counts(verifier') = Counts(verifier)
    <1>1. UNCHANGED <<lock, app, contexts, times>>
        BY DEF DrainEmpty, PassEnd, StopAccept, StopStep, StopConsumer, Summary, Tick,
               ghostVars, mutexVars, transportVars
    <1>2. accept_events' => accept_events
        BY StopsAccepting
    <1>3. now \in Nat /\ now' \in Nat /\ now' >= now
        BY DEF Parts, DrainEmpty, PassEnd, StopAccept, StopStep, StopConsumer, Summary, Tick
    <1>4. /\ verifier'.thread_states = verifier.thread_states
          /\ Counts(verifier') = Counts(verifier)
        <2>1. verifier' = verifier \/ verifier' = CheckDeadlocks(verifier)
            BY DEF DrainEmpty, PassEnd, StopAccept, StopStep, StopConsumer, Summary, Tick
        <2> QED
            BY <2>1, CheckedKeeps DEF Parts, Consistent
    <1>5. \A u : StampedView(u)' = StampedView(u)
        BY <1>1 DEF StampedView, RealDepth
    <1>6. \A c : /\ Owner(c)' = Owner(c) /\ Queue(c)' = Queue(c)
                 /\ Live(c)' <=> Live(c)
                 /\ Pending(c)' <=> Pending(c)
        BY <1>1 DEF Owner, Queue, Live, Pending
    <1>7. ThreadsInv'
        <2> SUFFICES ASSUME NEW u \in Thread PROVE ThreadInv(u)'
            BY DEF ThreadsInv
        <2>1. ThreadInv(u)
            BY DEF StreamInv, ThreadsInv
        <2>2. \A m \in Mutex : times'[u][m].acquired <= now'
            <3> SUFFICES ASSUME NEW m \in Mutex PROVE times[u][m].acquired <= now'
                BY <1>1
            <3>1. times[u][m].acquired \in Nat
                BY DEF Parts, GhostInv, Times
            <3> QED
                BY <1>3, <2>1, <3>1 DEF ThreadInv
        <2> QED
            BY <1>1, <1>2, <2>1, <2>2 DEF ThreadInv, Owner
    <1>8. PendingInv'
        <2> SUFFICES ASSUME NEW c \in DOMAIN contexts, Pending(c) PROVE NewestPending(c)'
            BY <1>1, <1>6 DEF PendingInv
        <2>1. NewestPending(c)
            BY DEF StreamInv, PendingInv
        <2>2. StampedView(Owner(c))' = StampedView(Owner(c))
            BY <1>5, <1>6
        <2> QED
            BY <1>1, <1>2, <1>6, <2>1, <2>2 DEF NewestPending
    <1>9. QueueInv' /\ BoundInv' /\ AgainInv' /\ FreshInv'
        <2>1. ASSUME NEW c \in DOMAIN contexts, NEW k \in Nat, NEW n \in Nat
              PROVE  NextViews(c, k, n)' \subseteq NextViews(c, k, n)
            <3>1. StampedView(Owner(c))' = StampedView(Owner(c))
                BY <1>5, <1>6
            <3> QED
                BY <1>1, <1>2, <1>6, <3>1 DEF NextViews
        <2>2. \A c \in DOMAIN contexts :
                 /\ contexts'[c].next_thread_sequence \in Nat
                 /\ contexts'[c].next_thread_sequence >= contexts[c].next_thread_sequence
            BY <1>1, ContextFields DEF Parts
        <2> QED
            BY <1>1, <1>4, <1>6, <2>1, <2>2, StreamsFrame DEF Parts, StreamInv
    <1>10. SeenInv'
        <2>1. CASE consumer' = consumer
            BY <1>1, <1>4, <1>6, <2>1, SeenFrame DEF StreamInv
        <2>2. CASE DrainEmpty \/ PassEnd
            <3> SUFFICES ASSUME NEW c \in DOMAIN contexts,
                                Queue(c) = <<>> \/ (c < consumer'.i /\ c <= consumer'.count)
                         PROVE  Seen(verifier', Owner(c))
                BY <1>1, <1>6 DEF SeenInv
            <3>1. Seen(verifier', Owner(c)) <=> Seen(verifier, Owner(c))
                BY <1>4 DEF Seen, Expected, Overflowed, KnownThreads
            <3>2. /\ c \in Nat \ {0} /\ consumer.i \in Nat
                  /\ consumer \in [i : Nat \ {0}, count : 0 .. Len(contexts), batch : Nat,
                                   consumed_any : BOOLEAN, done : BOOLEAN]
                BY ContextFields DEF Parts, ConsumerInv
            <3>3. CASE DrainEmpty
                <4> DEFINE n == consumer.i + 1
                <4>1. consumer' = [consumer EXCEPT !.i = n, !.batch = 0]
                      /\ contexts[consumer.i].queue = <<>>
                    BY <3>3 DEF DrainEmpty, NextConsumer, ScannedQueue
                <4> HIDE DEF n
                <4>2. consumer'.i = n /\ consumer'.count = consumer.count
                    BY <3>2, <4>1
                <4>3. Queue(c) = <<>> \/ (c < consumer.i /\ c <= consumer.count)
                    BY <3>2, <4>1, <4>2 DEF Queue, n
                <4> QED
                    BY <3>1, <4>3 DEF StreamInv, SeenInv
            <3>4. CASE PassEnd
                <4>1. consumer'.i = 1
                    BY <3>4 DEF PassEnd, NextConsumer
                <4>2. Queue(c) = <<>>
                    BY <3>2, <4>1
                <4> QED
                    BY <3>1, <4>2 DEF StreamInv, SeenInv
            <3> QED
                BY <2>2, <3>3, <3>4
        <2> QED
            BY <2>1, <2>2 DEF StopAccept, StopStep, StopConsumer, Summary, Tick
    <1> QED
        BY <1>4, <1>7, <1>8, <1>9, <1>10 DEF StreamInv

-----------------------------------------------------------------------------
(***************************************************************************)
(* The consumer takes an event.                                            *)
(***************************************************************************)

\* No view has a thread hold a mutex less than not at all.
LEMMA ViewsNatural ==
    ASSUME Parts, StreamInv, NEW c \in DOMAIN contexts, NEW k \in Nat, NEW n,
           NEW y \in NextViews(c, k, n), NEW m \in Mutex
    PROVE  y.held[m] \in Nat
    <1>1. ASSUME NEW e \in MonitorEvent, Plausible(e)
          PROVE  ViewBefore(e).held[m] \in Nat
        <2>1. e.really_held[m] \in Nat
            BY <1>1, EventFields
        <2>2. e.event_type = "LOCK_ACQUIRED" => e.really_held[e.object] > 0
            BY <1>1 DEF Plausible
        <2> QED
            BY <1>1, <2>1, <2>2, Views
    <1>2. CASE k < Len(Queue(c))
        <2>1. Queue(c) \in Seq(MonitorEvent) /\ Len(Queue(c)) \in Nat
              /\ DOMAIN Queue(c) = 1 .. Len(Queue(c))
            BY ContextFields, LenProperties DEF Parts, Queue
        <2>2. k + 1 \in DOMAIN Queue(c) /\ y = ViewBefore(Queue(c)[k + 1])
            BY <1>2, <2>1 DEF NextViews
        <2>3. Queue(c)[k + 1] \in MonitorEvent /\ Plausible(Queue(c)[k + 1])
            BY <2>1, <2>2, ElementOfSeq DEF StreamInv, QueueInv
        <2> QED
            BY <1>1, <2>2, <2>3
    <1>3. CASE ~(k < Len(Queue(c))) /\ Pending(c)
        <2>1. y = ViewBefore(app[Owner(c)].event) /\ NewestPending(c)
            BY <1>3 DEF NextViews, StreamInv, PendingInv
        <2>2. app[Owner(c)].event \in MonitorEvent
            BY <1>3, AppFields, ContextFields DEF Pending, Owner, Parts
        <2> QED
            BY <1>1, <2>1, <2>2 DEF NewestPending
    <1>4. CASE ~(k < Len(Queue(c))) /\ ~Pending(c)
        <2>1. y = StampedView(Owner(c)) /\ Owner(c) \in Thread
            BY <1>4, ContextFields DEF NextViews, Owner, Parts
        <2>2. RealDepth(Owner(c))[m] \in Nat
            BY <2>1 DEF Parts, LockInv, RealDepth
        <2>3. app[Owner(c)].pc = "acquired" /\ app[Owner(c)].mutex = m
                => RealDepth(Owner(c))[m] > 0
            BY <2>1, VerifierAssumption
               DEF StreamInv, ThreadsInv, ThreadInv, Parts, LockInv, LocksInPlace, RealDepth
        <2> QED
            BY <2>1, <2>2, <2>3 DEF StampedView
    <1> QED
        BY <1>2, <1>3, <1>4

\* What is bounded by a view is bounded by the one that follows it.
LEMMA BoundAgrees ==
    ASSUME NEW s, NEW x, NEW y, Bounded(s, x), Agree(x, y),
           \A m \in Mutex : s.depth[m] \in Nat /\ x.held[m] \in Nat /\ y.held[m] \in Nat
    PROVE  Bounded(s, y)
    BY DEF Bounded, Agree

\* The stream of the context that is drained, one event on.
LEMMA DrainedQueue ==
    ASSUME Parts, Drain
    PROVE  LET q == contexts[consumer.i].queue
               r == Tail(q) IN
           /\ consumer.i \in DOMAIN contexts
           /\ q \in Seq(MonitorEvent) /\ Len(q) \in Nat /\ Len(q) > 0 /\ DOMAIN q = 1 .. Len(q)
           /\ Head(q) = q[1] /\ Head(q) \in MonitorEvent
           /\ Len(r) = Len(q) - 1 /\ DOMAIN r = 1 .. Len(r) /\ r \in Seq(MonitorEvent)
           /\ \A k \in DOMAIN r : r[k] = q[k + 1]
           /\ DOMAIN contexts' = DOMAIN contexts
           /\ contexts'[consumer.i].queue = r
           /\ contexts'[consumer.i].thread_id = contexts[consumer.i].thread_id
           /\ contexts'[consumer.i].next_thread_sequence
                = contexts[consumer.i].next_thread_sequence
           /\ contexts'[consumer.i].dropped = contexts[consumer.i].dropped
           /\ \A d \in DOMAIN contexts : d # consumer.i => contexts'[d] = contexts[d]
    <1> DEFINE i == consumer.i
               old == contexts[i]
               q == old.queue
               r == Tail(q)
               c == [old EXCEPT !.queue = r]
    <1>1. i \in DOMAIN contexts
        BY ScannedContext DEF Drain
    <1>2. /\ old \in ThreadContext /\ q \in Seq(MonitorEvent)
          /\ Len(q) \in Nat /\ DOMAIN q = 1 .. Len(q)
        BY <1>1, ContextFields, LenProperties DEF Parts
    <1>3. contexts' = [contexts EXCEPT ![i] = c] /\ q # <<>>
        BY DEF Drain, ScannedQueue
    <1>4. /\ Head(q) = q[1] /\ Head(q) \in MonitorEvent /\ r \in Seq(MonitorEvent)
          /\ Len(q) > 0 /\ Len(r) = Len(q) - 1 /\ \A k \in 1 .. Len(q) - 1 : r[k] = q[k + 1]
        BY <1>2, <1>3, HeadTailProperties, EmptySeq
    <1>5. DOMAIN r = 1 .. Len(r)
        BY <1>4, LenProperties
    <1> HIDE DEF r
    <1>6. c.queue = r /\ c.thread_id = old.thread_id /\ c.dropped = old.dropped
          /\ c.next_thread_sequence = old.next_thread_sequence
        BY <1>2 DEF ThreadContext
    <1> HIDE DEF c
    <1>7. /\ DOMAIN contexts' = DOMAIN contexts /\ contexts'[i] = c
          /\ \A d \in DOMAIN contexts : d # i => contexts'[d] = contexts[d]
        BY <1>1, <1>3
    <1> QED
        BY <1>1, <1>2, <1>4, <1>5, <1>6, <1>7 DEF r

\* Of a second context, the first event that is taken is a gap.
LEMMA AgainGap ==
    ASSUME Parts, StreamInv, Drain, ~First(consumer.i),
           ~Overflowed(verifier, Owner(consumer.i))
    PROVE  \/ Tainted(verifier, Owner(consumer.i))
           \/ Head(ScannedQueue).thread_sequence # Expected(verifier, Owner(consumer.i))
    <1> DEFINE i == consumer.i
               t == Owner(i)
    <1>1. i \in DOMAIN contexts /\ Head(Queue(i)) = Queue(i)[1]
        BY DrainedQueue DEF Queue
    <1>2. PICK d \in DOMAIN contexts : d < i /\ Owner(d) = t
        BY DEF First
    <1>3. consumer.count \in Nat /\ i \in Nat /\ d \in Nat /\ i <= consumer.count
        BY ContextFields DEF Parts, ConsumerInv, Drain, Scanning
    <1>4. d < consumer.i /\ d <= consumer.count
        BY <1>2, <1>3
    <1>5. Seen(verifier, t)
        BY <1>2, <1>4 DEF StreamInv, SeenInv
    <1>6. Expected(verifier, t) > 0
        BY <1>5 DEF Seen
    <1>7. Tainted(verifier, t) \/ Queue(i)[1].thread_sequence = 0
        BY <1>1 DEF StreamInv, AgainInv
    <1> QED
        BY <1>1, <1>6, <1>7 DEF ScannedQueue, Queue

\* What is recorded of a thread is bounded by the view before its event.
LEMMA DrainedBound ==
    ASSUME Parts, StreamInv, Drain, First(consumer.i),
           ~Tainted(verifier, Owner(consumer.i)),
           Head(ScannedQueue).thread_sequence = Expected(verifier, Owner(consumer.i))
    PROVE  Bounded(verifier.thread_states[Owner(consumer.i)], ViewBefore(Head(ScannedQueue)))
    <1> DEFINE i == consumer.i
               q == Queue(i)
               e == q[1]
    <1>1. i \in DOMAIN contexts /\ Head(q) = e /\ Len(q) \in Nat /\ Len(q) > 0
        BY DrainedQueue DEF Queue
    <1>2. Head(ScannedQueue) = e
        BY <1>1 DEF ScannedQueue, Queue
    <1>3. NextViews(i, 0, e.thread_sequence) = {ViewBefore(e)}
        BY <1>1 DEF NextViews
    <1> QED
        BY <1>1, <1>2, <1>3 DEF StreamInv, BoundInv

LEMMA DrainStreams ==
    ASSUME Parts, StreamInv, Drain
    PROVE  StreamInv' /\ ReportsReal(verifier, verifier', Head(ScannedQueue))
    <1> DEFINE i == consumer.i
               q == contexts[i].queue
               r == Tail(q)
               e == Head(q)
               t == e.thread_id
               v == verifier
               w == verifier'
               s == v.thread_states[t]
               x == w.thread_states[t]
    <1>1. /\ i \in DOMAIN contexts
          /\ q \in Seq(MonitorEvent) /\ Len(q) \in Nat /\ Len(q) > 0 /\ DOMAIN q = 1 .. Len(q)
          /\ e = q[1] /\ e \in MonitorEvent
          /\ Len(r) = Len(q) - 1 /\ DOMAIN r = 1 .. Len(r) /\ r \in Seq(MonitorEvent)
          /\ \A k \in DOMAIN r : r[k] = q[k + 1]
        BY DrainedQueue
    <1>2. /\ DOMAIN contexts' = DOMAIN contexts /\ contexts'[i].queue = r
          /\ \A d \in DOMAIN contexts :
                /\ d # i => contexts'[d] = contexts[d]
                /\ contexts'[d].thread_id = contexts[d].thread_id
                /\ contexts'[d].next_thread_sequence = contexts[d].next_thread_sequence
        BY DrainedQueue
    <1> HIDE DEF r, e
    <1>3. /\ w = ProcessEvent(v, e) /\ consumer' = NextConsumer
          /\ UNCHANGED <<lock, app, times, now, main>>
          /\ e = Head(ScannedQueue) /\ i <= consumer.count
        BY DEF Drain, ScannedQueue, Scanning, mutexVars, ghostVars, e
    <1>4. 1 \in DOMAIN q /\ Consistent(v) /\ v \in VerifierState
        BY <1>1 DEF Parts, Consistent
    <1>5. t = Owner(i) /\ Plausible(e) /\ t \in Thread /\ e.thread_sequence \in Nat
        BY <1>1, <1>4, EventFields DEF StreamInv, QueueInv, Queue
    <1>6. /\ Others(v, w, t)
          /\ Overflowed(v, t) => w.thread_states = v.thread_states /\ Counts(w) = Counts(v)
          /\ ~Overflowed(v, t) =>
               /\ x.slot # 0 /\ x.next_expected_sequence = e.thread_sequence + 1
               /\ e.thread_sequence # s.next_expected_sequence \/ s.trace_tainted
                    => x.trace_tainted /\ Counts(w) = Counts(v)
               /\ e.thread_sequence = s.next_expected_sequence /\ ~s.trace_tainted =>
                    /\ ~x.trace_tainted
                    /\ Bounded(s, ViewBefore(e)) =>
                         Bounded(x, ViewAfter(e)) /\ ReportsReal(v, w, e)
        BY <1>1, <1>3, <1>4, <1>5, ProcessEffect
    <1>7. /\ Seen(w, t)
          /\ \A u \in Thread : /\ Overflowed(v, u) => Overflowed(w, u)
                               /\ Seen(v, u) => Seen(w, u)
                               /\ Tainted(v, u) => Tainted(w, u)
        BY <1>1, <1>3, <1>4, <1>5, SeenStays
    <1>8. Consistent(w)
        BY <1>1, <1>3, <1>4, Processed DEF MonitorEvent
    \* What the invariant says about the verifier, before and after the event.
    <1>9. /\ \A u \in Thread : /\ v.thread_states[u].depth \in [Mutex -> Nat]
                               /\ w.thread_states[u].depth \in [Mutex -> Nat]
                               /\ Expected(v, u) \in Nat
        <2>1. \A u \in Thread : v.thread_states[u] \in ThreadState
                                /\ w.thread_states[u] \in ThreadState
            BY <1>4, <1>8, ThreadFields DEF Consistent
        <2> QED
            BY <2>1 DEF ThreadState, Expected
    <1> HIDE DEF w
    <1>10. \A d \in DOMAIN contexts : Owner(d) \in Thread /\ d \in Nat /\ Owner(d)' = Owner(d)
                                      /\ contexts'[d].thread_id = Owner(d)
        BY <1>2, ContextFields DEF Parts, Owner
    <1>11. \A d \in DOMAIN contexts : First(d)' <=> First(d)
        BY <1>2, <1>10 DEF First
    \* A second context of the thread: its THREAD_START is a gap.
    <1>12. ~First(i) => Overflowed(v, t) \/ (Tainted(w, t) /\ Counts(w) = Counts(v))
        BY <1>3, <1>5, <1>6, AgainGap DEF Expected, Tainted
    <1>13. First(i) /\ ~Tainted(v, t) /\ e.thread_sequence = Expected(v, t)
             => Bounded(s, ViewBefore(e))
        BY <1>3, <1>5, DrainedBound
    <1>14. ReportsReal(v, w, e)
        BY <1>4, <1>6, <1>12, <1>13, NothingReported DEF Tainted, Expected
    <1>15. verifier' = w
        BY DEF w
    <1>16. accept_events' <=> accept_events
        BY <1>3 DEF accept_events
    <1>17. \A u : StampedView(u)' = StampedView(u)
        BY <1>3 DEF StampedView, RealDepth
    <1>18. ASSUME NEW d \in DOMAIN contexts
           PROVE  /\ (Live(d)' <=> Live(d)) /\ (Pending(d)' <=> Pending(d))
                  /\ app'[contexts'[d].thread_id] = app[Owner(d)]
                  /\ StampedView(Owner(d))' = StampedView(Owner(d))
        BY <1>3, <1>10, <1>17 DEF Live, Pending
    <1>19. ASSUME NEW d \in DOMAIN contexts, d # i
           PROVE  /\ contexts'[d].queue = Queue(d)
                  /\ \A k, n : NextViews(d, k, n)' = NextViews(d, k, n)
        <2>1. contexts'[d] = contexts[d]
            BY <1>2, <1>19
        <2>2. /\ Queue(d)' = Queue(d) /\ Owner(d)' = Owner(d)
            BY <1>10, <2>1 DEF Queue
        <2> QED
            BY <1>3, <1>16, <1>18, <2>1, <2>2 DEF NextViews, Queue
    <1>20. ASSUME NEW d \in DOMAIN contexts, d = i, NEW k \in Nat, NEW n
           PROVE  NextViews(d, k, n)' = NextViews(d, k + 1, n)
        <2>1. /\ Queue(d) = q /\ Queue(d)' = r /\ Owner(d)' = Owner(d)
              /\ contexts'[d].next_thread_sequence = contexts[d].next_thread_sequence
            BY <1>2, <1>10, <1>20 DEF Queue
        <2>2. k < Len(r) <=> k + 1 < Len(q)
            BY <1>1
        <2>3. ASSUME k < Len(r) PROVE r[k + 1] = q[(k + 1) + 1]
            <3>1. k + 1 \in DOMAIN r
                BY <1>1, <2>3
            <3> QED
                BY <1>1, <3>1
        <2> QED
            BY <1>3, <1>16, <1>18, <2>1, <2>2, <2>3 DEF NextViews
    <1>21. ThreadsInv'
        <2> SUFFICES ASSUME NEW u \in Thread PROVE ThreadInv(u)'
            BY DEF ThreadsInv
        <2>1. ThreadInv(u)
            BY DEF StreamInv, ThreadsInv
        <2>2. app[u].tls_context \in DOMAIN contexts
                => contexts'[app[u].tls_context].thread_id = u
            BY <1>10, <2>1 DEF ThreadInv
        <2> QED
            BY <1>2, <1>3, <1>16, <2>1, <2>2 DEF ThreadInv, Owner
    <1>22. PendingInv'
        <2> SUFFICES ASSUME NEW d \in DOMAIN contexts, Pending(d) PROVE NewestPending(d)'
            BY <1>2, <1>18 DEF PendingInv
        <2>1. NewestPending(d)
            BY DEF StreamInv, PendingInv
        <2>2. \A k \in DOMAIN contexts'[d].queue :
                 contexts'[d].queue[k].thread_sequence < app[Owner(d)].event.thread_sequence
            <3>1. CASE d = i
                <4> SUFFICES ASSUME NEW k \in DOMAIN r
                             PROVE  r[k].thread_sequence < app[Owner(d)].event.thread_sequence
                    BY <1>2, <3>1
                <4>1. k + 1 \in DOMAIN q /\ r[k] = q[k + 1]
                    BY <1>1
                <4>2. \A z \in DOMAIN q :
                         q[z].thread_sequence < app[Owner(d)].event.thread_sequence
                    BY <2>1, <3>1 DEF NewestPending, Queue
                <4> QED
                    BY <4>1, <4>2
            <3>2. CASE d # i
                BY <1>19, <2>1, <3>2 DEF NewestPending
            <3> QED
                BY <3>1, <3>2
        <2> QED
            BY <1>2, <1>3, <1>10, <1>16, <1>18, <2>1, <2>2 DEF NewestPending, Queue
    <1>23. QueueInv'
        <2> SUFFICES ASSUME NEW d \in DOMAIN contexts', NEW k \in DOMAIN contexts'[d].queue,
                            NEW n, n = contexts'[d].queue[k].thread_sequence + 1
                     PROVE  LET f == contexts'[d].queue[k] IN
                            /\ f.thread_id = contexts'[d].thread_id /\ Plausible(f)
                            /\ f.thread_sequence < contexts'[d].next_thread_sequence
                            /\ \A y \in NextViews(d, k, n)' : Agree(ViewAfter(f), y)
            BY QueueInvAfter
        <2>0. d \in DOMAIN contexts
            BY <1>2
        <2>1. CASE d = i
            <3>1. k \in DOMAIN r /\ contexts'[d].queue[k] = q[k + 1] /\ k \in Nat
                BY <1>1, <1>2, <2>1
            <3>2. k + 1 \in DOMAIN q
                BY <1>1, <3>1
            <3>3. /\ q[k + 1].thread_id = Owner(d) /\ Plausible(q[k + 1])
                  /\ q[k + 1].thread_sequence < contexts[d].next_thread_sequence
                  /\ \A y \in NextViews(d, k + 1, n) : Agree(ViewAfter(q[k + 1]), y)
                BY <2>0, <2>1, <3>1, <3>2 DEF StreamInv, QueueInv, Queue
            <3>4. NextViews(d, k, n)' = NextViews(d, k + 1, n)
                BY <1>20, <2>0, <2>1, <3>1
            <3> QED
                BY <1>2, <1>10, <2>0, <3>1, <3>3, <3>4
        <2>2. CASE d # i
            <3>1. contexts'[d] = contexts[d] /\ NextViews(d, k, n)' = NextViews(d, k, n)
                BY <1>2, <1>19, <2>0, <2>2
            <3> QED
                BY <2>0, <3>1 DEF StreamInv, QueueInv, Queue, Owner
        <2> QED
            BY <2>1, <2>2
    <1>24. BoundInv'
        <2> SUFFICES ASSUME NEW d \in DOMAIN contexts', NEW u, NEW n,
                            u = contexts'[d].thread_id, n = Expected(w, u),
                            First(d)', ~Tainted(w, u), NEW y \in NextViews(d, 0, n)'
                     PROVE  Bounded(w.thread_states[u], y)
            BY <1>15, BoundInvAfter
        <2>1. d \in DOMAIN contexts /\ First(d) /\ Owner(d) = u /\ u \in Thread
            BY <1>2, <1>10, <1>11
        <2>2. ~Tainted(v, u)
            BY <1>7, <2>1
        \* Nothing is recorded for another thread, or for one that is not in the table.
        <2>3. CASE d # i /\ (u # t \/ Overflowed(v, t))
            <3>1. w.thread_states[u] = v.thread_states[u]
                BY <1>6, <2>1, <2>3 DEF Others
            <3>2. y \in NextViews(d, 0, Expected(v, u))
                BY <1>19, <2>1, <2>3, <3>1 DEF Expected
            <3> QED
                BY <2>1, <2>2, <3>1, <3>2 DEF StreamInv, BoundInv
        <2>4. CASE d = i /\ Overflowed(v, t)
            <3>1. /\ u = t /\ w.thread_states[t] = v.thread_states[t]
                  /\ \A m \in Mutex : w.thread_states[t].depth[m] = 0
                BY <1>5, <1>6, <2>1, <2>4 DEF StreamInv, FreshInv, Overflowed
            <3>2. y \in NextViews(d, 0 + 1, n)
                BY <1>20, <2>1, <2>4
            <3>3. \A m \in Mutex : y.held[m] \in Nat
                BY <2>1, <3>2, ViewsNatural
            <3> QED
                BY <3>1, <3>3 DEF Bounded
        <2>5. CASE d # i /\ u = t /\ ~Overflowed(v, t)
            <3>1. ~First(i)
                BY <1>1, <1>5, <1>10, <2>1, <2>5 DEF First
            <3> QED
                BY <1>12, <2>5, <3>1
        <2>6. CASE d = i /\ ~Overflowed(v, t)
            <3>1. u = t /\ e.thread_sequence = Expected(v, t) /\ ~Tainted(v, t)
                BY <1>5, <1>6, <2>1, <2>2, <2>6 DEF Tainted, Expected
            <3>2. Bounded(x, ViewAfter(e)) /\ n = e.thread_sequence + 1
                BY <1>6, <1>13, <2>1, <2>6, <3>1 DEF Tainted, Expected
            <3>3. y \in NextViews(d, 0 + 1, n)
                BY <1>20, <2>1, <2>6
            <3>4. Agree(ViewAfter(e), y)
                <4>1. 1 \in DOMAIN Queue(d) /\ Queue(d)[1] = e /\ 0 + 1 = 1
                    BY <1>1, <1>4, <2>6 DEF Queue
                <4>2. \A z \in NextViews(d, 1, e.thread_sequence + 1) :
                         Agree(ViewAfter(e), z)
                    BY <2>1, <4>1 DEF StreamInv, QueueInv
                <4> QED
                    BY <3>2, <3>3, <4>1, <4>2
            <3>5. \A m \in Mutex : /\ x.depth[m] \in Nat /\ ViewAfter(e).held[m] \in Nat
                                   /\ y.held[m] \in Nat
                <4> TAKE m \in Mutex
                <4>1. x.depth[m] \in Nat
                    BY <1>5, <1>9
                <4>2. ViewAfter(e).held[m] \in Nat
                    BY <1>1, EventFields, Views
                <4>3. 0 + 1 \in Nat
                    OBVIOUS
                <4>4. y.held[m] \in Nat
                    BY <2>1, <3>3, <4>3, ViewsNatural
                <4> QED
                    BY <4>1, <4>2, <4>4
            <3> QED
                BY <3>1, <3>2, <3>4, <3>5, BoundAgrees
        <2> QED
            BY <2>3, <2>4, <2>5, <2>6
    <1>25. AgainInv'
        <2> SUFFICES ASSUME NEW d \in DOMAIN contexts, ~First(d),
                            ~Tainted(w, Owner(d)), ~Overflowed(w, Owner(d))
                     PROVE  contexts'[d].queue # <<>>
                            /\ contexts'[d].queue[1].thread_sequence = 0
            BY <1>2, <1>10, <1>11, <1>15 DEF AgainInv, Queue
        <2>1. ~Tainted(v, Owner(d)) /\ ~Overflowed(v, Owner(d))
            BY <1>7, <1>10
        <2>2. d # i
            BY <1>5, <1>12, <2>1
        <2> QED
            BY <1>19, <2>1, <2>2 DEF StreamInv, AgainInv
    <1>26. SeenInv'
        <2> SUFFICES ASSUME NEW d \in DOMAIN contexts,
                            \/ contexts'[d].queue = <<>>
                            \/ d < consumer'.i /\ d <= consumer'.count
                     PROVE  Seen(w, Owner(d))
            BY <1>2, <1>10, <1>15 DEF SeenInv, Queue
        <2>1. CASE Owner(d) = t
            BY <1>7, <2>1
        <2>2. CASE Owner(d) # t
            <3>1. d # i
                BY <1>5, <2>2
            <3> DEFINE n == consumer.i + 1
                       b == consumer.batch + 1
            <3>2. consumer \in [i : Nat \ {0}, count : 0 .. Len(contexts), batch : Nat,
                                consumed_any : BOOLEAN, done : BOOLEAN]
                BY DEF Parts, ConsumerInv
            <3>3. \/ consumer' = [consumer EXCEPT !.consumed_any = TRUE, !.batch = b]
                  \/ consumer' = [consumer EXCEPT !.consumed_any = TRUE, !.batch = 0, !.i = n]
                BY <1>3 DEF NextConsumer, Drain
            <3> HIDE DEF n, b
            <3>4. consumer'.i \in {consumer.i, n} /\ consumer'.count = consumer.count
                BY <3>2, <3>3
            <3>5. Queue(d) = <<>> \/ (d < consumer.i /\ d <= consumer.count)
                BY <1>10, <1>19, <3>1, <3>2, <3>4 DEF n
            <3> QED
                BY <1>7, <1>10, <3>5 DEF StreamInv, SeenInv
        <2> QED
            BY <2>1, <2>2
    <1>27. FreshInv'
        <2> SUFFICES ASSUME NEW u \in Thread
                     PROVE  /\ w.thread_states[u].slot = 0
                                  <=> w.thread_states[u].next_expected_sequence = 0
                            /\ w.thread_states[u].slot = 0 =>
                                  \A m \in Mutex : w.thread_states[u].depth[m] = 0
            BY <1>15 DEF FreshInv
        <2>1. CASE u = t /\ ~Overflowed(v, t)
            BY <1>5, <1>6, <2>1
        <2>2. CASE u # t \/ Overflowed(v, t)
            <3>1. w.thread_states[u] = v.thread_states[u]
                BY <1>6, <2>2 DEF Others
            <3> QED
                BY <3>1 DEF StreamInv, FreshInv
        <2> QED
            BY <2>1, <2>2
    <1> QED
        BY <1>3, <1>14, <1>15, <1>21, <1>22, <1>23, <1>24, <1>25, <1>26, <1>27 DEF StreamInv

-----------------------------------------------------------------------------
(***************************************************************************)
(* The theorems.                                                           *)
(***************************************************************************)

LEMMA InitStreams == Init => StreamInv
    <1> SUFFICES ASSUME Init PROVE StreamInv
        OBVIOUS
    <1>1. DOMAIN contexts = {}
        BY DEF Init
    <1>2. ThreadsInv
        <2> SUFFICES ASSUME NEW t \in Thread PROVE ThreadInv(t)
            BY DEF ThreadsInv
        <2>1. app[t].pc = "run" /\ app[t].tls_context = NoContext
            BY DEF Init
        <2>2. \A m \in Mutex : times[t][m].acquired <= now
            BY DEF Init, NoTimes
        <2> QED
            BY <1>1, <2>1, <2>2 DEF ThreadInv
    <1>3. FreshInv
        BY DEF Init, InitVerifier, FreshInv
    <1> QED
        BY <1>1, <1>2, <1>3 DEF StreamInv, PendingInv, QueueInv, BoundInv, AgainInv, SeenInv

\* A step that leaves everything alone, or that only concerns an application thread,
\* reports nothing.
LEMMA AppReportsNothing ==
    ASSUME NEW t \in Thread, Call(t) \/ InCall(t)
    PROVE  verifier' = verifier
    BY DEF Call, InCall, LockRequest, RealUnlock, ThreadExit, RealLock, LockAcquired,
           LockFailed, Unlocked, UnlockFailed, Push, monitorVars

LEMMA StreamStep ==
    ASSUME Parts, StreamInv, [Next \/ Tick]_vars
    PROVE  /\ StreamInv'
           /\ ReportsReal(verifier, verifier', Head(ScannedQueue))
    <1>1. Parts'
        BY StepKeeps
    <1>2. ContextsInv' /\ verifier \in VerifierState
        BY <1>1 DEF Parts, Consistent
    <1>3. ASSUME Counts(verifier') = Counts(verifier)
          PROVE  ReportsReal(verifier, verifier', Head(ScannedQueue))
        BY <1>2, <1>3, NothingReported
    <1>4. ASSUME NEW t \in Thread, Call(t)
          PROVE  StreamInv' /\ ReportsReal(verifier, verifier', Head(ScannedQueue))
        <2>1. StreamInv'
            BY <1>2, <1>4, CallsEmitStreams, RealUnlockStreams, ThreadExitStreams DEF Call
        <2> QED
            BY <1>3, <1>4, <2>1, AppReportsNothing
    <1>5. ASSUME NEW t \in Thread, InCall(t)
          PROVE  StreamInv' /\ ReportsReal(verifier, verifier', Head(ScannedQueue))
        <2>1. StreamInv'
            BY <1>2, <1>5, CallsEmitStreams, RealLockStreams, PushStreams DEF InCall
        <2> QED
            BY <1>3, <1>5, <2>1, AppReportsNothing
    <1>6. CASE Drain
        BY <1>6, DrainStreams
    <1>7. CASE DrainEmpty \/ PassEnd \/ StopAccept \/ StopStep \/ Tick
        BY <1>3, <1>7, AsideStreams
    <1>8. CASE UNCHANGED vars
        <2>1. StreamInv'
            BY <1>8 DEF vars, StreamInv, ThreadsInv, ThreadInv, PendingInv, NewestPending,
                        QueueInv, BoundInv, AgainInv, SeenInv, FreshInv, Pending, Live,
                        Owner, Queue, NextViews, StampedView, RealDepth, accept_events, First
        <2> QED
            BY <1>3, <1>8, <2>1 DEF vars
    <1> QED
        BY <1>4, <1>5, <1>6, <1>7, <1>8 DEF Next, ConsumerStep

\* What the verifier has recorded of a thread it trusts never exceeds what the thread
\* had really done when the next event of its stream was stamped.
THEOREM StreamInvariance == TimedSpec => [](IndInv /\ StreamInv)
    <1>1. Init => Parts /\ StreamInv
        BY InitParts, InitStreams
    <1>2. Parts /\ StreamInv /\ [Next \/ Tick]_vars => (Parts /\ StreamInv)'
        BY StepKeeps, StreamStep
    <1> QED
        BY <1>1, <1>2, Split, PTL DEF TimedSpec

\* handle_lock_request, handle_thread_exit and release_held_mutex: whatever is dropped
\* or left unregistered, every SELF_DEADLOCK_CANDIDATE, LOCK_HELD_AT_THREAD_EXIT and
\* HOLD_TIME_VIOLATION report is about something its thread did, for any number of
\* threads, mutexes and contexts, and for queues and tables of any size.
THEOREM StreamReports == TimedSpec => StreamReportsReal
    <1> DEFINE Real == LET e == Head(ScannedQueue) IN
            /\ verifier'.self_deadlock_candidates > verifier.self_deadlock_candidates
                 => e.really_held[e.object] > 0
            /\ verifier'.lock_held_at_exit_violations
                 > verifier.lock_held_at_exit_violations
                 => \E m \in Mutex : e.really_held[m] > 0
            /\ verifier'.hold_time_violations > verifier.hold_time_violations
                 => e.timestamp - e.times[e.object].acquired > MaxHold
    <1>1. Parts /\ StreamInv /\ [Next \/ Tick]_vars => Real
        BY StreamStep DEF ReportsReal
    <1>2. IndInv /\ StreamInv /\ [Next \/ Tick]_vars => [Real]_vars
        BY <1>1, Split
    <1> HIDE DEF Real
    <1>3. TimedSpec => [][Real]_vars
        BY <1>2, StreamInvariance, PTL DEF TimedSpec
    <1> QED
        BY <1>3 DEF StreamReportsReal, Real
=============================================================================
