--------------------------- MODULE OwnershipProofs ---------------------------
(***************************************************************************)
(* OwnershipOrderIndependent for any number of threads, mutexes and        *)
(* contexts, any queue and table sizes and any interleaving.               *)
(*                                                                         *)
(* The flow of a context is what the verifier has not taken of it: its     *)
(* queue and the event about to be pushed.  As long as nothing was missed, *)
(* the verifier counts for each thread exactly how often the thread held   *)
(* each mutex when the next event of its flow was stamped (FlowInv), so    *)
(* that it knows an unlock that gives a mutex up from one that does not.   *)
(* And for each mutex there is a newest stamp (OwnerInv): an event with    *)
(* that stamp is still on the way and names the owner, or it has been      *)
(* taken and the recorded owner is the one it named; everything else on    *)
(* the way is older.                                                       *)
(***************************************************************************)
EXTENDS StreamProofs

Flow(c) == IF Pending(c) THEN Append(Queue(c), app[Owner(c)].event) ELSE Queue(c)

Depth(v, t) == v.thread_states[t].depth

\* The flow starts with what is recorded, and each event goes on from the one before.
Continues(depth, flow) == \A k \in DOMAIN flow :
    ViewBefore(flow[k]).held = IF k = 1 THEN depth ELSE flow[k - 1].really_held

EndDepth(depth, flow) == IF flow = <<>> THEN depth ELSE flow[Len(flow)].really_held

\* The flow of the first context of a thread goes on from what is recorded of it
\* to what the thread has done by now.
FlowInv == \A c \in DOMAIN contexts : First(c) =>
    LET depth == Depth(verifier, Owner(c)) IN
    /\ Continues(depth, Flow(c))
    /\ Live(c) /\ accept_events =>
          StampedView(Owner(c)).held = EndDepth(depth, Flow(c))

\* A thread without a context holds no mutex, nor does the verifier think so.
Stranger(t) == \A c \in DOMAIN contexts : Owner(c) # t

StrangerInv == \A t \in Thread : Stranger(t) =>
    /\ \A m \in Mutex : Depth(verifier, t)[m] = 0
    /\ accept_events => app[t].pc # "unlocked" /\ \A m \in Mutex : lock[m].owner # t

\* No stream is distrusted.
TrustInv == \A t \in Thread : ~Tainted(verifier, t)

\* The events stamped and not yet processed.
OnTheWay == UNION {{Flow(c)[k] : k \in DOMAIN Flow(c)} : c \in DOMAIN contexts}

Recorded(m) == verifier.mutex_states[m]

StampInv == /\ \A e \in OnTheWay : e.sequence_id < global_sequence
            /\ \A m \in Mutex : Recorded(m).last_state_sequence <= global_sequence

\* The event changes who owns m, and the owner it names.
Changes(e, m) == e.event_type \in {"LOCK_ACQUIRED", "UNLOCKED"} /\ e.object = m
Names(e, m) == IF e.really_held[m] > 0 THEN e.thread_id ELSE None

Ahead(m) == {e \in OnTheWay : Changes(e, m)}

\* stamp is the newest one of an event that changes the owner of m.
NewestStamp(m, stamp) ==
    /\ Recorded(m).last_state_sequence <= stamp
    /\ \A e \in Ahead(m) : /\ e.sequence_id <= stamp
                           /\ e.sequence_id = stamp => Names(e, m) = newest[m]
    /\ \/ \E e \in Ahead(m) : e.sequence_id = stamp
       \/ Recorded(m).last_state_sequence = stamp /\ Recorded(m).owner = newest[m]

OwnerInv == \A m \in Mutex : \E stamp \in 0 .. global_sequence : NewestStamp(m, stamp)

OwnershipInv ==
    NothingMissed => FlowInv /\ StrangerInv /\ TrustInv /\ StampInv /\ OwnerInv

-----------------------------------------------------------------------------
(***************************************************************************)
(* One event in the verifier.                                              *)
(***************************************************************************)

Roomy(v) == v.state_overflow_events = 0

\* No record of an owner changes, no stream is distrusted, and what has overflowed
\* stays so.
Calm(v, w) ==
    /\ \A m \in Mutex :
          /\ w.mutex_states[m].owner = v.mutex_states[m].owner
          /\ w.mutex_states[m].last_state_sequence
               = v.mutex_states[m].last_state_sequence
    /\ w.tainted_thread_streams = v.tainted_thread_streams
    /\ Roomy(w) => Roomy(v)

LEMMA CalmTwice ==
    ASSUME NEW v, NEW w, NEW x, Calm(v, w), Calm(w, x)
    PROVE  Calm(v, x)
    BY DEF Calm

LEMMA LossFields ==
    ASSUME NEW v \in VerifierState
    PROVE  v.state_overflow_events \in Nat /\ v.tainted_thread_streams \in Nat
    BY DEF VerifierState

\* The table is left alone, and so are the counters of losses.
LEMMA CalmSame ==
    ASSUME NEW v, NEW w, w.mutex_states = v.mutex_states,
           w.tainted_thread_streams = v.tainted_thread_streams,
           w.state_overflow_events = v.state_overflow_events
    PROVE  Calm(v, w)
    BY DEF Calm, Roomy

\* A table without room for a new entry.
LEMMA CalmFull ==
    ASSUME NEW v \in VerifierState
    PROVE  LET w == [v EXCEPT !.state_overflow_events = @ + 1] IN
           /\ Calm(v, w) /\ ~Roomy(w)
           /\ w.thread_states = v.thread_states /\ w.mutex_states = v.mutex_states
    <1> DEFINE n == v.state_overflow_events + 1
               w == [v EXCEPT !.state_overflow_events = n]
    <1>1. n # 0
        BY LossFields
    <1> HIDE DEF n
    <1>2. /\ w.state_overflow_events = n /\ w.mutex_states = v.mutex_states
          /\ w.thread_states = v.thread_states
          /\ w.tainted_thread_streams = v.tainted_thread_streams
        BY DEF VerifierState
    <1> HIDE DEF w
    <1>3. Calm(v, w) /\ ~Roomy(w)
        BY <1>1, <1>2 DEF Calm, Roomy
    <1> QED
        BY <1>2, <1>3 DEF w, n

LEMMA FindMutexCalm ==
    ASSUME NEW v \in VerifierState, NEW m \in Mutex
    PROVE  LET w == FindOrCreateMutex(v, m) IN
           /\ Calm(v, w) /\ w.thread_states = v.thread_states
           /\ Roomy(w) => m \in KnownMutexes(w)
    <1> DEFINE s == [v.mutex_states[m] EXCEPT !.used = TRUE]
               x == [v EXCEPT !.mutex_states[m].used = TRUE]
               y == [v EXCEPT !.state_overflow_events = @ + 1]
               w == FindOrCreateMutex(v, m)
    <1>1. CASE m \in KnownMutexes(v)
        <2>1. w = v
            BY <1>1 DEF FindOrCreateMutex
        <2> QED
            BY <1>1, <2>1 DEF Calm
    <1>2. CASE m \notin KnownMutexes(v) /\ Cardinality(KnownMutexes(v)) < VerifierMutexes
        <2>1. w = x
            BY <1>2 DEF FindOrCreateMutex
        <2>2. /\ v.mutex_states[m] \in MutexState /\ v.mutex_states \in [Mutex -> MutexState]
            BY Fields, MutexFields
        <2>3. /\ s.used /\ s.owner = v.mutex_states[m].owner
              /\ s.last_state_sequence = v.mutex_states[m].last_state_sequence
            BY <2>2 DEF MutexState
        <2>4. /\ x.mutex_states = [v.mutex_states EXCEPT ![m] = s]
              /\ x.thread_states = v.thread_states
              /\ x.tainted_thread_streams = v.tainted_thread_streams
              /\ x.state_overflow_events = v.state_overflow_events
            BY DEF VerifierState
        <2> HIDE DEF s, x
        <2>5. x.mutex_states[m] = s /\ \A q \in Mutex \ {m} : x.mutex_states[q] = v.mutex_states[q]
            BY <2>2, <2>4
        <2>6. Calm(v, x) /\ m \in KnownMutexes(x)
            BY <2>3, <2>4, <2>5 DEF Calm, Roomy, KnownMutexes
        <2> QED
            BY <2>1, <2>4, <2>6
    <1>3. CASE m \notin KnownMutexes(v) /\ ~(Cardinality(KnownMutexes(v)) < VerifierMutexes)
        <2>1. w = y
            BY <1>3 DEF FindOrCreateMutex
        <2>2. Calm(v, y) /\ ~Roomy(y) /\ y.thread_states = v.thread_states
            BY CalmFull
        <2> HIDE DEF y
        <2> QED
            BY <2>1, <2>2
    <1> QED
        BY <1>1, <1>2, <1>3

LEMMA FindThreadCalm ==
    ASSUME NEW v \in VerifierState, NEW t \in Thread
    PROVE  LET w == FindOrCreateThread(v, t) IN
           /\ Calm(v, w)
           /\ Roomy(w) => ~Overflowed(v, t) /\ t \in KnownThreads(w)
    <1> DEFINE n == Cardinality(KnownThreads(v))
               j == n + 1
               s == [v.thread_states[t] EXCEPT !.slot = j]
               x == [v EXCEPT !.thread_states[t].slot = j]
               y == [v EXCEPT !.state_overflow_events = @ + 1]
               w == FindOrCreateThread(v, t)
    <1>1. n \in Nat /\ VerifierThreads \in Nat
        BY FS_CardinalityType, FS_Subset, VerifierAssumption DEF KnownThreads
    <1>2. CASE t \in KnownThreads(v)
        <2>1. w = v
            BY <1>2 DEF FindOrCreateThread
        <2>2. ~Overflowed(v, t)
            BY <1>2 DEF Overflowed, KnownThreads
        <2> QED
            BY <1>2, <2>1, <2>2 DEF Calm
    <1>3. CASE t \notin KnownThreads(v) /\ n < VerifierThreads
        <2>1. w = x
            BY <1>3 DEF FindOrCreateThread
        <2>2. ~Overflowed(v, t) /\ j # 0
            BY <1>1, <1>3 DEF Overflowed
        <2>3. v.thread_states[t] \in ThreadState
            BY ThreadFields
        <2> HIDE DEF j
        <2>4. s.slot = j
            BY <2>3 DEF ThreadState
        <2>5. /\ x.thread_states = [v.thread_states EXCEPT ![t] = s]
              /\ x.mutex_states = v.mutex_states
              /\ x.tainted_thread_streams = v.tainted_thread_streams
              /\ x.state_overflow_events = v.state_overflow_events
            BY DEF VerifierState
        <2> HIDE DEF s, x, y, w
        <2>6. x.thread_states[t] = s /\ Others(v, x, t)
            BY <2>5, EntryReplaced
        <2>7. t \in KnownThreads(x)
            BY <2>2, <2>4, <2>6 DEF KnownThreads
        <2>8. Calm(v, x)
            BY <2>5, CalmSame
        <2> QED
            BY <2>1, <2>2, <2>7, <2>8 DEF w
    <1>4. CASE t \notin KnownThreads(v) /\ ~(n < VerifierThreads)
        <2>1. w = y
            BY <1>4 DEF FindOrCreateThread
        <2>2. Calm(v, y) /\ ~Roomy(y)
            BY CalmFull
        <2> HIDE DEF y
        <2> QED
            BY <2>1, <2>2
    <1> QED
        BY <1>2, <1>3, <1>4

\* What concerns the wait and the exit of a thread, and the reports.
LEMMA AsideCalm ==
    ASSUME NEW v \in VerifierState, NEW t, NEW m, NEW b
    PROVE  /\ Calm(v, SetThreadWaiting(v, t, m))
           /\ Calm(v, ClearThreadWaiting(v, t, m))
           /\ Calm(v, [v EXCEPT !.thread_states[t].exited = b])
           /\ Calm(v, ReportSelfDeadlockCandidate(v))
           /\ Calm(v, ReportNonOwnerUnlock(v))
           /\ Calm(v, ReportHoldTimeViolation(v))
           /\ Calm(v, ReportLockHeldAtThreadExit(v))
    <1>1. Calm(v, SetThreadWaiting(v, t, m))
        <2> DEFINE w == SetThreadWaiting(v, t, m)
        <2>1. /\ w.mutex_states = v.mutex_states
              /\ w.tainted_thread_streams = v.tainted_thread_streams
              /\ w.state_overflow_events = v.state_overflow_events
            BY DEF VerifierState, SetThreadWaiting
        <2> HIDE DEF w
        <2>2. Calm(v, w)
            BY <2>1, CalmSame
        <2> QED
            BY <2>2 DEF w
    <1>2. Calm(v, ClearThreadWaiting(v, t, m))
        <2> DEFINE w == ClearThreadWaiting(v, t, m)
        <2>1. /\ w.mutex_states = v.mutex_states
              /\ w.tainted_thread_streams = v.tainted_thread_streams
              /\ w.state_overflow_events = v.state_overflow_events
            BY DEF VerifierState, ClearThreadWaiting
        <2> HIDE DEF w
        <2>2. Calm(v, w)
            BY <2>1, CalmSame
        <2> QED
            BY <2>2 DEF w
    <1>3. Calm(v, [v EXCEPT !.thread_states[t].exited = b])
        BY CalmSame DEF VerifierState
    <1>4. Calm(v, ReportSelfDeadlockCandidate(v)) /\ Calm(v, ReportNonOwnerUnlock(v))
        BY CalmSame DEF VerifierState, ReportSelfDeadlockCandidate, ReportNonOwnerUnlock
    <1>5. Calm(v, ReportHoldTimeViolation(v)) /\ Calm(v, ReportLockHeldAtThreadExit(v))
        BY CalmSame DEF VerifierState, ReportHoldTimeViolation, ReportLockHeldAtThreadExit
    <1> QED
        BY <1>1, <1>2, <1>3, <1>4, <1>5

\* One entry of the thread table is replaced, and nothing else.
LEMMA DepthCalm ==
    ASSUME NEW v \in VerifierState, NEW t, NEW m, NEW n, NEW k
    PROVE  /\ Calm(v, [v EXCEPT !.thread_states[t].depth[m] = n])
           /\ Calm(v, [v EXCEPT !.thread_states[t] =
                         [@ EXCEPT !.depth[m] = n, !.since[m] = k]])
    <1>1. Calm(v, [v EXCEPT !.thread_states[t].depth[m] = n])
        BY CalmSame DEF VerifierState
    <1>2. Calm(v, [v EXCEPT !.thread_states[t] =
                     [@ EXCEPT !.depth[m] = n, !.since[m] = k]])
        BY CalmSame DEF VerifierState
    <1> QED
        BY <1>1, <1>2

\* add_held_mutex counts one more, unless the table of held mutexes is full.
LEMMA AddHeldExact ==
    ASSUME NEW v \in VerifierState, NEW e, e.thread_id \in Thread, e.object \in Mutex
    PROVE  LET t == e.thread_id
               w == AddHeldMutex(v, e) IN
           /\ Calm(v, w)
           /\ ~Tainted(v, t) /\ Roomy(w) =>
                Depth(w, t) = [Depth(v, t) EXCEPT ![e.object] = @ + 1]
    <1> DEFINE t == e.thread_id
               m == e.object
               n == Depth(v, t)[m] + 1
               w == AddHeldMutex(v, e)
               x == [v EXCEPT !.thread_states[t].depth[m] = @ + 1]
               y == [v EXCEPT !.thread_states[t] =
                       [@ EXCEPT !.depth[m] = 1, !.since[m] = e.timestamp]]
               z == [v EXCEPT !.state_overflow_events = @ + 1]
    <1>1. Depth(v, t) \in [Mutex -> Nat]
        BY ThreadFields DEF Depth
    <1>2. CASE Tainted(v, t)
        BY <1>2 DEF AddHeldMutex, Tainted, Calm
    <1>3. CASE ~Tainted(v, t) /\ m \in HeldMutexes(v, t)
        <2>1. w = x
            BY <1>3 DEF AddHeldMutex, Tainted
        <2>2. x = [v EXCEPT !.thread_states[t].depth[m] = n]
            BY DEF Depth
        <2> HIDE DEF x, n
        <2>3. Calm(v, x)
            BY <2>2, DepthCalm
        <2>4. DepthChange(v, x, t, m, n, v.thread_states[t].since[m])
            BY <2>2, DepthSet
        <2>5. Depth(x, t) = [Depth(v, t) EXCEPT ![m] = n]
            BY <2>4 DEF DepthChange, Depth
        <2> QED
            BY <2>1, <2>3, <2>5 DEF n
    <1>4. CASE /\ ~Tainted(v, t) /\ m \notin HeldMutexes(v, t)
               /\ Cardinality(HeldMutexes(v, t)) >= VerifierHeld
        <2>1. w = z
            BY <1>4 DEF AddHeldMutex, Tainted
        <2>2. Calm(v, z) /\ ~Roomy(z)
            BY CalmFull
        <2> HIDE DEF z
        <2> QED
            BY <2>1, <2>2
    <1>5. CASE /\ ~Tainted(v, t) /\ m \notin HeldMutexes(v, t)
               /\ ~(Cardinality(HeldMutexes(v, t)) >= VerifierHeld)
        <2>1. w = y
            BY <1>5 DEF AddHeldMutex, Tainted
        <2>2. DepthChange(v, y, t, m, 1, e.timestamp) /\ Calm(v, y)
            BY DepthAndTimeSet, DepthCalm
        <2> HIDE DEF y
        <2>3. Depth(v, t)[m] = 0
            BY <1>1, <1>5 DEF HeldMutexes, Depth
        <2>4. Depth(y, t) = [Depth(v, t) EXCEPT ![m] = 1]
            BY <2>2 DEF DepthChange, Depth
        <2>5. n = 1
            BY <2>3
        <2> QED
            BY <2>1, <2>2, <2>4, <2>5
    <1> QED
        BY <1>2, <1>3, <1>4, <1>5

\* release_held_mutex counts one less.
LEMMA ReleaseHeldExact ==
    ASSUME NEW v \in VerifierState, NEW e, e.thread_id \in Thread, e.object \in Mutex
    PROVE  LET t == e.thread_id
               w == ReleaseHeldMutex(v, e) IN
           /\ Calm(v, w)
           /\ ~Tainted(v, t) /\ Depth(v, t)[e.object] > 0 =>
                Depth(w, t) = [Depth(v, t) EXCEPT ![e.object] = @ - 1]
    <1> DEFINE t == e.thread_id
               m == e.object
               n == Depth(v, t)[m] - 1
               w == ReleaseHeldMutex(v, e)
               h == IF HeldTooLong(v, e) THEN ReportHoldTimeViolation(v) ELSE v
               x == [v EXCEPT !.thread_states[t].depth[m] = @ - 1]
               y == [h EXCEPT !.thread_states[t] =
                       [@ EXCEPT !.depth[m] = 0, !.since[m] = 0]]
    <1>1. Depth(v, t) \in [Mutex -> Nat]
        BY ThreadFields DEF Depth
    <1>2. CASE Tainted(v, t) \/ m \notin HeldMutexes(v, t)
        <2>1. w = v
            BY <1>2 DEF ReleaseHeldMutex, Tainted
        <2>2. Tainted(v, t) \/ ~(Depth(v, t)[m] > 0)
            BY <1>2 DEF HeldMutexes, Depth
        <2> QED
            BY <2>1, <2>2 DEF Calm
    <1>3. CASE /\ ~(Tainted(v, t) \/ m \notin HeldMutexes(v, t))
               /\ Depth(v, t)[m] > 1
        <2>1. w = x
            BY <1>3 DEF ReleaseHeldMutex, Tainted, Depth
        <2>2. x = [v EXCEPT !.thread_states[t].depth[m] = n]
            BY DEF Depth
        <2> HIDE DEF x, n
        <2>3. Calm(v, x)
            BY <2>2, DepthCalm
        <2>4. DepthChange(v, x, t, m, n, v.thread_states[t].since[m])
            BY <2>2, DepthSet
        <2>5. Depth(x, t) = [Depth(v, t) EXCEPT ![m] = n]
            BY <2>4 DEF DepthChange, Depth
        <2> QED
            BY <2>1, <2>3, <2>5 DEF n
    <1>4. CASE /\ ~(Tainted(v, t) \/ m \notin HeldMutexes(v, t))
               /\ ~(Depth(v, t)[m] > 1)
        <2>1. w = y
            BY <1>4 DEF ReleaseHeldMutex, Tainted, Depth
        <2>2. h \in VerifierState /\ h.thread_states = v.thread_states /\ Calm(v, h)
            <3>1. Calm(v, ReportHoldTimeViolation(v)) /\ Calm(v, v)
                BY AsideCalm DEF Calm
            <3>2. /\ ReportHoldTimeViolation(v) \in VerifierState
                  /\ ReportHoldTimeViolation(v).thread_states = v.thread_states
                BY DEF ReportHoldTimeViolation, VerifierState
            <3> QED
                BY <3>1, <3>2
        <2> HIDE DEF h
        <2>3. DepthChange(h, y, t, m, 0, 0) /\ Calm(h, y)
            BY <2>2, DepthAndTimeSet, DepthCalm
        <2> HIDE DEF y
        <2>4. Depth(v, t)[m] = 1
            BY <1>1, <1>4 DEF HeldMutexes, Depth
        <2>5. Depth(y, t) = [Depth(v, t) EXCEPT ![m] = 0]
            BY <2>2, <2>3 DEF DepthChange, Depth
        <2>6. Calm(v, y)
            BY <2>2, <2>3, CalmTwice
        <2>7. n = 0
            BY <2>4
        <2> QED
            BY <2>1, <2>5, <2>6, <2>7
    <1> QED
        BY <1>2, <1>3, <1>4

\* The record of m takes over what the event says unless it is newer.
Decided(v, w, e) == \A m \in Mutex :
    LET old == v.mutex_states[m]
        new == w.mutex_states[m] IN
    IF Changes(e, m) /\ old.last_state_sequence <= e.sequence_id
    THEN new.owner = Names(e, m) /\ new.last_state_sequence = e.sequence_id
    ELSE new.owner = old.owner /\ new.last_state_sequence = old.last_state_sequence

LEMMA SetOwnerExact ==
    ASSUME NEW v \in VerifierState, NEW e \in MonitorEvent, NEW owner,
           Changes(e, e.object), owner = Names(e, e.object)
    PROVE  LET w == SetOwner(v, e, owner) IN
           /\ Decided(v, w, e)
           /\ w.thread_states = v.thread_states
           /\ w.tainted_thread_streams = v.tainted_thread_streams
           /\ Roomy(w) <=> Roomy(v)
    <1> DEFINE m == e.object
               old == v.mutex_states[m]
               s == [old EXCEPT !.owner_known = TRUE, !.owner = owner,
                                !.last_state_sequence = e.sequence_id]
               x == [v EXCEPT !.mutex_states[m] =
                       [@ EXCEPT !.owner_known = TRUE, !.owner = owner,
                                 !.last_state_sequence = e.sequence_id]]
               w == SetOwner(v, e, owner)
    <1>1. /\ m \in Mutex /\ e.sequence_id \in Nat
          /\ \A q \in Mutex : Changes(e, q) <=> q = m
        BY EventFields DEF Changes, MutexEvent
    <1>2. /\ old \in MutexState /\ v.mutex_states \in [Mutex -> MutexState]
          /\ old.last_state_sequence \in Nat
        BY <1>1, Fields, MutexFields
    <1>3. CASE e.sequence_id >= old.last_state_sequence
        <2>1. w = x
            BY <1>3 DEF SetOwner
        <2>2. s.owner = owner /\ s.last_state_sequence = e.sequence_id
            BY <1>2 DEF MutexState
        <2>3. /\ x.mutex_states = [v.mutex_states EXCEPT ![m] = s]
              /\ x.thread_states = v.thread_states
              /\ x.tainted_thread_streams = v.tainted_thread_streams
              /\ x.state_overflow_events = v.state_overflow_events
            BY DEF VerifierState
        <2> HIDE DEF s, x, w
        <2>4. x.mutex_states[m] = s /\ \A q \in Mutex \ {m} : x.mutex_states[q] = v.mutex_states[q]
            BY <1>1, <1>2, <2>3
        <2>5. Decided(v, x, e)
            <3> SUFFICES ASSUME NEW q \in Mutex
                         PROVE  LET o == v.mutex_states[q]
                                    p == x.mutex_states[q] IN
                                IF Changes(e, q) /\ o.last_state_sequence <= e.sequence_id
                                THEN /\ p.owner = Names(e, q)
                                     /\ p.last_state_sequence = e.sequence_id
                                ELSE /\ p.owner = o.owner
                                     /\ p.last_state_sequence = o.last_state_sequence
                BY DEF Decided
            <3>1. CASE q = m
                BY <1>1, <1>2, <1>3, <2>2, <2>4, <3>1
            <3>2. CASE q # m
                BY <1>1, <2>4, <3>2
            <3> QED
                BY <3>1, <3>2
        <2> QED
            BY <2>1, <2>3, <2>5 DEF w, Roomy
    <1>4. CASE ~(e.sequence_id >= old.last_state_sequence)
        <2>1. w = v
            BY <1>4 DEF SetOwner
        <2>2. ~(old.last_state_sequence <= e.sequence_id)
            BY <1>1, <1>2, <1>4
        <2>3. Decided(v, v, e)
            BY <1>1, <2>2 DEF Decided
        <2> QED
            BY <2>1, <2>3
    <1> QED
        BY <1>3, <1>4

LEMMA CalmDecided ==
    ASSUME NEW v, NEW w, NEW x, NEW e, Calm(v, w), Decided(w, x, e)
    PROVE  Decided(v, x, e)
    BY DEF Calm, Decided

LEMMA NotDecided ==
    ASSUME NEW v, NEW w, NEW e, Calm(v, w), \A m \in Mutex : ~Changes(e, m)
    PROVE  Decided(v, w, e)
    BY DEF Calm, Decided

\* The handler of an event that changes no owner.
LEMMA HandleAside ==
    ASSUME NEW v, Consistent(v), NEW e \in MonitorEvent,
           e.event_type \notin {"LOCK_ACQUIRED", "UNLOCKED"}
    PROVE  LET h == Handle(v, e)
           IN  Calm(v, h) /\ Depth(h, e.thread_id) = Depth(v, e.thread_id)
    <1> DEFINE t == e.thread_id
               m == e.object
               s == v.thread_states[t]
               h == Handle(v, e)
    <1>1. /\ t \in Thread /\ WellFormed(e) /\ v \in VerifierState
          /\ e.event_type \in MutexEvent => m \in Mutex
        BY EventFields DEF Consistent
    <1>2. CASE e.event_type = "THREAD_START"
        <2> DEFINE x == [v EXCEPT !.thread_states[t].exited = FALSE]
        <2>1. h = x
            BY <1>2 DEF Handle, HandleThreadStart
        <2>2. Calm(v, x) /\ Kept(v, x, t)
            <3>1. Calm(v, x)
                BY <1>1, AsideCalm
            <3>2. Kept(v, x, t)
                BY <1>1, ChangeExitedKeeps
            <3> QED
                BY <3>1, <3>2
        <2> HIDE DEF x
        <2> QED
            BY <2>1, <2>2 DEF Kept, Depth
    <1>3. CASE e.event_type = "THREAD_EXIT"
        <2> DEFINE held == ~s.trace_tainted /\ HeldMutexes(v, t) # {}
                   w == IF held THEN ReportLockHeldAtThreadExit(v) ELSE v
                   c == ClearThreadWaiting(w, t, s.waiting_mutex)
                   x == [c EXCEPT !.thread_states[t].exited = TRUE]
        <2>1. h = x
            BY <1>3 DEF Handle, HandleThreadExit
        <2>2. Consistent(w)
            BY Counters
        <2>3. Calm(v, w) /\ w.thread_states = v.thread_states
            <3>1. Calm(v, ReportLockHeldAtThreadExit(v)) /\ Calm(v, v)
                BY <1>1, AsideCalm DEF Calm
            <3>2. ReportLockHeldAtThreadExit(v).thread_states = v.thread_states
                BY <1>1 DEF ReportLockHeldAtThreadExit, VerifierState
            <3> QED
                BY <3>1, <3>2
        <2> HIDE DEF w
        <2>4. Calm(w, c) /\ Kept(w, c, t) /\ c \in VerifierState
            <3>1. s.waiting_mutex \in Mutex \cup {None}
                BY <1>1, ThreadFields
            <3> QED
                BY <1>1, <2>2, <3>1, AsideCalm, ClearWaiting, ClearWaitingKeeps DEF Consistent
        <2> HIDE DEF c
        <2>5. Calm(c, x) /\ Kept(c, x, t)
            BY <1>1, <2>4, AsideCalm, ChangeExitedKeeps
        <2> HIDE DEF x, h
        <2>6. Calm(v, x)
            BY <2>3, <2>4, <2>5, CalmTwice
        <2> QED
            BY <2>1, <2>3, <2>4, <2>5, <2>6 DEF Kept, Depth, h
    <1>4. CASE e.event_type = "LOCK_REQUEST"
        <2> DEFINE f == FindOrCreateMutex(v, m)
                   self == ~s.trace_tainted /\ m \in HeldMutexes(v, t)
                   w == IF self THEN ReportSelfDeadlockCandidate(f) ELSE f
                   x == SetThreadWaiting(w, t, m)
        <2>0. m \in Mutex
            BY <1>1, <1>4 DEF MutexEvent
        <2>1. h = x
            BY <1>4 DEF Handle, HandleLockRequest
        <2>2. Consistent(f) /\ Calm(v, f) /\ f.thread_states = v.thread_states
            BY <1>1, <2>0, FindMutex, FindMutexCalm
        <2> HIDE DEF f
        <2>3. Consistent(w)
            BY <2>2, Counters
        <2>4. Calm(f, w) /\ w.thread_states = f.thread_states
            <3>1. Calm(f, ReportSelfDeadlockCandidate(f)) /\ Calm(f, f)
                BY <2>2, AsideCalm DEF Calm, Consistent
            <3>2. ReportSelfDeadlockCandidate(f).thread_states = f.thread_states
                BY <2>2 DEF ReportSelfDeadlockCandidate, VerifierState, Consistent
            <3> QED
                BY <3>1, <3>2
        <2> HIDE DEF w
        <2>5. Calm(w, x) /\ Kept(w, x, t)
            BY <1>1, <2>3, AsideCalm, SetWaitingKeeps DEF Consistent
        <2> HIDE DEF x, h
        <2>6. Calm(v, x)
            BY <2>2, <2>4, <2>5, CalmTwice
        <2> QED
            BY <2>1, <2>2, <2>4, <2>5, <2>6 DEF Kept, Depth, h
    <1>5. CASE e.event_type = "LOCK_FAILED"
        <2>1. h = ClearThreadWaiting(v, t, m)
            BY <1>5 DEF Handle, HandleLockFailed
        <2>2. Calm(v, h) /\ Kept(v, h, t)
            BY <1>1, <2>1, AsideCalm, ClearWaitingKeeps
        <2> QED
            BY <2>2 DEF Kept, Depth
    <1>6. CASE e.event_type = "UNLOCK_FAILED"
        <2>1. h \in {v, ReportNonOwnerUnlock(v)}
            BY <1>6 DEF Handle, HandleUnlockFailed
        <2>2. Calm(v, v) /\ Calm(v, ReportNonOwnerUnlock(v))
            BY <1>1, AsideCalm DEF Calm
        <2>3. ReportNonOwnerUnlock(v).thread_states = v.thread_states
            BY <1>1 DEF ReportNonOwnerUnlock, VerifierState
        <2> HIDE DEF h
        <2> QED
            BY <2>1, <2>2, <2>3 DEF Depth, h
    <1> QED
        BY <1>1, <1>2, <1>3, <1>4, <1>5, <1>6 DEF WellFormed, LifecycleEvent, MutexEvent

\* How often the thread held each mutex before an event and after it.
LEMMA HeldBefore ==
    ASSUME NEW e \in MonitorEvent
    PROVE  /\ ViewBefore(e).held \in [Mutex -> Int]
           /\ e.event_type \notin {"LOCK_ACQUIRED", "UNLOCKED"} =>
                ViewBefore(e).held = e.really_held
           /\ e.event_type = "LOCK_ACQUIRED" =>
                [ViewBefore(e).held EXCEPT ![e.object] = @ + 1] = e.really_held
           /\ e.event_type = "UNLOCKED" =>
                /\ ViewBefore(e).held[e.object] = e.really_held[e.object] + 1
                /\ [ViewBefore(e).held EXCEPT ![e.object] = @ - 1] = e.really_held
    <1> DEFINE h == ViewBefore(e).held
               m == e.object
    <1>1. /\ e.really_held \in [Mutex -> Nat]
          /\ e.event_type \in MutexEvent => m \in Mutex
        BY EventFields
    <1>2. h = [q \in Mutex |->
                 IF e.event_type = "LOCK_ACQUIRED" /\ m = q THEN e.really_held[q] - 1
                 ELSE IF e.event_type = "UNLOCKED" /\ m = q THEN e.really_held[q] + 1
                 ELSE e.really_held[q]]
        BY DEF ViewBefore
    <1> HIDE DEF h
    <1>3. h \in [Mutex -> Int]
        BY <1>1, <1>2
    <1>4. e.event_type \notin {"LOCK_ACQUIRED", "UNLOCKED"} => h = e.really_held
        BY <1>1, <1>2
    <1>5. e.event_type = "LOCK_ACQUIRED" => [h EXCEPT ![m] = @ + 1] = e.really_held
        BY <1>1, <1>2 DEF MutexEvent
    <1>6. ASSUME e.event_type = "UNLOCKED"
          PROVE  h[m] = e.really_held[m] + 1 /\ [h EXCEPT ![m] = @ - 1] = e.really_held
        <2>1. m \in Mutex
            BY <1>1, <1>6 DEF MutexEvent
        <2>2. h[m] = e.really_held[m] + 1
            BY <1>2, <1>6, <2>1
        <2>3. \A q \in Mutex \ {m} : h[q] = e.really_held[q]
            BY <1>2, <1>6
        <2> DEFINE n == h[m] - 1
                   g == [h EXCEPT ![m] = n]
        <2>4. n = e.really_held[m]
            BY <1>1, <2>1, <2>2
        <2> HIDE DEF n
        <2>5. g \in [Mutex -> Int] /\ \A q \in Mutex : g[q] = e.really_held[q]
            BY <1>1, <1>3, <2>1, <2>3, <2>4
        <2>6. g = e.really_held
            BY <1>1, <2>5
        <2> QED
            BY <2>2, <2>6 DEF n
    <1> QED
        BY <1>3, <1>4, <1>5, <1>6 DEF h

\* A handler distrusts no stream, and while no table is full it follows the event
\* exactly, if the verifier knew what the thread held.
Exact(v, w, e) ==
    LET t == e.thread_id IN
    /\ w.tainted_thread_streams = v.tainted_thread_streams
    /\ Roomy(w) => Roomy(v)
    /\ Roomy(w) /\ ~Tainted(v, t) /\ Depth(v, t) = ViewBefore(e).held =>
         Depth(w, t) = e.really_held /\ Decided(v, w, e)

LEMMA AcquiredExact ==
    ASSUME NEW v, Consistent(v), NEW e \in MonitorEvent, Plausible(e),
           e.event_type = "LOCK_ACQUIRED"
    PROVE  Exact(v, Handle(v, e), e)
    <1> DEFINE t == e.thread_id
               m == e.object
               f == FindOrCreateMutex(v, m)
               c == ClearThreadWaiting(f, t, m)
               w == AddHeldMutex(c, e)
               x == SetOwner(w, e, t)
               h == Handle(v, e)
    <1>1. /\ v \in VerifierState /\ t \in Thread /\ m \in Mutex /\ e.timestamp \in Nat
          /\ e.sequence_id \in Nat
        BY EventFields DEF Consistent, MutexEvent
    <1>2. h = IF m \notin KnownMutexes(f) THEN f ELSE x
        BY DEF Handle, HandleLockAcquired
    <1>3. /\ Consistent(f) /\ Calm(v, f) /\ f.thread_states = v.thread_states
          /\ Roomy(f) => m \in KnownMutexes(f)
        BY <1>1, FindMutex, FindMutexCalm
    <1> HIDE DEF f
    <1>4. Consistent(c) /\ Calm(f, c) /\ Kept(f, c, t)
        BY <1>1, <1>3, AsideCalm, ClearWaiting, ClearWaitingKeeps DEF Consistent
    <1> HIDE DEF c
    <1>5. /\ Consistent(w) /\ Calm(c, w)
          /\ ~Tainted(c, t) /\ Roomy(w) => Depth(w, t) = [Depth(c, t) EXCEPT ![m] = @ + 1]
        BY <1>1, <1>4, AddHeld, AddHeldExact DEF Consistent
    <1> HIDE DEF w
    <1>6. /\ Decided(w, x, e) /\ x.thread_states = w.thread_states
          /\ x.tainted_thread_streams = w.tainted_thread_streams
          /\ Roomy(x) <=> Roomy(w)
        <2>1. Changes(e, m)
            BY DEF Changes
        <2>2. e.really_held[m] > 0
            BY DEF Plausible
        <2>3. t = Names(e, m)
            BY <2>2 DEF Names
        <2> QED
            BY <1>5, <2>1, <2>3, SetOwnerExact DEF Consistent
    <1> HIDE DEF x, h
    <1>7. CASE m \notin KnownMutexes(f)
        <2>1. h = f /\ ~Roomy(h)
            BY <1>2, <1>3, <1>7
        <2> QED
            BY <1>3, <2>1 DEF Exact, Calm, h
    <1>8. CASE m \in KnownMutexes(f)
        <2>1. h = x
            BY <1>2, <1>8
        <2>2. Calm(v, w)
            BY <1>3, <1>4, <1>5, CalmTwice
        <2>3. Decided(v, x, e)
            BY <1>6, <2>2, CalmDecided
        <2>4. Depth(c, t) = Depth(v, t) /\ (Tainted(c, t) <=> Tainted(v, t))
            BY <1>3, <1>4 DEF Kept, Depth, Tainted
        <2>5. ASSUME Roomy(x), ~Tainted(v, t), Depth(v, t) = ViewBefore(e).held
              PROVE  Depth(x, t) = e.really_held
            <3>1. Depth(w, t) = [ViewBefore(e).held EXCEPT ![m] = @ + 1]
                BY <1>5, <1>6, <2>4, <2>5
            <3>2. Depth(x, t) = Depth(w, t)
                BY <1>6 DEF Depth
            <3> QED
                BY <3>1, <3>2, HeldBefore
        <2>6. Exact(v, x, e)
            BY <1>6, <2>2, <2>3, <2>5 DEF Exact, Calm
        <2> QED
            BY <2>1, <2>6 DEF h
    <1> QED
        BY <1>7, <1>8

\* A release changes no record of a mutex.
LEMMA ReleaseRecords ==
    ASSUME NEW v \in VerifierState, NEW e
    PROVE  ReleaseHeldMutex(v, e).mutex_states = v.mutex_states
    BY DEF ReleaseHeldMutex, ReportHoldTimeViolation, VerifierState

LEMMA UnlockedExact ==
    ASSUME NEW v, Consistent(v), NEW e \in MonitorEvent, e.event_type = "UNLOCKED"
    PROVE  Exact(v, Handle(v, e), e)
    <1> DEFINE t == e.thread_id
               m == e.object
               f == FindOrCreateMutex(v, m)
               w == ReleaseHeldMutex(f, e)
               owner == IF FullyReleased(v, e) THEN None ELSE t
               x == SetOwner(w, e, owner)
               h == Handle(v, e)
    <1>1. /\ v \in VerifierState /\ t \in Thread /\ m \in Mutex
          /\ e.sequence_id \in Nat /\ e.really_held \in [Mutex -> Nat]
        BY EventFields DEF Consistent, MutexEvent
    <1>2. h = IF m \in KnownMutexes(w) THEN x ELSE w
        BY DEF Handle, HandleUnlocked
    <1>3. /\ Consistent(f) /\ Calm(v, f) /\ f.thread_states = v.thread_states
          /\ Roomy(f) => m \in KnownMutexes(f)
        BY <1>1, FindMutex, FindMutexCalm
    <1> HIDE DEF f
    <1>4. /\ Consistent(w) /\ Calm(f, w)
          /\ ~Tainted(f, t) /\ Depth(f, t)[m] > 0 =>
               Depth(w, t) = [Depth(f, t) EXCEPT ![m] = @ - 1]
        BY <1>1, <1>3, ReleaseHeld, ReleaseHeldExact DEF Consistent
    <1>5. m \in KnownMutexes(w) <=> m \in KnownMutexes(f)
        BY <1>3, ReleaseRecords DEF KnownMutexes, Consistent
    <1> HIDE DEF w
    <1>6. Depth(f, t) = Depth(v, t) /\ (Tainted(f, t) <=> Tainted(v, t))
        BY <1>3 DEF Depth, Tainted
    <1>7. Calm(v, w)
        BY <1>3, <1>4, CalmTwice
    <1>8. ASSUME ~Tainted(v, t), Depth(v, t) = ViewBefore(e).held
          PROVE  Depth(w, t) = e.really_held /\ owner = Names(e, m)
        <2>1. Depth(v, t)[m] = e.really_held[m] + 1 /\ e.really_held[m] \in Nat
            BY <1>1, <1>8, HeldBefore
        <2>2. Depth(w, t) = [ViewBefore(e).held EXCEPT ![m] = @ - 1]
            BY <1>4, <1>6, <1>8, <2>1
        <2>3. FullyReleased(v, e) <=> e.really_held[m] = 0
            BY <1>8, <2>1 DEF FullyReleased, Depth, Tainted
        <2>4. Depth(w, t) = e.really_held
            BY <2>2, HeldBefore
        <2>5. owner = Names(e, m)
            BY <2>1, <2>3 DEF Names
        <2> QED
            BY <2>4, <2>5
    <1> HIDE DEF owner
    <1>9. /\ x.thread_states = w.thread_states
          /\ x.tainted_thread_streams = w.tainted_thread_streams
          /\ Roomy(x) <=> Roomy(w)
          /\ owner = Names(e, m) => Decided(w, x, e)
        <2>1. Changes(e, m)
            BY DEF Changes
        <2>2. owner = Names(e, m) => Decided(w, x, e)
            BY <1>4, <2>1, SetOwnerExact DEF Consistent
        <2> QED
            BY <1>4, <2>2 DEF SetOwner, VerifierState, Consistent, Roomy
    <1> HIDE DEF x, h
    <1>10. CASE m \notin KnownMutexes(w)
        <2>1. h = w /\ ~Roomy(h)
            BY <1>2, <1>3, <1>4, <1>5, <1>10 DEF Calm
        <2> QED
            BY <1>7, <2>1 DEF Exact, Calm, h
    <1>11. CASE m \in KnownMutexes(w)
        <2>1. h = x
            BY <1>2, <1>11
        <2>2. ASSUME Roomy(x), ~Tainted(v, t), Depth(v, t) = ViewBefore(e).held
              PROVE  Depth(x, t) = e.really_held /\ Decided(v, x, e)
            <3>1. Depth(w, t) = e.really_held /\ owner = Names(e, m)
                BY <1>8, <2>2
            <3>2. Decided(v, x, e)
                BY <1>7, <1>9, <3>1, CalmDecided
            <3> QED
                BY <1>9, <3>1, <3>2 DEF Depth
        <2>3. Exact(v, x, e)
            BY <1>7, <1>9, <2>2 DEF Exact, Calm
        <2> QED
            BY <2>1, <2>3 DEF h
    <1> QED
        BY <1>10, <1>11

LEMMA HandleExact ==
    ASSUME NEW v, Consistent(v), NEW e \in MonitorEvent, Plausible(e)
    PROVE  Exact(v, Handle(v, e), e)
    <1> DEFINE h == Handle(v, e)
    <1>1. CASE e.event_type \notin {"LOCK_ACQUIRED", "UNLOCKED"}
        <2>1. Calm(v, h) /\ Depth(h, e.thread_id) = Depth(v, e.thread_id)
            BY <1>1, HandleAside
        <2>2. ViewBefore(e).held = e.really_held
            BY <1>1, HeldBefore
        <2>3. Decided(v, h, e)
            BY <1>1, <2>1, NotDecided DEF Changes
        <2> HIDE DEF h
        <2>4. Exact(v, h, e)
            BY <2>1, <2>2, <2>3 DEF Exact, Calm
        <2> QED
            BY <2>4 DEF h
    <1> QED
        BY <1>1, AcquiredExact, UnlockedExact

\* A stream that is newly distrusted is counted.
LEMMA TaintCounted ==
    ASSUME NEW v, Consistent(v), NEW t \in Thread, ~Tainted(v, t), NEW barrier
    PROVE  LET w == MarkThreadStreamTainted(v, t, barrier) IN
           /\ w.tainted_thread_streams = v.tainted_thread_streams + 1
           /\ Roomy(w) <=> Roomy(v)
    <1> DEFINE c == ClearThreadWaiting(v, t, v.thread_states[t].waiting_mutex)
               n == c.tainted_thread_streams + 1
               x == [c EXCEPT !.tainted_thread_streams = n,
                              !.thread_states[t] = [@ EXCEPT !.trace_tainted = TRUE,
                                             !.depth = [m \in Mutex |-> 0],
                                             !.since = [m \in Mutex |-> 0]]]
               w == InvalidateMutexes(x, t, barrier)
    <1>1. v.thread_states[t].waiting_mutex \in Mutex \cup {None}
        BY ThreadFields DEF Consistent
    <1>2. /\ Consistent(c) /\ c.tainted_thread_streams = v.tainted_thread_streams
          /\ c.state_overflow_events = v.state_overflow_events
        <2>1. Consistent(c)
            BY <1>1, ClearWaiting
        <2> QED
            BY <2>1 DEF ClearThreadWaiting, VerifierState, Consistent
    <1>3. w = MarkThreadStreamTainted(v, t, barrier)
        BY DEF MarkThreadStreamTainted, Tainted
    <1> HIDE DEF c, n
    <1>4. /\ x.tainted_thread_streams = n
          /\ x.state_overflow_events = c.state_overflow_events
          /\ DOMAIN x = DOMAIN c
        BY <1>2 DEF VerifierState, Consistent
    <1>5. /\ "tainted_thread_streams" \in DOMAIN x /\ "state_overflow_events" \in DOMAIN x
        BY <1>2, <1>4 DEF VerifierState, Consistent
    <1> HIDE DEF x
    <1>6. /\ w.tainted_thread_streams = x.tainted_thread_streams
          /\ w.state_overflow_events = x.state_overflow_events
        BY <1>5 DEF InvalidateMutexes
    <1> HIDE DEF w
    <1> QED
        BY <1>2, <1>3, <1>4, <1>6 DEF Roomy, n

\* observe_thread_sequence: a gap in a stream that was trusted is counted.
LEMMA ObserveExact ==
    ASSUME NEW v, Consistent(v), NEW e \in MonitorEvent
    PROVE  LET t == e.thread_id
               w == ObserveThreadSequence(v, e)
               gap == e.thread_sequence # Expected(v, t) IN
           /\ Roomy(w) <=> Roomy(v)
           /\ w.tainted_thread_streams >= v.tainted_thread_streams
           /\ gap /\ ~Tainted(v, t) => w.tainted_thread_streams > 0
           /\ ~gap => Calm(v, w)
    <1> DEFINE t == e.thread_id
               gap == e.thread_sequence # v.thread_states[t].next_expected_sequence
               g == [v EXCEPT !.detected_stream_gaps = @ + 1]
               c == IF gap THEN MarkThreadStreamTainted(g, t, e.sequence_id) ELSE v
               n == e.thread_sequence + 1
               w == ObserveThreadSequence(v, e)
    <1>1. t \in Thread /\ e.sequence_id \in Nat /\ v \in VerifierState
        BY EventFields DEF Consistent
    <1>2. /\ Consistent(g) /\ g.thread_states = v.thread_states
          /\ g.tainted_thread_streams = v.tainted_thread_streams
          /\ g.state_overflow_events = v.state_overflow_events
        BY <1>1, Counters DEF VerifierState
    <1> HIDE DEF g
    <1>3. /\ c \in VerifierState /\ (Roomy(c) <=> Roomy(v))
          /\ c.tainted_thread_streams >= v.tainted_thread_streams
          /\ gap /\ ~Tainted(v, t) => c.tainted_thread_streams > 0
          /\ ~gap => c = v
        <2>1. v.tainted_thread_streams \in Nat
            BY <1>1, LossFields
        <2>2. CASE gap
            <3>1. c = MarkThreadStreamTainted(g, t, e.sequence_id)
                BY <2>2
            <3> HIDE DEF c
            <3>2. c \in VerifierState
                BY <1>1, <1>2, <3>1, MarkTainted DEF Consistent
            <3>3. CASE Tainted(v, t)
                <4>1. c = g
                    BY <1>2, <3>1, <3>3 DEF MarkThreadStreamTainted, Tainted
                <4> QED
                    BY <1>2, <2>1, <2>2, <3>2, <3>3, <4>1 DEF Roomy
            <3>4. CASE ~Tainted(v, t)
                <4>1. ~Tainted(g, t)
                    BY <1>2, <3>4 DEF Tainted
                <4>2. /\ c.tainted_thread_streams = g.tainted_thread_streams + 1
                      /\ Roomy(c) <=> Roomy(g)
                    BY <1>1, <1>2, <3>1, <4>1, TaintCounted
                <4> QED
                    BY <1>2, <2>1, <2>2, <3>2, <4>2 DEF Roomy
            <3> QED
                BY <3>3, <3>4
        <2>3. CASE ~gap
            BY <1>1, <2>1, <2>3
        <2> QED
            BY <2>2, <2>3
    <1>4. w = [c EXCEPT !.thread_states[t].next_expected_sequence = n]
        BY DEF ObserveThreadSequence, g
    <1> HIDE DEF c, n, w
    <1>5. /\ w.mutex_states = c.mutex_states
          /\ w.tainted_thread_streams = c.tainted_thread_streams
          /\ w.state_overflow_events = c.state_overflow_events
        BY <1>3, <1>4 DEF VerifierState
    <1>6. Calm(c, w)
        BY <1>5, CalmSame
    <1>7. gap <=> e.thread_sequence # Expected(v, t)
        BY DEF Expected
    <1> HIDE DEF gap
    <1>8. /\ Roomy(w) <=> Roomy(v)
          /\ w.tainted_thread_streams >= v.tainted_thread_streams
        BY <1>3, <1>5 DEF Roomy
    <1>9. /\ gap /\ ~Tainted(v, t) => w.tainted_thread_streams > 0
          /\ ~gap => Calm(v, w)
        BY <1>3, <1>5, <1>6
    <1> QED
        BY <1>7, <1>8, <1>9 DEF w

\* monitor_verifier_process_event: what it loses it counts, and an event it takes
\* without a loss it follows exactly.
LEMMA ProcessExact ==
    ASSUME NEW v, Consistent(v), NEW e \in MonitorEvent, Plausible(e)
    PROVE  LET t == e.thread_id
               w == ProcessEvent(v, e) IN
           /\ Roomy(w) => Roomy(v)
           /\ w.tainted_thread_streams >= v.tainted_thread_streams
           /\ Tainted(w, t) /\ ~Tainted(v, t) => w.tainted_thread_streams > 0
           /\ Roomy(w) /\ w.tainted_thread_streams = 0 => ~Overflowed(v, t)
           /\ Roomy(w) /\ w.tainted_thread_streams = 0 /\ ~Tainted(v, t) =>
                /\ e.thread_sequence = Expected(v, t)
                /\ Depth(v, t) = ViewBefore(e).held =>
                     Depth(w, t) = e.really_held /\ Decided(v, w, e)
    <1> DEFINE t == e.thread_id
               s == v.thread_states[t]
               n == v.processed_events + 1
               l == IF e.sequence_id > v.last_processed_sequence THEN e.sequence_id
                    ELSE v.last_processed_sequence
               counted == [v EXCEPT !.processed_events = n,
                                    !.last_processed_sequence = l]
               f == FindOrCreateThread(counted, t)
               o == ObserveThreadSequence(f, e)
               observed == [o EXCEPT !.candidate_cycle = {}, !.confirmations = 0]
               h == Handle(observed, e)
               w == ProcessEvent(v, e)
    <1>0. v \in VerifierState /\ t \in Thread /\ WellFormed(e) /\ v.tainted_thread_streams \in Nat
        BY EventFields, LossFields DEF Consistent
    <1>1. n \in Nat /\ l \in Nat
        BY <1>0, Fields DEF WellFormed
    <1>2. /\ Consistent(counted) /\ counted.thread_states = v.thread_states
          /\ Calm(v, counted)
        <2> HIDE DEF n, l
        <2>1. /\ counted \in VerifierState /\ counted.thread_states = v.thread_states
              /\ counted.waiting_thread_count = v.waiting_thread_count
              /\ counted.mutex_states = v.mutex_states
              /\ counted.tainted_thread_streams = v.tainted_thread_streams
              /\ counted.state_overflow_events = v.state_overflow_events
            BY <1>0, <1>1 DEF VerifierState
        <2> HIDE DEF counted
        <2> QED
            BY <2>1, ThreadsAlone, CalmSame
    <1>3. w = IF t \in KnownThreads(f) THEN h ELSE f
        BY DEF ProcessEvent
    <1> HIDE DEF counted
    <1>4. /\ Consistent(f) /\ Calm(v, f)
          /\ Tainted(f, t) <=> Tainted(v, t)
          /\ Expected(f, t) = Expected(v, t) /\ Depth(f, t) = Depth(v, t)
          /\ Roomy(f) => ~Overflowed(v, t) /\ t \in KnownThreads(f)
        <2>1. Consistent(f)
            BY <1>0, <1>2, FindThread
        <2>2. /\ f.thread_states[t].trace_tainted = counted.thread_states[t].trace_tainted
              /\ f.thread_states[t].next_expected_sequence
                   = counted.thread_states[t].next_expected_sequence
              /\ f.thread_states[t].depth = counted.thread_states[t].depth
            BY <1>0, <1>2, FindThreadEffect DEF Consistent
        <2>3. /\ Calm(counted, f)
              /\ Roomy(f) => ~Overflowed(counted, t) /\ t \in KnownThreads(f)
            BY <1>0, <1>2, FindThreadCalm DEF Consistent
        <2>4. Overflowed(counted, t) <=> Overflowed(v, t)
            BY <1>2 DEF Overflowed, KnownThreads
        <2> HIDE DEF f
        <2>5. Calm(v, f)
            BY <1>2, <2>3, CalmTwice
        <2> QED
            BY <1>2, <2>1, <2>2, <2>3, <2>4, <2>5 DEF Tainted, Expected, Depth
    <1> HIDE DEF f
    <1>5. CASE t \notin KnownThreads(f)
        <2>1. w = f /\ ~Roomy(w)
            BY <1>3, <1>4, <1>5
        <2> HIDE DEF w
        <2>2. w.tainted_thread_streams = v.tainted_thread_streams
            BY <1>4, <2>1 DEF Calm
        <2>3. w.tainted_thread_streams >= v.tainted_thread_streams
            BY <1>0, <2>2
        <2> QED
            BY <1>4, <2>1, <2>3 DEF w
    <1>6. CASE t \in KnownThreads(f)
        <2>1. w = h
            BY <1>3, <1>6
        <2>2. /\ Consistent(o) /\ (Roomy(o) <=> Roomy(f))
              /\ o.tainted_thread_streams >= f.tainted_thread_streams
              /\ e.thread_sequence # Expected(f, t) /\ ~Tainted(f, t)
                   => o.tainted_thread_streams > 0
              /\ e.thread_sequence = Expected(f, t) =>
                   /\ Calm(f, o) /\ Depth(o, t) = Depth(f, t)
                   /\ Tainted(o, t) <=> Tainted(f, t)
            <3>1. Consistent(o)
                BY <1>0, <1>4, Observe
            <3>2. /\ Roomy(o) <=> Roomy(f)
                  /\ o.tainted_thread_streams >= f.tainted_thread_streams
                  /\ e.thread_sequence # Expected(f, t) /\ ~Tainted(f, t)
                       => o.tainted_thread_streams > 0
                  /\ ~(e.thread_sequence # Expected(f, t)) => Calm(f, o)
                BY <1>4, ObserveExact
            <3>3. e.thread_sequence = f.thread_states[t].next_expected_sequence =>
                       /\ o.thread_states[t].trace_tainted = f.thread_states[t].trace_tainted
                       /\ o.thread_states[t].depth = f.thread_states[t].depth
                BY <1>4, ObserveEffect
            <3> HIDE DEF o
            <3> QED
                BY <3>1, <3>2, <3>3 DEF Expected, Tainted, Depth
        <2> HIDE DEF o
        <2>3. /\ Consistent(observed) /\ Calm(o, observed)
              /\ observed.thread_states = o.thread_states
            <3>1. {} \in SUBSET Thread /\ 0 \in 0 .. Confirmations
                BY VerifierAssumption
            <3>2. Consistent(o)
                BY <2>2
            <3>3. Consistent(observed)
                BY <3>1, <3>2, CycleFields
            <3>4. /\ observed.thread_states = o.thread_states
                  /\ observed.mutex_states = o.mutex_states
                  /\ observed.tainted_thread_streams = o.tainted_thread_streams
                  /\ observed.state_overflow_events = o.state_overflow_events
                BY <2>2 DEF VerifierState, Consistent
            <3> HIDE DEF observed
            <3> QED
                BY <3>3, <3>4, CalmSame
        <2> HIDE DEF observed
        <2>4. Exact(observed, h, e)
            BY <2>3, HandleExact
        <2>5. h.thread_states[t].trace_tainted = observed.thread_states[t].trace_tainted
            BY <2>3, HandleHandled DEF Handled
        <2> HIDE DEF h
        <2>6. /\ Roomy(h) => Roomy(o)
              /\ h.tainted_thread_streams = o.tainted_thread_streams
              /\ Tainted(h, t) <=> Tainted(o, t)
            BY <2>3, <2>4, <2>5 DEF Exact, Calm, Tainted
        <2>7. /\ f.tainted_thread_streams = v.tainted_thread_streams
              /\ o.tainted_thread_streams \in Nat
              /\ Roomy(f) => Roomy(v)
            <3>1. o \in VerifierState
                BY <2>2 DEF Consistent
            <3>2. o.tainted_thread_streams \in Nat
                BY <3>1, LossFields
            <3> QED
                BY <1>4, <3>2 DEF Calm
        <2>8. h.tainted_thread_streams >= v.tainted_thread_streams
            BY <2>2, <2>6, <2>7
        <2>9. Tainted(h, t) /\ ~Tainted(v, t) => h.tainted_thread_streams > 0
            BY <1>4, <2>2, <2>6
        <2>10. ASSUME Roomy(h), h.tainted_thread_streams = 0, ~Tainted(v, t)
               PROVE  /\ e.thread_sequence = Expected(v, t)
                      /\ Depth(v, t) = ViewBefore(e).held =>
                           Depth(h, t) = e.really_held /\ Decided(v, h, e)
            <3>1. e.thread_sequence = Expected(f, t)
                BY <1>4, <2>2, <2>6, <2>10
            <3>2. Calm(v, observed)
                BY <1>4, <2>2, <2>3, <3>1, CalmTwice
            <3>3. Depth(observed, t) = Depth(v, t) /\ ~Tainted(observed, t)
                BY <1>4, <2>2, <2>3, <2>10, <3>1 DEF Depth, Tainted
            <3>4. ASSUME Depth(v, t) = ViewBefore(e).held
                  PROVE  Depth(h, t) = e.really_held /\ Decided(v, h, e)
                <4>1. Depth(h, t) = e.really_held /\ Decided(observed, h, e)
                    BY <2>4, <2>10, <3>3, <3>4 DEF Exact
                <4> QED
                    BY <3>2, <4>1, CalmDecided
            <3> QED
                BY <1>4, <3>1, <3>4
        <2>11. Roomy(h) => ~Overflowed(v, t) /\ Roomy(v)
            <3>1. Roomy(h) => Roomy(f)
                BY <2>2, <2>6
            <3> QED
                BY <1>4, <2>7, <3>1
        <2> HIDE DEF w
        <2> QED
            BY <2>1, <2>8, <2>9, <2>10, <2>11 DEF w
    <1> QED
        BY <1>5, <1>6

-----------------------------------------------------------------------------
(***************************************************************************)
(* Flows.                                                                  *)
(***************************************************************************)

LEMMA FlowTyped ==
    ASSUME Parts, NEW c \in DOMAIN contexts
    PROVE  /\ Queue(c) \in Seq(MonitorEvent) /\ Flow(c) \in Seq(MonitorEvent)
           /\ Len(Flow(c)) \in Nat /\ DOMAIN Flow(c) = 1 .. Len(Flow(c))
           /\ \A k \in DOMAIN Flow(c) : Flow(c)[k] \in MonitorEvent
           /\ Owner(c) \in Thread
    <1> DEFINE f == Flow(c)
    <1>1. Queue(c) \in Seq(MonitorEvent) /\ Owner(c) \in Thread
        BY ContextFields DEF Parts, Queue, Owner
    <1>2. Pending(c) => app[Owner(c)].event \in MonitorEvent
        BY <1>1, AppFields DEF Parts, Pending
    <1>3. f \in Seq(MonitorEvent)
        BY <1>1, <1>2, AppendProperties DEF Flow
    <1> HIDE DEF f
    <1>4. Len(f) \in Nat /\ DOMAIN f = 1 .. Len(f) /\ \A k \in DOMAIN f : f[k] \in MonitorEvent
        BY <1>3, LenProperties, ElementOfSeq
    <1> QED
        BY <1>1, <1>3, <1>4 DEF f

LEMMA ContinuesAppend ==
    ASSUME NEW depth, NEW flow \in Seq(MonitorEvent), NEW e,
           Continues(depth, flow), ViewBefore(e).held = EndDepth(depth, flow)
    PROVE  /\ Continues(depth, Append(flow, e))
           /\ EndDepth(depth, Append(flow, e)) = e.really_held
    <1> DEFINE g == Append(flow, e)
               n == Len(flow)
    <1>1. /\ n \in Nat /\ DOMAIN flow = 1 .. n
          /\ DOMAIN g = 1 .. n + 1 /\ Len(g) = n + 1 /\ g # <<>>
          /\ g[n + 1] = e /\ \A k \in 1 .. n : g[k] = flow[k]
        BY LenProperties
    <1>2. flow = <<>> <=> n = 0
        BY EmptySeq
    <1> HIDE DEF g, n
    <1>3. EndDepth(depth, g) = e.really_held
        BY <1>1 DEF EndDepth
    <1>4. EndDepth(depth, flow) = IF n = 0 THEN depth ELSE flow[n].really_held
        BY <1>2 DEF EndDepth, n
    <1>5. ASSUME NEW k \in DOMAIN g
          PROVE  ViewBefore(g[k]).held = IF k = 1 THEN depth ELSE g[k - 1].really_held
        <2>1. CASE k = n + 1
            <3>1. g[k] = e /\ (k = 1 <=> n = 0) /\ k - 1 = n
                BY <1>1, <2>1
            <3>2. n # 0 => g[n] = flow[n]
                BY <1>1
            <3> QED
                BY <1>4, <3>1, <3>2
        <2>2. CASE k # n + 1
            <3>1. k \in 1 .. n
                BY <1>1, <1>5, <2>2
            <3>2. g[k] = flow[k] /\ (k # 1 => k - 1 \in 1 .. n)
                BY <1>1, <3>1
            <3>3. k # 1 => g[k - 1] = flow[k - 1]
                BY <1>1, <3>2
            <3> QED
                BY <1>1, <3>1, <3>2, <3>3 DEF Continues
        <2> QED
            BY <2>1, <2>2
    <1> QED
        BY <1>3, <1>5 DEF Continues, g

LEMMA ContinuesTail ==
    ASSUME NEW depth, NEW flow \in Seq(MonitorEvent), flow # <<>>, Continues(depth, flow)
    PROVE  /\ ViewBefore(flow[1]).held = depth
           /\ Continues(flow[1].really_held, Tail(flow))
           /\ EndDepth(flow[1].really_held, Tail(flow)) = EndDepth(depth, flow)
    <1> DEFINE g == Tail(flow)
               n == Len(flow)
               r == flow[1].really_held
    <1>1. /\ n \in Nat /\ n # 0 /\ DOMAIN flow = 1 .. n
          /\ DOMAIN g = 1 .. n - 1 /\ Len(g) = n - 1 /\ g \in Seq(MonitorEvent)
          /\ \A k \in 1 .. n - 1 : g[k] = flow[k + 1]
        BY LenProperties, EmptySeq
    <1> HIDE DEF g, n
    <1>2. g = <<>> <=> n = 1
        BY <1>1, EmptySeq
    <1>3. ViewBefore(flow[1]).held = depth
        BY <1>1 DEF Continues
    <1>4. EndDepth(r, g) = EndDepth(depth, flow)
        <2>1. EndDepth(depth, flow) = flow[n].really_held
            BY DEF EndDepth, n
        <2>2. n # 1 => g[n - 1] = flow[n]
            BY <1>1
        <2> QED
            BY <1>1, <1>2, <2>1, <2>2 DEF EndDepth
    <1>5. ASSUME NEW k \in DOMAIN g
          PROVE  ViewBefore(g[k]).held = IF k = 1 THEN r ELSE g[k - 1].really_held
        <2>1. /\ k \in 1 .. n - 1 /\ k + 1 \in 1 .. n /\ k + 1 # 1 /\ (k + 1) - 1 = k
              /\ k # 1 => k - 1 \in 1 .. n - 1 /\ (k - 1) + 1 = k
            BY <1>1, <1>5
        <2>2. ViewBefore(flow[k + 1]).held = flow[k].really_held
            BY <1>1, <2>1 DEF Continues
        <2>3. g[k] = flow[k + 1]
            BY <1>1, <2>1
        <2>4. k # 1 => g[k - 1] = flow[k]
            BY <1>1, <2>1
        <2> QED
            BY <2>2, <2>3, <2>4
    <1> QED
        BY <1>3, <1>4, <1>5 DEF Continues, g

\* A verdict that is not taken away.
LEMMA Verdict ==
    ASSUME NEW v
    PROVE  Interpretation(v, TRUE) = "AUTHORITATIVE"
             <=> Roomy(v) /\ v.tainted_thread_streams = 0
    BY DEF Interpretation, Roomy

\* What was missed stays missed.
LEMMA StillMissed ==
    ASSUME Parts, NothingMissed',
           \A u \in Thread : app[u].tls_context = RegistrationFailed
                               => app'[u].tls_context = RegistrationFailed,
           \A c \in DOMAIN contexts :
              /\ c \in DOMAIN contexts' /\ Owner(c)' = Owner(c)
              /\ contexts'[c].dropped = 0 => contexts[c].dropped = 0,
           Roomy(verifier') => Roomy(verifier),
           verifier'.tainted_thread_streams = 0 => verifier.tainted_thread_streams = 0
    PROVE  NothingMissed
    <1>1. NothingDropped' /\ Interpretation(verifier', TRUE) = "AUTHORITATIVE"
        BY DEF NothingMissed
    <1>2. Interpretation(verifier, TRUE) = "AUTHORITATIVE"
        BY <1>1, Verdict
    <1>3. ASSUME NEW t \in Thread PROVE Complete(t)
        <2>1. /\ app'[t].tls_context # RegistrationFailed
              /\ \A c \in DOMAIN contexts' :
                    contexts'[c].thread_id = t => contexts'[c].dropped = 0
            BY <1>1 DEF NothingDropped, Complete
        <2> QED
            BY <2>1 DEF Complete, Owner
    <1> QED
        BY <1>2, <1>3 DEF NothingMissed, NothingDropped

\* A step that stamps nothing and processes nothing.
LEMMA QuietOwnership ==
    ASSUME Parts, OwnershipInv, NothingMissed' => NothingMissed,
           DOMAIN contexts' = DOMAIN contexts,
           \A c \in DOMAIN contexts : Owner(c)' = Owner(c) /\ Flow(c)' = Flow(c),
           UNCHANGED <<global_sequence, newest>>,
           \A u \in Thread : Depth(verifier', u) = Depth(verifier, u)
                             /\ (Tainted(verifier', u) <=> Tainted(verifier, u)),
           \A m \in Mutex :
              /\ Recorded(m)'.owner = Recorded(m).owner
              /\ Recorded(m)'.last_state_sequence = Recorded(m).last_state_sequence,
           accept_events' => accept_events,
           \A c \in DOMAIN contexts : accept_events' /\ Live(c)' => Live(c),
           \A u \in Thread : accept_events' => StampedView(u)'.held = StampedView(u).held,
           \A u \in Thread : NothingMissed' /\ accept_events' /\ Stranger(u)
                             /\ app[u].pc # "unlocked" /\ (\A m \in Mutex : lock[m].owner # u)
                => app'[u].pc # "unlocked" /\ \A m \in Mutex : lock'[m].owner # u
    PROVE  OwnershipInv'
    <1> SUFFICES ASSUME NothingMissed'
                 PROVE  FlowInv' /\ StrangerInv' /\ TrustInv' /\ StampInv' /\ OwnerInv'
        BY DEF OwnershipInv
    <1>1. FlowInv /\ StrangerInv /\ TrustInv /\ StampInv /\ OwnerInv
        BY DEF OwnershipInv
    <1>2. FlowInv'
        <2> SUFFICES ASSUME NEW c \in DOMAIN contexts, First(c)'
                     PROVE  (LET depth == Depth(verifier, Owner(c)) IN
                             /\ Continues(depth, Flow(c))
                             /\ Live(c) /\ accept_events =>
                                   StampedView(Owner(c)).held = EndDepth(depth, Flow(c)))'
            BY DEF FlowInv
        <2>1. PICK t \in Thread : t = Owner(c)
            BY FlowTyped
        <2>2. PICK f : f = Flow(c)
            OBVIOUS
        <2>3. PICK d : d = Depth(verifier, t)
            OBVIOUS
        <2>4. First(c)
            BY DEF First
        <2>5. /\ Continues(d, f)
              /\ Live(c) /\ accept_events => StampedView(t).held = EndDepth(d, f)
            BY <1>1, <2>1, <2>2, <2>3, <2>4 DEF FlowInv
        <2>6. Owner(c)' = t /\ Flow(c)' = f /\ Depth(verifier', t) = d
            BY <2>1, <2>2, <2>3
        <2>7. Live(c)' /\ accept_events' => StampedView(t)'.held = EndDepth(d, f)
            BY <2>5
        <2>8. StampedView(Owner(c))' = StampedView(t)'
            BY <2>6 DEF StampedView, RealDepth
        <2> QED
            BY <2>5, <2>6, <2>7, <2>8
    <1>3. StrangerInv'
        <2> SUFFICES ASSUME NEW t \in Thread, Stranger(t)'
                     PROVE  /\ \A m \in Mutex : Depth(verifier', t)[m] = 0
                            /\ accept_events' => app'[t].pc # "unlocked"
                                                 /\ \A m \in Mutex : lock'[m].owner # t
            BY DEF StrangerInv
        <2>1. Stranger(t)
            BY DEF Stranger
        <2> QED
            BY <1>1, <2>1 DEF StrangerInv
    <1>4. TrustInv'
        BY <1>1 DEF TrustInv
    <1>5. OnTheWay' = OnTheWay
        BY DEF OnTheWay
    <1>6. StampInv'
        BY <1>1, <1>5 DEF StampInv
    <1>7. OwnerInv'
        BY <1>1, <1>5 DEF OwnerInv, NewestStamp, Ahead
    <1> QED
        BY <1>2, <1>3, <1>4, <1>6, <1>7

-----------------------------------------------------------------------------
(***************************************************************************)
(* Steps that stamp nothing and process nothing.                           *)
(***************************************************************************)

LEMMA FlowKept ==
    ASSUME NEW c, Queue(c)' = Queue(c), Owner(c)' = Owner(c), Pending(c)' <=> Pending(c),
           Pending(c) => app'[Owner(c)].event = app[Owner(c)].event
    PROVE  Flow(c)' = Flow(c)
    BY DEF Flow

\* The thread is about to push nothing before and after.
LEMMA SilentFlow ==
    ASSUME Parts, NEW t \in Thread, contexts' = contexts,
           \A u \in Thread \ {t} : app'[u] = app[u],
           app[t].pc \notin PushPc, app'[t].pc \notin PushPc
    PROVE  \A c \in DOMAIN contexts : Owner(c)' = Owner(c) /\ Flow(c)' = Flow(c)
    <1> SUFFICES ASSUME NEW c \in DOMAIN contexts
                 PROVE  Owner(c)' = Owner(c) /\ Flow(c)' = Flow(c)
        OBVIOUS
    <1>1. Owner(c)' = Owner(c) /\ Queue(c)' = Queue(c) /\ Owner(c) \in Thread
        BY FlowTyped DEF Owner, Queue
    <1>2. CASE Owner(c) = t
        <2>1. ~Pending(c) /\ ~Pending(c)'
            BY <1>1, <1>2 DEF Pending
        <2> QED
            BY <1>1, <2>1, FlowKept
    <1>3. CASE Owner(c) # t
        <2>1. app'[Owner(c)] = app[Owner(c)]
            BY <1>1, <1>3
        <2>2. Pending(c)' <=> Pending(c)
            BY <1>1, <2>1 DEF Pending, Live
        <2> QED
            BY <1>1, <2>1, <2>2, FlowKept
    <1> QED
        BY <1>2, <1>3

\* Nobody registers or loses an event.
LEMMA SameMissed ==
    ASSUME Parts, NothingMissed', contexts' = contexts, verifier' = verifier,
           \A u \in Thread : app[u].tls_context = RegistrationFailed
                               => app'[u].tls_context = RegistrationFailed
    PROVE  NothingMissed
    <1>1. \A c \in DOMAIN contexts :
              /\ c \in DOMAIN contexts' /\ Owner(c)' = Owner(c)
              /\ contexts'[c].dropped = 0 => contexts[c].dropped = 0
        BY DEF Owner
    <1> QED
        BY <1>1, StillMissed

\* The thread holds a mutex that the verifier hears of.
LEMMA NoStranger ==
    ASSUME Parts, StreamInv, NothingMissed, NEW t \in Thread, app[t].tls_context # NoContext
    PROVE  ~Stranger(t)
    <1>1. app[t].tls_context # RegistrationFailed
        BY DEF NothingMissed, NothingDropped, Complete
    <1>2. app[t].tls_context \in DOMAIN contexts
        BY <1>1, AppFields DEF Parts
    <1>3. Owner(app[t].tls_context) = t
        BY <1>2 DEF StreamInv, ThreadsInv, ThreadInv
    <1> QED
        BY <1>2, <1>3 DEF Stranger

LEMMA RealLockOwnership ==
    ASSUME Parts, StreamInv, OwnershipInv, NEW t \in Thread, RealLock(t)
    PROVE  OwnershipInv'
    <1> DEFINE m0 == app[t].mutex
    <1>1. /\ app[t].pc = "lock" /\ m0 \in Mutex
          /\ app'[t].pc \in {"acquired", "lock_failed"}
          /\ lock[m0].owner \in {None, t} /\ lock'[m0].owner = t
          /\ RealCall(t, m0)
        BY RealLockEffect
    <1>2. /\ contexts' = contexts /\ verifier' = verifier
          /\ UNCHANGED <<global_sequence, newest>> /\ (accept_events' <=> accept_events)
          /\ app'[t].tls_context = app[t].tls_context
          /\ \A u \in Thread \ {t} : app'[u] = app[u]
          /\ \A u \in Thread : StampedView(u)' = StampedView(u)
          /\ \A m \in Mutex \ {m0} : lock'[m] = lock[m]
        BY <1>1 DEF RealCall, transportVars, monitorVars, RealLock
    <1>3. NothingMissed' => NothingMissed
        BY <1>2, SameMissed
    <1>4. \A c \in DOMAIN contexts : Owner(c)' = Owner(c) /\ Flow(c)' = Flow(c)
        BY <1>1, <1>2, SilentFlow DEF PushPc
    <1>5. ASSUME NothingMissed', accept_events', NEW u \in Thread, Stranger(u),
                 app[u].pc # "unlocked", \A m \in Mutex : lock[m].owner # u
          PROVE  app'[u].pc # "unlocked" /\ \A m \in Mutex : lock'[m].owner # u
        <2>1. CASE u = t
            <3>1. app[t].tls_context # NoContext
                BY <1>1, <1>2, <1>5 DEF StreamInv, ThreadsInv, ThreadInv
            <3> QED
                BY <1>3, <1>5, <2>1, <3>1, NoStranger
        <2>2. CASE u # t
            BY <1>1, <1>2, <1>5, <2>2
        <2> QED
            BY <2>1, <2>2
    <1>6. \A c \in DOMAIN contexts : Live(c)' => Live(c)
        <2> SUFFICES ASSUME NEW c \in DOMAIN contexts, Live(c)' PROVE Live(c)
            OBVIOUS
        <2>1. Owner(c) \in Thread /\ Owner(c)' = Owner(c)
            BY <1>4, FlowTyped
        <2>2. app'[Owner(c)].tls_context = app[Owner(c)].tls_context
            BY <1>2, <2>1
        <2> QED
            BY <2>1, <2>2 DEF Live
    <1> QED
        BY <1>2, <1>3, <1>4, <1>5, <1>6, QuietOwnership DEF Recorded

LEMMA RealUnlockOwnership ==
    ASSUME Parts, StreamInv, OwnershipInv, NEW t \in Thread, NEW m0 \in Mutex,
           RealUnlock(t, m0)
    PROVE  OwnershipInv'
    <1>1. /\ app[t].pc = "run" /\ app'[t].pc \in {"unlocked", "unlock_failed"}
          /\ \/ lock' = lock
             \/ lock[m0].owner = t /\ lock'[m0].owner \in {None, t}
          /\ RealCall(t, m0)
        BY RealUnlockEffect
    <1>2. /\ contexts' = contexts /\ verifier' = verifier
          /\ UNCHANGED <<global_sequence, newest>> /\ (accept_events' <=> accept_events)
          /\ app'[t].tls_context = app[t].tls_context
          /\ \A u \in Thread \ {t} : app'[u] = app[u]
          /\ \A u \in Thread : StampedView(u)' = StampedView(u)
          /\ \A m \in Mutex \ {m0} : lock'[m] = lock[m]
        BY <1>1 DEF RealCall, transportVars, monitorVars, RealUnlock
    <1>3. NothingMissed' => NothingMissed
        BY <1>2, SameMissed
    <1>4. \A c \in DOMAIN contexts : Owner(c)' = Owner(c) /\ Flow(c)' = Flow(c)
        BY <1>1, <1>2, SilentFlow DEF PushPc
    <1>5. ASSUME NEW u \in Thread, \A m \in Mutex : lock[m].owner # u,
                 app[u].pc # "unlocked"
          PROVE  app'[u].pc # "unlocked" /\ \A m \in Mutex : lock'[m].owner # u
        <2>1. CASE u = t
            <3>1. lock' = lock
                BY <1>1, <1>5, <2>1
            <3> DEFINE a == [app[t] EXCEPT !.pc = "unlock_failed", !.mutex = m0]
            <3>2. app' = [app EXCEPT ![t] = a]
                BY <1>5, <2>1 DEF RealUnlock, RealUnlockResult
            <3>3. app[t] \in AppThread /\ app \in [Thread -> AppThread]
                BY AppFields DEF Parts, AppInv
            <3>4. a.pc = "unlock_failed"
                BY <3>3 DEF AppThread
            <3> HIDE DEF a
            <3> QED
                BY <1>5, <2>1, <3>1, <3>2, <3>3, <3>4
        <2>2. CASE u # t
            <3>1. \A m \in Mutex : lock'[m].owner # u
                BY <1>1, <1>2, <1>5, <2>2, VerifierAssumption
            <3> QED
                BY <1>2, <1>5, <2>2, <3>1
        <2> QED
            BY <2>1, <2>2
    <1>6. \A c \in DOMAIN contexts : Live(c)' => Live(c)
        <2> SUFFICES ASSUME NEW c \in DOMAIN contexts, Live(c)' PROVE Live(c)
            OBVIOUS
        <2>1. Owner(c) \in Thread /\ Owner(c)' = Owner(c)
            BY <1>4, FlowTyped
        <2>2. app'[Owner(c)].tls_context = app[Owner(c)].tls_context
            BY <1>2, <2>1
        <2> QED
            BY <2>1, <2>2 DEF Live
    <1> QED
        BY <1>2, <1>3, <1>4, <1>5, <1>6, QuietOwnership DEF Recorded

LEMMA CheckedCalm ==
    ASSUME NEW v \in VerifierState
    PROVE  Calm(v, CheckDeadlocks(v))
    <1> DEFINE cycle == FindAnyCycle(v)
               n == IF v.confirmations < Confirmations THEN v.confirmations + 1
                                                       ELSE v.confirmations
               r == [v EXCEPT !.confirmations = n, !.reported_cycle = cycle]
               i == r.deadlock_cycle_violations + 1
               w == CheckDeadlocks(v)
               Same(x) == /\ x.mutex_states = v.mutex_states
                          /\ x.tainted_thread_streams = v.tainted_thread_streams
                          /\ x.state_overflow_events = v.state_overflow_events
    <1>1. \/ w = [v EXCEPT !.candidate_cycle = {}, !.confirmations = 0, !.reported_cycle = {}]
          \/ w = [v EXCEPT !.candidate_cycle = cycle, !.confirmations = 1]
          \/ w = [v EXCEPT !.confirmations = n]
          \/ w = [r EXCEPT !.deadlock_cycle_violations = i]
        BY DEF CheckDeadlocks, ReportDeadlockCycle
    <1> HIDE DEF cycle, n, i
    <1>2. Same([r EXCEPT !.deadlock_cycle_violations = i])
        BY DEF VerifierState
    <1>3. Same([v EXCEPT !.candidate_cycle = {}, !.confirmations = 0, !.reported_cycle = {}])
        BY DEF VerifierState
    <1>4. Same([v EXCEPT !.candidate_cycle = cycle, !.confirmations = 1])
        BY DEF VerifierState
    <1>5. Same([v EXCEPT !.confirmations = n])
        BY DEF VerifierState
    <1> HIDE DEF w
    <1>6. Same(w)
        BY <1>1, <1>2, <1>3, <1>4, <1>5
    <1> QED
        BY <1>6, CalmSame DEF w

LEMMA AsideOwnership ==
    ASSUME Parts, OwnershipInv,
           DrainEmpty \/ PassEnd \/ StopAccept \/ StopStep \/ Tick \/ UNCHANGED vars
    PROVE  OwnershipInv'
    <1>1. UNCHANGED <<lock, app, contexts, global_sequence, newest>>
        BY DEF DrainEmpty, PassEnd, StopAccept, StopStep, StopConsumer, Summary, Tick,
               ghostVars, mutexVars, transportVars, vars
    <1>2. accept_events' => accept_events
        <2>1. UNCHANGED vars => (accept_events' <=> accept_events)
            BY DEF vars, accept_events
        <2> QED
            BY <2>1, StopsAccepting
    <1>3. Calm(verifier, verifier') /\ verifier'.thread_states = verifier.thread_states
        <2>1. verifier' = verifier \/ verifier' = CheckDeadlocks(verifier)
            BY DEF DrainEmpty, PassEnd, StopAccept, StopStep, StopConsumer, Summary, Tick, vars
        <2>2. Calm(verifier, verifier)
            BY DEF Calm
        <2> QED
            BY <2>1, <2>2, CheckedKeeps, CheckedCalm DEF Parts, Consistent
    <1>4. \A c \in DOMAIN contexts :
             /\ Owner(c)' = Owner(c) /\ Flow(c)' = Flow(c) /\ (Live(c)' <=> Live(c))
             /\ c \in DOMAIN contexts' /\ contexts'[c].dropped = contexts[c].dropped
        BY <1>1 DEF Owner, Flow, Queue, Pending, Live
    <1>5. \A u \in Thread : StampedView(u)' = StampedView(u)
        <2> SUFFICES ASSUME NEW u \in Thread PROVE StampedView(u)'.held = StampedView(u).held
                                              /\ StampedView(u)' = StampedView(u)
            OBVIOUS
        <2>1. times' = times
            BY DEF DrainEmpty, PassEnd, StopAccept, StopStep, StopConsumer, Summary, Tick,
                   ghostVars, vars
        <2> QED
            BY <1>1, <2>1 DEF StampedView, RealDepth
    <1>6. NothingMissed' => NothingMissed
        BY <1>1, <1>3, <1>4, StillMissed DEF Calm
    <1>7. \A u \in Thread : Depth(verifier', u) = Depth(verifier, u)
                             /\ (Tainted(verifier', u) <=> Tainted(verifier, u))
        BY <1>3 DEF Depth, Tainted
    <1>8. \A m \in Mutex :
              /\ Recorded(m)'.owner = Recorded(m).owner
              /\ Recorded(m)'.last_state_sequence = Recorded(m).last_state_sequence
        BY <1>3 DEF Recorded, Calm
    <1> QED
        BY <1>1, <1>2, <1>4, <1>5, <1>6, <1>7, <1>8, QuietOwnership

\* A thread goes on without an event, and nobody listens, or it makes no call.
LEMMA SilentOwnership ==
    ASSUME Parts, OwnershipInv, NEW t \in Thread,
           UNCHANGED <<lock, contexts, global_sequence, newest, monitorVars>>,
           \A u \in Thread \ {t} : app'[u] = app[u] /\ times'[u] = times[u],
           app[t].pc \notin PushPc, app'[t].pc \in {"run", "lock"},
           accept_events => app[t].pc = "run",
           app'[t].tls_context \in {app[t].tls_context, NoContext},
           app[t].tls_context = RegistrationFailed
               => app'[t].tls_context = RegistrationFailed
    PROVE  OwnershipInv'
    <1>1. /\ contexts' = contexts /\ verifier' = verifier
          /\ (accept_events' <=> accept_events)
        BY DEF monitorVars, accept_events
    <1>2. NothingMissed' => NothingMissed
        BY <1>1, SameMissed
    <1>3. \A c \in DOMAIN contexts : Owner(c)' = Owner(c) /\ Flow(c)' = Flow(c)
        BY <1>1, SilentFlow DEF PushPc
    <1>4. ASSUME NEW u \in Thread, accept_events'
          PROVE  StampedView(u)'.held = StampedView(u).held
        <2>1. CASE u = t
            BY <1>1, <1>4, <2>1 DEF StampedView, RealDepth
        <2>2. CASE u # t
            BY <2>2, OtherView
        <2> QED
            BY <2>1, <2>2
    <1>5. \A c \in DOMAIN contexts : Live(c)' => Live(c)
        <2> SUFFICES ASSUME NEW c \in DOMAIN contexts, Live(c)' PROVE Live(c)
            OBVIOUS
        <2>1. Owner(c) \in Thread /\ Owner(c)' = Owner(c)
            BY <1>3, FlowTyped
        <2>2. NoContext \notin DOMAIN contexts
            BY LenProperties DEF Parts, ContextsInv, NoContext
        <2> QED
            BY <2>1, <2>2 DEF Live
    <1>6. ASSUME NEW u \in Thread, accept_events', app[u].pc # "unlocked",
                 \A m \in Mutex : lock[m].owner # u
          PROVE  app'[u].pc # "unlocked" /\ \A m \in Mutex : lock'[m].owner # u
        BY <1>6
    <1> QED
        BY <1>1, <1>2, <1>3, <1>4, <1>5, <1>6, QuietOwnership DEF Recorded

LEMMA RefusedOwnership ==
    ASSUME Parts, OwnershipInv, NEW t \in Thread, NEW type, NEW m, Stamping(t, type, m),
           NEW pc \in PushPc, EmitRefused(t, m, pc),
           pc = "push_exit" => app[t].tls_context > NoContext
    PROVE  OwnershipInv'
    <1> DEFINE a == [app[t] EXCEPT !.mutex = m]
    <1>1. app[t] \in AppThread /\ app \in [Thread -> AppThread]
        BY AppFields DEF Parts, AppInv
    <1>2. a \in AppThread /\ a.tls_context = app[t].tls_context
        BY <1>1 DEF AppThread, Stamping
    <1>3. /\ app' = [app EXCEPT ![t] = Resume(a, pc)]
          /\ ~accept_events /\ UNCHANGED <<contexts, global_sequence, newest, times>>
        BY DEF EmitRefused, transportVars, ghostVars
    <1> HIDE DEF a
    <1>4. /\ app'[t] = Resume(a, pc)
          /\ \A u \in Thread \ {t} : app'[u] = app[u] /\ times'[u] = times[u]
        BY <1>1, <1>3
    <1>5. /\ app'[t].pc \in {"run", "lock"}
          /\ app'[t].tls_context \in {app[t].tls_context, NoContext}
          /\ pc # "push_exit" => app'[t].tls_context = app[t].tls_context
        BY <1>2, <1>4, ResumedAt
    <1>6. app[t].tls_context = RegistrationFailed => pc # "push_exit"
        BY DEF RegistrationFailed, NoContext
    <1>7. app[t].pc \notin PushPc /\ UNCHANGED <<lock, monitorVars>>
        BY DEF Stamping, Matching
    <1> QED
        BY <1>3, <1>4, <1>5, <1>6, <1>7, SilentOwnership

\* A call that no context is left for takes the verdict away.
LEMMA UnregisteredOwnership ==
    ASSUME Parts, NEW t \in Thread, NEW type, NEW m, Stamping(t, type, m),
           NEW pc \in PushPc, pc # "push_exit", EmitUnregistered(t, type, m, pc)
    PROVE  OwnershipInv'
    <1> DEFINE a == [app[t] EXCEPT !.mutex = m, !.tls_context = RegistrationFailed]
    <1>1. app[t] \in AppThread /\ app \in [Thread -> AppThread]
        BY AppFields DEF Parts, AppInv
    <1>2. a \in AppThread /\ a.tls_context = RegistrationFailed
        <2>1. RegistrationFailed \in Int
            BY DEF RegistrationFailed
        <2> QED
            BY <1>1, <2>1 DEF AppThread, Stamping
    <1>3. app' = [app EXCEPT ![t] = Resume(a, pc)]
        BY DEF EmitUnregistered
    <1> HIDE DEF a
    <1>4. app'[t].tls_context = RegistrationFailed
        BY <1>1, <1>2, <1>3, ResumedAt
    <1> QED
        BY <1>4 DEF OwnershipInv, NothingMissed, NothingDropped, Complete

\* The event goes from its thread to the end of the queue, which the flow does not notice,
\* or its loss takes the verdict away.
LEMMA PushOwnership ==
    ASSUME Parts, StreamInv, OwnershipInv, NEW t \in Thread, Push(t)
    PROVE  OwnershipInv'
    <1> DEFINE slot == app[t].tls_context
               old == contexts[slot]
               q == old.queue
               e == app[t].event
               b == Resume(app[t], app[t].pc)
               p == Append(q, e)
               longer == [old EXCEPT !.queue = p]
               j == old.dropped + 1
               lossy == [old EXCEPT !.dropped = j]
               c == IF Len(q) < Capacity THEN longer ELSE lossy
    <1>1. /\ app[t].pc \in PushPc /\ app[t] \in AppThread /\ app \in [Thread -> AppThread]
          /\ slot \in DOMAIN contexts
        BY AppFields DEF Parts, AppInv, Push, PushPc
    <1>2. old \in ThreadContext /\ old.dropped \in Nat
        BY <1>1, ContextFields DEF Parts
    <1>3. /\ contexts' = [contexts EXCEPT ![slot] = c]
          /\ app' = [app EXCEPT ![t] = b]
          /\ UNCHANGED <<lock, times, main, verifier, global_sequence, newest>>
        BY DEF Push, mutexVars, ghostVars, monitorVars
    <1>4. old.thread_id = t /\ Owner(slot) = t
        BY <1>1 DEF StreamInv, ThreadsInv, ThreadInv, Owner
    <1>5. Live(slot) /\ Pending(slot)
        BY <1>1, <1>4 DEF Live, Pending
    <1>6. /\ b.pc \in {"run", "lock"} /\ b.tls_context \in {slot, NoContext}
        BY <1>1, ResumedAt
    <1> HIDE DEF b, p, j
    <1>7. /\ longer.thread_id = t /\ longer.queue = p /\ longer.dropped = old.dropped
          /\ lossy.thread_id = t /\ lossy.dropped = j
        BY <1>2, <1>4 DEF ThreadContext
    <1> HIDE DEF longer, lossy
    <1>8. c.thread_id = t /\ (c = longer \/ c = lossy)
        BY <1>7
    <1> HIDE DEF c
    <1>9. app'[t] = b /\ \A u \in Thread \ {t} : app'[u] = app[u]
        BY <1>1, <1>3
    <1>10. /\ DOMAIN contexts' = DOMAIN contexts /\ contexts'[slot] = c
           /\ \A d \in DOMAIN contexts : d # slot => contexts'[d] = contexts[d]
        BY <1>1, <1>3
    <1>11. CASE c = lossy
        <2>1. contexts'[slot].dropped # 0 /\ contexts'[slot].thread_id = t
            BY <1>2, <1>7, <1>8, <1>10, <1>11 DEF j
        <2>2. ~Complete(t)'
            BY <1>1, <1>10, <2>1 DEF Complete
        <2> QED
            BY <2>2 DEF OwnershipInv, NothingMissed, NothingDropped
    <1>12. CASE c = longer
        <2>1. \A d \in DOMAIN contexts : /\ Owner(d)' = Owner(d)
                                         /\ contexts'[d].dropped = contexts[d].dropped
            BY <1>4, <1>7, <1>8, <1>10, <1>12 DEF Owner
        <2>2. NoContext \notin DOMAIN contexts /\ RegistrationFailed \notin DOMAIN contexts
            BY LenProperties DEF Parts, ContextsInv, NoContext, RegistrationFailed
        <2>3. NothingMissed' => NothingMissed
            BY <1>1, <1>3, <1>9, <1>10, <2>1, <2>2, StillMissed
        <2>4. ASSUME NEW d \in DOMAIN contexts
              PROVE  Flow(d)' = Flow(d) /\ (Live(d)' => Live(d))
            <3>1. Owner(d) \in Thread /\ Owner(d)' = Owner(d)
                BY <2>1, FlowTyped
            <3>2. CASE d = slot
                <4>1. Queue(d) = q /\ Queue(d)' = p /\ Pending(d) /\ Live(d) /\ Owner(d) = t
                    BY <1>4, <1>5, <1>7, <1>10, <1>12, <3>2 DEF Queue
                <4>2. ~Pending(d)'
                    BY <1>6, <1>9, <3>1, <4>1 DEF Pending, PushPc
                <4> QED
                    BY <4>1, <4>2 DEF Flow, p
            <3>3. CASE d # slot /\ Owner(d) = t
                <4>1. ~Live(d) /\ ~Live(d)' /\ Queue(d)' = Queue(d)
                    BY <1>6, <1>9, <1>10, <2>2, <3>1, <3>3 DEF Live, Queue
                <4> QED
                    BY <3>1, <4>1, FlowKept DEF Pending
            <3>4. CASE d # slot /\ Owner(d) # t
                <4>1. app'[Owner(d)] = app[Owner(d)] /\ Queue(d)' = Queue(d)
                    BY <1>9, <1>10, <3>1, <3>4 DEF Queue
                <4>2. (Live(d)' <=> Live(d)) /\ (Pending(d)' <=> Pending(d))
                    BY <3>1, <4>1 DEF Live, Pending
                <4> QED
                    BY <3>1, <4>1, <4>2, FlowKept
            <3> QED
                BY <3>2, <3>3, <3>4
        <2>5. ASSUME NEW u \in Thread PROVE StampedView(u)'.held = StampedView(u).held
            <3>1. CASE u = t
                <4>1. /\ app[t].pc \notin {"acquired", "unlocked"}
                      /\ app'[t].pc \notin {"acquired", "unlocked"}
                    BY <1>1, <1>6, <1>9 DEF PushPc
                <4> QED
                    BY <1>3, <3>1, <4>1 DEF StampedView, RealDepth
            <3>2. CASE u # t
                BY <1>3, <1>9, <3>2, OtherView
            <3> QED
                BY <3>1, <3>2
        <2>6. accept_events' <=> accept_events
            BY <1>3 DEF accept_events
        <2>7. ASSUME NEW u \in Thread, app[u].pc # "unlocked",
                     \A m \in Mutex : lock[m].owner # u
              PROVE  app'[u].pc # "unlocked" /\ \A m \in Mutex : lock'[m].owner # u
            BY <1>3, <1>6, <1>9, <2>7
        <2> QED
            BY <1>3, <1>10, <2>1, <2>3, <2>4, <2>5, <2>6, <2>7, QuietOwnership DEF Recorded
    <1> QED
        BY <1>8, <1>11, <1>12

-----------------------------------------------------------------------------
(***************************************************************************)
(* Steps that stamp an event.                                              *)
(***************************************************************************)

\* The stamped event is the newest, and says who owns its mutex by the order of stamps.
LEMMA StampedOwner ==
    ASSUME Parts, StreamInv, StampInv, OwnerInv, NEW t \in Thread, NEW type, NEW m,
           Stamping(t, type, m), Witness(t, type, m), NEW result, NEW seq \in Nat, NEW j,
           NEW e, e = NewEvent(t, type, m, result, seq, j),
           global_sequence' \in Nat, global_sequence <= seq, seq < global_sequence',
           e \in OnTheWay', OnTheWay \subseteq OnTheWay',
           \A f \in OnTheWay' : \/ f \in OnTheWay \/ f = e
                                \/ f.event_type = "THREAD_START"
                                   /\ f.sequence_id < global_sequence',
           \A f \in OnTheWay : f.sequence_id \in Nat
    PROVE  StampInv' /\ OwnerInv'
    <1>1. /\ e.event_type = type /\ e.object = m /\ e.thread_id = t
          /\ e.really_held = RealDepth(t) /\ e.sequence_id = seq
        BY DEF NewEvent
    <1>2. verifier' = verifier /\ lock' = lock /\ (type \in MutexEvent => m \in Mutex)
        BY DEF Stamping, monitorVars
    <1>3. \A q \in Mutex : Recorded(q)' = Recorded(q)
        BY <1>2 DEF Recorded
    <1>4. verifier \in VerifierState /\ global_sequence \in Nat
        BY DEF Parts, Consistent, CountersInv
    <1>5. \A q \in Mutex : Recorded(q).last_state_sequence \in Nat
        BY <1>4, MutexFields DEF Recorded, MutexState
    <1>6. StampInv'
        <2>1. \A f \in OnTheWay' : f.sequence_id < global_sequence'
            BY <1>1, <1>4 DEF StampInv
        <2>2. \A q \in Mutex : Recorded(q)'.last_state_sequence <= global_sequence'
            BY <1>3, <1>4, <1>5 DEF StampInv
        <2> QED
            BY <2>1, <2>2 DEF StampInv
    <1>7. OwnerInv'
        <2> SUFFICES ASSUME NEW q \in Mutex
                     PROVE  \E stamp \in 0 .. global_sequence' : NewestStamp(q, stamp)'
            BY DEF OwnerInv
        <2>1. PICK old \in 0 .. global_sequence : NewestStamp(q, old)
            BY DEF OwnerInv
        <2>2. newest \in [Mutex -> Thread \cup {None}]
            BY DEF Parts, GhostInv
        <2>3. CASE Changes(e, q)
            <3>1. newest'[q] = Names(e, q)
                <4>1. q = m /\ type \in {"LOCK_ACQUIRED", "UNLOCKED"}
                    BY <1>1, <2>3 DEF Changes
                <4>2. /\ lock[q].count \in Nat
                      /\ lock[q].owner = None <=> lock[q].count = 0
                    BY DEF Parts, LockInv, LocksInPlace
                <4>3. RealDepth(t)[q] > 0 <=> lock[q].owner = t
                    BY <4>2, VerifierAssumption DEF RealDepth
                <4>4. type = "LOCK_ACQUIRED" => lock[q].owner = t
                    BY <4>1 DEF Stamping, Matching, StreamInv, ThreadsInv, ThreadInv
                <4>5. newest' = [newest EXCEPT ![m] = IF lock[m].owner = t THEN t ELSE None]
                    BY <4>1, <4>4 DEF Witness
                <4> QED
                    BY <1>1, <2>2, <4>1, <4>3, <4>5 DEF Names
            <3>2. seq \in 0 .. global_sequence'
                OBVIOUS
            <3>3. Recorded(q)'.last_state_sequence <= seq
                BY <1>3, <1>4, <1>5 DEF StampInv
            <3>4. ASSUME NEW f \in Ahead(q)'
                  PROVE  /\ f.sequence_id <= seq
                         /\ f.sequence_id = seq => Names(f, q) = newest'[q]
                <4>1. f \in OnTheWay' /\ Changes(f, q)
                    BY DEF Ahead
                <4>2. CASE f = e
                    BY <1>1, <3>1, <4>2
                <4>3. CASE f \in OnTheWay
                    <5>1. f.sequence_id < global_sequence /\ f.sequence_id \in Nat
                        BY <4>3 DEF StampInv
                    <5> QED
                        BY <1>4, <5>1
                <4> QED
                    BY <4>1, <4>2, <4>3 DEF Changes
            <3>5. e \in Ahead(q)' /\ e.sequence_id = seq
                BY <1>1, <2>3 DEF Ahead
            <3>6. NewestStamp(q, seq)'
                BY <3>3, <3>4, <3>5 DEF NewestStamp
            <3> QED
                BY <3>2, <3>6
        <2>4. CASE ~Changes(e, q)
            <3>1. newest'[q] = newest[q]
                BY <1>1, <2>2, <2>4 DEF Witness, Changes
            <3>2. Ahead(q)' = Ahead(q)
                BY <2>4 DEF Ahead, Changes
            <3>3. NewestStamp(q, old)'
                BY <1>3, <2>1, <3>1, <3>2 DEF NewestStamp
            <3>4. old \in 0 .. global_sequence'
                BY <1>4
            <3> QED
                BY <3>3, <3>4
        <2> QED
            BY <2>3, <2>4
    <1> QED
        BY <1>6, <1>7

\* The event goes to the end of the flow of its context.
LEMMA RegisteredOwnership ==
    ASSUME Parts, Parts', StreamInv, OwnershipInv, NEW t \in Thread, NEW type, NEW m,
           Stamping(t, type, m),
           NEW result, NEW pc \in PushPc, EmitRegistered(t, type, m, result, pc)
    PROVE  OwnershipInv'
    <1>0. PICK slot : slot = app[t].tls_context
        OBVIOUS
    <1> DEFINE j == contexts[slot].next_thread_sequence
               n == j + 1
               e == NewEvent(t, type, m, result, global_sequence, j)
               a == [app[t] EXCEPT !.pc = pc, !.mutex = m, !.event = e]
               c == [contexts[slot] EXCEPT !.next_thread_sequence = n]
    <1>1. app[t] \in AppThread /\ app \in [Thread -> AppThread] /\ slot \in DOMAIN contexts
        BY <1>0, AppFields DEF Parts, AppInv, EmitRegistered, NoContext, RegistrationFailed
    <1>2. contexts[slot] \in ThreadContext
        BY <1>1, ContextFields DEF Parts
    <1>3. /\ app' = [app EXCEPT ![t] = a]
          /\ contexts' = [contexts EXCEPT ![slot] = c]
          /\ accept_events /\ Witness(t, type, m)
          /\ UNCHANGED <<main, verifier, lock>>
          /\ global_sequence' = global_sequence + 1
        BY <1>0 DEF EmitRegistered, Stamping, monitorVars
    <1>4. ViewBefore(e) = StampedView(t) /\ e.really_held = RealDepth(t)
        <2>1. e.really_held = RealDepth(t)
            BY DEF NewEvent
        <2> QED
            BY <2>1, Stamped
    <1> HIDE DEF e, n
    <1>5. a.pc = pc /\ a.event = e /\ a.tls_context = slot
        BY <1>0, <1>1 DEF AppThread
    <1>6. /\ c.queue = contexts[slot].queue /\ c.thread_id = contexts[slot].thread_id
          /\ c.dropped = contexts[slot].dropped
        BY <1>2 DEF ThreadContext
    <1> HIDE DEF a, c
    <1>7. app'[t] = a /\ \A u \in Thread \ {t} : app'[u] = app[u]
        BY <1>1, <1>3
    <1>8. /\ DOMAIN contexts' = DOMAIN contexts /\ contexts'[slot] = c
          /\ \A d \in DOMAIN contexts : d # slot => contexts'[d] = contexts[d]
        BY <1>1, <1>3
    <1>9. \A d \in DOMAIN contexts :
              /\ Owner(d)' = Owner(d) /\ Queue(d)' = Queue(d) /\ Owner(d) \in Thread
              /\ contexts'[d].dropped = contexts[d].dropped
        BY <1>6, <1>8, FlowTyped DEF Owner, Queue
    <1>10. Owner(slot) = t /\ app[t].pc \notin PushPc
        BY <1>0, <1>1 DEF StreamInv, ThreadsInv, ThreadInv, Stamping, Matching
    <1>11. ASSUME NothingMissed' PROVE NothingMissed
        <2>1. \A u \in Thread : app'[u].tls_context = app[u].tls_context
            BY <1>0, <1>5, <1>7
        <2> QED
            BY <1>3, <1>8, <1>9, <1>11, <2>1, StillMissed
    <1> SUFFICES ASSUME NothingMissed'
                 PROVE  FlowInv' /\ StrangerInv' /\ TrustInv' /\ StampInv' /\ OwnerInv'
        BY DEF OwnershipInv
    <1>12. NothingMissed /\ FlowInv /\ StrangerInv /\ TrustInv /\ StampInv /\ OwnerInv
        BY <1>11 DEF OwnershipInv
    <1>13. /\ Live(slot) /\ Live(slot)' /\ ~Pending(slot)
           /\ Flow(slot)' = Append(Flow(slot), e)
        <2>1. Live(slot) /\ Live(slot)' /\ ~Pending(slot) /\ Pending(slot)'
            BY <1>0, <1>1, <1>5, <1>7, <1>9, <1>10 DEF Live, Pending
        <2> QED
            BY <1>1, <1>5, <1>7, <1>9, <1>10, <2>1 DEF Flow
    <1>14. ASSUME NEW d \in DOMAIN contexts, d # slot
           PROVE  Flow(d)' = Flow(d) /\ (Live(d)' => Live(d) /\ Owner(d) # t)
        <2>1. CASE Owner(d) = t
            <3>1. ~Live(d) /\ ~Live(d)'
                BY <1>0, <1>5, <1>7, <1>9, <1>14, <2>1 DEF Live
            <3> QED
                BY <1>9, <3>1, FlowKept DEF Pending
        <2>2. CASE Owner(d) # t
            <3>1. app'[Owner(d)] = app[Owner(d)]
                BY <1>7, <1>9, <2>2
            <3>2. (Live(d)' <=> Live(d)) /\ (Pending(d)' <=> Pending(d))
                BY <1>9, <3>1 DEF Live, Pending
            <3> QED
                BY <1>9, <2>2, <3>1, <3>2, FlowKept
        <2> QED
            BY <2>1, <2>2
    <1>15. StampedView(t)'.held = RealDepth(t)
        <2>1. app'[t].pc \notin {"acquired", "unlocked"}
            BY <1>5, <1>7 DEF PushPc
        <2> QED
            BY <1>3, <2>1 DEF StampedView, RealDepth
    <1>16. \A u \in Thread \ {t} : StampedView(u)' = StampedView(u)
        BY <1>3, <1>7, WitnessTimes, OtherView
    <1>17. FlowInv'
        <2> SUFFICES ASSUME NEW d \in DOMAIN contexts, First(d)'
                     PROVE  (LET depth == Depth(verifier, Owner(d)) IN
                             /\ Continues(depth, Flow(d))
                             /\ Live(d) /\ accept_events =>
                                   StampedView(Owner(d)).held = EndDepth(depth, Flow(d)))'
            BY <1>8 DEF FlowInv
        <2>1. PICK u \in Thread : u = Owner(d)
            BY FlowTyped
        <2>2. PICK f \in Seq(MonitorEvent) : f = Flow(d)
            BY FlowTyped
        <2>3. PICK depth : depth = Depth(verifier, u)
            OBVIOUS
        <2>4. First(d)
            BY <1>8, <1>9 DEF First
        <2>5. /\ Continues(depth, f)
              /\ Live(d) => StampedView(u).held = EndDepth(depth, f)
            BY <1>3, <1>12, <2>1, <2>2, <2>3, <2>4 DEF FlowInv
        <2>6. Owner(d)' = u /\ Depth(verifier, u)' = depth
            BY <1>3, <1>9, <2>1, <2>3 DEF Depth
        <2>7. StampedView(Owner(d))' = StampedView(u)'
            BY <2>6 DEF StampedView, RealDepth
        <2>8. CASE d = slot
            <3>1. u = t /\ StampedView(t).held = EndDepth(depth, f)
                BY <1>10, <1>13, <2>1, <2>5, <2>8
            <3>2. ViewBefore(e).held = EndDepth(depth, f)
                BY <1>4, <3>1
            <3>3. /\ Continues(depth, Append(f, e))
                  /\ EndDepth(depth, Append(f, e)) = RealDepth(t)
                BY <1>4, <2>5, <3>2, ContinuesAppend
            <3>4. Flow(d)' = Append(f, e)
                BY <1>13, <2>2, <2>8
            <3> QED
                BY <1>15, <2>6, <2>7, <3>1, <3>3, <3>4 DEF Depth
        <2>9. CASE d # slot
            <3>1. Flow(d)' = f /\ (Live(d)' => Live(d) /\ u # t)
                BY <1>14, <2>1, <2>2, <2>9
            <3>2. Live(d)' => StampedView(u)'.held = EndDepth(depth, f)
                BY <1>16, <2>5, <3>1
            <3> QED
                BY <2>5, <2>6, <2>7, <3>1, <3>2 DEF Depth
        <2> QED
            BY <2>8, <2>9
    <1>18. StrangerInv'
        <2> SUFFICES ASSUME NEW u \in Thread, Stranger(u)'
                     PROVE  /\ \A q \in Mutex : Depth(verifier', u)[q] = 0
                            /\ accept_events' => app'[u].pc # "unlocked"
                                                 /\ \A q \in Mutex : lock'[q].owner # u
            BY DEF StrangerInv
        <2>1. Stranger(u)
            BY <1>8, <1>9 DEF Stranger
        <2>2. u # t
            BY <1>1, <1>10, <2>1 DEF Stranger
        <2>3. app'[u] = app[u] /\ (accept_events' <=> accept_events)
            BY <1>3, <1>7, <2>2 DEF accept_events
        <2> QED
            BY <1>3, <1>12, <2>1, <2>3 DEF StrangerInv
    <1>19. TrustInv'
        BY <1>3, <1>12 DEF TrustInv
    <1>20. \A f \in OnTheWay' : f \in OnTheWay \/ f = e
        <2> SUFFICES ASSUME NEW d \in DOMAIN contexts, NEW k \in DOMAIN Flow(d)'
                     PROVE  Flow(d)'[k] \in OnTheWay \/ Flow(d)'[k] = e
            BY <1>8 DEF OnTheWay
        <2>1. CASE d = slot
            <3>1. PICK f \in Seq(MonitorEvent) : f = Flow(slot)
                BY <1>1, FlowTyped
            <3>2. Flow(d)' = Append(f, e)
                BY <1>13, <2>1, <3>1
            <3>3. k \in DOMAIN Append(f, e)
                BY <3>2
            <3>4. (k \in DOMAIN f /\ Append(f, e)[k] = f[k]) \/ Append(f, e)[k] = e
                BY <3>3, LenProperties, AppendProperties
            <3> QED
                BY <1>1, <3>1, <3>2, <3>4 DEF OnTheWay
        <2>2. CASE d # slot
            BY <1>14, <2>2 DEF OnTheWay
        <2> QED
            BY <2>1, <2>2
    <1>21. e \in OnTheWay' /\ OnTheWay \subseteq OnTheWay'
        <2>1. PICK f \in Seq(MonitorEvent) : f = Flow(slot)
            BY <1>1, FlowTyped
        <2>2. Flow(slot)' = Append(f, e)
            BY <1>13, <2>1
        <2>3. /\ Len(f) + 1 \in DOMAIN Append(f, e) /\ Append(f, e)[Len(f) + 1] = e
              /\ \A k \in DOMAIN f : k \in DOMAIN Append(f, e) /\ Append(f, e)[k] = f[k]
            BY LenProperties, AppendProperties
        <2>4. Len(f) + 1 \in DOMAIN Flow(slot)' /\ Flow(slot)'[Len(f) + 1] = e
            BY <2>2, <2>3
        <2>5. e \in OnTheWay'
            BY <1>1, <1>8, <2>4 DEF OnTheWay
        <2>6. ASSUME NEW d \in DOMAIN contexts, NEW k \in DOMAIN Flow(d)
              PROVE  k \in DOMAIN Flow(d)' /\ Flow(d)'[k] = Flow(d)[k]
            <3>1. CASE d = slot
                BY <2>1, <2>2, <2>3, <3>1
            <3>2. CASE d # slot
                BY <1>14, <3>2
            <3> QED
                BY <3>1, <3>2
        <2>7. OnTheWay \subseteq OnTheWay'
            BY <1>8, <2>6 DEF OnTheWay
        <2> QED
            BY <2>5, <2>7
    <1>22. \A f \in OnTheWay : f.sequence_id \in Nat
        BY FlowTyped, EventFields DEF OnTheWay
    <1>23. global_sequence \in Nat /\ global_sequence' \in Nat
        BY DEF Parts, CountersInv
    <1>24. StampInv' /\ OwnerInv'
        <2>1. global_sequence <= global_sequence /\ global_sequence < global_sequence'
            BY <1>3, <1>23
        <2> QED
            BY <1>3, <1>12, <1>20, <1>21, <1>22, <1>23, <2>1, StampedOwner DEF e
    <1> QED
        BY <1>17, <1>18, <1>19, <1>24

\* A new context.  If it is the first of its thread, the thread has touched no mutex.
LEMMA FirstOwnership ==
    ASSUME Parts, Parts', StreamInv, OwnershipInv, NEW t \in Thread, NEW type, NEW m,
           Stamping(t, type, m),
           NEW result, NEW pc \in PushPc, NEW key, EmitFirst(t, type, m, result, pc, key)
    PROVE  OwnershipInv'
    <1> DEFINE last == Len(contexts) + 1
               e == NewEvent(t, type, m, result, global_sequence + 1, 1)
               start == NewEvent(t, "THREAD_START", None, "ok", global_sequence, 0)
               q == <<start>>
               x == [thread_id |-> t, key |-> key, dropped |-> 0,
                     next_thread_sequence |-> 2, queue |-> q]
               a == [pc |-> pc, mutex |-> m, tls_context |-> last, event |-> e]
    <1>1. /\ contexts \in Seq(ThreadContext) /\ Len(contexts) \in Nat
          /\ DOMAIN contexts = 1 .. Len(contexts) /\ app \in [Thread -> AppThread]
        BY LenProperties DEF Parts, ContextsInv, AppInv
    <1>2. /\ app' = [app EXCEPT ![t] = a]
          /\ contexts' = Append(contexts, x)
          /\ accept_events /\ Witness(t, type, m) /\ app[t].tls_context = NoContext
          /\ UNCHANGED <<main, verifier, lock>>
          /\ global_sequence' = global_sequence + 2
        BY DEF EmitFirst, Stamping, monitorVars
    <1>3. ViewBefore(e) = StampedView(t) /\ e.really_held = RealDepth(t)
        <2>1. e.really_held = RealDepth(t)
            BY DEF NewEvent
        <2> QED
            BY <2>1, Stamped
    <1>4. app[t].pc # "acquired" /\ app[t].pc \notin PushPc
        BY <1>2 DEF StreamInv, ThreadsInv, ThreadInv, Stamping, Matching
    <1>5. /\ start.event_type = "THREAD_START" /\ start.really_held = RealDepth(t)
          /\ start.sequence_id = global_sequence
        BY DEF NewEvent
    <1> HIDE DEF e, start
    <1>6. a.pc = pc /\ a.event = e /\ a.tls_context = last
        OBVIOUS
    <1>7. /\ x.thread_id = t /\ x.queue = q
          /\ Len(q) = 1 /\ q[1] = start /\ DOMAIN q = {1} /\ q # <<>>
        OBVIOUS
    <1> HIDE DEF a, x, q
    <1>8. /\ DOMAIN contexts' = 1 .. last /\ contexts'[last] = x
          /\ \A c \in DOMAIN contexts : contexts'[c] = contexts[c]
        BY <1>1, <1>2
    <1>9. app'[t] = a /\ \A u \in Thread \ {t} : app'[u] = app[u]
        BY <1>1, <1>2
    <1>10. PICK new : new = last
        OBVIOUS
    <1>11. /\ new \notin DOMAIN contexts /\ new \in DOMAIN contexts'
           /\ contexts'[new].thread_id = t /\ contexts'[new].queue = q
           /\ \A c \in DOMAIN contexts' : c \in DOMAIN contexts \/ c = new
           /\ \A c \in DOMAIN contexts : c \in DOMAIN contexts' /\ c < new
        BY <1>1, <1>7, <1>8, <1>10
    <1>12. /\ app'[t].tls_context = new /\ app'[t].pc \in PushPc /\ app'[t].event = e
        BY <1>6, <1>9, <1>10
    <1> HIDE DEF last
    <1>13. \A d \in DOMAIN contexts :
              /\ Owner(d)' = Owner(d) /\ Queue(d)' = Queue(d) /\ Owner(d) \in Thread
              /\ contexts'[d].dropped = contexts[d].dropped
        BY <1>8, FlowTyped DEF Owner, Queue
    <1>14. ASSUME NothingMissed' PROVE NothingMissed
        <2>1. \A u \in Thread : app[u].tls_context = RegistrationFailed
                                  => app'[u].tls_context = RegistrationFailed
            BY <1>2, <1>9 DEF NoContext, RegistrationFailed
        <2> QED
            BY <1>2, <1>11, <1>13, <1>14, <2>1, StillMissed
    <1> SUFFICES ASSUME NothingMissed'
                 PROVE  FlowInv' /\ StrangerInv' /\ TrustInv' /\ StampInv' /\ OwnerInv'
        BY DEF OwnershipInv
    <1>15. NothingMissed /\ FlowInv /\ StrangerInv /\ TrustInv /\ StampInv /\ OwnerInv
        BY <1>14 DEF OwnershipInv
    <1>16. Owner(new)' = t /\ Live(new)' /\ Flow(new)' = Append(q, e)
        <2>1. Owner(new)' = t /\ Queue(new)' = q
            BY <1>11 DEF Owner, Queue
        <2>2. Live(new)' /\ Pending(new)'
            BY <1>12, <2>1 DEF Live, Pending
        <2> QED
            BY <1>12, <2>1, <2>2 DEF Flow
    <1>17. ASSUME NEW d \in DOMAIN contexts
           PROVE  Flow(d)' = Flow(d) /\ (Live(d)' => Live(d) /\ Owner(d) # t)
        <2>1. CASE Owner(d) = t
            <3>1. ~Live(d) /\ ~Live(d)'
                BY <1>1, <1>2, <1>11, <1>12, <1>13, <2>1 DEF Live, NoContext
            <3> QED
                BY <1>13, <3>1, FlowKept DEF Pending
        <2>2. CASE Owner(d) # t
            <3>1. app'[Owner(d)] = app[Owner(d)]
                BY <1>9, <1>13, <2>2
            <3>2. (Live(d)' <=> Live(d)) /\ (Pending(d)' <=> Pending(d))
                BY <1>13, <3>1 DEF Live, Pending
            <3> QED
                BY <1>13, <2>2, <3>1, <3>2, FlowKept
        <2> QED
            BY <2>1, <2>2
    <1>18. StampedView(t)'.held = RealDepth(t)
        <2>1. app'[t].pc \notin {"acquired", "unlocked"}
            BY <1>12 DEF PushPc
        <2> QED
            BY <1>2, <2>1 DEF StampedView, RealDepth
    <1>19. \A u \in Thread \ {t} : StampedView(u)' = StampedView(u)
        BY <1>2, <1>9, WitnessTimes, OtherView
    <1>20. q \in Seq(MonitorEvent)
        <2>1. contexts' \in Seq(ThreadContext)
            BY DEF Parts, ContextsInv
        <2>2. contexts'[new] \in ThreadContext
            BY <1>11, <2>1, ElementOfSeq, LenProperties
        <2> QED
            BY <1>11, <2>2 DEF ThreadContext
    <1>21. FlowInv'
        <2> SUFFICES ASSUME NEW d \in DOMAIN contexts', First(d)'
                     PROVE  (LET depth == Depth(verifier, Owner(d)) IN
                             /\ Continues(depth, Flow(d))
                             /\ Live(d) /\ accept_events =>
                                   StampedView(Owner(d)).held = EndDepth(depth, Flow(d)))'
            BY DEF FlowInv
        <2>1. CASE d \in DOMAIN contexts
            <3>1. PICK u \in Thread : u = Owner(d)
                BY <2>1, FlowTyped
            <3>2. PICK f : f = Flow(d)
                OBVIOUS
            <3>3. PICK depth : depth = Depth(verifier, u)
                OBVIOUS
            <3>4. First(d)
                BY <1>11, <1>13, <2>1 DEF First
            <3>5. /\ Continues(depth, f)
                  /\ Live(d) => StampedView(u).held = EndDepth(depth, f)
                BY <1>2, <1>15, <2>1, <3>1, <3>2, <3>3, <3>4 DEF FlowInv
            <3>6. Owner(d)' = u /\ Depth(verifier, u)' = depth
                BY <1>2, <1>13, <2>1, <3>1, <3>3 DEF Depth
            <3>7. StampedView(Owner(d))' = StampedView(u)'
                BY <3>6 DEF StampedView, RealDepth
            <3>8. Flow(d)' = f /\ (Live(d)' => Live(d) /\ u # t)
                BY <1>17, <2>1, <3>1, <3>2
            <3>9. Live(d)' => StampedView(u)'.held = EndDepth(depth, f)
                BY <1>19, <3>5, <3>8
            <3> QED
                BY <3>5, <3>6, <3>7, <3>8, <3>9 DEF Depth
        <2>2. CASE d = new
            <3>1. Stranger(t)
                BY <1>11, <1>13, <1>16, <2>2 DEF First, Stranger
            <3>2. PICK depth : depth = Depth(verifier, t)
                OBVIOUS
            <3>3. /\ \A i \in Mutex : depth[i] = 0
                  /\ app[t].pc # "unlocked" /\ \A i \in Mutex : lock[i].owner # t
                BY <1>2, <1>15, <3>1, <3>2 DEF StrangerInv
            <3>4. depth \in [Mutex -> Nat]
                BY <3>2, ThreadFields DEF Parts, Consistent, Depth
            <3>5. RealDepth(t) = depth
                BY <3>3, <3>4 DEF RealDepth
            <3>6. StampedView(t).held = depth
                BY <1>4, <3>3, <3>5 DEF StampedView, RealDepth
            <3>7. ViewBefore(start).held = depth
                BY <1>5, <3>4, <3>5 DEF ViewBefore
            <3>8. Continues(depth, q) /\ EndDepth(depth, q) = depth
                BY <1>5, <1>7, <3>5, <3>7 DEF Continues, EndDepth
            <3>9. /\ Continues(depth, Append(q, e))
                  /\ EndDepth(depth, Append(q, e)) = depth
                BY <1>3, <1>20, <3>5, <3>6, <3>8, ContinuesAppend
            <3>10. Owner(d)' = t /\ Flow(d)' = Append(q, e) /\ Depth(verifier, t)' = depth
                BY <1>2, <1>16, <2>2, <3>2 DEF Depth
            <3>11. StampedView(Owner(d))' = StampedView(t)'
                BY <3>10 DEF StampedView, RealDepth
            <3> QED
                BY <1>18, <3>5, <3>9, <3>10, <3>11 DEF Depth
        <2> QED
            BY <1>11, <2>1, <2>2
    <1>22. StrangerInv'
        <2> SUFFICES ASSUME NEW u \in Thread, Stranger(u)'
                     PROVE  /\ \A i \in Mutex : Depth(verifier', u)[i] = 0
                            /\ accept_events' => app'[u].pc # "unlocked"
                                                 /\ \A i \in Mutex : lock'[i].owner # u
            BY DEF StrangerInv
        <2>1. Stranger(u) /\ u # t
            BY <1>11, <1>13, <1>16 DEF Stranger
        <2>2. app'[u] = app[u] /\ (accept_events' <=> accept_events)
            BY <1>2, <1>9, <2>1 DEF accept_events
        <2> QED
            BY <1>2, <1>15, <2>1, <2>2 DEF StrangerInv
    <1>23. TrustInv'
        BY <1>2, <1>15 DEF TrustInv
    <1>24. global_sequence \in Nat /\ global_sequence' \in Nat
        BY DEF Parts, CountersInv
    <1>25. /\ DOMAIN Append(q, e) = {1, 2}
           /\ Append(q, e)[1] = start /\ Append(q, e)[2] = e
        <2> DEFINE n == Len(q)
        <2>1. /\ DOMAIN q = 1 .. n
              /\ DOMAIN Append(q, e) = 1 .. n + 1
              /\ Append(q, e)[n + 1] = e /\ \A k \in 1 .. n : Append(q, e)[k] = q[k]
            BY <1>20, LenProperties
        <2>2. n = 1
            BY <1>7
        <2> HIDE DEF n
        <2> QED
            BY <1>7, <2>1, <2>2
    <1>26. ASSUME NEW f \in OnTheWay'
           PROVE  \/ f \in OnTheWay \/ f = e
                  \/ f.event_type = "THREAD_START" /\ f.sequence_id < global_sequence'
        <2>1. PICK d \in DOMAIN contexts' : \E k \in DOMAIN Flow(d)' : f = Flow(d)'[k]
            BY DEF OnTheWay
        <2>2. PICK k \in DOMAIN Flow(d)' : f = Flow(d)'[k]
            BY <2>1
        <2>3. CASE d \in DOMAIN contexts
            BY <1>17, <2>2, <2>3 DEF OnTheWay
        <2>4. CASE d = new
            <3>1. f = start \/ f = e
                BY <1>16, <1>25, <2>2, <2>4
            <3> QED
                BY <1>2, <1>5, <1>24, <3>1
        <2> QED
            BY <1>11, <2>3, <2>4
    <1>27. e \in OnTheWay' /\ OnTheWay \subseteq OnTheWay'
        <2>1. 2 \in DOMAIN Flow(new)' /\ Flow(new)'[2] = e
            BY <1>16, <1>25
        <2>2. e \in OnTheWay'
            BY <1>11, <2>1 DEF OnTheWay
        <2>3. OnTheWay \subseteq OnTheWay'
            BY <1>11, <1>17 DEF OnTheWay
        <2> QED
            BY <2>2, <2>3
    <1>28. \A f \in OnTheWay : f.sequence_id \in Nat
        BY FlowTyped, EventFields DEF OnTheWay
    <1>29. StampInv' /\ OwnerInv'
        <2> DEFINE seq == global_sequence + 1
        <2>1. seq \in Nat /\ global_sequence <= seq /\ seq < global_sequence'
            BY <1>2, <1>24
        <2>2. e = NewEvent(t, type, m, result, seq, 1)
            BY DEF e
        <2> HIDE DEF seq
        <2> QED
            BY <1>2, <1>15, <1>24, <1>26, <1>27, <1>28, <2>1, <2>2, StampedOwner
    <1> QED
        BY <1>21, <1>22, <1>23, <1>29

LEMMA EmitOwnership ==
    ASSUME Parts, Parts', StreamInv, OwnershipInv, NEW t \in Thread, NEW type, NEW m,
           Stamping(t, type, m),
           NEW result, NEW pc \in PushPc, pc # "push_exit", Emit(t, type, m, result, pc)
    PROVE  OwnershipInv'
    <1>1. CASE EmitRefused(t, m, pc)
        BY <1>1, RefusedOwnership
    <1>2. CASE EmitRegistered(t, type, m, result, pc)
        BY <1>2, RegisteredOwnership
    <1>3. ASSUME NEW key, EmitFirst(t, type, m, result, pc, key) PROVE OwnershipInv'
        BY <1>3, FirstOwnership
    <1>4. CASE EmitUnregistered(t, type, m, pc)
        BY <1>4, UnregisteredOwnership
    <1> QED
        BY <1>1, <1>2, <1>3, <1>4 DEF Emit

LEMMA CallsEmitOwnership ==
    ASSUME Parts, Parts', StreamInv, OwnershipInv, NEW t \in Thread,
           \/ \E m \in Mutex : LockRequest(t, m)
           \/ LockAcquired(t) \/ LockFailed(t) \/ Unlocked(t) \/ UnlockFailed(t)
    PROVE  OwnershipInv'
    <1>1. app[t].pc \in MutexPc => app[t].mutex \in Mutex
        BY AppFields DEF Parts
    <1>2. {"push_request", "push"} \subseteq PushPc \ {"push_exit"}
        BY DEF PushPc
    <1>3. ASSUME NEW m \in Mutex, LockRequest(t, m) PROVE OwnershipInv'
        <2>1. Stamping(t, "LOCK_REQUEST", m)
            BY <1>3 DEF LockRequest, NewCall, Stamping, Matching, MutexEvent, PushPc
        <2>2. Emit(t, "LOCK_REQUEST", m, "ok", "push_request")
            BY <1>3 DEF LockRequest
        <2> QED
            BY <1>2, <2>1, <2>2, EmitOwnership
    <1>4. CASE LockAcquired(t)
        <2>1. Stamping(t, "LOCK_ACQUIRED", app[t].mutex)
            BY <1>1, <1>4 DEF LockAcquired, Stamping, Matching, MutexPc, mutexVars, PushPc,
                                MutexEvent
        <2>2. Emit(t, "LOCK_ACQUIRED", app[t].mutex, "ok", "push")
            BY <1>4 DEF LockAcquired
        <2> QED
            BY <1>2, <2>1, <2>2, EmitOwnership
    <1>5. CASE LockFailed(t)
        <2>1. Stamping(t, "LOCK_FAILED", app[t].mutex)
            BY <1>1, <1>5 DEF LockFailed, Stamping, Matching, MutexPc, mutexVars, PushPc,
                                MutexEvent
        <2>2. Emit(t, "LOCK_FAILED", app[t].mutex, "EDEADLK", "push")
            BY <1>5 DEF LockFailed
        <2> QED
            BY <1>2, <2>1, <2>2, EmitOwnership
    <1>6. CASE Unlocked(t)
        <2>1. Stamping(t, "UNLOCKED", app[t].mutex)
            BY <1>1, <1>6 DEF Unlocked, Stamping, Matching, MutexPc, mutexVars, PushPc,
                                MutexEvent
        <2>2. Emit(t, "UNLOCKED", app[t].mutex, "ok", "push")
            BY <1>6 DEF Unlocked
        <2> QED
            BY <1>2, <2>1, <2>2, EmitOwnership
    <1>7. CASE UnlockFailed(t)
        <2>1. Stamping(t, "UNLOCK_FAILED", app[t].mutex)
            BY <1>1, <1>7 DEF UnlockFailed, Stamping, Matching, MutexPc, mutexVars, PushPc,
                                MutexEvent
        <2>2. Emit(t, "UNLOCK_FAILED", app[t].mutex, "EPERM", "push")
            BY <1>7 DEF UnlockFailed
        <2> QED
            BY <1>2, <2>1, <2>2, EmitOwnership
    <1> QED
        BY <1>3, <1>4, <1>5, <1>6, <1>7

LEMMA ThreadExitOwnership ==
    ASSUME Parts, Parts', StreamInv, OwnershipInv, NEW t \in Thread, ThreadExit(t)
    PROVE  OwnershipInv'
    <1>1. /\ Stamping(t, "THREAD_EXIT", None) /\ "push_exit" \in PushPc
          /\ app[t].pc = "run" /\ app[t].tls_context > NoContext
        BY DEF ThreadExit, Stamping, Matching, MutexEvent, LifecycleEvent, mutexVars,
               PushPc
    <1>2. CASE EmitRegistered(t, "THREAD_EXIT", None, "ok", "push_exit")
        BY <1>1, <1>2, RegisteredOwnership
    <1>3. CASE EmitRefused(t, None, "push_exit")
        BY <1>1, <1>3, RefusedOwnership
    <1>4. CASE /\ app' = [app EXCEPT ![t] = Resume(@, "push_exit")]
               /\ IF accept_events THEN Witness(t, "THREAD_EXIT", None)
                                   ELSE UNCHANGED ghostVars
               /\ UNCHANGED transportVars
        <2>1. app[t] \in AppThread /\ app \in [Thread -> AppThread]
            BY AppFields DEF Parts, AppInv
        <2>2. times' = times /\ newest' = newest
            BY <1>4 DEF Witness, ghostVars
        <2>3. UNCHANGED <<lock, contexts, global_sequence, newest, monitorVars>>
            BY <1>4, <2>2 DEF ThreadExit, mutexVars, transportVars
        <2>4. /\ app'[t] = Resume(app[t], "push_exit")
              /\ \A u \in Thread \ {t} : app'[u] = app[u] /\ times'[u] = times[u]
            BY <1>4, <2>1, <2>2
        <2>5. app'[t].pc = "run" /\ app'[t].tls_context = NoContext
            BY <1>1, <2>1, <2>4, ResumedAt
        <2>6. app[t].tls_context # RegistrationFailed
            BY <1>1 DEF NoContext, RegistrationFailed
        <2> QED
            BY <1>1, <2>3, <2>4, <2>5, <2>6, SilentOwnership DEF PushPc
    <1> QED
        BY <1>2, <1>3, <1>4 DEF ThreadExit

-----------------------------------------------------------------------------
(***************************************************************************)
(* The consumer takes an event.                                            *)
(***************************************************************************)

LEMMA TailAppend ==
    ASSUME NEW q \in Seq(MonitorEvent), q # <<>>, NEW e \in MonitorEvent
    PROVE  Tail(Append(q, e)) = Append(Tail(q), e) /\ Append(q, e)[1] = q[1]
    <1>1. Tail(Append(q, e)) = Append(Tail(q), e)
        BY HeadTailAppend
    <1>2. 1 \in 1 .. Len(q)
        BY LenProperties, EmptySeq
    <1> QED
        BY <1>1, <1>2, AppendProperties

\* The flow of the scanned context loses its head.
LEMMA DrainedFlow ==
    ASSUME Parts, Drain, NEW i, i = consumer.i
    PROVE  /\ i \in DOMAIN contexts /\ DOMAIN contexts' = DOMAIN contexts
           /\ Flow(i) # <<>> /\ Flow(i)[1] = Head(ScannedQueue)
           /\ Flow(i)' = Tail(Flow(i))
           /\ \A d \in DOMAIN contexts :
                 /\ d # i => Flow(d)' = Flow(d)
                 /\ Owner(d)' = Owner(d) /\ (Live(d)' <=> Live(d))
                 /\ contexts'[d].dropped = contexts[d].dropped
    <1>1. /\ i \in DOMAIN contexts /\ DOMAIN contexts' = DOMAIN contexts
          /\ Queue(i)' = Tail(Queue(i)) /\ Head(Queue(i)) = Queue(i)[1]
          /\ \A d \in DOMAIN contexts :
                /\ Owner(d)' = Owner(d)
                /\ contexts'[d].dropped = contexts[d].dropped
                /\ d # i => Queue(d)' = Queue(d)
        BY DrainedQueue DEF Queue, Owner
    <1>2. app' = app /\ Head(ScannedQueue) = Queue(i)[1] /\ Queue(i) # <<>>
        BY <1>1 DEF Drain, ScannedQueue, Queue
    <1>3. \A d \in DOMAIN contexts : (Live(d)' <=> Live(d)) /\ (Pending(d)' <=> Pending(d))
        BY <1>1, <1>2 DEF Live, Pending
    <1>4. \A d \in DOMAIN contexts : d # i => Flow(d)' = Flow(d)
        BY <1>1, <1>2, <1>3 DEF Flow
    <1>5. Queue(i) \in Seq(MonitorEvent)
        BY <1>1, FlowTyped
    <1>6. CASE Pending(i)
        <2> DEFINE e == app[Owner(i)].event
        <2>1. e \in MonitorEvent
            BY <1>1, <1>6, FlowTyped, AppFields DEF Parts, Pending
        <2>2. Flow(i) = Append(Queue(i), e) /\ Flow(i)' = Append(Tail(Queue(i)), e)
            BY <1>1, <1>2, <1>3, <1>6 DEF Flow
        <2>3. Append(Queue(i), e) # <<>>
            BY <1>5, <2>1, AppendProperties
        <2> HIDE DEF e
        <2> QED
            BY <1>1, <1>2, <1>3, <1>4, <1>5, <2>1, <2>2, <2>3, TailAppend
    <1>7. CASE ~Pending(i)
        <2>1. Flow(i) = Queue(i) /\ Flow(i)' = Tail(Queue(i))
            BY <1>1, <1>2, <1>3, <1>7 DEF Flow
        <2> QED
            BY <1>1, <1>2, <1>3, <1>4, <2>1
    <1> QED
        BY <1>6, <1>7

\* The first event of the flow goes on from what is recorded of its thread, so the
\* verifier decides on the owner of its mutex as the thread itself would, unless the
\* record is newer.
LEMMA DrainOwnership ==
    ASSUME Parts, StreamInv, OwnershipInv, Drain
    PROVE  OwnershipInv'
    <1>1. PICK i : i = consumer.i
        OBVIOUS
    <1>2. PICK w : w = verifier'
        OBVIOUS
    <1>3. /\ i \in DOMAIN contexts /\ DOMAIN contexts' = DOMAIN contexts
          /\ Flow(i) # <<>> /\ Flow(i)[1] = Head(ScannedQueue)
          /\ Flow(i)' = Tail(Flow(i))
          /\ \A d \in DOMAIN contexts :
                /\ d # i => Flow(d)' = Flow(d)
                /\ Owner(d)' = Owner(d) /\ (Live(d)' <=> Live(d))
                /\ contexts'[d].dropped = contexts[d].dropped
        BY <1>1, DrainedFlow
    <1>4. PICK f \in Seq(MonitorEvent) : f = Flow(i)
        BY <1>3, FlowTyped
    <1>5. PICK e : e = f[1]
        OBVIOUS
    <1>6. PICK t : t = Owner(i)
        OBVIOUS
    <1> DEFINE v == verifier
    <1>7. /\ f # <<>> /\ Flow(i)' = Tail(f) /\ Len(f) \in Nat /\ Len(f) # 0
          /\ DOMAIN f = 1 .. Len(f) /\ 1 \in DOMAIN f
          /\ e \in MonitorEvent /\ e.sequence_id \in Nat
          /\ e.thread_id = t /\ Plausible(e) /\ t \in Thread /\ e = Head(ScannedQueue)
        <2>1. /\ f # <<>> /\ Flow(i)' = Tail(f) /\ e = Head(ScannedQueue)
              /\ Len(f) \in Nat /\ DOMAIN f = 1 .. Len(f)
            BY <1>3, <1>4, <1>5, FlowTyped
        <2>2. Len(f) # 0
            BY <2>1, EmptySeq
        <2>3. /\ 1 \in DOMAIN Queue(i) /\ e = Queue(i)[1] /\ e \in MonitorEvent
            BY <1>1, <2>1, DrainedQueue DEF ScannedQueue, Queue
        <2>4. e.thread_id = t /\ Plausible(e)
            BY <1>3, <1>6, <2>3 DEF StreamInv, QueueInv
        <2> QED
            BY <2>1, <2>2, <2>3, <2>4, EventFields
    <1>8. /\ w = ProcessEvent(v, e)
          /\ UNCHANGED <<lock, app, times, newest, global_sequence, main>>
        BY <1>2, <1>7 DEF Drain, mutexVars, ghostVars
    <1>9. Consistent(v) /\ v \in VerifierState /\ v.tainted_thread_streams \in Nat
        BY LossFields DEF Parts, Consistent
    <1>10. Others(v, w, t)
        BY <1>7, <1>8, <1>9, ProcessEffect
    <1>11. /\ Roomy(w) => Roomy(v)
           /\ w.tainted_thread_streams >= v.tainted_thread_streams
           /\ Tainted(w, t) /\ ~Tainted(v, t) => w.tainted_thread_streams > 0
           /\ Roomy(w) /\ w.tainted_thread_streams = 0 => ~Overflowed(v, t)
           /\ Roomy(w) /\ w.tainted_thread_streams = 0 /\ ~Tainted(v, t) =>
                /\ e.thread_sequence = Expected(v, t)
                /\ Depth(v, t) = ViewBefore(e).held =>
                     Depth(w, t) = e.really_held /\ Decided(v, w, e)
        BY <1>7, <1>8, <1>9, ProcessExact
    <1>12. NothingMissed' => NothingMissed
        <2>1. Roomy(verifier') => Roomy(verifier)
            BY <1>2, <1>11
        <2>2. verifier'.tainted_thread_streams = 0 => verifier.tainted_thread_streams = 0
            BY <1>2, <1>9, <1>11
        <2> QED
            BY <1>3, <1>8, <2>1, <2>2, StillMissed
    <1> SUFFICES ASSUME NothingMissed'
                 PROVE  FlowInv' /\ StrangerInv' /\ TrustInv' /\ StampInv' /\ OwnerInv'
        BY DEF OwnershipInv
    <1>13. /\ FlowInv /\ StrangerInv /\ TrustInv /\ StampInv /\ OwnerInv
           /\ Roomy(w) /\ w.tainted_thread_streams = 0
        BY <1>2, <1>12, Verdict DEF OwnershipInv, NothingMissed
    <1>14. ~Tainted(v, t) /\ ~Tainted(w, t) /\ ~Overflowed(v, t)
        BY <1>7, <1>11, <1>13 DEF TrustInv
    <1>15. First(i)
        BY <1>1, <1>6, <1>7, <1>11, <1>13, <1>14, AgainGap
    <1>16. PICK depth : depth = Depth(v, t)
        OBVIOUS
    <1>17. /\ Continues(depth, f)
           /\ Live(i) /\ accept_events => StampedView(t).held = EndDepth(depth, f)
        BY <1>3, <1>4, <1>6, <1>13, <1>15, <1>16 DEF FlowInv
    <1>18. /\ ViewBefore(e).held = depth
           /\ Continues(e.really_held, Tail(f))
           /\ EndDepth(e.really_held, Tail(f)) = EndDepth(depth, f)
        BY <1>5, <1>7, <1>17, ContinuesTail
    <1>19. Depth(w, t) = e.really_held /\ Decided(v, w, e)
        BY <1>11, <1>13, <1>14, <1>16, <1>18
    <1>20. /\ accept_events' <=> accept_events
           /\ \A u \in Thread : StampedView(u)' = StampedView(u)
        BY <1>8 DEF accept_events, StampedView, RealDepth
    <1>21. FlowInv'
        <2> SUFFICES ASSUME NEW d \in DOMAIN contexts, First(d)'
                     PROVE  (LET x == Depth(verifier, Owner(d)) IN
                             /\ Continues(x, Flow(d))
                             /\ Live(d) /\ accept_events =>
                                   StampedView(Owner(d)).held = EndDepth(x, Flow(d)))'
            BY <1>3 DEF FlowInv
        <2>1. PICK u \in Thread : u = Owner(d)
            BY FlowTyped
        <2>2. First(d) /\ Owner(d)' = u /\ (Live(d)' <=> Live(d))
            BY <1>3, <2>1 DEF First
        <2>3. StampedView(Owner(d))' = StampedView(u)
            BY <1>8, <2>2 DEF StampedView, RealDepth
        <2>4. PICK x : x = Depth(w, u)
            OBVIOUS
        <2>5. Depth(verifier', Owner(d)') = x
            BY <1>2, <2>2, <2>4
        <2>6. PICK g : g = Flow(d)'
            OBVIOUS
        <2>7. /\ Continues(x, g)
              /\ Live(d) /\ accept_events => StampedView(u).held = EndDepth(x, g)
            <3>1. CASE d = i
                <4>1. u = t /\ x = e.really_held /\ g = Tail(f)
                    BY <1>6, <1>7, <1>19, <2>1, <2>4, <2>6, <3>1
                <4> QED
                    BY <1>17, <1>18, <3>1, <4>1
            <3>2. CASE d # i
                <4>1. g = Flow(d)
                    BY <1>3, <2>6, <3>2
                <4>2. u # t
                    <5>1. d \in Nat /\ i \in Nat
                        BY <1>3, ContextFields DEF Parts
                    <5>2. d < i \/ i < d
                        BY <3>2, <5>1
                    <5> QED
                        BY <1>3, <1>6, <1>15, <2>1, <2>2, <5>2 DEF First
                <4>3. x = Depth(v, u)
                    BY <1>10, <2>4, <4>2 DEF Others, Depth
                <4> QED
                    BY <1>13, <2>1, <2>2, <4>1, <4>3 DEF FlowInv
            <3> QED
                BY <3>1, <3>2
        <2> QED
            BY <1>20, <2>2, <2>3, <2>5, <2>6, <2>7
    <1>22. StrangerInv'
        <2> SUFFICES ASSUME NEW u \in Thread, Stranger(u)'
                     PROVE  /\ \A q \in Mutex : Depth(w, u)[q] = 0
                            /\ accept_events' => app'[u].pc # "unlocked"
                                                 /\ \A q \in Mutex : lock'[q].owner # u
            BY <1>2 DEF StrangerInv
        <2>1. Stranger(u) /\ u # t
            BY <1>3, <1>6 DEF Stranger
        <2>2. Depth(w, u) = Depth(v, u)
            BY <1>10, <2>1 DEF Others, Depth
        <2> QED
            BY <1>8, <1>13, <1>20, <2>1, <2>2 DEF StrangerInv
    <1>23. TrustInv'
        <2> SUFFICES ASSUME NEW u \in Thread PROVE ~Tainted(w, u)
            BY <1>2 DEF TrustInv
        <2>1. u # t => Tainted(w, u) = Tainted(v, u)
            BY <1>10 DEF Others, Tainted
        <2> QED
            BY <1>13, <1>14, <2>1 DEF TrustInv
    <1>24. /\ OnTheWay' \subseteq OnTheWay /\ e \in OnTheWay
           /\ OnTheWay \subseteq OnTheWay' \cup {e}
        <2>1. /\ DOMAIN Tail(f) = 1 .. Len(f) - 1
              /\ \A k \in 1 .. Len(f) - 1 : Tail(f)[k] = f[k + 1]
            BY <1>7, HeadTailProperties, LenProperties
        <2>2. e \in OnTheWay
            BY <1>3, <1>4, <1>5, <1>7 DEF OnTheWay
        <2>3. ASSUME NEW d \in DOMAIN contexts, NEW k \in DOMAIN Flow(d)'
              PROVE  Flow(d)'[k] \in OnTheWay
            <3>1. CASE d = i
                <4>1. k \in 1 .. Len(f) - 1 /\ Flow(d)'[k] = f[k + 1]
                    BY <1>7, <2>1, <2>3, <3>1
                <4>2. k + 1 \in DOMAIN f
                    BY <1>7, <4>1
                <4> QED
                    BY <1>3, <1>4, <4>1, <4>2 DEF OnTheWay
            <3>2. CASE d # i
                BY <1>3, <2>3, <3>2 DEF OnTheWay
            <3> QED
                BY <3>1, <3>2
        <2>4. ASSUME NEW d \in DOMAIN contexts, NEW k \in DOMAIN Flow(d)
              PROVE  Flow(d)[k] \in OnTheWay' \cup {e}
            <3>1. CASE d = i /\ k # 1
                <4>1. k - 1 \in 1 .. Len(f) - 1 /\ (k - 1) + 1 = k
                    BY <1>4, <1>7, <2>4, <3>1
                <4>2. k - 1 \in DOMAIN Flow(i)' /\ Flow(i)'[k - 1] = f[k]
                    BY <1>7, <2>1, <4>1
                <4> QED
                    BY <1>3, <1>4, <3>1, <4>2 DEF OnTheWay
            <3>2. CASE d = i /\ k = 1
                BY <1>4, <1>5, <3>2
            <3>3. CASE d # i
                BY <1>3, <2>4, <3>3 DEF OnTheWay
            <3> QED
                BY <3>1, <3>2, <3>3
        <2>5. OnTheWay' \subseteq OnTheWay
            BY <1>3, <2>3 DEF OnTheWay
        <2>6. OnTheWay \subseteq OnTheWay' \cup {e}
            BY <2>4 DEF OnTheWay
        <2> QED
            BY <2>2, <2>5, <2>6
    <1>25. global_sequence \in Nat
        BY DEF Parts, CountersInv
    <1>26. \A q \in Mutex : Recorded(q).last_state_sequence \in Nat
        BY <1>9, MutexFields DEF Recorded
    <1>27. ASSUME NEW q \in Mutex
           PROVE  IF Changes(e, q) /\ Recorded(q).last_state_sequence <= e.sequence_id
                  THEN /\ Recorded(q)'.owner = Names(e, q)
                       /\ Recorded(q)'.last_state_sequence = e.sequence_id
                  ELSE /\ Recorded(q)'.owner = Recorded(q).owner
                       /\ Recorded(q)'.last_state_sequence = Recorded(q).last_state_sequence
        BY <1>2, <1>19 DEF Decided, Recorded
    <1>28. StampInv'
        <2>1. \A a \in OnTheWay' : a.sequence_id < global_sequence'
            BY <1>8, <1>13, <1>24 DEF StampInv
        <2>2. e.sequence_id < global_sequence
            BY <1>13, <1>24 DEF StampInv
        <2>3. \A q \in Mutex : Recorded(q)'.last_state_sequence <= global_sequence'
            BY <1>7, <1>8, <1>13, <1>25, <1>27, <2>2 DEF StampInv
        <2> QED
            BY <2>1, <2>3 DEF StampInv
    <1>29. OwnerInv'
        <2> SUFFICES ASSUME NEW q \in Mutex
                     PROVE  \E stamp \in 0 .. global_sequence' : NewestStamp(q, stamp)'
            BY DEF OwnerInv
        <2>1. PICK stamp \in 0 .. global_sequence : NewestStamp(q, stamp)
            BY <1>13 DEF OwnerInv
        <2>2. PICK last : last = Recorded(q).last_state_sequence
            OBVIOUS
        <2>3. last \in Nat /\ last <= stamp /\ stamp \in Nat
            BY <1>25, <1>26, <2>1, <2>2 DEF NewestStamp
        <2>4. Changes(e, q) => /\ e.sequence_id <= stamp
                               /\ e.sequence_id = stamp => Names(e, q) = newest[q]
            BY <1>24, <2>1 DEF NewestStamp, Ahead
        <2>5. Recorded(q)'.last_state_sequence <= stamp
            BY <1>27, <2>2, <2>3, <2>4
        <2>6. \A a \in Ahead(q)' : /\ a.sequence_id <= stamp
                                   /\ a.sequence_id = stamp => Names(a, q) = newest'[q]
            BY <1>8, <1>24, <2>1 DEF NewestStamp, Ahead
        <2>7. \/ \E a \in Ahead(q)' : a.sequence_id = stamp
              \/ Recorded(q)'.last_state_sequence = stamp /\ Recorded(q)'.owner = newest'[q]
            <3>1. CASE Recorded(q).last_state_sequence = stamp /\ Recorded(q).owner = newest[q]
                BY <1>7, <1>8, <1>27, <2>3, <2>4, <3>1
            <3>2. ASSUME NEW a \in Ahead(q), a.sequence_id = stamp, a \in OnTheWay'
                  PROVE  a \in Ahead(q)'
                BY <3>2 DEF Ahead
            <3>3. ASSUME NEW a \in Ahead(q), a.sequence_id = stamp, a = e
                  PROVE  Recorded(q)'.last_state_sequence = stamp
                         /\ Recorded(q)'.owner = newest'[q]
                <4>1. Changes(e, q)
                    BY <3>3 DEF Ahead
                <4> QED
                    BY <1>8, <1>27, <2>2, <2>3, <2>4, <3>3, <4>1
            <3>4. ASSUME NEW a \in Ahead(q) PROVE a \in OnTheWay' \/ a = e
                BY <1>24 DEF Ahead
            <3> QED
                BY <2>1, <3>1, <3>2, <3>3, <3>4 DEF NewestStamp
        <2>8. NewestStamp(q, stamp)'
            BY <2>5, <2>6, <2>7 DEF NewestStamp
        <2> QED
            BY <1>8, <2>8
    <1> QED
        BY <1>21, <1>22, <1>23, <1>28, <1>29

-----------------------------------------------------------------------------
(***************************************************************************)
(* The theorems.                                                           *)
(***************************************************************************)

LEMMA InitOwnership == Init => OwnershipInv
    <1> SUFFICES ASSUME Init
                 PROVE  FlowInv /\ StrangerInv /\ TrustInv /\ StampInv /\ OwnerInv
        BY DEF OwnershipInv
    <1>1. DOMAIN contexts = {} /\ global_sequence = 0
        BY DEF Init
    <1>2. /\ \A t \in Thread : \A m \in Mutex : Depth(verifier, t)[m] = 0
          /\ TrustInv
          /\ \A m \in Mutex : Recorded(m).last_state_sequence = 0 /\ Recorded(m).owner = None
        BY DEF Init, InitVerifier, Depth, TrustInv, Tainted, Recorded
    <1>3. /\ \A t \in Thread : app[t].pc = "run"
          /\ \A m \in Mutex : lock[m].owner = None /\ newest[m] = None
        BY DEF Init
    <1>4. OnTheWay = {}
        BY <1>1 DEF OnTheWay
    <1>5. FlowInv /\ StrangerInv
        BY <1>1, <1>2, <1>3, VerifierAssumption DEF FlowInv, StrangerInv
    <1>6. StampInv
        BY <1>1, <1>2, <1>4 DEF StampInv
    <1>7. OwnerInv
        <2> SUFFICES ASSUME NEW m \in Mutex PROVE NewestStamp(m, 0)
            BY <1>1 DEF OwnerInv
        <2> QED
            BY <1>2, <1>3, <1>4 DEF NewestStamp, Ahead
    <1> QED
        BY <1>2, <1>5, <1>6, <1>7

LEMMA OwnershipStep ==
    ASSUME Parts, StreamInv, OwnershipInv, [Next \/ Tick]_vars
    PROVE  OwnershipInv'
    <1>1. Parts'
        BY StepKeeps
    <1>2. ASSUME NEW t \in Thread, Call(t) PROVE OwnershipInv'
        BY <1>1, <1>2, CallsEmitOwnership, RealUnlockOwnership, ThreadExitOwnership DEF Call
    <1>3. ASSUME NEW t \in Thread, InCall(t) PROVE OwnershipInv'
        BY <1>1, <1>3, CallsEmitOwnership, RealLockOwnership, PushOwnership DEF InCall
    <1>4. CASE Drain
        BY <1>4, DrainOwnership
    <1>5. CASE DrainEmpty \/ PassEnd \/ StopAccept \/ StopStep \/ Tick \/ UNCHANGED vars
        BY <1>5, AsideOwnership
    <1> QED
        BY <1>2, <1>3, <1>4, <1>5 DEF Next, ConsumerStep

\* handle_lock_acquired, handle_unlocked and release_held_mutex: as long as nothing is
\* missed, the verifier counts recursive holds as their thread does, and for each mutex the
\* newest event that changes its owner is still on the way or is the one recorded.
THEOREM OwnershipInvariance == TimedSpec => [](IndInv /\ StreamInv /\ OwnershipInv)
    <1>1. Init => Parts /\ StreamInv /\ OwnershipInv
        BY InitParts, InitStreams, InitOwnership
    <1>2. Parts /\ StreamInv /\ OwnershipInv /\ [Next \/ Tick]_vars
            => (Parts /\ StreamInv /\ OwnershipInv)'
        BY StepKeeps, StreamStep, OwnershipStep
    <1> QED
        BY <1>1, <1>2, Split, PTL DEF TimedSpec

\* last_state_sequence keeps the state of a mutex independent of the order in which the queues
\* are drained: once everything is processed and nothing was missed, the owner it recorded
\* is the one that the newest event gives, for any number of threads, mutexes and contexts
\* and for queues and tables of any size.
THEOREM OwnershipIndependent == TimedSpec => []OwnershipOrderIndependent
    <1>1. Parts /\ OwnershipInv => OwnershipOrderIndependent
        <2> SUFFICES ASSUME Parts, OwnershipInv, Quiescent, NothingMissed, NEW m \in Mutex
                     PROVE  verifier.mutex_states[m].owner = newest[m]
            BY DEF OwnershipOrderIndependent
        <2>1. ASSUME NEW c \in DOMAIN contexts PROVE DOMAIN Flow(c) = {}
            <3>1. Owner(c) \in Thread
                BY FlowTyped
            <3>2. ~Pending(c) /\ Queue(c) = <<>>
                BY <3>1 DEF Quiescent, Pending, PushPc, Queue
            <3> QED
                BY <3>2 DEF Flow
        <2>2. Ahead(m) = {}
            BY <2>1 DEF Ahead, OnTheWay
        <2>3. PICK stamp \in 0 .. global_sequence : NewestStamp(m, stamp)
            BY DEF OwnershipInv, OwnerInv
        <2> QED
            BY <2>2, <2>3 DEF NewestStamp, Recorded
    <1>2. IndInv /\ StreamInv /\ OwnershipInv => OwnershipOrderIndependent
        BY <1>1, Split
    <1> QED
        BY <1>2, OwnershipInvariance, PTL
=============================================================================
