--------------------------- MODULE VerifierProofs ---------------------------
(***************************************************************************)
(* What the operators of Verifier preserve, for any number of threads and  *)
(* mutexes and tables of any size.                                         *)
(***************************************************************************)
EXTENDS Verifier, FiniteSetTheorems, WellFoundedInduction, TLAPS

\* The tables have their types, and the waiting count is exact.
Consistent(v) == v \in VerifierState /\ WaitingCounted(v)

LEMMA Fields ==
    ASSUME NEW v \in VerifierState
    PROVE  /\ v.thread_states \in [Thread -> ThreadState]
           /\ v.mutex_states \in [Mutex -> MutexState]
           /\ v.waiting_thread_count \in Nat
           /\ v.processed_events \in Nat /\ v.last_processed_sequence \in Nat
           /\ v.confirmations \in 0 .. Confirmations
           /\ v.candidate_cycle \subseteq Thread /\ v.reported_cycle \subseteq Thread
    BY DEF VerifierState

LEMMA ThreadFields ==
    ASSUME NEW v \in VerifierState, NEW t \in Thread
    PROVE  /\ v.thread_states[t] \in ThreadState
           /\ v.thread_states[t].slot \in 0 .. VerifierThreads
           /\ v.thread_states[t].trace_tainted \in BOOLEAN
           /\ v.thread_states[t].exited \in BOOLEAN
           /\ v.thread_states[t].next_expected_sequence \in Nat
           /\ v.thread_states[t].waiting_mutex \in Mutex \cup {None}
           /\ v.thread_states[t].depth \in [Mutex -> Nat]
           /\ v.thread_states[t].since \in [Mutex -> Nat]
    <1>1. v.thread_states[t] \in ThreadState
        BY Fields
    <1> QED
        BY <1>1 DEF ThreadState

LEMMA MutexFields ==
    ASSUME NEW v \in VerifierState, NEW m \in Mutex
    PROVE  /\ v.mutex_states[m] \in MutexState
           /\ v.mutex_states[m].used \in BOOLEAN
           /\ v.mutex_states[m].owner_known \in BOOLEAN
           /\ v.mutex_states[m].owner \in Thread \cup {None}
           /\ v.mutex_states[m].last_state_sequence \in Nat
    <1>1. v.mutex_states[m] \in MutexState
        BY Fields
    <1> QED
        BY <1>1 DEF MutexState

\* The waiting count depends on the waiting_mutex fields only.
LEMMA SameWaiting ==
    ASSUME NEW v, Consistent(v), NEW w \in VerifierState,
           w.waiting_thread_count = v.waiting_thread_count,
           \A t \in Thread : w.thread_states[t].waiting_mutex
                               = v.thread_states[t].waiting_mutex
    PROVE  Consistent(w)
    <1>1. WaitingThreads(w) = WaitingThreads(v)
        BY DEF WaitingThreads
    <1> QED
        BY <1>1 DEF Consistent, WaitingCounted

\* A change that touches neither thread table nor waiting count.
LEMMA ThreadsAlone ==
    ASSUME NEW v, Consistent(v), NEW w \in VerifierState,
           w.waiting_thread_count = v.waiting_thread_count,
           w.thread_states = v.thread_states
    PROVE  Consistent(w)
    BY SameWaiting

\* A change of one entry of the thread table.
LEMMA ThreadEntry ==
    ASSUME NEW v, Consistent(v), NEW t \in Thread, NEW s \in ThreadState,
           s.waiting_mutex = v.thread_states[t].waiting_mutex
    PROVE  LET w == [v EXCEPT !.thread_states = [v.thread_states EXCEPT ![t] = s]]
           IN  /\ Consistent(w)
               /\ w.thread_states = [v.thread_states EXCEPT ![t] = s]
    <1> DEFINE ts == [v.thread_states EXCEPT ![t] = s]
               w == [v EXCEPT !.thread_states = ts]
    <1>1. v \in VerifierState /\ v.thread_states \in [Thread -> ThreadState]
        BY Fields DEF Consistent
    <1>2. /\ ts \in [Thread -> ThreadState]
          /\ \A u \in Thread : ts[u].waiting_mutex = v.thread_states[u].waiting_mutex
        BY <1>1
    <1> HIDE DEF ts
    <1>3. /\ w \in VerifierState
          /\ w.waiting_thread_count = v.waiting_thread_count
          /\ w.thread_states = ts
        BY <1>1, <1>2 DEF VerifierState
    <1> HIDE DEF w
    <1>4. Consistent(w)
        BY <1>2, <1>3, SameWaiting
    <1> QED
        BY <1>3, <1>4 DEF w, ts

\* A change of the mutex table.
LEMMA MutexTable ==
    ASSUME NEW v, Consistent(v), NEW ms \in [Mutex -> MutexState]
    PROVE  Consistent([v EXCEPT !.mutex_states = ms])
    <1> DEFINE w == [v EXCEPT !.mutex_states = ms]
    <1>1. v \in VerifierState
        BY DEF Consistent
    <1>2. /\ w \in VerifierState /\ w.thread_states = v.thread_states
          /\ w.waiting_thread_count = v.waiting_thread_count
        BY <1>1 DEF VerifierState
    <1> HIDE DEF w
    <1>3. Consistent(w)
        BY <1>2, ThreadsAlone
    <1> QED
        BY <1>3 DEF w

\* A report, a full table and a gap only count.
LEMMA Counters ==
    ASSUME NEW v, Consistent(v)
    PROVE  /\ Consistent(ReportSelfDeadlockCandidate(v))
           /\ Consistent(ReportNonOwnerUnlock(v))
           /\ Consistent(ReportHoldTimeViolation(v))
           /\ Consistent(ReportLockHeldAtThreadExit(v))
           /\ Consistent(ReportDeadlockCycle(v))
           /\ Consistent([v EXCEPT !.state_overflow_events = @ + 1])
           /\ Consistent([v EXCEPT !.detected_stream_gaps = @ + 1])
           /\ Consistent([v EXCEPT !.tainted_thread_streams = @ + 1])
    <1> DEFINE Steady(w) == /\ w \in VerifierState
                            /\ w.waiting_thread_count = v.waiting_thread_count
                            /\ w.thread_states = v.thread_states
    <1>0. v \in VerifierState
        BY DEF Consistent
    <1>1. Steady(ReportSelfDeadlockCandidate(v))
        BY <1>0 DEF ReportSelfDeadlockCandidate, VerifierState
    <1>2. Steady(ReportNonOwnerUnlock(v))
        BY <1>0 DEF ReportNonOwnerUnlock, VerifierState
    <1>3. Steady(ReportHoldTimeViolation(v))
        BY <1>0 DEF ReportHoldTimeViolation, VerifierState
    <1>4. Steady(ReportLockHeldAtThreadExit(v))
        BY <1>0 DEF ReportLockHeldAtThreadExit, VerifierState
    <1>5. Steady(ReportDeadlockCycle(v))
        BY <1>0 DEF ReportDeadlockCycle, VerifierState
    <1>6. Steady([v EXCEPT !.state_overflow_events = @ + 1])
        BY <1>0 DEF VerifierState
    <1>7. Steady([v EXCEPT !.detected_stream_gaps = @ + 1])
        BY <1>0 DEF VerifierState
    <1>8. Steady([v EXCEPT !.tainted_thread_streams = @ + 1])
        BY <1>0 DEF VerifierState
    <1>9. \A w : Steady(w) => Consistent(w)
        BY ThreadsAlone
    <1> HIDE DEF Steady
    <1> QED
        BY <1>1, <1>2, <1>3, <1>4, <1>5, <1>6, <1>7, <1>8, <1>9

\* find_thread: a new entry gets the next free slot.
LEMMA FindThread ==
    ASSUME NEW v, Consistent(v), NEW t \in Thread
    PROVE  Consistent(FindOrCreateThread(v, t))
    <1> DEFINE n == Cardinality(KnownThreads(v))
               s == [v.thread_states[t] EXCEPT !.slot = n + 1]
    <1>1. v \in VerifierState /\ v.thread_states[t] \in ThreadState
        BY ThreadFields DEF Consistent
    <1>2. n \in Nat
        BY FS_CardinalityType, FS_Subset, VerifierAssumption DEF KnownThreads
    <1> HIDE DEF n
    <1>3. CASE n < VerifierThreads
        <2>1. n + 1 \in 0 .. VerifierThreads
            BY <1>2, <1>3, VerifierAssumption
        <2>2. s \in ThreadState /\ s.waiting_mutex = v.thread_states[t].waiting_mutex
            BY <1>1, <2>1 DEF ThreadState
        <2> HIDE DEF s
        <2>3. Consistent([v EXCEPT !.thread_states = [v.thread_states EXCEPT ![t] = s]])
            BY <2>2, ThreadEntry
        <2> QED
            BY <1>3, <2>3 DEF FindOrCreateThread, s, n
    <1>4. CASE ~(n < VerifierThreads)
        BY <1>4, Counters DEF FindOrCreateThread, n
    <1> QED
        BY <1>3, <1>4

LEMMA FindMutex ==
    ASSUME NEW v, Consistent(v), NEW m \in Mutex
    PROVE  Consistent(FindOrCreateMutex(v, m))
    <1> DEFINE s == [v.mutex_states[m] EXCEPT !.used = TRUE]
               ms == [v.mutex_states EXCEPT ![m] = s]
    <1>1. /\ v \in VerifierState /\ v.mutex_states[m] \in MutexState
          /\ v.mutex_states \in [Mutex -> MutexState]
        BY Fields, MutexFields DEF Consistent
    <1>2. s \in MutexState
        BY <1>1 DEF MutexState
    <1> HIDE DEF s
    <1>3. ms \in [Mutex -> MutexState]
        BY <1>1, <1>2
    <1> HIDE DEF ms
    <1>4. Consistent([v EXCEPT !.mutex_states = ms])
        BY <1>3, MutexTable
    <1>5. Consistent([v EXCEPT !.state_overflow_events = @ + 1])
        BY Counters
    <1> QED
        BY <1>4, <1>5 DEF FindOrCreateMutex, s, ms

\* set_thread_waiting counts a thread when it begins to wait.
LEMMA SetWaiting ==
    ASSUME NEW v, Consistent(v), NEW t \in Thread, NEW m \in Mutex
    PROVE  Consistent(SetThreadWaiting(v, t, m))
    <1> DEFINE s == [v.thread_states[t] EXCEPT !.waiting_mutex = m]
               ts == [v.thread_states EXCEPT ![t] = s]
               n == IF v.thread_states[t].waiting_mutex = None
                    THEN v.waiting_thread_count + 1 ELSE v.waiting_thread_count
               w == [v EXCEPT !.thread_states = ts, !.waiting_thread_count = n]
    <1>1. /\ v \in VerifierState /\ v.thread_states \in [Thread -> ThreadState]
          /\ v.thread_states[t] \in ThreadState /\ v.waiting_thread_count \in Nat
        BY Fields, ThreadFields DEF Consistent
    <1>2. s \in ThreadState /\ s.waiting_mutex = m /\ m # None
        BY <1>1, VerifierAssumption DEF ThreadState
    <1>3. n \in Nat
        BY <1>1
    <1> HIDE DEF s
    <1>4. /\ ts \in [Thread -> ThreadState] /\ ts[t] = s
          /\ \A u \in Thread \ {t} : ts[u] = v.thread_states[u]
        BY <1>1, <1>2
    <1> HIDE DEF ts, n
    <1>5. w \in VerifierState /\ w.thread_states = ts /\ w.waiting_thread_count = n
        BY <1>1, <1>3, <1>4 DEF VerifierState
    <1> HIDE DEF w
    <1>6. WaitingThreads(w) = WaitingThreads(v) \cup {t}
        BY <1>2, <1>4, <1>5 DEF WaitingThreads
    <1>7. n = Cardinality(WaitingThreads(v) \cup {t})
        <2>1. IsFiniteSet(WaitingThreads(v))
            BY FS_Subset, VerifierAssumption DEF WaitingThreads
        <2>2. t \in WaitingThreads(v) <=> v.thread_states[t].waiting_mutex # None
            BY DEF WaitingThreads
        <2>3. v.waiting_thread_count = Cardinality(WaitingThreads(v))
            BY DEF Consistent, WaitingCounted
        <2>4. Cardinality(WaitingThreads(v) \cup {t})
                = IF t \in WaitingThreads(v) THEN Cardinality(WaitingThreads(v))
                                             ELSE Cardinality(WaitingThreads(v)) + 1
            BY <2>1, FS_AddElement
        <2> QED
            BY <2>2, <2>3, <2>4 DEF n
    <1>8. Consistent(w)
        BY <1>5, <1>6, <1>7 DEF Consistent, WaitingCounted
    <1> QED
        BY <1>8 DEF SetThreadWaiting, w, ts, s, n

\* clear_thread_waiting never takes the count below the threads that wait.
LEMMA ClearWaiting ==
    ASSUME NEW v, Consistent(v), NEW t \in Thread, NEW m \in Mutex \cup {None}
    PROVE  Consistent(ClearThreadWaiting(v, t, m))
    <1>a. CASE m = None \/ v.thread_states[t].waiting_mutex # m
        BY <1>a DEF ClearThreadWaiting
    <1>b. CASE ~(m = None \/ v.thread_states[t].waiting_mutex # m)
        <2> DEFINE s == [v.thread_states[t] EXCEPT !.waiting_mutex = None]
                   ts == [v.thread_states EXCEPT ![t] = s]
                   n == IF v.waiting_thread_count = 0 THEN 0
                        ELSE v.waiting_thread_count - 1
                   w == [v EXCEPT !.thread_states = ts, !.waiting_thread_count = n]
        <2>1. /\ v \in VerifierState /\ v.thread_states \in [Thread -> ThreadState]
              /\ v.thread_states[t] \in ThreadState /\ v.waiting_thread_count \in Nat
            BY Fields, ThreadFields DEF Consistent
        <2>2. s \in ThreadState /\ s.waiting_mutex = None
            BY <2>1 DEF ThreadState
        <2>3. n \in Nat
            BY <2>1
        <2> HIDE DEF s
        <2>4. /\ ts \in [Thread -> ThreadState] /\ ts[t] = s
              /\ \A u \in Thread \ {t} : ts[u] = v.thread_states[u]
            BY <2>1, <2>2
        <2> HIDE DEF ts, n
        <2>5. w \in VerifierState /\ w.thread_states = ts /\ w.waiting_thread_count = n
            BY <2>1, <2>3, <2>4 DEF VerifierState
        <2> HIDE DEF w
        <2>6. WaitingThreads(w) = WaitingThreads(v) \ {t}
            BY <2>2, <2>4, <2>5 DEF WaitingThreads
        <2>7. n = Cardinality(WaitingThreads(v) \ {t})
            <3>1. IsFiniteSet(WaitingThreads(v))
                BY FS_Subset, VerifierAssumption DEF WaitingThreads
            <3>2. t \in WaitingThreads(v)
                BY <1>b DEF WaitingThreads
            <3>3. v.waiting_thread_count = Cardinality(WaitingThreads(v))
                BY DEF Consistent, WaitingCounted
            <3>4. Cardinality(WaitingThreads(v) \ {t}) = Cardinality(WaitingThreads(v)) - 1
                BY <3>1, <3>2, FS_RemoveElement
            <3>5. v.waiting_thread_count # 0
                BY <3>1, <3>2, <3>3, FS_EmptySet
            <3> QED
                BY <3>3, <3>4, <3>5 DEF n
        <2>8. Consistent(w)
            BY <2>5, <2>6, <2>7 DEF Consistent, WaitingCounted
        <2> QED
            BY <1>b, <2>8 DEF ClearThreadWaiting, w, ts, s, n
    <1> QED
        BY <1>a, <1>b

LEMMA ChangeDepth ==
    ASSUME NEW v, Consistent(v), NEW t \in Thread, NEW m \in Mutex, NEW n \in Nat,
           NEW k \in Nat
    PROVE  /\ Consistent([v EXCEPT !.thread_states[t].depth[m] = n])
           /\ Consistent([v EXCEPT !.thread_states[t] =
                            [@ EXCEPT !.depth[m] = n, !.since[m] = k]])
    <1> DEFINE d == [v.thread_states[t].depth EXCEPT ![m] = n]
               i == [v.thread_states[t].since EXCEPT ![m] = k]
               s1 == [v.thread_states[t] EXCEPT !.depth = d]
               s2 == [v.thread_states[t] EXCEPT !.depth = d, !.since = i]
               w1 == [v EXCEPT !.thread_states = [v.thread_states EXCEPT ![t] = s1]]
               w2 == [v EXCEPT !.thread_states = [v.thread_states EXCEPT ![t] = s2]]
    <1>1. /\ v.thread_states[t] \in ThreadState
          /\ v.thread_states[t].depth \in [Mutex -> Nat]
          /\ v.thread_states[t].since \in [Mutex -> Nat]
          /\ v \in VerifierState /\ v.thread_states \in [Thread -> ThreadState]
        BY Fields, ThreadFields DEF Consistent
    <1>2. d \in [Mutex -> Nat] /\ i \in [Mutex -> Nat]
        BY <1>1
    <1> HIDE DEF d, i
    <1>3. /\ s1 \in ThreadState /\ s1.waiting_mutex = v.thread_states[t].waiting_mutex
          /\ s2 \in ThreadState /\ s2.waiting_mutex = v.thread_states[t].waiting_mutex
        BY <1>1, <1>2 DEF ThreadState
    <1> HIDE DEF s1, s2
    <1>4. Consistent(w1) /\ Consistent(w2)
        BY <1>3, ThreadEntry
    <1>5. w1 = [v EXCEPT !.thread_states[t].depth[m] = n]
        BY DEF s1, d
    <1>6. w2 = [v EXCEPT !.thread_states[t] = [@ EXCEPT !.depth[m] = n, !.since[m] = k]]
        BY DEF s2, d, i
    <1> QED
        BY <1>4, <1>5, <1>6

LEMMA AddHeld ==
    ASSUME NEW v, Consistent(v), NEW e, e.thread_id \in Thread, e.object \in Mutex,
           e.timestamp \in Nat
    PROVE  Consistent(AddHeldMutex(v, e))
    <1> DEFINE t == e.thread_id
               m == e.object
               n == v.thread_states[t].depth[m] + 1
    <1>1. v.thread_states[t].depth[m] \in Nat
        BY ThreadFields DEF Consistent
    <1>2. n \in Nat
        BY <1>1
    <1> HIDE DEF n
    <1>3. Consistent([v EXCEPT !.thread_states[t].depth[m] = n])
        BY <1>2, ChangeDepth
    <1>4. Consistent([v EXCEPT !.thread_states[t] =
                        [@ EXCEPT !.depth[m] = 1, !.since[m] = e.timestamp]])
        BY ChangeDepth
    <1>5. Consistent([v EXCEPT !.state_overflow_events = @ + 1])
        BY Counters
    <1> QED
        BY <1>3, <1>4, <1>5 DEF AddHeldMutex, n

LEMMA ReleaseHeld ==
    ASSUME NEW v, Consistent(v), NEW e, e.thread_id \in Thread, e.object \in Mutex
    PROVE  Consistent(ReleaseHeldMutex(v, e))
    <1> DEFINE t == e.thread_id
               m == e.object
               n == v.thread_states[t].depth[m] - 1
               w == IF HeldTooLong(v, e) THEN ReportHoldTimeViolation(v) ELSE v
    <1>1. v.thread_states[t].depth[m] \in Nat
        BY ThreadFields DEF Consistent
    <1>2. ASSUME v.thread_states[t].depth[m] > 1
          PROVE  Consistent([v EXCEPT !.thread_states[t].depth[m] = n])
        <2>1. n \in Nat
            BY <1>1, <1>2
        <2> HIDE DEF n
        <2> QED
            BY <2>1, ChangeDepth
    <1>3. Consistent(w)
        BY Counters
    <1> HIDE DEF w
    <1>4. Consistent([w EXCEPT !.thread_states[t] =
                        [@ EXCEPT !.depth[m] = 0, !.since[m] = 0]])
        BY <1>3, ChangeDepth
    <1> QED
        BY <1>2, <1>4 DEF ReleaseHeldMutex, w

LEMMA Invalidate ==
    ASSUME NEW v, Consistent(v), NEW t, NEW barrier \in Nat
    PROVE  Consistent(InvalidateMutexes(v, t, barrier))
    <1> DEFINE b(m) == IF barrier > v.mutex_states[m].last_state_sequence
                       THEN barrier ELSE v.mutex_states[m].last_state_sequence
               f(m) == IF /\ v.mutex_states[m].used /\ v.mutex_states[m].owner_known
                          /\ v.mutex_states[m].owner = t
                       THEN [v.mutex_states[m] EXCEPT
                               !.owner_known = FALSE, !.owner = None,
                               !.last_state_sequence = b(m)]
                       ELSE v.mutex_states[m]
               ms == [m \in Mutex |-> f(m)]
    <1>1. \A m \in Mutex : /\ v.mutex_states[m] \in MutexState
                           /\ v.mutex_states[m].last_state_sequence \in Nat
        BY MutexFields DEF Consistent
    <1>2. \A m \in Mutex : b(m) \in Nat
        BY <1>1
    <1> HIDE DEF b
    <1>3. \A m \in Mutex : f(m) \in MutexState
        BY <1>1, <1>2 DEF MutexState
    <1> HIDE DEF f
    <1>4. ms \in [Mutex -> MutexState]
        BY <1>3
    <1> HIDE DEF ms
    <1>5. Consistent([v EXCEPT !.mutex_states = ms])
        BY <1>4, MutexTable
    <1> QED
        BY <1>5 DEF InvalidateMutexes, ms, f, b

\* mark_thread_stream_tainted ends the thread's wait before it forgets the stream.
LEMMA MarkTainted ==
    ASSUME NEW v, Consistent(v), NEW t \in Thread, NEW barrier \in Nat
    PROVE  Consistent(MarkThreadStreamTainted(v, t, barrier))
    <1> DEFINE w == ClearThreadWaiting(v, t, v.thread_states[t].waiting_mutex)
               zero == [m \in Mutex |-> 0]
               c == [w EXCEPT !.tainted_thread_streams = @ + 1]
               s == [c.thread_states[t] EXCEPT !.trace_tainted = TRUE,
                                               !.depth = zero, !.since = zero]
               x == [c EXCEPT !.thread_states = [c.thread_states EXCEPT ![t] = s]]
    <1>1. Consistent(w)
        BY ClearWaiting, ThreadFields DEF Consistent
    <1> HIDE DEF w
    <1>2. Consistent(c) /\ c \in VerifierState /\ w \in VerifierState
        BY <1>1, Counters DEF Consistent
    <1>3. c.thread_states = w.thread_states
        BY <1>2 DEF VerifierState
    <1> HIDE DEF c
    <1>4. c.thread_states[t] \in ThreadState
        BY <1>2, ThreadFields
    <1>5. s \in ThreadState /\ s.waiting_mutex = c.thread_states[t].waiting_mutex
        BY <1>4 DEF ThreadState
    <1> HIDE DEF s
    <1>6. Consistent(x)
        BY <1>2, <1>5, ThreadEntry
    <1> HIDE DEF x
    <1>7. Consistent(InvalidateMutexes(x, t, barrier))
        BY <1>6, Invalidate
    <1>8. x = [w EXCEPT !.tainted_thread_streams = @ + 1,
                        !.thread_states[t] = [@ EXCEPT !.trace_tainted = TRUE,
                                                !.depth = [m \in Mutex |-> 0],
                                                !.since = [m \in Mutex |-> 0]]]
        BY <1>3 DEF x, s, c
    <1> QED
        BY <1>7, <1>8 DEF MarkThreadStreamTainted, w

LEMMA Observe ==
    ASSUME NEW v, Consistent(v), NEW e, WellFormed(e)
    PROVE  Consistent(ObserveThreadSequence(v, e))
    <1> DEFINE t == e.thread_id
               g == [v EXCEPT !.detected_stream_gaps = @ + 1]
               w == IF e.thread_sequence # v.thread_states[t].next_expected_sequence
                    THEN MarkThreadStreamTainted(g, t, e.sequence_id) ELSE v
               n == e.thread_sequence + 1
               s == [w.thread_states[t] EXCEPT !.next_expected_sequence = n]
    <1>1. t \in Thread /\ e.sequence_id \in Nat /\ n \in Nat
        BY DEF WellFormed
    <1> HIDE DEF n
    <1>2. Consistent(g)
        BY Counters
    <1> HIDE DEF g
    <1>3. Consistent(w)
        BY <1>1, <1>2, MarkTainted
    <1> HIDE DEF w
    <1>4. w.thread_states[t] \in ThreadState
        BY <1>1, <1>3, ThreadFields DEF Consistent
    <1>5. s \in ThreadState /\ s.waiting_mutex = w.thread_states[t].waiting_mutex
        BY <1>1, <1>4 DEF ThreadState
    <1> HIDE DEF s
    <1>6. Consistent([w EXCEPT !.thread_states = [w.thread_states EXCEPT ![t] = s]])
        BY <1>1, <1>3, <1>5, ThreadEntry
    <1> QED
        BY <1>6 DEF ObserveThreadSequence, s, n, w, g

LEMMA ChangeOwner ==
    ASSUME NEW v, Consistent(v), NEW e, e.object \in Mutex, e.sequence_id \in Nat,
           NEW owner \in Thread \cup {None}
    PROVE  Consistent(SetOwner(v, e, owner))
    <1> DEFINE m == e.object
               s == [v.mutex_states[m] EXCEPT !.owner_known = TRUE, !.owner = owner,
                                              !.last_state_sequence = e.sequence_id]
               ms == [v.mutex_states EXCEPT ![m] = s]
    <1>1. /\ v.mutex_states[m] \in MutexState
          /\ v.mutex_states \in [Mutex -> MutexState]
        BY Fields, MutexFields DEF Consistent
    <1>2. s \in MutexState
        BY <1>1 DEF MutexState
    <1> HIDE DEF s
    <1>3. ms \in [Mutex -> MutexState]
        BY <1>1, <1>2
    <1> HIDE DEF ms
    <1>4. Consistent([v EXCEPT !.mutex_states = ms])
        BY <1>3, MutexTable
    <1> QED
        BY <1>4 DEF SetOwner, ms, s

\* A change of the candidate and of the reported cycle.
LEMMA CycleFields ==
    ASSUME NEW v, Consistent(v), NEW c \in SUBSET Thread, NEW r \in SUBSET Thread,
           NEW n \in 0 .. Confirmations
    PROVE  /\ Consistent([v EXCEPT !.candidate_cycle = c, !.confirmations = n])
           /\ Consistent([v EXCEPT !.candidate_cycle = c, !.confirmations = n,
                                   !.reported_cycle = r])
           /\ Consistent([v EXCEPT !.confirmations = n])
           /\ Consistent([v EXCEPT !.confirmations = n, !.reported_cycle = r])
    <1> DEFINE Steady(w) == /\ w \in VerifierState
                            /\ w.waiting_thread_count = v.waiting_thread_count
                            /\ w.thread_states = v.thread_states
    <1>0. v \in VerifierState
        BY DEF Consistent
    <1>1. Steady([v EXCEPT !.candidate_cycle = c, !.confirmations = n])
        BY <1>0 DEF VerifierState
    <1>2. Steady([v EXCEPT !.candidate_cycle = c, !.confirmations = n,
                           !.reported_cycle = r])
        BY <1>0 DEF VerifierState
    <1>3. Steady([v EXCEPT !.confirmations = n])
        BY <1>0 DEF VerifierState
    <1>4. Steady([v EXCEPT !.confirmations = n, !.reported_cycle = r])
        BY <1>0 DEF VerifierState
    <1>5. \A w : Steady(w) => Consistent(w)
        BY ThreadsAlone
    <1> HIDE DEF Steady
    <1> QED
        BY <1>1, <1>2, <1>3, <1>4, <1>5

LEMMA ChangeExited ==
    ASSUME NEW v, Consistent(v), NEW t \in Thread, NEW b \in BOOLEAN
    PROVE  Consistent([v EXCEPT !.thread_states[t].exited = b])
    <1> DEFINE s == [v.thread_states[t] EXCEPT !.exited = b]
    <1>1. v.thread_states[t] \in ThreadState
        BY ThreadFields DEF Consistent
    <1>2. s \in ThreadState /\ s.waiting_mutex = v.thread_states[t].waiting_mutex
        BY <1>1 DEF ThreadState
    <1> HIDE DEF s
    <1>3. Consistent([v EXCEPT !.thread_states = [v.thread_states EXCEPT ![t] = s]])
        BY <1>2, ThreadEntry
    <1> QED
        BY <1>3 DEF s

\* Whatever the event, its handler keeps the count exact.
LEMMA Handlers ==
    ASSUME NEW v, Consistent(v), NEW e, WellFormed(e)
    PROVE  Consistent(Handle(v, e))
    <1> DEFINE t == e.thread_id
               m == e.object
    <1>0. /\ t \in Thread /\ e.sequence_id \in Nat /\ e.timestamp \in Nat
          /\ v.thread_states[t].waiting_mutex \in Mutex \cup {None}
        BY ThreadFields DEF WellFormed, Consistent
    <1>1. CASE e.event_type = "THREAD_START"
        <2>1. Consistent(HandleThreadStart(v, e))
            BY <1>0, ChangeExited DEF HandleThreadStart
        <2> QED
            BY <1>1, <2>1 DEF Handle
    <1>2. CASE e.event_type = "THREAD_EXIT"
        <2> DEFINE held == ~v.thread_states[t].trace_tainted /\ HeldMutexes(v, t) # {}
                   w == IF held THEN ReportLockHeldAtThreadExit(v) ELSE v
                   x == ClearThreadWaiting(w, t, v.thread_states[t].waiting_mutex)
        <2>1. Consistent(w)
            BY Counters
        <2> HIDE DEF w
        <2>2. Consistent(x)
            BY <1>0, <2>1, ClearWaiting
        <2> HIDE DEF x
        <2>3. Consistent([x EXCEPT !.thread_states[t].exited = TRUE])
            BY <1>0, <2>2, ChangeExited
        <2>4. Consistent(HandleThreadExit(v, e))
            BY <2>3 DEF HandleThreadExit, x, w
        <2> QED
            BY <1>2, <2>4 DEF Handle
    <1>3. CASE e.event_type = "LOCK_REQUEST"
        <2> DEFINE self == ~v.thread_states[t].trace_tainted /\ m \in HeldMutexes(v, t)
                   w == FindOrCreateMutex(v, m)
                   x == IF self THEN ReportSelfDeadlockCandidate(w) ELSE w
        <2>0. m \in Mutex
            BY <1>3 DEF WellFormed, MutexEvent
        <2>1. Consistent(w)
            BY <2>0, FindMutex
        <2> HIDE DEF w
        <2>2. Consistent(x)
            BY <2>1, Counters
        <2> HIDE DEF x
        <2>3. Consistent(SetThreadWaiting(x, t, m))
            BY <1>0, <2>0, <2>2, SetWaiting
        <2>4. Consistent(HandleLockRequest(v, e))
            BY <2>3 DEF HandleLockRequest, x, w
        <2> QED
            BY <1>3, <2>4 DEF Handle
    <1>4. CASE e.event_type = "LOCK_ACQUIRED"
        <2> DEFINE w == FindOrCreateMutex(v, m)
                   x == ClearThreadWaiting(w, t, m)
                   y == AddHeldMutex(x, e)
        <2>0. m \in Mutex
            BY <1>4 DEF WellFormed, MutexEvent
        <2>1. Consistent(w)
            BY <2>0, FindMutex
        <2> HIDE DEF w
        <2>2. Consistent(x)
            BY <1>0, <2>0, <2>1, ClearWaiting
        <2> HIDE DEF x
        <2>3. Consistent(y)
            BY <1>0, <2>0, <2>2, AddHeld
        <2> HIDE DEF y
        <2>4. Consistent(SetOwner(y, e, t))
            BY <1>0, <2>0, <2>3, ChangeOwner
        <2>5. Consistent(HandleLockAcquired(v, e))
            BY <2>1, <2>4 DEF HandleLockAcquired, y, x, w
        <2> QED
            BY <1>4, <2>5 DEF Handle
    <1>5. CASE e.event_type = "LOCK_FAILED"
        <2>0. m \in Mutex
            BY <1>5 DEF WellFormed, MutexEvent
        <2>1. Consistent(HandleLockFailed(v, e))
            BY <1>0, <2>0, ClearWaiting DEF HandleLockFailed
        <2> QED
            BY <1>5, <2>1 DEF Handle
    <1>6. CASE e.event_type = "UNLOCKED"
        <2> DEFINE f == FindOrCreateMutex(v, m)
                   w == ReleaseHeldMutex(f, e)
                   owner == IF FullyReleased(v, e) THEN None ELSE t
        <2>0. m \in Mutex
            BY <1>6 DEF WellFormed, MutexEvent
        <2>1. Consistent(f)
            BY <2>0, FindMutex
        <2> HIDE DEF f
        <2>2. Consistent(w) /\ owner \in Thread \cup {None}
            BY <1>0, <2>0, <2>1, ReleaseHeld
        <2> HIDE DEF w, owner
        <2>3. Consistent(SetOwner(w, e, owner))
            BY <1>0, <2>0, <2>2, ChangeOwner
        <2>4. Consistent(HandleUnlocked(v, e))
            BY <2>2, <2>3 DEF HandleUnlocked, w, f, owner
        <2> QED
            BY <1>6, <2>4 DEF Handle
    <1>7. CASE e.event_type = "UNLOCK_FAILED"
        <2>1. Consistent(HandleUnlockFailed(v, e))
            BY Counters DEF HandleUnlockFailed
        <2> QED
            BY <1>7, <2>1 DEF Handle
    <1> QED
        BY <1>1, <1>2, <1>3, <1>4, <1>5, <1>6, <1>7
        DEF WellFormed, LifecycleEvent, MutexEvent

\* monitor_verifier_process_event
LEMMA Processed ==
    ASSUME NEW v, Consistent(v), NEW e, WellFormed(e)
    PROVE  Consistent(ProcessEvent(v, e))
    <1> DEFINE n == v.processed_events + 1
               l == IF e.sequence_id > v.last_processed_sequence THEN e.sequence_id
                    ELSE v.last_processed_sequence
               counted == [v EXCEPT !.processed_events = n,
                                    !.last_processed_sequence = l]
               w == FindOrCreateThread(counted, e.thread_id)
               o == ObserveThreadSequence(w, e)
               observed == [o EXCEPT !.candidate_cycle = {}, !.confirmations = 0]
    <1>1. v \in VerifierState /\ e.thread_id \in Thread
        BY DEF Consistent, WellFormed
    <1>2. n \in Nat /\ l \in Nat
        BY <1>1, Fields DEF WellFormed
    <1> HIDE DEF n, l
    <1>3. /\ counted \in VerifierState /\ counted.thread_states = v.thread_states
          /\ counted.waiting_thread_count = v.waiting_thread_count
        BY <1>1, <1>2 DEF VerifierState
    <1> HIDE DEF counted
    <1>4. Consistent(counted)
        BY <1>3, ThreadsAlone
    <1>5. Consistent(w)
        BY <1>1, <1>4, FindThread
    <1> HIDE DEF w
    <1>6. Consistent(o) /\ o \in VerifierState
        BY <1>5, Observe DEF Consistent
    <1> HIDE DEF o
    <1>7. {} \in SUBSET Thread /\ 0 \in 0 .. Confirmations
        BY VerifierAssumption
    <1>8. Consistent(observed)
        BY <1>6, <1>7, CycleFields
    <1> HIDE DEF observed
    <1>9. Consistent(Handle(observed, e))
        BY <1>8, Handlers
    <1> QED
        BY <1>5, <1>9 DEF ProcessEvent, observed, o, w, counted, n, l

-----------------------------------------------------------------------------
(***************************************************************************)
(* The search for cycles.  Induction over the length of a path goes by the *)
(* least counterexample.                                                   *)
(***************************************************************************)

LEMMA Least ==
    ASSUME NEW T, T \subseteq Nat, T # {}
    PROVE  \E x \in T : \A y \in T : x <= y
    <1> DEFINE R == {ss \in Nat \X Nat : ss[1] < ss[2]}
    <1>1. IsWellFoundedOn(R, Nat)
        BY NatLessThanWellFounded DEF OpToRel
    <1> HIDE DEF R
    <1>2. \E x \in T : \A y \in T : ~ (<<y, x>> \in R)
        BY <1>1, WFMin
    <1>3. ASSUME NEW x \in Nat, NEW y \in Nat, ~ (<<y, x>> \in R)
          PROVE  x <= y
        BY <1>3 DEF R
    <1> QED
        BY <1>2, <1>3

NodeOrNone == Thread \cup {None}

\* A function iterated from a start value.
LEMMA Iterated ==
    ASSUME NEW f \in [NodeOrNone -> NodeOrNone], NEW start \in NodeOrNone, NEW n \in Nat
    PROVE  \E p \in [0 .. n -> NodeOrNone] :
              p[0] = start /\ \A k \in 1 .. n : p[k] = f[p[k - 1]]
    <1> DEFINE Path(j, p) == /\ p \in [0 .. j -> NodeOrNone]
                             /\ p[0] = start
                             /\ \A k \in 1 .. j : p[k] = f[p[k - 1]]
               T == {j \in Nat : ~\E p : Path(j, p)}
    <1>1. T = {}
        <2> SUFFICES ASSUME T # {} PROVE FALSE
            OBVIOUS
        <2>1. PICK x \in T : \A y \in T : x <= y
            BY Least
        <2>2. x # 0
            <3> DEFINE p == [k \in 0 .. 0 |-> start]
            <3>1. Path(0, p)
                OBVIOUS
            <3> QED
                BY <3>1
        <2>3. x \in Nat /\ x - 1 \in Nat /\ x - 1 \notin T
            <3>1. x \in Nat
                OBVIOUS
            <3> HIDE DEF T
            <3>2. x - 1 \in Nat /\ ~(x <= x - 1)
                BY <2>2, <3>1
            <3> QED
                BY <2>1, <3>1, <3>2
        <2>4. PICK q : Path(x - 1, q)
            BY <2>3
        <2> DEFINE p == [k \in 0 .. x |-> IF k = x THEN f[q[x - 1]] ELSE q[k]]
        <2>5. q[x - 1] \in NodeOrNone
            BY <2>3, <2>4
        <2>6. p \in [0 .. x -> NodeOrNone] /\ p[0] = start
            BY <2>2, <2>3, <2>4, <2>5
        <2>7. ASSUME NEW k \in 1 .. x PROVE p[k] = f[p[k - 1]]
            BY <2>3, <2>4
        <2>8. Path(x, p)
            BY <2>6, <2>7
        <2> QED
            BY <2>1, <2>8
    <1> QED
        BY <1>1

LEMMA WaitsForType ==
    ASSUME NEW v \in VerifierState, NEW t \in Thread
    PROVE  /\ WaitsFor(v, t) \in Thread \cup {None}
           /\ WaitsFor(v, t) # None => t \in WaitingThreads(v)
    <1>1. v.thread_states[t].waiting_mutex \in Mutex \cup {None}
        BY ThreadFields
    <1>2. \A m \in Mutex : v.mutex_states[m].owner \in Thread \cup {None}
        BY MutexFields
    <1> QED
        BY <1>1, <1>2 DEF WaitsFor, WaitingThreads

\* WaitPath follows the edges of the wait-for graph.
LEMMA PathFollows ==
    ASSUME NEW v \in VerifierState, NEW start \in Thread
    PROVE  LET path == WaitPath(v, start) IN
           /\ path \in [0 .. VerifierThreads -> Thread \cup {None}]
           /\ path[0] = start
           /\ \A k \in 1 .. VerifierThreads :
                 path[k] = IF path[k - 1] = None THEN None ELSE WaitsFor(v, path[k - 1])
    <1> DEFINE S == NodeOrNone
               next == [t \in S |-> IF t = None THEN None ELSE WaitsFor(v, t)]
               path == WaitPath(v, start)
               Def(p) == p = [k \in 0 .. VerifierThreads |->
                                IF k = 0 THEN start ELSE next[p[k - 1]]]
    <1>1. next \in [S -> S]
        BY WaitsForType DEF NodeOrNone
    <1>2. VerifierThreads \in Nat
        BY VerifierAssumption
    <1>3. path = CHOOSE p : Def(p)
        BY DEF WaitPath, NodeOrNone
    <1>4. start \in S /\ next[None] = None /\ \A t \in Thread : next[t] = WaitsFor(v, t)
        BY VerifierAssumption DEF NodeOrNone
    <1> HIDE DEF next, path
    <1>5. Def(path)
        <2>1. start \in S
            BY <1>4
        <2>2. PICK q \in [0 .. VerifierThreads -> S] :
                 q[0] = start /\ \A k \in 1 .. VerifierThreads : q[k] = next[q[k - 1]]
            BY <1>1, <1>2, <2>1, Iterated
        <2>3. Def(q)
            BY <1>2, <2>2
        <2> HIDE DEF Def
        <2> QED
            BY <1>3, <2>3
    <1>6. \A k \in 0 .. VerifierThreads : path[k] \in S
        <2> DEFINE T == {k \in 0 .. VerifierThreads : path[k] \notin S}
        <2> SUFFICES ASSUME T # {} PROVE FALSE
            OBVIOUS
        <2>1. PICK x \in T : \A y \in T : x <= y
            <3>1. T \subseteq Nat
                BY <1>2
            <3> HIDE DEF T
            <3> QED
                BY <3>1, Least
        <2>2. x # 0
            BY <1>2, <1>4, <1>5
        <2>3. x - 1 \in 0 .. VerifierThreads /\ ~(x <= x - 1)
            BY <1>2, <2>2
        <2>4. path[x - 1] \in S
            BY <2>1, <2>3
        <2>5. path[x] = next[path[x - 1]]
            BY <1>5, <2>2
        <2> QED
            BY <1>1, <2>4, <2>5
    <1>7. path \in [0 .. VerifierThreads -> S] /\ path[0] = start
        BY <1>2, <1>5, <1>6
    <1>8. ASSUME NEW k \in 1 .. VerifierThreads
          PROVE  path[k] = IF path[k - 1] = None THEN None ELSE WaitsFor(v, path[k - 1])
        <2>1. k \in 0 .. VerifierThreads /\ k # 0 /\ k - 1 \in 0 .. VerifierThreads
            BY <1>2
        <2>2. path[k] = next[path[k - 1]]
            BY <1>5, <2>1
        <2> QED
            BY <1>4, <1>6, <2>1, <2>2 DEF NodeOrNone
    <1> QED
        BY <1>7, <1>8 DEF path, NodeOrNone

\* A path that has ended stays so: find_cycle_from gives up.
LEMMA PathEnds ==
    ASSUME NEW v \in VerifierState, NEW start \in Thread,
           NEW j \in 0 .. VerifierThreads, WaitPath(v, start)[j] = None,
           NEW k \in j .. VerifierThreads
    PROVE  WaitPath(v, start)[k] = None
    <1> DEFINE path == WaitPath(v, start)
               T == {i \in j .. VerifierThreads : path[i] # None}
    <1>1. VerifierThreads \in Nat /\ path[j] = None
        BY VerifierAssumption
    <1>2. \A i \in 1 .. VerifierThreads : path[i - 1] = None => path[i] = None
        BY PathFollows
    <1> HIDE DEF path
    <1> SUFFICES ASSUME T # {} PROVE FALSE
        BY <1>1 DEF path
    <1>3. PICK x \in T : \A y \in T : x <= y
        <2>1. T \subseteq Nat
            BY <1>1
        <2> HIDE DEF T
        <2> QED
            BY <2>1, Least
    <1>4. x # j
        BY <1>1
    <1>5. x \in 1 .. VerifierThreads /\ x - 1 \in j .. VerifierThreads /\ ~(x <= x - 1)
        BY <1>1, <1>4
    <1>6. path[x - 1] = None
        BY <1>3, <1>5
    <1> QED
        BY <1>2, <1>5, <1>6

\* find_cycle_from: a cycle is a set of threads, and has two threads that wait.
LEMMA CycleWaits ==
    ASSUME NEW v \in VerifierState, NEW start \in Thread
    PROVE  /\ FindCycleFrom(v, start) \subseteq Thread
           /\ FindCycleFrom(v, start) # {} =>
                 \E u \in WaitingThreads(v) : start \in WaitingThreads(v) /\ u # start
    <1> DEFINE path == WaitPath(v, start)
    <1>0. VerifierThreads \in Nat
        BY VerifierAssumption
    <1>1. /\ \A k \in 0 .. VerifierThreads : path[k] \in Thread \cup {None}
          /\ path[0] = start
          /\ \A k \in 1 .. VerifierThreads :
                path[k] = IF path[k - 1] = None THEN None ELSE WaitsFor(v, path[k - 1])
        BY PathFollows
    <1>2. \A j \in 0 .. VerifierThreads : path[j] = None =>
             \A k \in j .. VerifierThreads : path[k] = None
        BY PathEnds
    <1> HIDE DEF path
    <1>3. FindCycleFrom(v, start) \subseteq Thread
        BY <1>1 DEF FindCycleFrom, path
    <1>4. ASSUME FindCycleFrom(v, start) # {}
          PROVE  \E u \in WaitingThreads(v) : start \in WaitingThreads(v) /\ u # start
        <2>1. \E k \in 1 .. VerifierThreads : path[k] = start
            BY <1>4 DEF FindCycleFrom, path
        <2>2. PICK k \in 1 .. VerifierThreads : path[k] = start
            BY <2>1
        <2>3. path[1] # start
            BY <1>0, <1>4, <2>2 DEF FindCycleFrom, path
        <2>4. /\ k \in 2 .. VerifierThreads /\ k \in 1 .. VerifierThreads
              /\ 1 \in 1 .. VerifierThreads /\ 2 \in 1 .. VerifierThreads
              /\ 1 \in 0 .. VerifierThreads /\ 2 \in 0 .. VerifierThreads
              /\ 1 - 1 = 0 /\ 2 - 1 = 1
            BY <1>0, <2>2, <2>3
        <2>5. start # None
            BY VerifierAssumption
        <2>6. path[1] # None /\ path[2] # None
            BY <1>2, <2>2, <2>4, <2>5
        <2>7. path[1] \in Thread
            BY <1>1, <2>4, <2>6
        <2>8. WaitsFor(v, start) # None
            BY <1>1, <2>4, <2>5, <2>6
        <2>9. WaitsFor(v, path[1]) # None
            BY <1>1, <2>4, <2>6
        <2> QED
            BY <2>3, <2>7, <2>8, <2>9, WaitsForType
    <1> QED
        BY <1>3, <1>4

\* find_any_cycle and the early return of monitor_verifier_check_deadlocks: where there
\* is a cycle, two threads are counted as waiting.
LEMMA AnyCycleWaits ==
    ASSUME NEW v, Consistent(v)
    PROVE  /\ FindAnyCycle(v) \subseteq Thread
           /\ FindAnyCycle(v) # {} => v.waiting_thread_count >= 2
    <1>0. v \in VerifierState /\ v.waiting_thread_count = Cardinality(WaitingThreads(v))
        BY DEF Consistent, WaitingCounted
    <1>1. FindAnyCycle(v) \subseteq Thread
        BY <1>0, CycleWaits DEF FindAnyCycle, KnownThreads
    <1>2. ASSUME FindAnyCycle(v) # {}
          PROVE  v.waiting_thread_count >= 2
        <2>1. PICK t \in Thread : FindCycleFrom(v, t) # {}
            BY <1>2 DEF FindAnyCycle, KnownThreads
        <2>2. PICK u \in WaitingThreads(v) : t \in WaitingThreads(v) /\ u # t
            BY <1>0, <2>1, CycleWaits
        <2>3. IsFiniteSet(WaitingThreads(v))
            BY FS_Subset, VerifierAssumption DEF WaitingThreads
        <2>4. /\ IsFiniteSet({u}) /\ Cardinality({u}) = 1
              /\ IsFiniteSet({u} \cup {t}) /\ Cardinality({u} \cup {t}) = 2
            <3>1. IsFiniteSet({u}) /\ Cardinality({u}) = 1
                BY FS_Singleton
            <3>2. t \notin {u}
                BY <2>2
            <3>3. /\ IsFiniteSet({u} \cup {t})
                  /\ Cardinality({u} \cup {t}) = Cardinality({u}) + 1
                BY <3>1, <3>2, FS_AddElement
            <3> QED
                BY <3>1, <3>3
        <2>5. {u} \cup {t} \subseteq WaitingThreads(v)
            BY <2>2
        <2>6. /\ Cardinality(WaitingThreads(v)) \in Nat
              /\ Cardinality({u} \cup {t}) <= Cardinality(WaitingThreads(v))
            BY <2>3, <2>5, FS_Subset, FS_CardinalityType
        <2> QED
            BY <1>0, <2>4, <2>6
    <1> QED
        BY <1>1, <1>2

\* monitor_verifier_check_deadlocks
LEMMA Checked ==
    ASSUME NEW v, Consistent(v)
    PROVE  Consistent(CheckDeadlocks(v))
    <1> DEFINE cycle == FindAnyCycle(v)
               n == IF v.confirmations < Confirmations THEN v.confirmations + 1
                    ELSE v.confirmations
               r == [v EXCEPT !.confirmations = n, !.reported_cycle = cycle]
    <1>1. cycle \in SUBSET Thread /\ {} \in SUBSET Thread
        BY AnyCycleWaits
    <1>2. n \in 0 .. Confirmations /\ 0 \in 0 .. Confirmations /\ 1 \in 0 .. Confirmations
        BY Fields, VerifierAssumption DEF Consistent
    <1> HIDE DEF cycle, n
    <1>3. Consistent([v EXCEPT !.candidate_cycle = {}, !.confirmations = 0,
                               !.reported_cycle = {}])
        BY <1>1, <1>2, CycleFields
    <1>4. Consistent([v EXCEPT !.candidate_cycle = cycle, !.confirmations = 1])
        BY <1>1, <1>2, CycleFields
    <1>5. Consistent([v EXCEPT !.confirmations = n]) /\ Consistent(r)
        BY <1>1, <1>2, CycleFields
    <1> HIDE DEF r
    <1>6. Consistent(ReportDeadlockCycle(r))
        BY <1>5, Counters
    <1> QED
        BY <1>3, <1>4, <1>5, <1>6 DEF CheckDeadlocks, cycle, n, r

\* monitor_verifier_init
LEMMA Initialised == Consistent(InitVerifier)
    <1> DEFINE s == [slot |-> 0, exited |-> FALSE, trace_tainted |-> FALSE,
                     next_expected_sequence |-> 0,
                     waiting_mutex |-> None, depth |-> [m \in Mutex |-> 0],
                     since |-> [m \in Mutex |-> 0]]
               o == [used |-> FALSE, owner_known |-> FALSE,
                     owner |-> None, last_state_sequence |-> 0]
               ts == [t \in Thread |-> s]
               ms == [m \in Mutex |-> o]
    <1>1. 0 \in 0 .. VerifierThreads /\ 0 \in 0 .. Confirmations
        BY VerifierAssumption
    <1>2. s \in ThreadState /\ s.waiting_mutex = None
        BY <1>1 DEF ThreadState
    <1>3. o \in MutexState
        BY DEF MutexState
    <1> HIDE DEF s, o
    <1>4. ts \in [Thread -> ThreadState] /\ ms \in [Mutex -> MutexState]
        BY <1>2, <1>3
    <1>5. \A t \in Thread : ts[t].waiting_mutex = None
        BY <1>2
    <1> HIDE DEF ts, ms
    <1>6. /\ InitVerifier \in VerifierState
          /\ InitVerifier.thread_states = ts /\ InitVerifier.waiting_thread_count = 0
        BY <1>1, <1>4 DEF InitVerifier, VerifierState, ts, ms, s, o
    <1>7. WaitingThreads(InitVerifier) = {}
        BY <1>5, <1>6 DEF WaitingThreads
    <1> QED
        BY <1>6, <1>7, FS_EmptySet DEF Consistent, WaitingCounted
=============================================================================
