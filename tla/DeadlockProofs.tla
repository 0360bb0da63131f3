--------------------------- MODULE DeadlockProofs ---------------------------
(***************************************************************************)
(* NoFalseDeadlock for any number of threads, mutexes and contexts, any    *)
(* queue and table sizes, any interleaving and any losses of threads that  *)
(* are not in the reported cycle.                                          *)
(*                                                                         *)
(* The argument has three parts.                                           *)
(*                                                                         *)
(* A stance says which mutex a thread waits for and which ones it holds.   *)
(* Each stamped event has the stance before and the stance after it, and   *)
(* the stream of a context ends in the stance its thread has by now, or    *)
(* had when monitor_runtime_stop was called; F gives these last stances.   *)
(* What the verifier recorded of a thread that lost nothing fits the       *)
(* stance ahead of the event it takes next (RecordInv).                    *)
(*                                                                         *)
(* Threads whose last stances wait for each other block each other in the  *)
(* real lock calls (StuckInv), and go on doing so, since none of them can  *)
(* take or release a mutex.                                                *)
(*                                                                         *)
(* So if all queues of the threads of a cycle are empty at once, the cycle *)
(* is real.  The consumer never sees that at once: it finds them empty one *)
(* after the other, while the application runs.  But as long as the        *)
(* candidate cycle stands, no event of its threads is processed, hence a   *)
(* queue that is empty when it is visited was empty all the time           *)
(* (CandidateInv).                                                         *)
(***************************************************************************)
EXTENDS StreamProofs

WaitPc == {"push_request", "lock", "acquired", "lock_failed"}

\* What the stamped events of the thread tell.
StampedStance(t) ==
    [waits |-> IF app[t].pc \in WaitPc THEN app[t].mutex ELSE None,
     held |-> {m \in Mutex : StampedView(t).held[m] > 0}]

StanceBefore(e) ==
    [waits |-> IF e.event_type \in {"LOCK_ACQUIRED", "LOCK_FAILED"}
               THEN e.object ELSE None,
     held |-> {m \in Mutex : ViewBefore(e).held[m] > 0}]

StanceAfter(e) ==
    [waits |-> IF e.event_type = "LOCK_REQUEST" THEN e.object ELSE None,
     held |-> {m \in Mutex : e.really_held[m] > 0}]

\* A thread that ended waits for nothing; it may have held anything.
Gone == [waits |-> None, held |-> Mutex]

EndStance(c) == IF Live(c) THEN StampedStance(Owner(c)) ELSE Gone

Fits(x, y) == x.waits = y.waits /\ x.held \subseteq y.held

\* The stance that follows the k-th event in the queue of c.
Following(F, c, k) ==
    IF k < Len(Queue(c)) THEN StanceBefore(Queue(c)[k + 1])
    ELSE IF Pending(c) THEN StanceBefore(app[Owner(c)].event)
    ELSE F[c]

\* The application side: the event about to be pushed tells the truth about its
\* thread.
Truthful(t) ==
    LET e == app[t].event IN
    /\ app[t].pc \in PushPc =>
          /\ e.thread_id = t /\ e.object = app[t].mutex
          /\ e.really_held = RealDepth(t)
          /\ e.event_type = "LOCK_REQUEST" <=> app[t].pc = "push_request"
          /\ e.event_type \in {"LOCK_ACQUIRED", "LOCK_FAILED"} =>
                lock[e.object].owner = t
    /\ app[t].pc \in {"acquired", "lock_failed"} => lock[app[t].mutex].owner = t
    /\ app[t].pc \in WaitPc /\ accept_events => app[t].tls_context # NoContext

CallInv == \A t \in Thread : Truthful(t)

\* The events of a context are stamped in the order of its queue.
Ordered(c) ==
    /\ \A j, k \in DOMAIN Queue(c) :
          j < k => Queue(c)[j].sequence_id < Queue(c)[k].sequence_id
    /\ Pending(c) => \A k \in DOMAIN Queue(c) :
          Queue(c)[k].sequence_id < app[Owner(c)].event.sequence_id

\* The stamps of the events that the verifier has not taken.
Stamps(c) == {Queue(c)[k].sequence_id : k \in DOMAIN Queue(c)}
               \cup (IF Pending(c) THEN {app[Owner(c)].event.sequence_id} ELSE {})

OrderInv == \A c \in DOMAIN contexts :
    Ordered(c) /\ \A i \in Stamps(c) : i \in Nat /\ i < global_sequence

\* The verifier's tables: what is not in them has no state.
TableInv ==
    /\ \A t \in Thread :
          /\ verifier.thread_states[t].slot = 0 =>
                /\ verifier.thread_states[t].waiting_mutex = None
                /\ \A m \in Mutex : verifier.mutex_states[m].owner # t
          /\ verifier.thread_states[t].slot # 0 =>
                \E c \in DOMAIN contexts : Owner(c) = t
    /\ \A m \in Mutex :
          ~verifier.mutex_states[m].used => verifier.mutex_states[m].owner = None

\* A full mutex table never gets to know the mutex.
Lost(v, m) == /\ m \notin KnownMutexes(v)
              /\ Cardinality(KnownMutexes(v)) >= VerifierMutexes

\* While events are accepted, the stream ends in what the thread has done by now.
EndInv(F) ==
    /\ accept_events => \A c \in DOMAIN contexts : F[c] = EndStance(c)
    /\ \A c \in DOMAIN contexts :
          app[Owner(c)].pc \in PushPc /\ ~Live(c) => F[c].waits = None

PendingFits(F) == \A c \in DOMAIN contexts :
    Pending(c) => Fits(StanceAfter(app[Owner(c)].event), F[c])

QueueFits(F) == \A c \in DOMAIN contexts :
    contexts[c].dropped = 0 =>
        \A k \in DOMAIN Queue(c) : Fits(StanceAfter(Queue(c)[k]), Following(F, c, k))

\* What the verifier recorded of the owner of c, if the stance y comes next.
Waits(v, t, y) ==
    \/ v.thread_states[t].waiting_mutex \in {None, y.waits}
    \/ Lost(v, v.thread_states[t].waiting_mutex)

Owns(v, t, y) ==
    \A m \in Mutex : v.mutex_states[m].owner = t => m \in y.held

\* The events of c that the verifier has not taken are newer than what made the
\* thread the owner of a mutex.
Newer(v, c) ==
    \A m \in Mutex : v.mutex_states[m].owner = Owner(c) =>
        LET last == v.mutex_states[m].last_state_sequence IN
        last < global_sequence /\ \A i \in Stamps(c) : last < i

RecordInv(F) == \A c \in DOMAIN contexts :
    /\ First(c) /\ contexts[c].dropped = 0 /\ ~Tainted(verifier, Owner(c)) =>
          /\ Waits(verifier, Owner(c), Following(F, c, 0))
          /\ Owns(verifier, Owner(c), Following(F, c, 0))
          /\ Newer(verifier, c)

\* The last stances of c.
Stances(F, c) ==
    {F[c]} \cup (IF Pending(c) THEN {StanceBefore(app[Owner(c)].event)} ELSE {})

MayWait(F, c, d) == \E x \in Stances(F, c), y \in Stances(F, d) :
                        x.waits # None /\ x.waits \in y.held

\* t is about to block, or blocks, on a mutex of u.
Asks(t, u) == /\ app[t].pc \in {"push_request", "lock"}
              /\ lock[app[t].mutex].owner = u

Stuck(threads) == \A t \in threads : \E u \in threads \ {t} : Asks(t, u)

StuckInv(F) == \A S \in SUBSET DOMAIN contexts :
    (\A c \in S : \E d \in S : Owner(d) # Owner(c) /\ MayWait(F, c, d))
       => Stuck({Owner(c) : c \in S})

LastStances(F) == /\ EndInv(F) /\ PendingFits(F) /\ QueueFits(F) /\ RecordInv(F)
                  /\ StuckInv(F)

\* The threads wait for each other in the verifier's wait-for graph.
WaitInGraph(v, threads) == \A t \in threads : WaitsFor(v, t) \in threads \ {t}

\* The consumer has these queues ahead of it in this pass, or they are empty.
EmptyAhead(threads) ==
    \A c \in DOMAIN contexts :
        /\ consumer.i <= c /\ c <= consumer.count
        /\ First(c) /\ Owner(c) \in threads
        => Queue(c) = <<>>

CandidateInv ==
    LET cycle == verifier.candidate_cycle IN
    /\ WaitInGraph(verifier, cycle)
    /\ (\A t \in cycle : Complete(t)) /\ EmptyAhead(cycle) => ReallyDeadlocked(cycle)

DeadInv == /\ CallInv /\ OrderInv /\ TableInv /\ CandidateInv
           /\ \E F : LastStances(F)

-----------------------------------------------------------------------------
(***************************************************************************)
(* Cycles of the wait-for graph.                                           *)
(***************************************************************************)

\* find_cycle_from: on a path that comes back to its start, each thread waits for
\* another one on it.
LEMMA CycleInGraph ==
    ASSUME NEW v \in VerifierState, NEW start \in Thread
    PROVE  WaitInGraph(v, FindCycleFrom(v, start))
    <1> DEFINE path == WaitPath(v, start)
               C == FindCycleFrom(v, start)
    <1>0. VerifierThreads \in Nat
        BY VerifierAssumption
    <1>1. /\ \A k \in 0 .. VerifierThreads : path[k] \in Thread \cup {None}
          /\ path[0] = start
          /\ \A k \in 1 .. VerifierThreads :
                path[k] = IF path[k - 1] = None THEN None ELSE WaitsFor(v, path[k - 1])
        BY PathFollows
    <1>2. \A j \in 0 .. VerifierThreads : path[j] = None =>
             \A k \in j .. VerifierThreads : path[k] = None
        BY PathEnds
    <1> SUFFICES ASSUME NEW t \in C PROVE WaitsFor(v, t) \in C \ {t}
        BY DEF WaitInGraph
    <1>3. PICK n \in 1 .. VerifierThreads : path[n] = start
        BY DEF FindCycleFrom
    <1>4. path[1] # start
        BY <1>0, <1>3 DEF FindCycleFrom
    <1>5. C = {path[k] : k \in 0 .. VerifierThreads} \ {None}
        BY DEF FindCycleFrom
    <1> HIDE DEF path, C
    <1>6. start # None
        BY VerifierAssumption
    <1> DEFINE Early(x) == \E i \in 0 .. n - 1 : path[i] = x
               T == {k \in 0 .. VerifierThreads : ~Early(path[k])}
    <1>7. ASSUME NEW k \in 0 .. VerifierThreads PROVE Early(path[k])
        <2> SUFFICES ASSUME T # {} PROVE FALSE
            OBVIOUS
        <2>1. PICK x \in T : \A y \in T : x <= y
            <3>1. T \subseteq Nat
                BY <1>0
            <3> HIDE DEF T
            <3> QED
                BY <3>1, Least
        <2>2. x # 0
            BY <1>0, <1>3
        <2>3. /\ x \in 1 .. VerifierThreads /\ x - 1 \in 0 .. VerifierThreads
              /\ ~(x <= x - 1)
            BY <1>0, <2>2
        <2>4. Early(path[x - 1])
            BY <2>1, <2>3
        <2>5. PICK i \in 0 .. n - 1 : path[i] = path[x - 1]
            BY <2>4
        <2>6. i + 1 \in 1 .. VerifierThreads /\ i \in 0 .. VerifierThreads /\ i + 1 - 1 = i
            BY <1>0, <1>3
        <2>7. path[i + 1] = path[x]
            BY <1>1, <2>3, <2>5, <2>6
        <2>8. CASE i + 1 = n
            BY <1>0, <1>1, <1>3, <2>7, <2>8
        <2>9. CASE i + 1 # n
            <3>1. i + 1 \in 0 .. n - 1
                BY <1>0, <1>3, <2>9
            <3> QED
                BY <2>7, <3>1
        <2> QED
            BY <2>8, <2>9
    <1>8. PICK k \in 0 .. VerifierThreads : path[k] = t /\ t # None
        BY <1>5
    <1>9. PICK i \in 0 .. n - 1 : path[i] = t
        BY <1>7, <1>8
    <1>10. /\ i + 1 \in 1 .. VerifierThreads /\ i + 1 \in 0 .. VerifierThreads
           /\ i \in 0 .. VerifierThreads /\ i + 1 - 1 = i /\ n \in i + 1 .. VerifierThreads
        BY <1>0, <1>3
    <1>11. path[i + 1] = WaitsFor(v, t)
        BY <1>1, <1>8, <1>9, <1>10
    <1>12. WaitsFor(v, t) # None
        BY <1>2, <1>3, <1>6, <1>10, <1>11
    <1>13. WaitsFor(v, t) # t
        <2> SUFFICES ASSUME WaitsFor(v, t) = t PROVE FALSE
            OBVIOUS
        <2> DEFINE U == {j \in i .. VerifierThreads : path[j] # t}
        <2>1. U = {}
            <3> SUFFICES ASSUME U # {} PROVE FALSE
                OBVIOUS
            <3>1. PICK x \in U : \A y \in U : x <= y
                <4>1. U \subseteq Nat
                    BY <1>0
                <4> HIDE DEF U
                <4> QED
                    BY <4>1, Least
            <3>2. x # i
                BY <1>9
            <3>3. x \in 1 .. VerifierThreads /\ x - 1 \in i .. VerifierThreads /\ ~(x <= x - 1)
                BY <1>0, <3>2
            <3>4. path[x - 1] = t
                BY <3>1, <3>3
            <3> QED
                BY <1>1, <1>8, <3>3, <3>4
        <2>2. start = t
            BY <1>0, <1>3, <1>10, <2>1
        <2>3. 1 \in 1 .. VerifierThreads /\ 1 - 1 = 0
            BY <1>0, <1>3
        <2>4. path[1] = t
            BY <1>1, <1>6, <2>2, <2>3
        <2> QED
            BY <1>4, <2>2, <2>4
    <1> QED
        BY <1>5, <1>10, <1>11, <1>12, <1>13

LEMMA AnyCycleInGraph ==
    ASSUME NEW v \in VerifierState
    PROVE  WaitInGraph(v, FindAnyCycle(v))
    <1> SUFFICES ASSUME NEW t \in FindAnyCycle(v)
                 PROVE  WaitsFor(v, t) \in FindAnyCycle(v) \ {t}
        BY DEF WaitInGraph
    <1>1. PICK s \in Thread : /\ t \in FindCycleFrom(v, s)
                              /\ FindCycleFrom(v, s) \subseteq FindAnyCycle(v)
        BY DEF FindAnyCycle, KnownThreads
    <1>2. WaitsFor(v, t) \in FindCycleFrom(v, s) \ {t}
        BY <1>1, CycleInGraph DEF WaitInGraph
    <1> QED
        BY <1>1, <1>2

-----------------------------------------------------------------------------
(***************************************************************************)
(* What one event does to the mutex table and to the wait of its thread.   *)
(***************************************************************************)

\* An event of thread t makes t the owner of its mutex or nobody, and entries of
\* the table stay.
TableStep(v, w, e) ==
    /\ KnownMutexes(v) \subseteq KnownMutexes(w)
    /\ Cardinality(KnownMutexes(v)) >= VerifierMutexes
         => KnownMutexes(w) = KnownMutexes(v)
    /\ \A m \in Mutex :
         LET o == v.mutex_states[m]  p == w.mutex_states[m] IN
         /\ \/ p.owner = o.owner /\ p.last_state_sequence = o.last_state_sequence
            \/ p.owner = None
            \/ /\ m = e.object /\ p.owner = e.thread_id
               /\ p.last_state_sequence = e.sequence_id
         /\ ~p.used => p.owner = o.owner

Waiting(v, t) == v.thread_states[t].waiting_mutex

LEMMA TableSame ==
    ASSUME NEW v, NEW w, NEW e, w.mutex_states = v.mutex_states
    PROVE  TableStep(v, w, e)
    BY DEF TableStep, KnownMutexes

LEMMA TableTwice ==
    ASSUME NEW v, NEW w, NEW x, NEW e, TableStep(v, w, e), TableStep(w, x, e)
    PROVE  TableStep(v, x, e)
    <1>1. KnownMutexes(v) \subseteq KnownMutexes(x)
        BY DEF TableStep
    <1>2. Cardinality(KnownMutexes(v)) >= VerifierMutexes
            => KnownMutexes(x) = KnownMutexes(v)
        BY DEF TableStep
    <1>3. ASSUME NEW m \in Mutex
          PROVE  ~x.mutex_states[m].used
                   => x.mutex_states[m].owner = v.mutex_states[m].owner
        <2>1. ~x.mutex_states[m].used => ~w.mutex_states[m].used
            BY DEF TableStep, KnownMutexes
        <2> QED
            BY <2>1 DEF TableStep
    <1> QED
        BY <1>1, <1>2, <1>3 DEF TableStep

LEMMA LostStays ==
    ASSUME NEW v, NEW w, NEW e, NEW m, TableStep(v, w, e), Lost(v, m)
    PROVE  Lost(w, m)
    BY DEF TableStep, Lost

\* find_mutex(address, true) changes no owner.
LEMMA FindMutexTable ==
    ASSUME NEW v \in VerifierState, NEW m \in Mutex, NEW e
    PROVE  LET w == FindOrCreateMutex(v, m) IN
           /\ TableStep(v, w, e) /\ w.thread_states = v.thread_states
           /\ m \in KnownMutexes(w) \/ Lost(w, m)
           /\ \A q \in Mutex :
                /\ w.mutex_states[q].owner = v.mutex_states[q].owner
                /\ w.mutex_states[q].last_state_sequence
                     = v.mutex_states[q].last_state_sequence
    <1> DEFINE n == Cardinality(KnownMutexes(v))
               s == [v.mutex_states[m] EXCEPT !.used = TRUE]
               w == FindOrCreateMutex(v, m)
    <1>1. n \in Nat /\ VerifierMutexes \in Nat
        BY FS_CardinalityType, FS_Subset, VerifierAssumption DEF KnownMutexes
    <1>2. CASE m \in KnownMutexes(v)
        BY <1>2, TableSame DEF FindOrCreateMutex
    <1>3. CASE m \notin KnownMutexes(v) /\ n < VerifierMutexes
        <2>1. /\ w.mutex_states = [v.mutex_states EXCEPT ![m] = s]
              /\ w.thread_states = v.thread_states
            BY <1>3 DEF FindOrCreateMutex, VerifierState
        <2>2. v.mutex_states[m] \in MutexState /\ v.mutex_states \in [Mutex -> MutexState]
            BY MutexFields, Fields
        <2>3. /\ s.used /\ s.owner = v.mutex_states[m].owner
              /\ s.last_state_sequence = v.mutex_states[m].last_state_sequence
            BY <2>2 DEF MutexState
        <2> HIDE DEF s, w
        <2>4. \A q \in Mutex : w.mutex_states[q] = IF q = m THEN s ELSE v.mutex_states[q]
            BY <2>1, <2>2
        <2>5. KnownMutexes(w) = KnownMutexes(v) \cup {m}
            BY <2>3, <2>4 DEF KnownMutexes
        <2>6. ~(n >= VerifierMutexes)
            BY <1>1, <1>3
        <2> QED
            BY <2>1, <2>3, <2>4, <2>5, <2>6 DEF TableStep, w
    <1>4. CASE m \notin KnownMutexes(v) /\ ~(n < VerifierMutexes)
        <2>1. w.mutex_states = v.mutex_states /\ w.thread_states = v.thread_states
            BY <1>4 DEF FindOrCreateMutex, VerifierState
        <2>2. n >= VerifierMutexes
            BY <1>1, <1>4
        <2> HIDE DEF w
        <2>3. Lost(w, m)
            BY <1>4, <2>1, <2>2 DEF Lost, KnownMutexes
        <2> QED
            BY <2>1, <2>3, TableSame DEF w
    <1> QED
        BY <1>2, <1>3, <1>4

\* The newest event by sequence_id decides on the owner.
LEMMA SetOwnerTable ==
    ASSUME NEW v \in VerifierState, NEW e, e.object \in KnownMutexes(v),
           NEW owner \in {None, e.thread_id}
    PROVE  LET w == SetOwner(v, e, owner) IN
           /\ TableStep(v, w, e) /\ w.thread_states = v.thread_states
           /\ w.mutex_states[e.object].owner =
                IF e.sequence_id >= v.mutex_states[e.object].last_state_sequence
                THEN owner ELSE v.mutex_states[e.object].owner
    <1> DEFINE m == e.object
               s == [v.mutex_states[m] EXCEPT !.owner_known = TRUE, !.owner = owner,
                                              !.last_state_sequence = e.sequence_id]
               w == SetOwner(v, e, owner)
    <1>1. CASE e.sequence_id >= v.mutex_states[m].last_state_sequence
        <2>1. /\ w.mutex_states = [v.mutex_states EXCEPT ![m] = s]
              /\ w.thread_states = v.thread_states
            BY <1>1 DEF SetOwner, VerifierState
        <2>2. /\ v.mutex_states[m] \in MutexState /\ v.mutex_states[m].used
              /\ v.mutex_states \in [Mutex -> MutexState] /\ m \in Mutex
            BY MutexFields, Fields DEF KnownMutexes
        <2>3. /\ s.used /\ s.owner = owner /\ s.last_state_sequence = e.sequence_id
            BY <2>2 DEF MutexState
        <2> HIDE DEF s, w
        <2>4. \A q \in Mutex : w.mutex_states[q] = IF q = m THEN s ELSE v.mutex_states[q]
            BY <2>1, <2>2
        <2>5. KnownMutexes(w) = KnownMutexes(v)
            BY <2>2, <2>3, <2>4 DEF KnownMutexes
        <2>6. TableStep(v, w, e)
            BY <2>3, <2>4, <2>5 DEF TableStep
        <2> QED
            BY <1>1, <2>1, <2>2, <2>3, <2>4, <2>6 DEF w
    <1>2. CASE ~(e.sequence_id >= v.mutex_states[m].last_state_sequence)
        BY <1>2, TableSame DEF SetOwner
    <1> QED
        BY <1>1, <1>2

\* invalidate_mutexes_owned_by_thread
LEMMA InvalidateTable ==
    ASSUME NEW v, v.mutex_states \in [Mutex -> MutexState],
           {"mutex_states", "thread_states"} \subseteq DOMAIN v,
           NEW t, NEW barrier, NEW e
    PROVE  LET w == InvalidateMutexes(v, t, barrier) IN
           TableStep(v, w, e) /\ w.thread_states = v.thread_states
    <1> DEFINE state(m) == v.mutex_states[m]
               owned(m) == state(m).used /\ state(m).owner_known /\ state(m).owner = t
               last(m) == IF barrier > state(m).last_state_sequence THEN barrier
                          ELSE state(m).last_state_sequence
               invalid(m) == [state(m) EXCEPT !.owner_known = FALSE, !.owner = None,
                                              !.last_state_sequence = last(m)]
               ms == [m \in Mutex |-> IF owned(m) THEN invalid(m) ELSE state(m)]
               w == InvalidateMutexes(v, t, barrier)
    <1>1. w = [v EXCEPT !.mutex_states = ms]
        BY DEF InvalidateMutexes
    <1>2. \A m \in Mutex : ms[m] = IF owned(m) THEN invalid(m) ELSE state(m)
        OBVIOUS
    <1>3. ASSUME NEW m \in Mutex PROVE invalid(m).owner = None /\ invalid(m).used = state(m).used
        <2>1. state(m) \in MutexState
            OBVIOUS
        <2> HIDE DEF last
        <2> QED
            BY <2>1 DEF MutexState
    <1> HIDE DEF ms, w, invalid
    <1>4. w.mutex_states = ms /\ w.thread_states = v.thread_states
        BY <1>1
    <1>5. KnownMutexes(w) = KnownMutexes(v)
        BY <1>2, <1>3, <1>4 DEF KnownMutexes
    <1>6. TableStep(v, w, e)
        BY <1>2, <1>3, <1>4, <1>5 DEF TableStep
    <1> QED
        BY <1>4, <1>6 DEF w

\* The operations on the entry of a thread leave the mutex table alone.
LEMMA ReportsApart ==
    ASSUME NEW v \in VerifierState
    PROVE  \A w \in {ReportSelfDeadlockCandidate(v), ReportNonOwnerUnlock(v),
                     ReportHoldTimeViolation(v), ReportLockHeldAtThreadExit(v)} :
              w.mutex_states = v.mutex_states /\ w.thread_states = v.thread_states
    BY DEF VerifierState, ReportSelfDeadlockCandidate, ReportNonOwnerUnlock,
       ReportHoldTimeViolation, ReportLockHeldAtThreadExit

\* The wait of a thread when its entry is replaced.
LEMMA WaitReplaced ==
    ASSUME NEW v \in VerifierState, NEW t \in Thread, NEW s, NEW w,
           w.thread_states = [v.thread_states EXCEPT ![t] = s]
    PROVE  Waiting(w, t) = s.waiting_mutex
    <1>1. v.thread_states \in [Thread -> ThreadState]
        BY Fields
    <1> QED
        BY <1>1 DEF Waiting

LEMMA SetWaitingApart ==
    ASSUME NEW v \in VerifierState, NEW t \in Thread, NEW m
    PROVE  LET w == SetThreadWaiting(v, t, m) IN
           w.mutex_states = v.mutex_states /\ Waiting(w, t) = m
    <1> DEFINE s == [v.thread_states[t] EXCEPT !.waiting_mutex = m]
               w == SetThreadWaiting(v, t, m)
    <1>1. /\ w.mutex_states = v.mutex_states
          /\ w.thread_states = [v.thread_states EXCEPT ![t] = s]
        BY DEF SetThreadWaiting, VerifierState
    <1>2. s.waiting_mutex = m
        <2>1. v.thread_states[t] \in ThreadState
            BY ThreadFields
        <2> QED
            BY <2>1 DEF ThreadState
    <1> HIDE DEF s, w
    <1>3. Waiting(w, t) = m
        BY <1>1, <1>2, WaitReplaced
    <1> QED
        BY <1>1, <1>3 DEF w

LEMMA ClearWaitingApart ==
    ASSUME NEW v \in VerifierState, NEW t \in Thread, NEW m
    PROVE  LET w == ClearThreadWaiting(v, t, m) IN
           /\ w.mutex_states = v.mutex_states
           /\ Waiting(w, t) = None \/ (Waiting(w, t) = Waiting(v, t) /\ Waiting(v, t) # m)
    <1> DEFINE s == [v.thread_states[t] EXCEPT !.waiting_mutex = None]
               w == ClearThreadWaiting(v, t, m)
    <1>1. CASE v.thread_states[t].waiting_mutex # m
        BY <1>1 DEF ClearThreadWaiting, Waiting
    <1>2. CASE v.thread_states[t].waiting_mutex = m /\ m = None
        BY <1>2 DEF ClearThreadWaiting, Waiting
    <1>3. CASE v.thread_states[t].waiting_mutex = m /\ m # None
        <2>1. /\ w.mutex_states = v.mutex_states
              /\ w.thread_states = [v.thread_states EXCEPT ![t] = s]
            BY <1>3 DEF ClearThreadWaiting, VerifierState
        <2>2. s.waiting_mutex = None
            <3>1. v.thread_states[t] \in ThreadState
                BY ThreadFields
            <3> QED
                BY <3>1 DEF ThreadState
        <2> HIDE DEF s, w
        <2>3. Waiting(w, t) = None
            BY <2>1, <2>2, WaitReplaced
        <2> QED
            BY <2>1, <2>3 DEF w
    <1> QED
        BY <1>1, <1>2, <1>3

\* The held mutexes and the flag of an exited thread are not its wait.
LEMMA EntryApart ==
    ASSUME NEW v \in VerifierState, NEW t \in Thread, NEW s,
           s.waiting_mutex = Waiting(v, t),
           NEW w, w.thread_states = [v.thread_states EXCEPT ![t] = s]
    PROVE  Waiting(w, t) = Waiting(v, t)
    BY WaitReplaced

LEMMA ExitedApart ==
    ASSUME NEW v \in VerifierState, NEW t \in Thread, NEW b
    PROVE  LET w == [v EXCEPT !.thread_states[t].exited = b] IN
           w.mutex_states = v.mutex_states /\ Waiting(w, t) = Waiting(v, t)
    <1> DEFINE s == [v.thread_states[t] EXCEPT !.exited = b]
               w == [v EXCEPT !.thread_states[t].exited = b]
    <1>1. /\ w.mutex_states = v.mutex_states
          /\ w.thread_states = [v.thread_states EXCEPT ![t] = s]
        BY DEF VerifierState
    <1>2. s.waiting_mutex = Waiting(v, t)
        <2>1. v.thread_states[t] \in ThreadState
            BY ThreadFields
        <2> QED
            BY <2>1 DEF ThreadState, Waiting
    <1> HIDE DEF s, w
    <1>3. Waiting(w, t) = Waiting(v, t)
        BY <1>1, <1>2, EntryApart
    <1> QED
        BY <1>1, <1>3 DEF w

LEMMA AddHeldApart ==
    ASSUME NEW v \in VerifierState, NEW e, e.thread_id \in Thread
    PROVE  LET w == AddHeldMutex(v, e) IN
           /\ w.mutex_states = v.mutex_states
           /\ Waiting(w, e.thread_id) = Waiting(v, e.thread_id)
    <1> DEFINE t == e.thread_id
               m == e.object
               k == v.thread_states[t].depth[m] + 1
               deeper == [v.thread_states[t].depth EXCEPT ![m] = k]
               held == [v.thread_states[t].depth EXCEPT ![m] = 1]
               since == [v.thread_states[t].since EXCEPT ![m] = e.timestamp]
               r == [v.thread_states[t] EXCEPT !.depth = deeper]
               s == [v.thread_states[t] EXCEPT !.depth = held, !.since = since]
               w == AddHeldMutex(v, e)
    <1>1. v.thread_states[t] \in ThreadState
        BY ThreadFields
    <1>2. r.waiting_mutex = Waiting(v, t) /\ s.waiting_mutex = Waiting(v, t)
        <2> HIDE DEF deeper, held, since
        <2> QED
            BY <1>1 DEF ThreadState, Waiting
    <1>3. CASE v.thread_states[t].trace_tainted
        BY <1>3 DEF AddHeldMutex
    <1>4. CASE /\ ~v.thread_states[t].trace_tainted /\ m \in HeldMutexes(v, t)
        <2>1. w = [v EXCEPT !.thread_states[t].depth[m] = k]
            BY <1>4 DEF AddHeldMutex
        <2>2. /\ w.mutex_states = v.mutex_states
              /\ w.thread_states = [v.thread_states EXCEPT ![t] = r]
            <3> HIDE DEF w, k
            <3> QED
                BY <2>1 DEF VerifierState, deeper, r
        <2> HIDE DEF r, w
        <2>3. Waiting(w, t) = Waiting(v, t)
            BY <1>2, <2>2, EntryApart
        <2> QED
            BY <2>2, <2>3 DEF w
    <1>5. CASE /\ ~v.thread_states[t].trace_tainted /\ m \notin HeldMutexes(v, t)
               /\ Cardinality(HeldMutexes(v, t)) >= VerifierHeld
        <2>1. w = [v EXCEPT !.state_overflow_events = @ + 1]
            BY <1>5 DEF AddHeldMutex
        <2>2. w.thread_states = v.thread_states /\ w.mutex_states = v.mutex_states
            BY <2>1 DEF VerifierState
        <2> QED
            BY <2>2 DEF Waiting
    <1>6. CASE /\ ~v.thread_states[t].trace_tainted /\ m \notin HeldMutexes(v, t)
               /\ ~(Cardinality(HeldMutexes(v, t)) >= VerifierHeld)
        <2>1. w = [v EXCEPT !.thread_states[t] =
                     [@ EXCEPT !.depth[m] = 1, !.since[m] = e.timestamp]]
            BY <1>6 DEF AddHeldMutex
        <2>2. /\ w.mutex_states = v.mutex_states
              /\ w.thread_states = [v.thread_states EXCEPT ![t] = s]
            <3> HIDE DEF w
            <3> QED
                BY <2>1 DEF VerifierState, held, since, s
        <2> HIDE DEF s, w
        <2>3. Waiting(w, t) = Waiting(v, t)
            BY <1>2, <2>2, EntryApart
        <2> QED
            BY <2>2, <2>3 DEF w
    <1> QED
        BY <1>3, <1>4, <1>5, <1>6

LEMMA ReleaseHeldApart ==
    ASSUME NEW v \in VerifierState, NEW e, e.thread_id \in Thread
    PROVE  LET w == ReleaseHeldMutex(v, e) IN
           /\ w.mutex_states = v.mutex_states
           /\ Waiting(w, e.thread_id) = Waiting(v, e.thread_id)
    <1> DEFINE t == e.thread_id
               m == e.object
               k == v.thread_states[t].depth[m] - 1
               h == IF HeldTooLong(v, e) THEN ReportHoldTimeViolation(v) ELSE v
               less == [v.thread_states[t].depth EXCEPT ![m] = k]
               depth == [h.thread_states[t].depth EXCEPT ![m] = 0]
               since == [h.thread_states[t].since EXCEPT ![m] = 0]
               r == [v.thread_states[t] EXCEPT !.depth = less]
               s == [h.thread_states[t] EXCEPT !.depth = depth, !.since = since]
               w == ReleaseHeldMutex(v, e)
    <1>1. v.thread_states[t] \in ThreadState
        BY ThreadFields
    <1>2. /\ h.mutex_states = v.mutex_states /\ h.thread_states = v.thread_states
          /\ DOMAIN h = DOMAIN v
        BY DEF ReportHoldTimeViolation, VerifierState
    <1>3. CASE v.thread_states[t].trace_tainted \/ m \notin HeldMutexes(v, t)
        BY <1>3 DEF ReleaseHeldMutex
    <1>4. CASE /\ ~(v.thread_states[t].trace_tainted \/ m \notin HeldMutexes(v, t))
               /\ v.thread_states[t].depth[m] > 1
        <2>1. w = [v EXCEPT !.thread_states[t].depth[m] = k]
            BY <1>4 DEF ReleaseHeldMutex
        <2>2. /\ w.mutex_states = v.mutex_states
              /\ w.thread_states = [v.thread_states EXCEPT ![t] = r]
            <3> HIDE DEF w, k
            <3> QED
                BY <2>1 DEF VerifierState, less, r
        <2>3. r.waiting_mutex = Waiting(v, t)
            <3> HIDE DEF less
            <3> QED
                BY <1>1 DEF ThreadState, Waiting
        <2> HIDE DEF r, w
        <2>4. Waiting(w, t) = Waiting(v, t)
            BY <2>2, <2>3, EntryApart
        <2> QED
            BY <2>2, <2>4 DEF w
    <1>5. CASE /\ ~(v.thread_states[t].trace_tainted \/ m \notin HeldMutexes(v, t))
               /\ ~(v.thread_states[t].depth[m] > 1)
        <2>1. w = [h EXCEPT !.thread_states[t] = [@ EXCEPT !.depth[m] = 0, !.since[m] = 0]]
            BY <1>5 DEF ReleaseHeldMutex
        <2>2. /\ w.mutex_states = v.mutex_states
              /\ w.thread_states = [v.thread_states EXCEPT ![t] = s]
            <3> HIDE DEF w, h
            <3> QED
                BY <1>2, <2>1 DEF VerifierState, depth, since, s
        <2>3. s.waiting_mutex = Waiting(v, t)
            <3> HIDE DEF depth, since, h
            <3> QED
                BY <1>1, <1>2 DEF ThreadState, Waiting
        <2> HIDE DEF s, w
        <2>4. Waiting(w, t) = Waiting(v, t)
            BY <2>2, <2>3, EntryApart
        <2> QED
            BY <2>2, <2>4 DEF w
    <1> QED
        BY <1>3, <1>4, <1>5

\* mark_thread_stream_tainted
LEMMA TaintTable ==
    ASSUME NEW v, Consistent(v), NEW t \in Thread, NEW barrier, NEW e
    PROVE  TableStep(v, MarkThreadStreamTainted(v, t, barrier), e)
    <1>0. v \in VerifierState
        BY DEF Consistent
    <1>1. CASE v.thread_states[t].trace_tainted
        BY <1>1, TableSame DEF MarkThreadStreamTainted
    <1>2. CASE ~v.thread_states[t].trace_tainted
        <2> DEFINE c == ClearThreadWaiting(v, t, v.thread_states[t].waiting_mutex)
                   x == [c EXCEPT !.tainted_thread_streams = @ + 1,
                                  !.thread_states[t] = [@ EXCEPT !.trace_tainted = TRUE,
                                                 !.depth = [m \in Mutex |-> 0],
                                                 !.since = [m \in Mutex |-> 0]]]
        <2>1. c \in VerifierState /\ c.mutex_states = v.mutex_states
            <3>1. v.thread_states[t].waiting_mutex \in Mutex \cup {None}
                BY <1>0, ThreadFields
            <3> QED
                BY <1>0, <3>1, ClearWaiting, ClearWaitingApart DEF Consistent
        <2>2. MarkThreadStreamTainted(v, t, barrier) = InvalidateMutexes(x, t, barrier)
            BY <1>2 DEF MarkThreadStreamTainted
        <2> HIDE DEF c
        <2>3. /\ x.mutex_states = v.mutex_states
              /\ {"mutex_states", "thread_states"} \subseteq DOMAIN x
            BY <2>1 DEF VerifierState
        <2> HIDE DEF x
        <2>4. x.mutex_states \in [Mutex -> MutexState]
            BY <1>0, <2>3, Fields
        <2>5. TableStep(x, InvalidateMutexes(x, t, barrier), e)
            BY <2>3, <2>4, InvalidateTable
        <2> QED
            BY <2>2, <2>3, <2>5, TableSame, TableTwice
    <1> QED
        BY <1>1, <1>2

\* observe_thread_sequence: without a gap nothing is invalidated.
LEMMA ObserveTable ==
    ASSUME NEW v, Consistent(v), NEW e \in MonitorEvent
    PROVE  LET t == e.thread_id
               w == ObserveThreadSequence(v, e) IN
           /\ TableStep(v, w, e)
           /\ e.thread_sequence = v.thread_states[t].next_expected_sequence =>
                w.mutex_states = v.mutex_states /\ Waiting(w, t) = Waiting(v, t)
    <1> DEFINE t == e.thread_id
               gap == e.thread_sequence # v.thread_states[t].next_expected_sequence
               g == [v EXCEPT !.detected_stream_gaps = @ + 1]
               c == IF gap THEN MarkThreadStreamTainted(g, t, e.sequence_id) ELSE v
               n == e.thread_sequence + 1
               r == [c.thread_states[t] EXCEPT !.next_expected_sequence = n]
               w == ObserveThreadSequence(v, e)
    <1>0. t \in Thread /\ v \in VerifierState
        BY EventFields DEF Consistent
    <1>1. Consistent(g) /\ g.mutex_states = v.mutex_states
        BY <1>0, Counters DEF VerifierState
    <1> HIDE DEF g
    <1>2. c \in VerifierState /\ TableStep(v, c, e) /\ (~gap => c = v)
        <2>1. CASE gap
            <3>1. TableStep(v, g, e)
                BY <1>1, TableSame
            <3>2. TableStep(g, MarkThreadStreamTainted(g, t, e.sequence_id), e)
                BY <1>0, <1>1, TaintTable
            <3>3. MarkThreadStreamTainted(g, t, e.sequence_id) \in VerifierState
                BY <1>0, <1>1, EventFields, MarkTainted DEF Consistent
            <3> QED
                BY <2>1, <3>1, <3>2, <3>3, TableTwice
        <2>2. CASE ~gap
            BY <1>0, <2>2, TableSame
        <2> QED
            BY <2>1, <2>2
    <1>3. w = [c EXCEPT !.thread_states[t].next_expected_sequence = n]
        BY DEF ObserveThreadSequence, g
    <1> HIDE DEF c, n, w
    <1>4. /\ w.mutex_states = c.mutex_states
          /\ w.thread_states = [c.thread_states EXCEPT ![t] = r]
        BY <1>2, <1>3 DEF VerifierState
    <1>5. r.waiting_mutex = Waiting(c, t)
        <2>1. c.thread_states[t] \in ThreadState
            BY <1>0, <1>2, ThreadFields
        <2> QED
            BY <2>1 DEF ThreadState, Waiting
    <1> HIDE DEF r
    <1>6. Waiting(w, t) = Waiting(c, t)
        BY <1>0, <1>2, <1>4, <1>5, EntryApart
    <1>7. TableStep(v, w, e)
        BY <1>2, <1>4, TableSame, TableTwice
    <1> QED
        BY <1>2, <1>4, <1>6, <1>7 DEF w

\* find_thread(id, true)
LEMMA FindThreadApart ==
    ASSUME NEW v \in VerifierState, NEW t \in Thread
    PROVE  LET w == FindOrCreateThread(v, t) IN
           w.mutex_states = v.mutex_states /\ Waiting(w, t) = Waiting(v, t)
    <1> DEFINE j == Cardinality(KnownThreads(v)) + 1
               s == [v.thread_states[t] EXCEPT !.slot = j]
               w == FindOrCreateThread(v, t)
    <1>1. CASE t \in KnownThreads(v)
        BY <1>1 DEF FindOrCreateThread
    <1>2. CASE /\ t \notin KnownThreads(v)
               /\ Cardinality(KnownThreads(v)) < VerifierThreads
        <2>1. w = [v EXCEPT !.thread_states[t].slot = j]
            BY <1>2 DEF FindOrCreateThread
        <2>2. /\ w.mutex_states = v.mutex_states
              /\ w.thread_states = [v.thread_states EXCEPT ![t] = s]
            <3> HIDE DEF w, j
            <3> QED
                BY <2>1 DEF VerifierState, s
        <2>3. s.waiting_mutex = Waiting(v, t)
            <3>1. v.thread_states[t] \in ThreadState
                BY ThreadFields
            <3> HIDE DEF j
            <3> QED
                BY <3>1 DEF ThreadState, Waiting
        <2> HIDE DEF s, w
        <2>4. Waiting(w, t) = Waiting(v, t)
            BY <2>2, <2>3, EntryApart
        <2> QED
            BY <2>2, <2>4 DEF w
    <1>3. CASE /\ t \notin KnownThreads(v)
               /\ ~(Cardinality(KnownThreads(v)) < VerifierThreads)
        <2>1. w = [v EXCEPT !.state_overflow_events = @ + 1]
            BY <1>3 DEF FindOrCreateThread
        <2>2. w.mutex_states = v.mutex_states /\ w.thread_states = v.thread_states
            BY <2>1 DEF VerifierState
        <2> QED
            BY <2>2 DEF Waiting
    <1> QED
        BY <1>1, <1>2, <1>3

\* What a handler does to the wait of its thread and to the mutex table.
HandleStep(v, w, e) ==
    LET t == e.thread_id
        m == e.object IN
    /\ TableStep(v, w, e)
    /\ e.event_type = "LOCK_REQUEST" => Waiting(w, t) = m
    /\ e.event_type # "LOCK_REQUEST" => Waiting(w, t) \in {None, Waiting(v, t)}
    /\ e.event_type \in {"LOCK_ACQUIRED", "LOCK_FAILED"} =>
          Waiting(w, t) # m \/ Lost(w, m)
    /\ e.event_type \notin {"LOCK_ACQUIRED", "UNLOCKED"} =>
          \A q \in Mutex : w.mutex_states[q].owner = v.mutex_states[q].owner
    /\ e.event_type = "UNLOCKED" /\ w.mutex_states[m].owner = t =>
          \/ ~Tainted(v, t) /\ v.thread_states[t].depth[m] > 1
          \/ /\ v.mutex_states[m].owner = t
             /\ ~(e.sequence_id >= v.mutex_states[m].last_state_sequence)

LEMMA HandleEffect ==
    ASSUME NEW v, Consistent(v), NEW e \in MonitorEvent,
           \A q \in Mutex : ~v.mutex_states[q].used => v.mutex_states[q].owner = None
    PROVE  HandleStep(v, Handle(v, e), e)
    <1> DEFINE t == e.thread_id
               m == e.object
               s == v.thread_states[t]
    <1>0. /\ v \in VerifierState /\ t \in Thread /\ WellFormed(e) /\ t # None
          /\ e.sequence_id \in Nat /\ e.timestamp \in Nat
        BY EventFields, VerifierAssumption DEF Consistent
    <1>1. s.waiting_mutex \in Mutex \cup {None}
        BY <1>0, ThreadFields
    <1>2. CASE e.event_type = "THREAD_START"
        <2>1. /\ HandleThreadStart(v, e).mutex_states = v.mutex_states
              /\ Waiting(HandleThreadStart(v, e), t) = Waiting(v, t)
            BY <1>0, ExitedApart DEF HandleThreadStart
        <2>2. Handle(v, e) = HandleThreadStart(v, e)
            BY <1>2 DEF Handle
        <2> QED
            BY <1>2, <2>1, <2>2, TableSame DEF HandleStep
    <1>3. CASE e.event_type = "THREAD_EXIT"
        <2> DEFINE held == ~s.trace_tainted /\ HeldMutexes(v, t) # {}
                   w == IF held THEN ReportLockHeldAtThreadExit(v) ELSE v
                   c == ClearThreadWaiting(w, t, s.waiting_mutex)
                   x == [c EXCEPT !.thread_states[t].exited = TRUE]
        <2>1. /\ Consistent(w) /\ w.mutex_states = v.mutex_states
              /\ w.thread_states = v.thread_states
            BY <1>0, Counters, ReportsApart
        <2> HIDE DEF w
        <2>2. /\ Consistent(c) /\ c.mutex_states = v.mutex_states
              /\ Waiting(c, t) \in {None, Waiting(v, t)}
            BY <1>0, <1>1, <2>1, ClearWaiting, ClearWaitingApart DEF Consistent, Waiting
        <2> HIDE DEF c
        <2>3. x.mutex_states = c.mutex_states /\ Waiting(x, t) = Waiting(c, t)
            BY <1>0, <2>2, ExitedApart DEF Consistent
        <2>4. Handle(v, e) = x
            BY <1>3 DEF Handle, HandleThreadExit, w, c
        <2> HIDE DEF x
        <2> QED
            BY <1>3, <2>2, <2>3, <2>4, TableSame DEF HandleStep
    <1>4. CASE e.event_type = "LOCK_REQUEST"
        <2> DEFINE f == FindOrCreateMutex(v, m)
                   self == ~s.trace_tainted /\ m \in HeldMutexes(v, t)
                   w == IF self THEN ReportSelfDeadlockCandidate(f) ELSE f
                   x == SetThreadWaiting(w, t, m)
        <2>0. m \in Mutex
            BY <1>4, EventFields DEF MutexEvent
        <2>1. /\ Consistent(f) /\ TableStep(v, f, e)
              /\ \A q \in Mutex : f.mutex_states[q].owner = v.mutex_states[q].owner
            BY <1>0, <2>0, FindMutex, FindMutexTable
        <2> HIDE DEF f
        <2>2. Consistent(w) /\ w.mutex_states = f.mutex_states
            BY <2>1, Counters, ReportsApart DEF Consistent
        <2> HIDE DEF w
        <2>3. x.mutex_states = w.mutex_states /\ Waiting(x, t) = m
            BY <1>0, <2>2, SetWaitingApart DEF Consistent
        <2>4. Handle(v, e) = x
            BY <1>4 DEF Handle, HandleLockRequest, f, w
        <2> HIDE DEF x
        <2>5. TableStep(v, x, e)
            BY <2>1, <2>2, <2>3, TableSame, TableTwice
        <2> QED
            BY <1>4, <2>1, <2>2, <2>3, <2>4, <2>5 DEF HandleStep
    <1>5. CASE e.event_type = "LOCK_ACQUIRED"
        <2> DEFINE f == FindOrCreateMutex(v, m)
                   c == ClearThreadWaiting(f, t, m)
                   w == AddHeldMutex(c, e)
                   x == SetOwner(w, e, t)
        <2>0. m \in Mutex
            BY <1>5, EventFields DEF MutexEvent
        <2>1. /\ Consistent(f) /\ TableStep(v, f, e) /\ Waiting(f, t) = Waiting(v, t)
              /\ m \in KnownMutexes(f) \/ Lost(f, m)
            BY <1>0, <2>0, FindMutex, FindMutexTable DEF Waiting
        <2>2. Handle(v, e) = IF m \notin KnownMutexes(f) THEN f ELSE x
            BY <1>5 DEF Handle, HandleLockAcquired
        <2> HIDE DEF f
        <2>3. /\ Consistent(c) /\ c.mutex_states = f.mutex_states
              /\ Waiting(c, t) = None \/ (Waiting(c, t) = Waiting(f, t) /\ Waiting(f, t) # m)
            BY <1>0, <2>0, <2>1, ClearWaiting, ClearWaitingApart DEF Consistent
        <2> HIDE DEF c
        <2>4. /\ Consistent(w) /\ w.mutex_states = c.mutex_states
              /\ Waiting(w, t) = Waiting(c, t)
            BY <1>0, <2>0, <2>3, AddHeld, AddHeldApart DEF Consistent
        <2> HIDE DEF w
        <2>5. CASE m \notin KnownMutexes(f)
            BY <1>5, <2>1, <2>2, <2>5 DEF HandleStep
        <2>6. CASE m \in KnownMutexes(f)
            <3>1. m \in KnownMutexes(w)
                BY <2>3, <2>4, <2>6 DEF KnownMutexes
            <3>2. TableStep(w, x, e) /\ x.thread_states = w.thread_states
                BY <2>4, <3>1, SetOwnerTable DEF Consistent
            <3> HIDE DEF x
            <3>3. TableStep(f, w, e)
                BY <2>3, <2>4, TableSame
            <3>4. TableStep(v, x, e)
                BY <2>1, <3>2, <3>3, TableTwice
            <3>5. Waiting(x, t) = Waiting(w, t)
                BY <3>2 DEF Waiting
            <3>6. m # None
                BY <2>0, VerifierAssumption
            <3> QED
                BY <1>5, <2>1, <2>2, <2>3, <2>4, <2>6, <3>4, <3>5, <3>6 DEF HandleStep
        <2> QED
            BY <2>5, <2>6
    <1>6. CASE e.event_type = "LOCK_FAILED"
        <2> DEFINE w == HandleLockFailed(v, e)
        <2>0. m \in Mutex /\ m # None
            BY <1>6, EventFields, VerifierAssumption DEF MutexEvent
        <2>1. /\ w.mutex_states = v.mutex_states
              /\ Waiting(w, t) = None \/ (Waiting(w, t) = Waiting(v, t) /\ Waiting(v, t) # m)
            BY <1>0, <2>0, ClearWaitingApart DEF HandleLockFailed
        <2>2. Handle(v, e) = w
            BY <1>6 DEF Handle
        <2> HIDE DEF w
        <2> QED
            BY <1>6, <2>0, <2>1, <2>2, TableSame DEF HandleStep
    <1>7. CASE e.event_type = "UNLOCKED"
        <2> DEFINE f == FindOrCreateMutex(v, m)
                   w == ReleaseHeldMutex(f, e)
                   owner == IF FullyReleased(v, e) THEN None ELSE t
                   x == SetOwner(w, e, owner)
        <2>0. m \in Mutex
            BY <1>7, EventFields DEF MutexEvent
        <2>1. /\ Consistent(f) /\ TableStep(v, f, e) /\ Waiting(f, t) = Waiting(v, t)
              /\ f.mutex_states[m].owner = v.mutex_states[m].owner
              /\ f.mutex_states[m].last_state_sequence = v.mutex_states[m].last_state_sequence
            BY <1>0, <2>0, FindMutex, FindMutexTable DEF Waiting
        <2>2. Handle(v, e) = IF m \in KnownMutexes(w) THEN x ELSE w
            BY <1>7 DEF Handle, HandleUnlocked
        <2> HIDE DEF f
        <2>3. /\ Consistent(w) /\ w.mutex_states = f.mutex_states
              /\ Waiting(w, t) = Waiting(f, t)
            BY <1>0, <2>0, <2>1, ReleaseHeld, ReleaseHeldApart DEF Consistent
        <2> HIDE DEF w
        <2>4. TableStep(v, w, e)
            BY <2>1, <2>3, TableSame, TableTwice
        <2>5. CASE m \notin KnownMutexes(w)
            <3>1. ~v.mutex_states[m].used
                BY <2>0, <2>4, <2>5 DEF TableStep, KnownMutexes
            <3>2. w.mutex_states[m].owner = None
                BY <2>0, <2>1, <2>3, <3>1
            <3> QED
                BY <1>0, <1>7, <2>1, <2>2, <2>3, <2>4, <2>5, <3>2 DEF HandleStep
        <2>6. CASE m \in KnownMutexes(w)
            <3>1. owner \in {None, t} /\ (owner = t => ~FullyReleased(v, e))
                BY <1>0
            <3> HIDE DEF owner
            <3>2. /\ TableStep(w, x, e) /\ x.thread_states = w.thread_states
                  /\ x.mutex_states[m].owner =
                       IF e.sequence_id >= w.mutex_states[m].last_state_sequence
                       THEN owner ELSE w.mutex_states[m].owner
                BY <2>3, <2>6, <3>1, SetOwnerTable DEF Consistent
            <3> HIDE DEF x
            <3>3. TableStep(v, x, e)
                BY <2>4, <3>2, TableTwice
            <3>4. Waiting(x, t) = Waiting(v, t)
                BY <2>1, <2>3, <3>2 DEF Waiting
            <3>5. ~FullyReleased(v, e) => ~Tainted(v, t) /\ v.thread_states[t].depth[m] > 1
                <4>1. v.thread_states[t].depth[m] \in Nat
                    BY <1>0, <2>0, ThreadFields
                <4> QED
                    BY <4>1 DEF FullyReleased, Tainted
            <3> QED
                BY <1>7, <2>1, <2>2, <2>3, <2>6, <3>1, <3>2, <3>3, <3>4, <3>5 DEF HandleStep
        <2> QED
            BY <2>5, <2>6
    <1>8. CASE e.event_type = "UNLOCK_FAILED"
        <2> DEFINE w == HandleUnlockFailed(v, e)
        <2>1. w.thread_states = v.thread_states /\ w.mutex_states = v.mutex_states
            BY <1>0, ReportsApart DEF HandleUnlockFailed
        <2>2. Handle(v, e) = w
            BY <1>8 DEF Handle
        <2> HIDE DEF w
        <2> QED
            BY <1>8, <2>1, <2>2, TableSame DEF HandleStep, Waiting
    <1> QED
        BY <1>0, <1>2, <1>3, <1>4, <1>5, <1>6, <1>7, <1>8 DEF WellFormed, LifecycleEvent,
           MutexEvent

\* No event reports a cycle, and the handlers leave the candidate cycle alone.
Found(v) == <<v.candidate_cycle, v.deadlock_cycle_violations>>

LEMMA CycleApart ==
    ASSUME NEW v \in VerifierState
    PROVE  /\ \A t : Found(FindOrCreateThread(v, t)) = Found(v)
           /\ \A m : Found(FindOrCreateMutex(v, m)) = Found(v)
           /\ \A t, m : Found(SetThreadWaiting(v, t, m)) = Found(v)
           /\ \A t, m : Found(ClearThreadWaiting(v, t, m)) = Found(v)
           /\ \A e : Found(AddHeldMutex(v, e)) = Found(v)
           /\ \A e : Found(ReleaseHeldMutex(v, e)) = Found(v)
           /\ \A e, b : Found(SetOwner(v, e, b)) = Found(v)
           /\ Found(ReportSelfDeadlockCandidate(v)) = Found(v)
           /\ Found(ReportNonOwnerUnlock(v)) = Found(v)
           /\ Found(ReportLockHeldAtThreadExit(v)) = Found(v)
    <1>1. \A t : Found(FindOrCreateThread(v, t)) = Found(v)
        BY DEF Found, VerifierState, FindOrCreateThread
    <1>2. \A m : Found(FindOrCreateMutex(v, m)) = Found(v)
        BY DEF Found, VerifierState, FindOrCreateMutex
    <1>3. \A t, m : Found(SetThreadWaiting(v, t, m)) = Found(v)
        BY DEF Found, VerifierState, SetThreadWaiting
    <1>4. \A t, m : Found(ClearThreadWaiting(v, t, m)) = Found(v)
        BY DEF Found, VerifierState, ClearThreadWaiting
    <1>5. \A e : Found(AddHeldMutex(v, e)) = Found(v)
        BY DEF Found, VerifierState, AddHeldMutex
    <1>6. \A e : Found(ReleaseHeldMutex(v, e)) = Found(v)
        BY DEF Found, VerifierState, ReleaseHeldMutex, ReportHoldTimeViolation
    <1>7. \A e, b : Found(SetOwner(v, e, b)) = Found(v)
        BY DEF Found, VerifierState, SetOwner
    <1>8. /\ Found(ReportSelfDeadlockCandidate(v)) = Found(v)
          /\ Found(ReportNonOwnerUnlock(v)) = Found(v)
          /\ Found(ReportLockHeldAtThreadExit(v)) = Found(v)
        BY DEF Found, VerifierState, ReportSelfDeadlockCandidate, ReportNonOwnerUnlock,
           ReportLockHeldAtThreadExit
    <1> QED
        BY <1>1, <1>2, <1>3, <1>4, <1>5, <1>6, <1>7, <1>8

LEMMA ExitedCycle ==
    ASSUME NEW v \in VerifierState, NEW t, NEW b
    PROVE  Found([v EXCEPT !.thread_states[t].exited = b]) = Found(v)
    BY DEF Found, VerifierState

LEMMA HandleCycle ==
    ASSUME NEW v, Consistent(v), NEW e \in MonitorEvent
    PROVE  Found(Handle(v, e)) = Found(v)
    <1> DEFINE t == e.thread_id
               m == e.object
               s == v.thread_states[t]
               f == FindOrCreateMutex(v, m)
    <1>0. /\ v \in VerifierState /\ t \in Thread /\ WellFormed(e)
          /\ e.sequence_id \in Nat /\ e.timestamp \in Nat
        BY EventFields DEF Consistent
    <1>1. s.waiting_mutex \in Mutex \cup {None}
        BY <1>0, ThreadFields
    <1>2. ASSUME m \in Mutex PROVE Consistent(f) /\ Found(f) = Found(v)
        BY <1>0, <1>2, FindMutex, CycleApart
    <1>3. CASE e.event_type = "THREAD_START"
        <2>1. Handle(v, e) = [v EXCEPT !.thread_states[t].exited = FALSE]
            BY <1>3 DEF Handle, HandleThreadStart
        <2>2. Found([v EXCEPT !.thread_states[t].exited = FALSE]) = Found(v)
            BY <1>0, ExitedCycle
        <2> QED
            BY <2>1, <2>2
    <1>4. CASE e.event_type = "THREAD_EXIT"
        <2> DEFINE held == ~s.trace_tainted /\ HeldMutexes(v, t) # {}
                   w == IF held THEN ReportLockHeldAtThreadExit(v) ELSE v
                   c == ClearThreadWaiting(w, t, s.waiting_mutex)
                   x == [c EXCEPT !.thread_states[t].exited = TRUE]
        <2>1. Consistent(w) /\ Found(w) = Found(v)
            BY <1>0, Counters, CycleApart
        <2> HIDE DEF w
        <2>2. Consistent(c) /\ Found(c) = Found(w)
            BY <1>0, <1>1, <2>1, ClearWaiting, CycleApart DEF Consistent
        <2> HIDE DEF c
        <2>3. Found(x) = Found(c)
            BY <2>2, ExitedCycle DEF Consistent
        <2>4. Handle(v, e) = x
            BY <1>4 DEF Handle, HandleThreadExit, w, c
        <2> QED
            BY <2>1, <2>2, <2>3, <2>4
    <1>5. CASE e.event_type = "LOCK_REQUEST"
        <2> DEFINE self == ~s.trace_tainted /\ m \in HeldMutexes(v, t)
                   w == IF self THEN ReportSelfDeadlockCandidate(f) ELSE f
        <2>1. m \in Mutex
            BY <1>5, EventFields DEF MutexEvent
        <2>2. Consistent(w) /\ Found(w) = Found(f)
            <3> HIDE DEF f
            <3> QED
                BY <1>2, <2>1, Counters, CycleApart DEF Consistent
        <2>3. Handle(v, e) = SetThreadWaiting(w, t, m)
            BY <1>5 DEF Handle, HandleLockRequest
        <2> HIDE DEF w, f
        <2> QED
            BY <1>2, <2>1, <2>2, <2>3, CycleApart DEF Consistent
    <1>6. CASE e.event_type = "LOCK_ACQUIRED"
        <2> DEFINE c == ClearThreadWaiting(f, t, m)
                   w == AddHeldMutex(c, e)
        <2>1. m \in Mutex
            BY <1>6, EventFields DEF MutexEvent
        <2>2. Handle(v, e) \in {f, SetOwner(w, e, t)}
            BY <1>6 DEF Handle, HandleLockAcquired
        <2> HIDE DEF f
        <2>3. Consistent(c) /\ Found(c) = Found(f)
            BY <1>0, <1>2, <2>1, ClearWaiting, CycleApart DEF Consistent
        <2> HIDE DEF c
        <2>4. Consistent(w) /\ Found(w) = Found(c)
            BY <1>0, <2>1, <2>3, AddHeld, CycleApart DEF Consistent
        <2> HIDE DEF w
        <2>5. Found(SetOwner(w, e, t)) = Found(w)
            BY <2>4, CycleApart DEF Consistent
        <2> QED
            BY <1>2, <2>1, <2>2, <2>3, <2>4, <2>5
    <1>7. CASE e.event_type = "LOCK_FAILED"
        BY <1>0, <1>7, CycleApart DEF Handle, HandleLockFailed
    <1>8. CASE e.event_type = "UNLOCKED"
        <2> DEFINE w == ReleaseHeldMutex(f, e)
                   owner == IF FullyReleased(v, e) THEN None ELSE t
        <2>1. m \in Mutex
            BY <1>8, EventFields DEF MutexEvent
        <2>2. Handle(v, e) \in {w, SetOwner(w, e, owner)}
            BY <1>8 DEF Handle, HandleUnlocked
        <2> HIDE DEF f, owner
        <2>3. Consistent(w) /\ Found(w) = Found(f)
            BY <1>0, <1>2, <2>1, ReleaseHeld, CycleApart DEF Consistent
        <2> HIDE DEF w
        <2>4. Found(SetOwner(w, e, owner)) = Found(w)
            BY <2>3, CycleApart DEF Consistent
        <2> QED
            BY <1>2, <2>1, <2>2, <2>3, <2>4
    <1>9. CASE e.event_type = "UNLOCK_FAILED"
        BY <1>0, <1>9, CycleApart DEF Handle, HandleUnlockFailed
    <1> QED
        BY <1>0, <1>3, <1>4, <1>5, <1>6, <1>7, <1>8, <1>9 DEF WellFormed, LifecycleEvent,
           MutexEvent

LEMMA TaintFound ==
    ASSUME NEW v, Consistent(v), NEW t \in Thread, NEW barrier
    PROVE  Found(MarkThreadStreamTainted(v, t, barrier)) = Found(v)
    <1>0. v \in VerifierState
        BY DEF Consistent
    <1>1. CASE v.thread_states[t].trace_tainted
        BY <1>1 DEF MarkThreadStreamTainted
    <1>2. CASE ~v.thread_states[t].trace_tainted
        <2> DEFINE c == ClearThreadWaiting(v, t, v.thread_states[t].waiting_mutex)
                   x == [c EXCEPT !.tainted_thread_streams = @ + 1,
                                  !.thread_states[t] = [@ EXCEPT !.trace_tainted = TRUE,
                                                 !.depth = [m \in Mutex |-> 0],
                                                 !.since = [m \in Mutex |-> 0]]]
        <2>1. c \in VerifierState /\ Found(c) = Found(v)
            <3>1. v.thread_states[t].waiting_mutex \in Mutex \cup {None}
                BY <1>0, ThreadFields
            <3> QED
                BY <1>0, <3>1, ClearWaiting, CycleApart DEF Consistent
        <2>2. MarkThreadStreamTainted(v, t, barrier) = InvalidateMutexes(x, t, barrier)
            BY <1>2 DEF MarkThreadStreamTainted
        <2> HIDE DEF c
        <2>3. /\ Found(x) = Found(c)
              /\ {"candidate_cycle", "deadlock_cycle_violations"} \subseteq DOMAIN x
            BY <2>1 DEF Found, VerifierState
        <2> HIDE DEF x
        <2>4. Found(InvalidateMutexes(x, t, barrier)) = Found(x)
            BY <2>3 DEF Found, InvalidateMutexes
        <2> QED
            BY <2>1, <2>2, <2>3, <2>4
    <1> QED
        BY <1>1, <1>2

LEMMA ObserveFound ==
    ASSUME NEW v, Consistent(v), NEW e \in MonitorEvent
    PROVE  Found(ObserveThreadSequence(v, e)) = Found(v)
    <1> DEFINE t == e.thread_id
               gap == e.thread_sequence # v.thread_states[t].next_expected_sequence
               g == [v EXCEPT !.detected_stream_gaps = @ + 1]
               c == IF gap THEN MarkThreadStreamTainted(g, t, e.sequence_id) ELSE v
               n == e.thread_sequence + 1
    <1>0. t \in Thread /\ v \in VerifierState /\ e.sequence_id \in Nat
        BY EventFields DEF Consistent
    <1>1. Consistent(g) /\ Found(g) = Found(v)
        BY <1>0, Counters DEF Found, VerifierState
    <1>2. ObserveThreadSequence(v, e) = [c EXCEPT !.thread_states[t].next_expected_sequence = n]
        BY DEF ObserveThreadSequence
    <1> HIDE DEF g, n
    <1>3. c \in VerifierState /\ Found(c) = Found(v)
        BY <1>0, <1>1, MarkTainted, TaintFound DEF Consistent
    <1> HIDE DEF c
    <1> QED
        BY <1>2, <1>3 DEF Found, VerifierState

\* monitor_verifier_process_event, as far as the mutex table, the waits and the
\* candidate cycle go.
LEMMA ProcessTable ==
    ASSUME NEW v, Consistent(v), NEW e \in MonitorEvent,
           \A q \in Mutex : ~v.mutex_states[q].used => v.mutex_states[q].owner = None
    PROVE  LET t == e.thread_id
               w == ProcessEvent(v, e) IN
           /\ TableStep(v, w, e)
           /\ w.deadlock_cycle_violations = v.deadlock_cycle_violations
           /\ Overflowed(v, t) => /\ w.mutex_states = v.mutex_states
                                  /\ w.candidate_cycle = v.candidate_cycle
           /\ ~Overflowed(v, t) => w.candidate_cycle = {}
           /\ /\ ~Overflowed(v, t) /\ ~Tainted(v, t)
              /\ e.thread_sequence = Expected(v, t)
              => HandleStep(v, w, e)
    <1> DEFINE t == e.thread_id
               s == v.thread_states[t]
               gap == e.thread_sequence # s.next_expected_sequence
               n == v.processed_events + 1
               l == IF e.sequence_id > v.last_processed_sequence THEN e.sequence_id
                    ELSE v.last_processed_sequence
               counted == [v EXCEPT !.processed_events = n,
                                    !.last_processed_sequence = l]
               f == FindOrCreateThread(counted, t)
               o == ObserveThreadSequence(f, e)
               observed == [o EXCEPT !.candidate_cycle = {}, !.confirmations = 0]
               h == Handle(observed, e)
               w == ProcessEvent(v, e)
    <1>0. v \in VerifierState /\ t \in Thread /\ WellFormed(e)
        BY EventFields DEF Consistent
    <1>1. n \in Nat /\ l \in Nat
        BY <1>0, Fields DEF WellFormed
    <1>2. /\ Consistent(counted) /\ counted.thread_states = v.thread_states
          /\ counted.mutex_states = v.mutex_states /\ Found(counted) = Found(v)
        <2> HIDE DEF n, l
        <2>1. /\ counted \in VerifierState /\ counted.thread_states = v.thread_states
              /\ counted.waiting_thread_count = v.waiting_thread_count
              /\ counted.mutex_states = v.mutex_states /\ Found(counted) = Found(v)
            BY <1>0, <1>1 DEF Found, VerifierState
        <2> HIDE DEF counted
        <2> QED
            BY <2>1, ThreadsAlone
    <1>3. w = IF t \in KnownThreads(f) THEN h ELSE f
        BY DEF ProcessEvent
    <1>4. Overflowed(counted, t) <=> Overflowed(v, t)
        BY <1>2 DEF Overflowed, KnownThreads
    <1> HIDE DEF counted
    <1>5. /\ Consistent(f) /\ f.mutex_states = v.mutex_states
          /\ Found(f) = Found(v)
          /\ Waiting(f, t) = Waiting(v, t)
          /\ f.thread_states[t].trace_tainted = s.trace_tainted
          /\ f.thread_states[t].next_expected_sequence = s.next_expected_sequence
          /\ f.thread_states[t].depth = s.depth
          /\ Overflowed(v, t) => f.thread_states = v.thread_states
          /\ ~Overflowed(v, t) => f.thread_states[t].slot # 0
        <2>1. Consistent(f)
            BY <1>0, <1>2, FindThread
        <2>2. /\ f.thread_states[t].trace_tainted = counted.thread_states[t].trace_tainted
              /\ f.thread_states[t].next_expected_sequence
                   = counted.thread_states[t].next_expected_sequence
              /\ f.thread_states[t].depth = counted.thread_states[t].depth
              /\ Overflowed(counted, t) => f.thread_states = counted.thread_states
              /\ ~Overflowed(counted, t) => f.thread_states[t].slot # 0
            BY <1>0, <1>2, FindThreadEffect DEF Consistent
        <2>3. f.mutex_states = counted.mutex_states /\ Waiting(f, t) = Waiting(counted, t)
            BY <1>0, <1>2, FindThreadApart DEF Consistent
        <2>4. Found(f) = Found(counted)
            BY <1>2, CycleApart DEF Consistent
        <2> HIDE DEF f
        <2> QED
            BY <1>2, <1>4, <2>1, <2>2, <2>3, <2>4 DEF Waiting
    <1> HIDE DEF f
    <1>6. CASE Overflowed(v, t)
        <2>1. w = f
            BY <1>3, <1>5, <1>6 DEF KnownThreads, Overflowed
        <2> QED
            BY <1>5, <1>6, <2>1, TableSame DEF Found
    <1>7. CASE ~Overflowed(v, t)
        <2>1. w = h
            BY <1>0, <1>3, <1>5, <1>7 DEF KnownThreads
        <2>2. /\ Consistent(o) /\ TableStep(f, o, e) /\ Found(o) = Found(f)
              /\ ~gap => /\ o.mutex_states = f.mutex_states
                         /\ Waiting(o, t) = Waiting(f, t)
                         /\ o.thread_states[t].trace_tainted = s.trace_tainted
                         /\ o.thread_states[t].depth = s.depth
            <3>1. Consistent(o)
                BY <1>0, <1>5, Observe
            <3>2. e.thread_sequence = f.thread_states[t].next_expected_sequence =>
                       /\ o.thread_states[t].trace_tainted = f.thread_states[t].trace_tainted
                       /\ o.thread_states[t].depth = f.thread_states[t].depth
                BY <1>5, ObserveEffect
            <3>3. /\ TableStep(f, o, e)
                  /\ e.thread_sequence = f.thread_states[t].next_expected_sequence =>
                       o.mutex_states = f.mutex_states /\ Waiting(o, t) = Waiting(f, t)
                BY <1>5, ObserveTable
            <3>4. Found(o) = Found(f)
                BY <1>5, ObserveFound
            <3> HIDE DEF o
            <3> QED
                BY <1>5, <3>1, <3>2, <3>3, <3>4
        <2> HIDE DEF o
        <2>3. /\ Consistent(observed) /\ observed.thread_states = o.thread_states
              /\ observed.mutex_states = o.mutex_states /\ observed.candidate_cycle = {}
              /\ observed.deadlock_cycle_violations = o.deadlock_cycle_violations
            <3>1. {} \in SUBSET Thread /\ 0 \in 0 .. Confirmations
                BY VerifierAssumption
            <3>2. Consistent(observed)
                BY <2>2, <3>1, CycleFields
            <3>3. /\ observed.thread_states = o.thread_states
                  /\ observed.mutex_states = o.mutex_states /\ observed.candidate_cycle = {}
                  /\ observed.deadlock_cycle_violations = o.deadlock_cycle_violations
                BY <2>2 DEF VerifierState, Consistent
            <3> QED
                BY <3>2, <3>3
        <2> HIDE DEF observed
        <2>4. \A q \in Mutex : ~observed.mutex_states[q].used
                                 => observed.mutex_states[q].owner = None
            <3> SUFFICES ASSUME NEW q \in Mutex, ~observed.mutex_states[q].used
                         PROVE  observed.mutex_states[q].owner = None
                OBVIOUS
            <3>1. /\ q \notin KnownMutexes(f)
                  /\ o.mutex_states[q].owner = f.mutex_states[q].owner
                BY <2>2, <2>3 DEF TableStep, KnownMutexes
            <3> QED
                BY <1>5, <2>3, <3>1 DEF KnownMutexes
        <2>5. /\ HandleStep(observed, h, e) /\ h.candidate_cycle = {}
              /\ h.deadlock_cycle_violations = v.deadlock_cycle_violations
            BY <1>5, <2>2, <2>3, <2>4, HandleEffect, HandleCycle DEF Found
        <2> HIDE DEF h
        <2>6. TableStep(v, h, e)
            <3>1. TableStep(v, f, e) /\ TableStep(o, observed, e)
                BY <1>5, <2>3, TableSame
            <3>2. TableStep(observed, h, e)
                BY <2>5 DEF HandleStep
            <3> QED
                BY <2>2, <3>1, <3>2, TableTwice
        <2>7. ASSUME ~gap PROVE HandleStep(v, h, e)
            <3>1. /\ observed.mutex_states = v.mutex_states
                  /\ Waiting(observed, t) = Waiting(v, t)
                  /\ Tainted(observed, t) = Tainted(v, t)
                  /\ observed.thread_states[t].depth = s.depth
                BY <1>5, <2>2, <2>3, <2>7 DEF Waiting, Tainted
            <3> QED
                BY <2>5, <2>6, <3>1 DEF HandleStep
        <2> QED
            BY <1>7, <2>1, <2>5, <2>6, <2>7 DEF Expected
    <1> QED
        BY <1>6, <1>7

-----------------------------------------------------------------------------
(***************************************************************************)
(* While events are accepted, threads that may wait for each other do.     *)
(***************************************************************************)

\* Of a thread that waits in one of its last stances, the held mutexes are its own.
LEMMA WaitingStance ==
    ASSUME CallInv, Parts, NEW F, accept_events, EndInv(F), NEW c \in DOMAIN contexts,
           NEW x \in Stances(F, c), x.waits # None
    PROVE  /\ \A y \in Stances(F, c), m \in Mutex : m \in y.held => lock[m].owner = Owner(c)
           /\ \/ lock[x.waits].owner = Owner(c)
              \/ /\ app[Owner(c)].pc \in {"push_request", "lock"}
                 /\ x.waits = app[Owner(c)].mutex
    <1> DEFINE t == Owner(c)
               e == app[t].event
    <1>1. t \in Thread /\ F[c] = EndStance(c) /\ Truthful(t)
        BY ContextFields DEF Owner, Parts, EndInv, CallInv
    <1>2. Live(c) /\ F[c] = StampedStance(t)
        BY <1>1 DEF Stances, EndStance, Gone, Pending
    <1>3. \/ x = StampedStance(t)
          \/ Pending(c) /\ x = StanceBefore(e)
        BY <1>2 DEF Stances
    <1>4. ASSUME Pending(c)
          PROVE  /\ app[t].pc \in PushPc /\ e \in MonitorEvent /\ app[t].pc \notin MutexPc \ PushPc
                 /\ e.really_held = RealDepth(t)
                 /\ e.event_type = "LOCK_REQUEST" <=> app[t].pc = "push_request"
                 /\ e.event_type \in {"LOCK_ACQUIRED", "LOCK_FAILED"} =>
                       lock[e.object].owner = t
        BY <1>1, <1>4, AppFields DEF Pending, Parts, Truthful, MutexPc, PushPc
    <1>5. lock \in [Mutex -> [owner : Thread \cup {None}, count : Nat]]
        BY DEF Parts, LockInv
    <1>6. app[t].pc # "unlocked" /\ (Pending(c) => e.event_type # "UNLOCKED")
        <2>1. CASE x = StampedStance(t)
            <3>1. app[t].pc \in WaitPc
                BY <2>1 DEF StampedStance
            <3> QED
                BY <1>4, <3>1 DEF WaitPc, PushPc
        <2>2. CASE Pending(c) /\ x = StanceBefore(e)
            <3>1. e.event_type \in {"LOCK_ACQUIRED", "LOCK_FAILED"}
                BY <2>2 DEF StanceBefore
            <3> QED
                BY <1>4, <2>2, <3>1 DEF PushPc
        <2> QED
            BY <1>3, <2>1, <2>2
    <1>7. ASSUME NEW y \in Stances(F, c), NEW m \in Mutex, m \in y.held
          PROVE  lock[m].owner = t
        <2>1. RealDepth(t)[m] = IF lock[m].owner = t THEN lock[m].count ELSE 0
            BY DEF RealDepth
        <2>2. lock[m].count \in Nat
            BY <1>5
        <2>3. CASE y = StampedStance(t)
            <3>1. StampedView(t).held[m] > 0
                BY <1>7, <2>3 DEF StampedStance
            <3>2. StampedView(t).held[m] \in {RealDepth(t)[m], RealDepth(t)[m] - 1}
                BY <1>6 DEF StampedView
            <3> QED
                BY <2>1, <2>2, <3>1, <3>2
        <2>4. CASE Pending(c) /\ y = StanceBefore(e)
            <3>1. ViewBefore(e).held[m] > 0
                BY <1>7, <2>4 DEF StanceBefore
            <3>2. ViewBefore(e).held[m] \in {RealDepth(t)[m], RealDepth(t)[m] - 1}
                BY <1>4, <1>6, <2>4 DEF ViewBefore
            <3> QED
                BY <2>1, <2>2, <3>1, <3>2
        <2> QED
            BY <1>2, <2>3, <2>4 DEF Stances
    <1>8. \/ lock[x.waits].owner = t
          \/ app[t].pc \in {"push_request", "lock"} /\ x.waits = app[t].mutex
        <2>1. CASE x = StampedStance(t)
            <3>1. app[t].pc \in WaitPc /\ x.waits = app[t].mutex
                BY <2>1 DEF StampedStance
            <3> QED
                BY <1>1, <3>1 DEF WaitPc, Truthful
        <2>2. CASE Pending(c) /\ x = StanceBefore(e)
            <3>1. e.event_type \in {"LOCK_ACQUIRED", "LOCK_FAILED"} /\ x.waits = e.object
                BY <2>2 DEF StanceBefore
            <3> QED
                BY <1>4, <2>2, <3>1
        <2> QED
            BY <1>3, <2>1, <2>2
    <1> QED
        BY <1>7, <1>8

\* What a stance waits for is a mutex.
LEMMA StanceTyped ==
    ASSUME Parts, NEW F, accept_events, EndInv(F), NEW c \in DOMAIN contexts,
           NEW x \in Stances(F, c)
    PROVE  x.waits \in Mutex \cup {None} /\ x.held \subseteq Mutex
    <1>1. Owner(c) \in Thread /\ F[c] = EndStance(c)
        BY ContextFields DEF Owner, Parts, EndInv
    <1>2. CASE x = F[c]
        BY <1>1, <1>2, AppFields DEF EndStance, StampedStance, Gone, Parts
    <1>3. CASE Pending(c) /\ x = StanceBefore(app[Owner(c)].event)
        <2>1. app[Owner(c)].event \in MonitorEvent
            BY <1>1, <1>3, AppFields DEF Pending, Parts
        <2>2. app[Owner(c)].event.object \in Mutex \cup {None}
            BY <2>1 DEF MonitorEvent
        <2> QED
            BY <1>3, <2>2 DEF StanceBefore
    <1> QED
        BY <1>2, <1>3 DEF Stances

LEMMA StuckNow == \A F : CallInv /\ Parts /\ accept_events /\ EndInv(F) => StuckInv(F)
    <1> SUFFICES ASSUME NEW F, CallInv, Parts, accept_events, EndInv(F),
                        NEW S \in SUBSET DOMAIN contexts,
                        \A c \in S : \E d \in S : Owner(d) # Owner(c) /\ MayWait(F, c, d)
                 PROVE  Stuck({Owner(c) : c \in S})
        BY DEF StuckInv
    <1> DEFINE T == {Owner(c) : c \in S}
    <1> SUFFICES ASSUME NEW c \in S
                 PROVE  \E u \in T \ {Owner(c)} : Asks(Owner(c), u)
        BY DEF Stuck
    <1>1. PICK d \in S : Owner(d) # Owner(c) /\ MayWait(F, c, d)
        OBVIOUS
    <1>2. PICK x \in Stances(F, c), y \in Stances(F, d) :
             x.waits # None /\ x.waits \in y.held
        BY <1>1 DEF MayWait
    <1>3. PICK z \in Stances(F, d) : z.waits # None
        <2>1. PICK d2 \in S : MayWait(F, d, d2)
            OBVIOUS
        <2> QED
            BY <2>1 DEF MayWait
    <1>4. x.waits \in Mutex
        BY <1>2, StanceTyped
    <1>5. lock[x.waits].owner = Owner(d)
        BY <1>2, <1>3, <1>4, WaitingStance
    <1>6. /\ app[Owner(c)].pc \in {"push_request", "lock"}
          /\ x.waits = app[Owner(c)].mutex
        BY <1>1, <1>2, <1>5, WaitingStance
    <1> QED
        BY <1>1, <1>5, <1>6 DEF Asks

LEMMA StuckThen ==
    \A F : CallInv' /\ Parts' /\ accept_events' /\ EndInv(F)' => StuckInv(F)'
    <1>1. (\A F : CallInv /\ Parts /\ accept_events /\ EndInv(F) => StuckInv(F))'
        BY StuckNow, PTL
    <1> QED
        BY <1>1
-----------------------------------------------------------------------------
(***************************************************************************)
(* Steps of an application thread.                                         *)
(***************************************************************************)

\* The last stances after a step: they follow the threads while events are accepted.
EndsFollow(F, G) ==
    \A c \in DOMAIN contexts' : G[c] = IF accept_events' THEN EndStance(c)' ELSE F[c]

\* The step continues the stream of the context c ...
StreamOn(F, G, c) ==
    /\ Owner(c)' = Owner(c)
    /\ contexts'[c].dropped = 0 =>
          /\ contexts[c].dropped = 0
          /\ \A k \in 0 .. Len(Queue(c)) : Fits(Following(F, c, k), Following(G, c, k)')
          /\ \A k \in DOMAIN Queue(c)' :
                \/ k \in DOMAIN Queue(c) /\ Queue(c)'[k] = Queue(c)[k]
                \/ Fits(StanceAfter(Queue(c)'[k]), Following(G, c, k)')
    /\ Queue(c)' = <<>> => Queue(c) = <<>>
    /\ Pending(c)' => Fits(StanceAfter(app'[Owner(c)'].event), G[c])
    /\ Ordered(c)'
    /\ Stamps(c)' \subseteq Stamps(c) \cup (global_sequence .. global_sequence' - 1)

\* ... or starts it.
StreamNew(G, c) ==
    /\ \A k \in DOMAIN Queue(c)' : Fits(StanceAfter(Queue(c)'[k]), Following(G, c, k)')
    /\ Pending(c)' => Fits(StanceAfter(app'[Owner(c)'].event), G[c])
    /\ Ordered(c)'
    /\ Stamps(c)' \subseteq global_sequence .. global_sequence' - 1

LEMMA FitsTwice ==
    ASSUME NEW x, NEW y, NEW z, Fits(x, y), Fits(y, z)
    PROVE  Fits(x, z)
    BY DEF Fits

LEMMA StreamsOn ==
    ASSUME Parts, Parts', TableInv, OrderInv, NEW F, QueueFits(F), RecordInv(F), NEW G,
           verifier' = verifier, global_sequence' >= global_sequence,
           Len(contexts') >= Len(contexts),
           \A c \in DOMAIN contexts : StreamOn(F, G, c),
           \A c \in DOMAIN contexts' \ DOMAIN contexts : StreamNew(G, c)
    PROVE  OrderInv' /\ PendingFits(G)' /\ QueueFits(G)' /\ RecordInv(G)'
    <1>1. /\ DOMAIN contexts = 1 .. Len(contexts) /\ DOMAIN contexts' = 1 .. Len(contexts')
          /\ Len(contexts) \in Nat /\ Len(contexts') \in Nat
          /\ global_sequence \in Nat /\ global_sequence' \in Nat
        BY LenProperties DEF Parts, ContextsInv, CountersInv
    <1>2. OrderInv'
        <2> SUFFICES ASSUME NEW c \in DOMAIN contexts'
                     PROVE  /\ Ordered(c)'
                            /\ \A i \in Stamps(c)' : i \in Nat /\ i < global_sequence'
            BY DEF OrderInv
        <2>1. CASE c \in DOMAIN contexts
            <3>1. \A i \in Stamps(c) : i \in Nat /\ i < global_sequence
                BY <2>1 DEF OrderInv
            <3> QED
                BY <1>1, <2>1, <3>1 DEF StreamOn
        <2>2. CASE c \notin DOMAIN contexts
            BY <1>1, <2>2 DEF StreamNew
        <2> QED
            BY <2>1, <2>2
    <1>3. PendingFits(G)'
        <2> SUFFICES ASSUME NEW c \in DOMAIN contexts', Pending(c)'
                     PROVE  Fits(StanceAfter(app'[Owner(c)'].event), G[c])
            BY DEF PendingFits
        <2> QED
            BY DEF StreamOn, StreamNew
    <1>4. QueueFits(G)'
        <2> SUFFICES ASSUME NEW c \in DOMAIN contexts', contexts'[c].dropped = 0,
                            NEW k \in DOMAIN Queue(c)'
                     PROVE  Fits(StanceAfter(Queue(c)'[k]), Following(G, c, k)')
            BY DEF QueueFits
        <2>1. CASE c \notin DOMAIN contexts
            BY <2>1 DEF StreamNew
        <2>2. CASE c \in DOMAIN contexts
            <3>1. CASE k \in DOMAIN Queue(c) /\ Queue(c)'[k] = Queue(c)[k]
                <4>1. contexts[c].dropped = 0
                    BY <2>2 DEF StreamOn
                <4>2. Fits(StanceAfter(Queue(c)'[k]), Following(F, c, k))
                    BY <2>2, <3>1, <4>1 DEF QueueFits
                <4>3. k \in 0 .. Len(Queue(c))
                    <5>1. Queue(c) \in Seq(MonitorEvent)
                        BY <2>2, ContextFields DEF Parts, Queue
                    <5> QED
                        BY <3>1, <5>1, LenProperties
                <4>4. Fits(Following(F, c, k), Following(G, c, k)')
                    BY <2>2, <4>3 DEF StreamOn
                <4> QED
                    BY <4>2, <4>4, FitsTwice
            <3>2. CASE ~(k \in DOMAIN Queue(c) /\ Queue(c)'[k] = Queue(c)[k])
                BY <2>2, <3>2 DEF StreamOn
            <3> QED
                BY <3>1, <3>2
        <2> QED
            BY <2>1, <2>2
    <1>5. RecordInv(G)'
        <2> SUFFICES ASSUME NEW c \in DOMAIN contexts', First(c)', contexts'[c].dropped = 0,
                            ~Tainted(verifier, Owner(c)')
                     PROVE  /\ Waits(verifier, Owner(c)', Following(G, c, 0)')
                            /\ Owns(verifier, Owner(c)', Following(G, c, 0)')
                            /\ Newer(verifier, c)'
            BY DEF RecordInv, Waits, Lost, KnownMutexes, Owns, Tainted
        <2>1. CASE c \notin DOMAIN contexts
            <3>1. Owner(c)' \in Thread
                <4>1. contexts' \in Seq(ThreadContext)
                    BY DEF Parts, ContextsInv
                <4>2. contexts'[c] \in ThreadContext
                    BY <1>1, <4>1, ElementOfSeq
                <4> QED
                    BY <4>2 DEF ThreadContext, Owner
            <3>2. \A d \in DOMAIN contexts : Owner(d)' # Owner(c)' /\ Owner(d)' = Owner(d)
                BY <1>1, <2>1 DEF First, StreamOn
            <3>3. /\ verifier.thread_states[Owner(c)'].waiting_mutex = None
                  /\ \A m \in Mutex : verifier.mutex_states[m].owner # Owner(c)'
                BY <3>1, <3>2 DEF TableInv
            <3> QED
                BY <3>3 DEF Waits, Owns, Newer
        <2>2. CASE c \in DOMAIN contexts
            <3>1. First(c) /\ Owner(c)' = Owner(c) /\ contexts[c].dropped = 0
                BY <1>1, <2>2 DEF First, StreamOn
            <3>2. /\ Waits(verifier, Owner(c), Following(F, c, 0))
                  /\ Owns(verifier, Owner(c), Following(F, c, 0))
                  /\ Newer(verifier, c)
                BY <2>2, <3>1 DEF RecordInv
            <3>3. Fits(Following(F, c, 0), Following(G, c, 0)')
                <4>1. Len(Queue(c)) \in Nat
                    BY <2>2, ContextFields, LenProperties DEF Parts, Queue
                <4>2. 0 \in 0 .. Len(Queue(c))
                    BY <4>1
                <4> QED
                    BY <2>2, <4>2 DEF StreamOn
            <3>4. Newer(verifier, c)'
                <4> SUFFICES ASSUME NEW m \in Mutex, verifier.mutex_states[m].owner = Owner(c)
                             PROVE  LET last == verifier.mutex_states[m].last_state_sequence
                                    IN  /\ last < global_sequence'
                                        /\ \A i \in Stamps(c)' : last < i
                    BY <3>1 DEF Newer
                <4> DEFINE last == verifier.mutex_states[m].last_state_sequence
                <4>1. last \in Nat
                    BY MutexFields DEF Parts, Consistent
                <4>2. last < global_sequence /\ \A i \in Stamps(c) : last < i
                    BY <3>2 DEF Newer
                <4>3. \A i \in Stamps(c)' : i \in Nat /\ i < global_sequence'
                    BY <1>2 DEF OrderInv
                <4> HIDE DEF last
                <4>4. \A i \in Stamps(c)' : i \in Stamps(c) \/ i >= global_sequence
                    BY <1>1, <2>2 DEF StreamOn
                <4>5. last < global_sequence'
                    BY <1>1, <4>1, <4>2
                <4>6. \A i \in Stamps(c)' : last < i
                    BY <1>1, <4>1, <4>2, <4>3, <4>4
                <4> QED
                    BY <4>5, <4>6 DEF last
            <3> QED
                BY <3>1, <3>2, <3>3, <3>4 DEF Waits, Owns, Fits
        <2> QED
            BY <2>1, <2>2
    <1> QED
        BY <1>2, <1>3, <1>4, <1>5

\* A step of t: it changes no mutex of another thread, takes none inside the lock call
\* unless it is free, gives none up there, and stamps nothing after the stop.
Moves(t) ==
    /\ \A u \in Thread \ {t} : app'[u] = app[u]
    /\ \A m \in Mutex : \/ lock'[m] = lock[m]
                        \/ lock[m].owner \in {None, t} /\ lock'[m].owner \in {None, t}
    /\ app[t].pc \in {"push_request", "lock"} =>
          \A m \in Mutex : lock[m].owner = t => lock'[m].owner = t
    /\ app[t].pc = "push_request" => /\ app'[t].pc = "lock"
                                     /\ app'[t].mutex = app[t].mutex
    /\ app[t].pc = "lock" => lock[app[t].mutex].owner \in {None, t}
    /\ app[t].tls_context = RegistrationFailed
         => app'[t].tls_context = RegistrationFailed
    /\ ~accept_events => /\ app'[t].pc \notin PushPc
                         /\ Len(contexts') = Len(contexts)
    /\ UNCHANGED <<main, consumer, verifier>>

\* Stuck threads stay so.
LEMMA StuckStays ==
    ASSUME Parts, NEW t \in Thread, Moves(t), NEW threads \in SUBSET Thread, Stuck(threads)
    PROVE  Stuck(threads)'
    <1> SUFFICES ASSUME NEW s \in threads
                 PROVE  \E u \in threads \ {s} : Asks(s, u)'
        BY DEF Stuck
    <1>1. PICK u \in threads \ {s} : Asks(s, u)
        BY DEF Stuck
    <1>2. /\ app[s].pc \in {"push_request", "lock"} /\ app[s].mutex \in Mutex
          /\ lock[app[s].mutex].owner = u /\ u \in Thread /\ s \in Thread
        BY <1>1, AppFields DEF Asks, Parts, MutexPc
    <1>3. app[u].pc \in {"push_request", "lock"}
        BY DEF Stuck, Asks
    <1>4. /\ app'[s].pc \in {"push_request", "lock"} /\ app'[s].mutex = app[s].mutex
        <2>1. CASE s = t
            <3>1. app[t].pc # "lock"
                BY <1>1, <1>2, <2>1, VerifierAssumption DEF Moves
            <3> QED
                BY <1>2, <2>1, <3>1 DEF Moves
        <2>2. CASE s # t
            BY <1>2, <2>2 DEF Moves
        <2> QED
            BY <2>1, <2>2
    <1>5. lock'[app[s].mutex].owner = u
        BY <1>2, <1>3, VerifierAssumption DEF Moves
    <1> QED
        BY <1>1, <1>4, <1>5 DEF Asks

\* So do deadlocked ones.
LEMMA DeadlockStays ==
    ASSUME Parts, NEW t \in Thread, Moves(t), NEW threads \in SUBSET Thread,
           ReallyDeadlocked(threads)
    PROVE  ReallyDeadlocked(threads)'
    <1> SUFFICES ASSUME NEW s \in threads
                 PROVE  \E u \in threads \ {s} : ReallyWaitsFor(s, u)'
        BY DEF ReallyDeadlocked
    <1>1. PICK u \in threads \ {s} : ReallyWaitsFor(s, u)
        BY DEF ReallyDeadlocked
    <1>2. /\ app[s].pc = "lock" /\ app[s].mutex \in Mutex
          /\ lock[app[s].mutex].owner = u /\ u \in Thread /\ s \in Thread
        BY <1>1, AppFields DEF ReallyWaitsFor, Parts, MutexPc
    <1>3. app[u].pc = "lock"
        BY DEF ReallyDeadlocked, ReallyWaitsFor
    <1>4. s # t
        BY <1>1, <1>2, VerifierAssumption DEF Moves
    <1>5. app'[s] = app[s]
        BY <1>2, <1>4 DEF Moves
    <1>6. lock'[app[s].mutex].owner = u
        BY <1>2, <1>3, VerifierAssumption DEF Moves
    <1> QED
        BY <1>1, <1>2, <1>5, <1>6, VerifierAssumption
        DEF ReallyWaitsFor, RealLockResult

\* The other threads go on telling the truth.
LEMMA OthersTruthful ==
    ASSUME Parts, NEW t \in Thread, Moves(t), NEW u \in Thread, u # t, Truthful(u)
    PROVE  Truthful(u)'
    <1>1. app'[u] = app[u] /\ (accept_events' <=> accept_events)
        BY DEF Moves, accept_events
    <1>2. lock \in [Mutex -> [owner : Thread \cup {None}, count : Nat]]
        BY DEF Parts, LockInv
    <1>3. \A m \in Mutex : lock[m].owner = u => lock'[m].owner = u
        BY VerifierAssumption DEF Moves
    <1>4. RealDepth(u)' = RealDepth(u)
        <2>1. ASSUME NEW m \in Mutex PROVE RealDepth(u)'[m] = RealDepth(u)[m]
            BY VerifierAssumption DEF Moves, RealDepth
        <2> QED
            BY <2>1 DEF RealDepth
    <1>5. /\ app[u].pc \in MutexPc => app[u].mutex \in Mutex
          /\ app[u].pc \in PushPc => app[u].event \in MonitorEvent
        BY AppFields DEF Parts
    <1>6. app[u].pc \in PushPc /\ app[u].event.event_type \in {"LOCK_ACQUIRED", "LOCK_FAILED"}
            => app[u].event.object \in Mutex
        BY <1>5, EventFields DEF MutexEvent
    <1> QED
        BY <1>1, <1>3, <1>4, <1>5, <1>6 DEF Truthful, MutexPc

\* A step of t keeps the invariant if it tells the truth about t and continues the
\* streams.
LEMMA AppStepDead ==
    ASSUME Parts, Parts', CallInv, OrderInv, TableInv, CandidateInv,
           NEW F, LastStances(F), NEW G, EndsFollow(F, G),
           NEW t \in Thread, Moves(t), Truthful(t)',
           global_sequence' >= global_sequence, Len(contexts') >= Len(contexts),
           \A c \in DOMAIN contexts : StreamOn(F, G, c),
           \A c \in DOMAIN contexts' \ DOMAIN contexts : StreamNew(G, c)
    PROVE  /\ CallInv' /\ OrderInv' /\ TableInv' /\ CandidateInv'
           /\ LastStances(G)'
    <1>1. /\ DOMAIN contexts = 1 .. Len(contexts) /\ DOMAIN contexts' = 1 .. Len(contexts')
          /\ Len(contexts) \in Nat /\ Len(contexts') \in Nat
          /\ DOMAIN contexts \subseteq DOMAIN contexts'
        BY LenProperties DEF Parts, ContextsInv
    <1>2. /\ UNCHANGED <<main, consumer, verifier>>
          /\ (accept_events' <=> accept_events)
        BY DEF Moves, accept_events
    <1>3. OrderInv' /\ PendingFits(G)' /\ QueueFits(G)' /\ RecordInv(G)'
        BY <1>2, StreamsOn DEF LastStances
    <1>4. CallInv'
        BY OthersTruthful DEF CallInv
    <1>5. \A c \in DOMAIN contexts : Owner(c)' = Owner(c) /\ Owner(c) \in Thread
        BY ContextFields DEF StreamOn, Owner, Parts
    <1>6. ~accept_events => DOMAIN contexts' = DOMAIN contexts
        BY <1>1 DEF Moves
    <1>7. ~accept_events => \A u \in Thread : app'[u].pc \in PushPc => app'[u] = app[u]
        BY DEF Moves
    <1>8. EndInv(G)'
        <2>1. ASSUME accept_events', NEW c \in DOMAIN contexts'
              PROVE  G[c] = EndStance(c)'
            BY <2>1 DEF EndsFollow
        <2>2. ASSUME NEW c \in DOMAIN contexts', app'[Owner(c)'].pc \in PushPc, ~Live(c)'
              PROVE  G[c].waits = None
            <3>1. CASE accept_events'
                BY <2>2, <3>1 DEF EndsFollow, EndStance, Gone
            <3>2. CASE ~accept_events'
                <4>1. c \in DOMAIN contexts /\ Owner(c)' = Owner(c) /\ Owner(c) \in Thread
                    BY <1>2, <1>5, <1>6, <3>2
                <4>2. app'[Owner(c)] = app[Owner(c)]
                    BY <1>2, <1>7, <2>2, <3>2, <4>1
                <4>3. app[Owner(c)].pc \in PushPc /\ ~Live(c)
                    BY <2>2, <4>1, <4>2 DEF Live
                <4>4. F[c].waits = None
                    BY <4>1, <4>3 DEF LastStances, EndInv
                <4> QED
                    BY <3>2, <4>4 DEF EndsFollow
            <3> QED
                BY <3>1, <3>2
        <2> QED
            BY <2>1, <2>2 DEF EndInv
    <1>9. StuckInv(G)'
        <2>1. CASE accept_events'
            BY <1>4, <1>8, <2>1, StuckThen
        <2>2. CASE ~accept_events'
            <3>1. ~accept_events /\ DOMAIN contexts' = DOMAIN contexts
                BY <1>2, <1>6, <2>2
            <3>2. ASSUME NEW c \in DOMAIN contexts
                  PROVE  Stances(G, c)' \subseteq Stances(F, c)
                <4>1. G[c] = F[c] /\ Owner(c)' = Owner(c) /\ Owner(c) \in Thread
                    BY <1>5, <2>2, <3>1 DEF EndsFollow
                <4>2. ASSUME Pending(c)'
                      PROVE  Pending(c) /\ app'[Owner(c)] = app[Owner(c)]
                    BY <1>7, <3>1, <4>1, <4>2 DEF Pending, Live
                <4> QED
                    BY <4>1, <4>2 DEF Stances
            <3> SUFFICES ASSUME NEW S \in SUBSET DOMAIN contexts,
                                \A c \in S : \E d \in S : Owner(d)' # Owner(c)'
                                                          /\ MayWait(G, c, d)'
                         PROVE  Stuck({Owner(c) : c \in S})'
                BY <3>1 DEF StuckInv
            <3> DEFINE T == {Owner(c) : c \in S}
            <3>3. \A c \in S : \E d \in S : Owner(d) # Owner(c) /\ MayWait(F, c, d)
                BY <1>5, <3>2 DEF MayWait
            <3>4. Stuck(T)
                BY <3>3 DEF LastStances, StuckInv
            <3>5. T \in SUBSET Thread /\ T = {Owner(c)' : c \in S}
                BY <1>5
            <3>6. ASSUME NEW X \in SUBSET Thread, Stuck(X)
                  PROVE  \A s \in X : \E u \in X \ {s} : Asks(s, u)'
                <4>1. Stuck(X)'
                    BY <3>6, StuckStays
                <4> QED
                    BY <4>1 DEF Stuck
            <3>7. \A s \in T : \E u \in T \ {s} : Asks(s, u)'
                BY <3>4, <3>5, <3>6
            <3> QED
                BY <3>5, <3>7 DEF Stuck
        <2> QED
            BY <2>1, <2>2
    <1>10. TableInv'
        <2>1. ASSUME NEW u \in Thread, verifier.thread_states[u].slot # 0
              PROVE  \E c \in DOMAIN contexts' : Owner(c)' = u
            <3>1. PICK c \in DOMAIN contexts : Owner(c) = u
                BY <2>1 DEF TableInv
            <3> QED
                BY <1>1, <1>5, <3>1
        <2> QED
            BY <1>2, <2>1 DEF TableInv
    <1>11. CandidateInv'
        <2> DEFINE cycle == verifier.candidate_cycle
        <2>1. WaitInGraph(verifier, cycle)'
            BY <1>2 DEF CandidateInv, WaitInGraph, WaitsFor, Trusted
        <2>2. cycle \in SUBSET Thread
            BY Fields DEF Parts, Consistent
        <2> SUFFICES ASSUME \A u \in cycle : Complete(u)', EmptyAhead(cycle)'
                     PROVE  ReallyDeadlocked(cycle)'
            BY <1>2, <2>1 DEF CandidateInv, EmptyAhead
        <2>3. ASSUME NEW u \in cycle PROVE Complete(u)
            <3>1. Complete(u)' /\ u \in Thread
                BY <2>2
            <3>2. app[u].tls_context # RegistrationFailed
                BY <3>1 DEF Complete, Moves
            <3>3. ASSUME NEW i \in DOMAIN contexts, contexts[i].thread_id = u
                  PROVE  contexts[i].dropped = 0
                <4>1. contexts'[i].thread_id = u /\ i \in DOMAIN contexts'
                    BY <1>1, <1>5, <3>3 DEF Owner
                <4> QED
                    BY <3>1, <4>1 DEF Complete, StreamOn
            <3> QED
                BY <3>2, <3>3 DEF Complete
        <2>4. EmptyAhead(cycle)
            <3> SUFFICES ASSUME NEW c \in DOMAIN contexts, consumer.i <= c,
                                c <= consumer.count, First(c), Owner(c) \in cycle
                         PROVE  Queue(c) = <<>>
                BY DEF EmptyAhead
            <3>1. First(c)' /\ c \in DOMAIN contexts' /\ Owner(c)' = Owner(c)
                BY <1>1, <1>5 DEF First
            <3>2. Queue(c)' = <<>>
                BY <1>2, <3>1 DEF EmptyAhead
            <3> QED
                BY <3>2 DEF StreamOn
        <2>5. ReallyDeadlocked(cycle)
            BY <2>3, <2>4 DEF CandidateInv
        <2>6. ASSUME NEW X \in SUBSET Thread, ReallyDeadlocked(X)
              PROVE  ReallyDeadlocked(X)'
            BY <2>6, DeadlockStays
        <2> HIDE DEF cycle
        <2> QED
            BY <1>2, <2>2, <2>5, <2>6 DEF cycle
    <1> QED
        BY <1>3, <1>4, <1>8, <1>9, <1>10, <1>11 DEF LastStances

\* A context to which nothing was added or stamped.
LEMMA QuietStream ==
    ASSUME Parts, OrderInv, NEW F, EndInv(F), PendingFits(F), NEW G, EndsFollow(F, G),
           NEW c \in DOMAIN contexts, c \in DOMAIN contexts', contexts'[c] = contexts[c],
           accept_events' <=> accept_events, Pending(c)' <=> Pending(c),
           Pending(c) => app'[Owner(c)] = app[Owner(c)],
           accept_events => Fits(EndStance(c), EndStance(c)')
    PROVE  StreamOn(F, G, c)
    <1>1. Owner(c)' = Owner(c) /\ Queue(c)' = Queue(c) /\ contexts'[c].dropped = contexts[c].dropped
        BY DEF Owner, Queue
    <1>2. Fits(F[c], G[c])
        BY DEF EndsFollow, EndInv, Fits
    <1>3. ASSUME NEW k \in 0 .. Len(Queue(c))
          PROVE  Fits(Following(F, c, k), Following(G, c, k)')
        BY <1>1, <1>2 DEF Following, Fits
    <1>4. Pending(c)' => Fits(StanceAfter(app'[Owner(c)].event), G[c])
        BY <1>2, FitsTwice DEF PendingFits
    <1>5. Stamps(c)' = Stamps(c) /\ Ordered(c)'
        BY <1>1 DEF Stamps, OrderInv, Ordered
    <1> QED
        BY <1>1, <1>3, <1>4, <1>5 DEF StreamOn

\* The steps that stamp nothing and push nothing.
LEMMA QuietStep ==
    ASSUME Parts, Parts', CallInv, OrderInv, TableInv, CandidateInv,
           NEW F, LastStances(F), NEW t \in Thread, Moves(t), Truthful(t)',
           UNCHANGED <<contexts, global_sequence>>,
           app[t].pc \notin PushPc, app'[t].pc \notin PushPc,
           \A u \in Thread \ {t} : StampedView(u)' = StampedView(u),
           accept_events => \A c \in DOMAIN contexts :
               Owner(c) = t => Fits(EndStance(c), EndStance(c)')
    PROVE  DeadInv'
    <1> DEFINE G == [c \in DOMAIN contexts' |->
                       IF accept_events' THEN EndStance(c)' ELSE F[c]]
    <1>1. PICK H : H = G
        OBVIOUS
    <1>2. EndsFollow(F, H)
        BY <1>1 DEF EndsFollow
    <1>3. (accept_events' <=> accept_events) /\ EndInv(F) /\ PendingFits(F)
        BY DEF Moves, accept_events, LastStances
    <1>4. ASSUME NEW c \in DOMAIN contexts
          PROVE  StreamOn(F, H, c)
        <2>1. Owner(c) \in Thread /\ Owner(c)' = Owner(c)
            BY ContextFields DEF Parts, Owner
        <2>2. CASE Owner(c) = t
            <3>1. ~Pending(c) /\ ~Pending(c)'
                BY <2>1, <2>2 DEF Pending
            <3>2. accept_events => Fits(EndStance(c), EndStance(c)')
                BY <2>2
            <3> QED
                BY <1>2, <1>3, <3>1, <3>2, QuietStream
        <2>3. CASE Owner(c) # t
            <3>1. /\ app'[Owner(c)] = app[Owner(c)]
                  /\ StampedView(Owner(c))' = StampedView(Owner(c))
                BY <2>1, <2>3 DEF Moves
            <3>2. (Live(c)' <=> Live(c)) /\ (Pending(c)' <=> Pending(c))
                BY <2>1, <3>1 DEF Live, Pending
            <3>3. Fits(EndStance(c), EndStance(c)')
                BY <2>1, <3>1, <3>2 DEF EndStance, StampedStance, Fits
            <3> QED
                BY <1>2, <1>3, <3>1, <3>2, <3>3, QuietStream
        <2> QED
            BY <2>2, <2>3
    <1>5. global_sequence' >= global_sequence /\ Len(contexts') >= Len(contexts)
        BY LenProperties DEF Parts, ContextsInv, CountersInv
    <1>6. DOMAIN contexts' \ DOMAIN contexts = {}
        OBVIOUS
    <1>7. /\ CallInv' /\ OrderInv' /\ TableInv' /\ CandidateInv' /\ LastStances(H)'
        BY <1>2, <1>4, <1>5, <1>6, AppStepDead
    <1> QED
        BY <1>7 DEF DeadInv

LEMMA RealLockDead ==
    ASSUME Parts, Parts', CallInv, OrderInv, TableInv, CandidateInv,
           NEW F, LastStances(F), NEW t \in Thread, RealLock(t)
    PROVE  DeadInv'
    <1> DEFINE m0 == app[t].mutex
    <1>1. /\ app[t].pc = "lock" /\ m0 \in Mutex
          /\ app'[t].pc \in {"acquired", "lock_failed"}
          /\ lock[m0].owner \in {None, t} /\ lock'[m0].owner = t
          /\ RealCall(t, m0) /\ Truthful(t)
        BY RealLockEffect DEF CallInv
    <1> HIDE DEF m0
    <1>2. /\ app'[t].mutex = m0 /\ app'[t].tls_context = app[t].tls_context
          /\ (accept_events' <=> accept_events)
          /\ UNCHANGED <<contexts, global_sequence, main, consumer, verifier>>
          /\ \A u \in Thread \ {t} : app'[u] = app[u]
          /\ \A u \in Thread : StampedView(u)' = StampedView(u)
          /\ \A m \in Mutex \ {m0} : lock'[m] = lock[m]
        BY <1>1 DEF RealCall, transportVars, monitorVars
    <1>3. Moves(t)
        BY <1>1, <1>2 DEF Moves, PushPc, m0
    <1>4. Truthful(t)'
        BY <1>1, <1>2 DEF Truthful, PushPc, WaitPc
    <1>5. app[t].pc \notin PushPc /\ app'[t].pc \notin PushPc
        BY <1>1 DEF PushPc
    <1>6. ASSUME NEW c \in DOMAIN contexts, Owner(c) = t
          PROVE  Fits(EndStance(c), EndStance(c)')
        <2>1. Owner(c)' = t /\ (Live(c)' <=> Live(c))
            BY <1>2, <1>6 DEF Owner, Live
        <2>2. StampedStance(t)' = StampedStance(t)
            BY <1>1, <1>2 DEF StampedStance, WaitPc, m0
        <2> QED
            BY <1>6, <2>1, <2>2 DEF EndStance, Fits
    <1> QED
        BY <1>2, <1>3, <1>4, <1>5, <1>6, QuietStep

LEMMA RealUnlockDead ==
    ASSUME Parts, Parts', CallInv, OrderInv, TableInv, CandidateInv,
           NEW F, LastStances(F), NEW t \in Thread, NEW m0 \in Mutex, RealUnlock(t, m0)
    PROVE  DeadInv'
    <1>1. /\ app[t].pc = "run" /\ app'[t].pc \in {"unlocked", "unlock_failed"}
          /\ \/ lock' = lock
             \/ lock[m0].owner = t /\ lock'[m0].owner \in {None, t}
          /\ RealCall(t, m0)
        BY RealUnlockEffect
    <1>2. /\ app'[t].mutex = m0 /\ app'[t].tls_context = app[t].tls_context
          /\ (accept_events' <=> accept_events)
          /\ UNCHANGED <<contexts, global_sequence, main, consumer, verifier>>
          /\ \A u \in Thread \ {t} : app'[u] = app[u]
          /\ \A u \in Thread : StampedView(u)' = StampedView(u)
          /\ \A m \in Mutex \ {m0} : lock'[m] = lock[m]
        BY <1>1 DEF RealCall, transportVars, monitorVars
    <1>3. Moves(t)
        BY <1>1, <1>2 DEF Moves, PushPc
    <1>4. Truthful(t)'
        BY <1>1, <1>2 DEF Truthful, PushPc, WaitPc
    <1>5. app[t].pc \notin PushPc /\ app'[t].pc \notin PushPc
        BY <1>1 DEF PushPc
    <1>6. ASSUME NEW c \in DOMAIN contexts, Owner(c) = t
          PROVE  Fits(EndStance(c), EndStance(c)')
        <2>1. Owner(c)' = t /\ (Live(c)' <=> Live(c))
            BY <1>2, <1>6 DEF Owner, Live
        <2>2. StampedStance(t)' = StampedStance(t)
            BY <1>1, <1>2 DEF StampedStance, WaitPc
        <2> QED
            BY <1>6, <2>1, <2>2 DEF EndStance, Fits
    <1> QED
        BY <1>2, <1>3, <1>4, <1>5, <1>6, QuietStep

\* The event that is stamped tells what the call did or will do.
Emitting(t, type, m, pc) ==
    /\ Stamping(t, type, m)
    /\ pc \in PushPc
    /\ app[t].pc \in {"run", "acquired", "lock_failed", "unlocked", "unlock_failed"}
    /\ type = "LOCK_REQUEST" <=> pc = "push_request"
    /\ type \in {"LOCK_ACQUIRED", "LOCK_FAILED"}
         <=> app[t].pc \in {"acquired", "lock_failed"}
    /\ app[t].pc \in {"acquired", "lock_failed"} => app[t].mutex = m
    /\ pc = "push_exit" => app[t].tls_context > NoContext

\* A thread goes on without an event.
LEMMA SilentDead ==
    ASSUME Parts, Parts', CallInv, OrderInv, TableInv, CandidateInv,
           NEW F, LastStances(F), NEW t \in Thread,
           UNCHANGED <<lock, contexts, global_sequence, monitorVars>>,
           \A u \in Thread \ {t} : app'[u] = app[u] /\ times'[u] = times[u],
           app[t].pc \notin PushPc, app[t].pc # "lock", app'[t].pc \in {"run", "lock"},
           accept_events =>
               /\ app'[t].tls_context \in {NoContext, RegistrationFailed}
               /\ app'[t].pc = "lock" => app'[t].tls_context # NoContext
               /\ \/ app[t].pc \notin WaitPc
                  \/ app[t].tls_context \in {NoContext, RegistrationFailed},
           app[t].tls_context = RegistrationFailed
               => app'[t].tls_context = RegistrationFailed
    PROVE  DeadInv'
    <1>1. /\ UNCHANGED <<main, verifier, consumer>> /\ (accept_events' <=> accept_events)
          /\ app'[t].pc \notin PushPc
        BY DEF monitorVars, accept_events, PushPc
    <1>2. NoContext \notin DOMAIN contexts /\ RegistrationFailed \notin DOMAIN contexts
        BY LenProperties DEF Parts, ContextsInv, NoContext, RegistrationFailed
    <1>3. Moves(t)
        BY <1>1 DEF Moves, PushPc
    <1>4. Truthful(t)'
        BY <1>1 DEF Truthful, WaitPc
    <1>5. ASSUME accept_events, NEW c \in DOMAIN contexts, Owner(c) = t
          PROVE  Fits(EndStance(c), EndStance(c)')
        <2>1. Owner(c)' = t
            BY <1>5 DEF Owner
        <2>2. EndStance(c)' = Gone
            BY <1>2, <1>5, <2>1 DEF EndStance, Live
        <2>3. EndStance(c).waits = None /\ EndStance(c).held \subseteq Mutex
            BY <1>2, <1>5 DEF EndStance, Live, StampedStance, Gone
        <2> QED
            BY <2>2, <2>3 DEF Fits, Gone
    <1>6. \A u \in Thread \ {t} : StampedView(u)' = StampedView(u)
        BY OtherView
    <1> QED
        BY <1>1, <1>3, <1>4, <1>5, <1>6, QuietStep

LEMMA RefusedDead ==
    ASSUME Parts, Parts', CallInv, OrderInv, TableInv, CandidateInv,
           NEW F, LastStances(F), NEW t \in Thread, NEW type, NEW m, NEW pc,
           Emitting(t, type, m, pc), EmitRefused(t, m, pc)
    PROVE  DeadInv'
    <1> DEFINE a == [app[t] EXCEPT !.mutex = m]
    <1>1. app[t] \in AppThread /\ app \in [Thread -> AppThread] /\ Stamping(t, type, m)
        BY AppFields DEF Parts, AppInv, Emitting
    <1>2. a \in AppThread /\ a.tls_context = app[t].tls_context
        BY <1>1 DEF AppThread, Stamping
    <1>3. /\ app' = [app EXCEPT ![t] = Resume(a, pc)]
          /\ ~accept_events /\ UNCHANGED <<contexts, times, global_sequence>>
        BY DEF EmitRefused, transportVars, ghostVars
    <1> HIDE DEF a
    <1>4. /\ app'[t] = Resume(a, pc)
          /\ \A u \in Thread \ {t} : app'[u] = app[u] /\ times'[u] = times[u]
        BY <1>1, <1>3
    <1>5. /\ app'[t].pc \in {"run", "lock"}
          /\ app[t].tls_context = RegistrationFailed
               => app'[t].tls_context = RegistrationFailed
        BY <1>2, <1>4, ResumedAt DEF Emitting, NoContext, RegistrationFailed
    <1>6. /\ app[t].pc \notin PushPc /\ app[t].pc # "lock"
          /\ UNCHANGED <<lock, contexts, global_sequence, monitorVars>>
        BY <1>3 DEF Emitting, Stamping, PushPc
    <1> QED
        BY <1>3, <1>4, <1>5, <1>6, SilentDead

LEMMA UnregisteredDead ==
    ASSUME Parts, Parts', CallInv, OrderInv, TableInv, CandidateInv,
           NEW F, LastStances(F), NEW t \in Thread, NEW type, NEW m, NEW pc,
           Emitting(t, type, m, pc), EmitUnregistered(t, type, m, pc)
    PROVE  DeadInv'
    <1> DEFINE a == [app[t] EXCEPT !.mutex = m, !.tls_context = RegistrationFailed]
    <1>1. app[t] \in AppThread /\ app \in [Thread -> AppThread] /\ Stamping(t, type, m)
        BY AppFields DEF Parts, AppInv, Emitting
    <1>2. a \in AppThread /\ a.tls_context = RegistrationFailed
        <2>1. RegistrationFailed \in Int
            BY DEF RegistrationFailed
        <2> QED
            BY <1>1, <2>1 DEF AppThread, Stamping
    <1>3. /\ app' = [app EXCEPT ![t] = Resume(a, pc)]
          /\ Witness(t, type, m) /\ UNCHANGED <<contexts, global_sequence>>
          /\ app[t].tls_context \in {NoContext, RegistrationFailed} /\ pc # "push_exit"
        BY DEF EmitUnregistered, Emitting, NoContext, RegistrationFailed
    <1> HIDE DEF a
    <1>4. /\ app'[t] = Resume(a, pc)
          /\ \A u \in Thread \ {t} : app'[u] = app[u] /\ times'[u] = times[u]
        BY <1>1, <1>3, WitnessTimes
    <1>5. /\ app'[t].pc \in {"run", "lock"}
          /\ app'[t].tls_context = RegistrationFailed
        BY <1>2, <1>3, <1>4, ResumedAt
    <1>6. /\ app[t].pc \notin PushPc /\ app[t].pc # "lock"
          /\ UNCHANGED <<lock, contexts, global_sequence, monitorVars>>
        BY <1>3 DEF Emitting, Stamping, PushPc
    <1>7. RegistrationFailed # NoContext
        BY DEF RegistrationFailed, NoContext
    <1> QED
        BY <1>3, <1>4, <1>5, <1>6, <1>7, SilentDead

\* The stances around a stamped event are those of its thread.
LEMMA StampedStances ==
    ASSUME Parts, StreamInv, CallInv, NEW t \in Thread, NEW type, NEW m, NEW pc,
           Emitting(t, type, m, pc), NEW result, NEW i, NEW j, NEW e,
           e = NewEvent(t, type, m, result, i, j), app'[t].pc = pc, app'[t].mutex = m
    PROVE  /\ StanceBefore(e) = StampedStance(t)
           /\ StanceAfter(e) = StampedStance(t)'
           /\ app'[t].event = e /\ app'[t].tls_context # NoContext => Truthful(t)'
    <1>1. /\ e.thread_id = t /\ e.event_type = type /\ e.object = m
          /\ e.really_held = RealDepth(t)
        BY DEF NewEvent
    <1>2. Stamping(t, type, m) /\ lock' = lock
        BY DEF Emitting, Stamping
    <1>3. ViewBefore(e) = StampedView(t)
        BY <1>2, Stamped
    <1>4. RealDepth(t)' = RealDepth(t)
        BY <1>2 DEF RealDepth
    <1>5. StanceBefore(e) = StampedStance(t)
        BY <1>1, <1>3 DEF StanceBefore, StampedStance, Emitting, WaitPc
    <1>6. StanceAfter(e) = StampedStance(t)'
        <2>1. \A q \in Mutex : StampedView(t)'.held[q] = RealDepth(t)[q]
            BY <1>4 DEF StampedView, Emitting, PushPc
        <2> QED
            BY <1>1, <2>1 DEF StanceAfter, StampedStance, Emitting, WaitPc, PushPc
    <1>7. type \in {"LOCK_ACQUIRED", "LOCK_FAILED"} => lock[m].owner = t
        BY DEF CallInv, Truthful, Emitting
    <1>8. ASSUME app'[t].event = e, app'[t].tls_context # NoContext
          PROVE  Truthful(t)'
        BY <1>1, <1>2, <1>4, <1>7, <1>8 DEF Truthful, Emitting, PushPc
    <1> QED
        BY <1>5, <1>6, <1>8

\* A context that is not the one the thread writes to.
LEMMA OtherStream ==
    ASSUME Parts, OrderInv, NEW F, EndInv(F), PendingFits(F), NEW G, EndsFollow(F, G),
           NEW t \in Thread, Moves(t), \A u \in Thread \ {t} : StampedView(u)' = StampedView(u),
           NEW c \in DOMAIN contexts, c \in DOMAIN contexts', contexts'[c] = contexts[c],
           Owner(c) # t \/ ~(Live(c) \/ Live(c)')
    PROVE  StreamOn(F, G, c)
    <1>1. Owner(c) \in Thread /\ Owner(c)' = Owner(c)
        BY ContextFields DEF Parts, Owner
    <1>2. accept_events' <=> accept_events
        BY DEF Moves, accept_events
    <1>3. CASE Owner(c) # t
        <2>1. /\ app'[Owner(c)] = app[Owner(c)]
              /\ StampedView(Owner(c))' = StampedView(Owner(c))
            BY <1>1, <1>3 DEF Moves
        <2>2. (Live(c)' <=> Live(c)) /\ (Pending(c)' <=> Pending(c))
            BY <1>1, <2>1 DEF Live, Pending
        <2>3. Fits(EndStance(c), EndStance(c)')
            BY <1>1, <2>1, <2>2 DEF EndStance, StampedStance, Fits
        <2> QED
            BY <1>2, <2>1, <2>2, <2>3, QuietStream
    <1>4. CASE ~Live(c) /\ ~Live(c)'
        <2>1. ~Pending(c) /\ ~Pending(c)' /\ Fits(EndStance(c), EndStance(c)')
            BY <1>4 DEF Pending, EndStance, Fits, Gone
        <2> QED
            BY <1>2, <2>1, QuietStream
    <1> QED
        BY <1>3, <1>4

LEMMA RegisteredDead ==
    ASSUME Parts, Parts', StreamInv, CallInv, OrderInv, TableInv, CandidateInv,
           NEW F, LastStances(F), NEW t \in Thread, NEW type, NEW m, NEW pc,
           Emitting(t, type, m, pc), NEW result, EmitRegistered(t, type, m, result, pc)
    PROVE  DeadInv'
    <1> DEFINE slot == app[t].tls_context
               j == contexts[slot].next_thread_sequence
               n == j + 1
               e == NewEvent(t, type, m, result, global_sequence, j)
               a == [app[t] EXCEPT !.pc = pc, !.mutex = m, !.event = e]
               c == [contexts[slot] EXCEPT !.next_thread_sequence = n]
    <1>1. /\ app[t] \in AppThread /\ app \in [Thread -> AppThread] /\ slot \in DOMAIN contexts
          /\ slot > NoContext
        BY AppFields DEF Parts, AppInv, EmitRegistered, NoContext, RegistrationFailed
    <1>2. contexts[slot] \in ThreadContext /\ global_sequence \in Nat
        BY <1>1, ContextFields DEF Parts, CountersInv
    <1>3. /\ app' = [app EXCEPT ![t] = a]
          /\ contexts' = [contexts EXCEPT ![slot] = c]
          /\ global_sequence' = global_sequence + 1
          /\ accept_events /\ Witness(t, type, m) /\ Stamping(t, type, m)
          /\ UNCHANGED <<main, verifier, consumer, lock>>
        BY DEF EmitRegistered, Emitting, Stamping, monitorVars
    <1>4. /\ e.sequence_id = global_sequence
          /\ e = NewEvent(t, type, m, result, global_sequence, j)
        BY DEF NewEvent
    <1> HIDE DEF e, n
    <1>5. a.pc = pc /\ a.mutex = m /\ a.event = e /\ a.tls_context = slot
        BY <1>1 DEF AppThread
    <1>6. c.queue = contexts[slot].queue /\ c.thread_id = contexts[slot].thread_id
          /\ c.dropped = contexts[slot].dropped
        BY <1>2 DEF ThreadContext
    <1> HIDE DEF a, c
    <1>7. app'[t] = a /\ \A u \in Thread \ {t} : app'[u] = app[u]
        BY <1>1, <1>3
    <1>8. /\ DOMAIN contexts' = DOMAIN contexts /\ contexts'[slot] = c
          /\ \A d \in DOMAIN contexts : d # slot => contexts'[d] = contexts[d]
          /\ Len(contexts') = Len(contexts) /\ Len(contexts) \in Nat
        <2>1. /\ DOMAIN contexts' = DOMAIN contexts /\ contexts'[slot] = c
              /\ \A d \in DOMAIN contexts : d # slot => contexts'[d] = contexts[d]
            BY <1>1, <1>3
        <2>2. /\ DOMAIN contexts = 1 .. Len(contexts) /\ DOMAIN contexts' = 1 .. Len(contexts')
              /\ Len(contexts) \in Nat /\ Len(contexts') \in Nat
            BY LenProperties DEF Parts, ContextsInv
        <2>3. Len(contexts') = Len(contexts)
            BY <2>1, <2>2
        <2> QED
            BY <2>1, <2>2, <2>3
    <1>9. Owner(slot) = t
        BY <1>1 DEF StreamInv, ThreadsInv, ThreadInv
    <1>10. \A u \in Thread \ {t} : StampedView(u)' = StampedView(u)
        BY <1>3, <1>7, WitnessTimes, OtherView
    <1>11. /\ app'[t].pc = pc /\ app'[t].mutex = m /\ app'[t].event = e
           /\ app'[t].tls_context = slot
        BY <1>5, <1>7
    <1>12. /\ StanceBefore(e) = StampedStance(t) /\ StanceAfter(e) = StampedStance(t)'
           /\ Truthful(t)'
        <2>1. slot # NoContext
            BY <1>1 DEF NoContext
        <2> QED
            BY <1>4, <1>11, <2>1, StampedStances
    <1>13. Moves(t)
        <2>1. slot # RegistrationFailed
            BY <1>1 DEF NoContext, RegistrationFailed
        <2> QED
            BY <1>3, <1>7, <2>1 DEF Moves, Emitting
    <1> DEFINE G == [d \in DOMAIN contexts' |->
                       IF accept_events' THEN EndStance(d)' ELSE F[d]]
    <1>14. PICK H : H = G
        OBVIOUS
    <1>15. EndsFollow(F, H)
        BY <1>14 DEF EndsFollow
    <1> HIDE DEF G
    <1>16. EndInv(F) /\ PendingFits(F)
        BY DEF LastStances
    <1>17. ASSUME NEW d \in DOMAIN contexts
           PROVE  StreamOn(F, H, d)
        <2>1. CASE d # slot
            <3>1. Owner(d) # t \/ ~(Live(d) \/ Live(d)')
                <4>1. Owner(d)' = Owner(d)
                    BY <1>8, <2>1 DEF Owner
                <4> QED
                    BY <1>11, <2>1, <4>1 DEF Live
            <3> QED
                BY <1>8, <1>10, <1>13, <1>15, <1>16, <2>1, <3>1, OtherStream
        <2>2. CASE d = slot
            <3>1. /\ Owner(d)' = t /\ Owner(d) = t /\ Queue(d)' = Queue(d)
                  /\ contexts'[d].dropped = contexts[d].dropped
                  /\ Live(d) /\ ~Pending(d) /\ Live(d)' /\ Pending(d)'
                BY <1>6, <1>8, <1>9, <1>11, <2>2
                DEF Owner, Queue, Live, Pending, Emitting, PushPc
            <3>2. F[d] = StampedStance(t) /\ H[d] = StampedStance(t)'
                <4>1. F[d] = EndStance(d)
                    BY <1>3, <1>16 DEF EndInv
                <4>2. H[d] = EndStance(d)'
                    BY <1>3, <1>8, <1>15 DEF EndsFollow, accept_events
                <4> QED
                    BY <3>1, <4>1, <4>2 DEF EndStance
            <3>3. ASSUME NEW k \in 0 .. Len(Queue(d))
                  PROVE  Fits(Following(F, d, k), Following(H, d, k)')
                <4>1. Following(F, d, k) = Following(H, d, k)'
                    BY <1>11, <1>12, <3>1, <3>2 DEF Following
                <4> QED
                    BY <4>1 DEF Fits
            <3>4. Fits(StanceAfter(app'[Owner(d)].event), H[d])
                BY <1>11, <1>12, <3>1, <3>2 DEF Fits
            <3>5. \A k \in DOMAIN Queue(d) : Queue(d)[k].sequence_id < global_sequence
                BY DEF OrderInv, Stamps
            <3>6. Ordered(d)'
                BY <1>4, <1>11, <3>1, <3>5 DEF OrderInv, Ordered
            <3>7. Stamps(d)' \subseteq Stamps(d) \cup (global_sequence .. global_sequence' - 1)
                <4>1. Stamps(d)' = Stamps(d) \cup {global_sequence}
                    BY <1>4, <1>11, <3>1 DEF Stamps
                <4> QED
                    BY <1>2, <1>3, <4>1
            <3> QED
                BY <3>1, <3>3, <3>4, <3>6, <3>7 DEF StreamOn
        <2> QED
            BY <2>1, <2>2
    <1>18. global_sequence' >= global_sequence /\ Len(contexts') >= Len(contexts)
        BY <1>2, <1>3, <1>8
    <1>19. DOMAIN contexts' \ DOMAIN contexts = {}
        BY <1>8
    <1>20. /\ CallInv' /\ OrderInv' /\ TableInv' /\ CandidateInv' /\ LastStances(H)'
        BY <1>12, <1>13, <1>15, <1>17, <1>18, <1>19, AppStepDead
    <1> QED
        BY <1>20 DEF DeadInv

LEMMA FirstDead ==
    ASSUME Parts, Parts', StreamInv, CallInv, OrderInv, TableInv, CandidateInv,
           NEW F, LastStances(F), NEW t \in Thread, NEW type, NEW m, NEW pc,
           Emitting(t, type, m, pc), NEW result, NEW key,
           EmitFirst(t, type, m, result, pc, key)
    PROVE  DeadInv'
    <1> DEFINE last == Len(contexts) + 1
               e == NewEvent(t, type, m, result, global_sequence + 1, 1)
               start == NewEvent(t, "THREAD_START", None, "ok", global_sequence, 0)
               q == <<start>>
               x == [thread_id |-> t, key |-> key, dropped |-> 0,
                     next_thread_sequence |-> 2, queue |-> q]
               a == [pc |-> pc, mutex |-> m, tls_context |-> last, event |-> e]
    <1>1. /\ contexts \in Seq(ThreadContext) /\ Len(contexts) \in Nat
          /\ DOMAIN contexts = 1 .. Len(contexts) /\ app \in [Thread -> AppThread]
          /\ global_sequence \in Nat
        BY LenProperties DEF Parts, ContextsInv, AppInv, CountersInv
    <1>2. /\ app' = [app EXCEPT ![t] = a]
          /\ contexts' = Append(contexts, x)
          /\ global_sequence' = global_sequence + 2
          /\ accept_events /\ Witness(t, type, m) /\ app[t].tls_context = NoContext
          /\ Stamping(t, type, m) /\ UNCHANGED <<main, now, verifier, consumer, lock>>
        BY DEF EmitFirst, Emitting, Stamping, monitorVars
    <1>3. /\ e.sequence_id = global_sequence + 1
          /\ e = NewEvent(t, type, m, result, global_sequence + 1, 1)
        BY DEF NewEvent
    <1>4. /\ start.sequence_id = global_sequence /\ start.event_type = "THREAD_START"
          /\ start.really_held = RealDepth(t)
        BY DEF NewEvent
    <1> HIDE DEF e, start
    <1>5. a.pc = pc /\ a.mutex = m /\ a.event = e /\ a.tls_context = last
        OBVIOUS
    <1>6. /\ x.thread_id = t /\ x.queue = q
          /\ Len(q) = 1 /\ q[1] = start /\ DOMAIN q = {1} /\ q # <<>>
        OBVIOUS
    <1> HIDE DEF a, x, q
    <1>7. /\ DOMAIN contexts' = 1 .. last /\ contexts'[last] = x /\ Len(contexts') = last
          /\ \A c \in DOMAIN contexts : contexts'[c] = contexts[c]
        BY <1>1, <1>2
    <1>8. app'[t] = a /\ \A u \in Thread \ {t} : app'[u] = app[u]
        BY <1>1, <1>2
    <1>9. \A u \in Thread \ {t} : StampedView(u)' = StampedView(u)
        BY <1>2, <1>8, WitnessTimes, OtherView
    <1>10. \A c \in DOMAIN contexts : c # last /\ c # NoContext /\ c \in DOMAIN contexts'
        BY <1>1, <1>7 DEF NoContext
    <1>11. DOMAIN contexts' \ DOMAIN contexts = {last} /\ last # NoContext
        BY <1>1, <1>7 DEF NoContext
    <1>12. /\ app'[t].pc = pc /\ app'[t].mutex = m /\ app'[t].event = e
           /\ app'[t].tls_context = last
        BY <1>5, <1>8
    <1>13. /\ StanceBefore(e) = StampedStance(t) /\ StanceAfter(e) = StampedStance(t)'
           /\ Truthful(t)'
        BY <1>3, <1>11, <1>12, StampedStances
    <1>14. Moves(t)
        <2>1. NoContext # RegistrationFailed
            BY DEF NoContext, RegistrationFailed
        <2> QED
            BY <1>2, <1>8, <2>1 DEF Moves, Emitting
    <1> DEFINE G == [d \in DOMAIN contexts' |->
                       IF accept_events' THEN EndStance(d)' ELSE F[d]]
    <1>15. PICK H : H = G
        OBVIOUS
    <1>16. EndsFollow(F, H)
        BY <1>15 DEF EndsFollow
    <1> HIDE DEF G
    <1>17. EndInv(F) /\ PendingFits(F)
        BY DEF LastStances
    <1>18. ASSUME NEW d \in DOMAIN contexts
           PROVE  StreamOn(F, H, d)
        <2>1. Owner(d) # t \/ ~(Live(d) \/ Live(d)')
            <3>1. Owner(d)' = Owner(d)
                BY <1>7 DEF Owner
            <3> QED
                BY <1>2, <1>10, <1>12, <3>1 DEF Live
        <2> QED
            BY <1>7, <1>9, <1>10, <1>14, <1>16, <1>17, <2>1, OtherStream
    <1>19. ASSUME NEW d, d = last
           PROVE  StreamNew(H, d)
        <2>0. d \in DOMAIN contexts' /\ contexts'[d] = x /\ app'[t].tls_context = d
            BY <1>7, <1>11, <1>12, <1>19
        <2>1. Owner(d)' = t /\ Queue(d)' = q
            BY <1>6, <2>0 DEF Owner, Queue
        <2>2. Live(d)' /\ Pending(d)'
            BY <1>12, <2>0, <2>1 DEF Live, Pending, Emitting
        <2>3. H[d] = StampedStance(t)'
            <3>1. H[d] = EndStance(d)'
                BY <1>2, <1>16, <2>0 DEF EndsFollow, accept_events
            <3> QED
                BY <2>1, <2>2, <3>1 DEF EndStance
        <2>4. Following(H, d, 1)' = StampedStance(t)
            <3>1. Len(Queue(d)') = 1
                BY <1>6, <2>1
            <3>2. Following(H, d, 1)' = StanceBefore(app'[Owner(d)'].event)
                BY <2>2, <3>1 DEF Following
            <3> QED
                BY <1>12, <1>13, <2>1, <3>2
        <2>5. Fits(StanceAfter(start), StampedStance(t))
            <3>1. app[t].pc \notin {"acquired", "lock_failed"}
                BY <1>2 DEF CallInv, Truthful, WaitPc
            <3>2. app[t].pc \notin WaitPc
                BY <3>1 DEF Emitting, WaitPc
            <3>3. ASSUME NEW i \in Mutex, RealDepth(t)[i] > 0
                  PROVE  StampedView(t).held[i] > 0
                <4>1. RealDepth(t)[i] \in Nat
                    BY DEF RealDepth, Parts, LockInv
                <4> QED
                    BY <3>1, <3>3, <4>1 DEF StampedView
            <3> QED
                BY <1>4, <3>2, <3>3 DEF Fits, StanceAfter, StampedStance
        <2>6. \A k \in DOMAIN Queue(d)' :
                 Fits(StanceAfter(Queue(d)'[k]), Following(H, d, k)')
            BY <1>6, <2>1, <2>4, <2>5
        <2>7. Fits(StanceAfter(app'[Owner(d)'].event), H[d])
            BY <1>12, <1>13, <2>1, <2>3 DEF Fits
        <2>8. Ordered(d)'
            BY <1>1, <1>3, <1>4, <1>6, <1>12, <2>1 DEF Ordered
        <2>9. Stamps(d)' \subseteq global_sequence .. global_sequence' - 1
            <3>1. Stamps(d)' = {global_sequence, global_sequence + 1}
                BY <1>3, <1>4, <1>6, <1>12, <2>1, <2>2 DEF Stamps
            <3> QED
                BY <1>1, <1>2, <3>1
        <2> QED
            BY <2>6, <2>7, <2>8, <2>9 DEF StreamNew
    <1>20. global_sequence' >= global_sequence /\ Len(contexts') >= Len(contexts)
        BY <1>1, <1>2, <1>7
    <1>21. \A d \in DOMAIN contexts' \ DOMAIN contexts : StreamNew(H, d)
        BY <1>11, <1>19
    <1>22. /\ CallInv' /\ OrderInv' /\ TableInv' /\ CandidateInv' /\ LastStances(H)'
        BY <1>13, <1>14, <1>16, <1>18, <1>20, <1>21, AppStepDead
    <1> QED
        BY <1>22 DEF DeadInv

LEMMA ResumedMutex ==
    ASSUME NEW a \in AppThread, NEW pc
    PROVE  Resume(a, pc).mutex = IF pc = "push_request" THEN a.mutex ELSE None
    <1> DEFINE q == IF pc = "push_request" THEN "lock" ELSE "run"
               m == IF pc = "push_request" THEN a.mutex ELSE None
               c == IF pc = "push_exit" THEN NoContext ELSE a.tls_context
               b == [a EXCEPT !.event = NoEvent, !.pc = q, !.mutex = m, !.tls_context = c]
    <1>1. b = Resume(a, pc)
        BY DEF Resume
    <1> HIDE DEF q, m, c
    <1>2. b.mutex = m
        BY DEF AppThread
    <1> QED
        BY <1>1, <1>2 DEF m

LEMMA PushDead ==
    ASSUME Parts, Parts', StreamInv, CallInv, OrderInv, TableInv, CandidateInv,
           NEW F, LastStances(F), NEW t \in Thread, Push(t)
    PROVE  DeadInv'
    <1> DEFINE slot == app[t].tls_context
               old == contexts[slot]
               q == old.queue
               e == app[t].event
               b == Resume(app[t], app[t].pc)
               p == Append(q, e)
               longer == [old EXCEPT !.queue = p]
               j == old.dropped + 1
               lossy == [old EXCEPT !.dropped = j]
               c == IF Len(q) < Capacity THEN longer ELSE lossy
    <1>1. /\ app[t].pc \in PushPc /\ app[t] \in AppThread /\ app \in [Thread -> AppThread]
          /\ e \in MonitorEvent /\ slot \in DOMAIN contexts
          /\ app[t].mutex \in Mutex \cup {None}
        BY AppFields DEF Parts, AppInv, Push, PushPc
    <1>2. /\ old \in ThreadContext /\ q \in Seq(MonitorEvent)
          /\ old.dropped \in Nat /\ Len(q) \in Nat /\ DOMAIN q = 1 .. Len(q)
        BY <1>1, ContextFields, LenProperties DEF Parts
    <1>3. /\ contexts' = [contexts EXCEPT ![slot] = c]
          /\ app' = [app EXCEPT ![t] = b]
          /\ UNCHANGED <<lock, times, main, verifier, consumer, global_sequence>>
        BY DEF Push, mutexVars, ghostVars, monitorVars
    <1>4. Owner(slot) = t /\ old.thread_id = t /\ Truthful(t)
        BY <1>1 DEF StreamInv, ThreadsInv, ThreadInv, Owner, CallInv
    <1>5. Live(slot) /\ Pending(slot)
        BY <1>1, <1>4 DEF Live, Pending
    <1>6. /\ b.pc = IF app[t].pc = "push_request" THEN "lock" ELSE "run"
          /\ b.mutex = IF app[t].pc = "push_request" THEN app[t].mutex ELSE None
          /\ b.tls_context = IF app[t].pc = "push_exit" THEN NoContext ELSE slot
        BY <1>1, ResumedAt, ResumedMutex
    <1>7. /\ p \in Seq(MonitorEvent) /\ Len(p) = Len(q) + 1 /\ p[Len(q) + 1] = e
          /\ DOMAIN p = 1 .. Len(q) + 1
          /\ \A k \in DOMAIN q : p[k] = q[k]
        BY <1>1, <1>2, AppendProperties
    <1> HIDE DEF b, p, e
    <1>8. /\ c.thread_id = t
          /\ \/ c.queue = p /\ c.dropped = old.dropped
             \/ c.queue = q /\ c.dropped # 0
        <2>1. j \in Nat /\ j # 0
            BY <1>2
        <2> HIDE DEF j
        <2>2. longer.thread_id = old.thread_id /\ longer.queue = p
              /\ longer.dropped = old.dropped
            BY <1>2 DEF ThreadContext
        <2>3. lossy.thread_id = old.thread_id /\ lossy.queue = q /\ lossy.dropped = j
            BY <1>2 DEF ThreadContext
        <2> QED
            BY <1>4, <2>1, <2>2, <2>3
    <1> HIDE DEF c
    <1>9. app'[t] = b /\ \A u \in Thread \ {t} : app'[u] = app[u]
        BY <1>1, <1>3
    <1>10. /\ DOMAIN contexts' = DOMAIN contexts /\ contexts'[slot] = c
           /\ \A d \in DOMAIN contexts : d # slot => contexts'[d] = contexts[d]
           /\ Len(contexts') = Len(contexts) /\ Len(contexts) \in Nat
        <2>1. /\ DOMAIN contexts' = DOMAIN contexts /\ contexts'[slot] = c
              /\ \A d \in DOMAIN contexts : d # slot => contexts'[d] = contexts[d]
            BY <1>1, <1>3
        <2>2. /\ DOMAIN contexts = 1 .. Len(contexts) /\ DOMAIN contexts' = 1 .. Len(contexts')
              /\ Len(contexts) \in Nat /\ Len(contexts') \in Nat
            BY LenProperties DEF Parts, ContextsInv
        <2>3. Len(contexts') = Len(contexts)
            BY <2>1, <2>2
        <2> QED
            BY <2>1, <2>2, <2>3
    <1>11. /\ slot # NoContext /\ slot # RegistrationFailed
           /\ NoContext \notin DOMAIN contexts
        BY <1>1, LenProperties DEF Parts, ContextsInv, NoContext, RegistrationFailed
    <1>12. \A u \in Thread \ {t} : StampedView(u)' = StampedView(u)
        BY <1>3, <1>9, OtherView
    <1>13. Moves(t)
        BY <1>1, <1>3, <1>6, <1>9, <1>10, <1>11 DEF Moves, PushPc
    <1>14. Truthful(t)'
        BY <1>6, <1>9, <1>11 DEF Truthful, PushPc, WaitPc
    <1> DEFINE G == [d \in DOMAIN contexts' |->
                       IF accept_events' THEN EndStance(d)' ELSE F[d]]
    <1>15. PICK H : H = G
        OBVIOUS
    <1>16. EndsFollow(F, H)
        BY <1>15 DEF EndsFollow
    <1> HIDE DEF G
    <1>17. EndInv(F) /\ PendingFits(F) /\ (accept_events' <=> accept_events)
        BY <1>3 DEF LastStances, accept_events
    <1>18. ASSUME NEW d \in DOMAIN contexts, d # slot
           PROVE  StreamOn(F, H, d)
        <2>1. Owner(d) # t \/ ~(Live(d) \/ Live(d)')
            <3>1. Owner(d)' = Owner(d)
                BY <1>10, <1>18 DEF Owner
            <3> QED
                BY <1>6, <1>9, <1>11, <1>18, <3>1 DEF Live
        <2> QED
            BY <1>10, <1>12, <1>13, <1>16, <1>17, <1>18, <2>1, OtherStream
    <1>19. ASSUME NEW d \in DOMAIN contexts, d = slot
           PROVE  StreamOn(F, H, d)
        <2>1. /\ Owner(d)' = t /\ Owner(d) = t /\ Queue(d) = q /\ Queue(d)' = c.queue
              /\ contexts'[d].dropped = c.dropped /\ contexts[d].dropped = old.dropped
              /\ Live(d) /\ Pending(d) /\ (Live(d)' <=> app[t].pc # "push_exit")
              /\ ~Pending(d)'
            <3>1. /\ Owner(d)' = t /\ Owner(d) = t /\ Queue(d) = q /\ Queue(d)' = c.queue
                  /\ contexts'[d].dropped = c.dropped /\ contexts[d].dropped = old.dropped
                BY <1>4, <1>8, <1>10, <1>19 DEF Owner, Queue
            <3>2. Live(d)' <=> app[t].pc # "push_exit"
                BY <1>6, <1>9, <1>11, <1>19, <3>1 DEF Live
            <3>3. ~Pending(d)'
                BY <1>6, <1>9, <3>1 DEF Pending, PushPc
            <3> QED
                BY <1>5, <1>19, <3>1, <3>2, <3>3
        <2>2. Fits(F[d], H[d])
            <3>1. CASE ~accept_events
                BY <1>10, <1>16, <1>17, <3>1 DEF EndsFollow, Fits
            <3>2. CASE accept_events
                <4>1. F[d] = StampedStance(t) /\ H[d] = EndStance(d)'
                    BY <1>10, <1>16, <1>17, <2>1, <3>2 DEF EndsFollow, EndInv, EndStance
                <4>2. CASE app[t].pc = "push_exit"
                    BY <2>1, <4>1, <4>2 DEF EndStance, Gone, Fits, StampedStance, WaitPc
                <4>3. CASE app[t].pc # "push_exit"
                    <5>1. H[d] = StampedStance(t)'
                        BY <2>1, <4>1, <4>3 DEF EndStance
                    <5>2. StampedView(t)'.held = StampedView(t).held
                        BY <1>1, <1>3, <1>6, <1>9 DEF StampedView, RealDepth, PushPc
                    <5>3. StampedStance(t)' = StampedStance(t)
                        BY <1>1, <1>6, <1>9, <4>3, <5>2 DEF StampedStance, WaitPc, PushPc
                    <5> QED
                        BY <4>1, <5>1, <5>3 DEF Fits
                <4> QED
                    BY <4>2, <4>3
            <3> QED
                BY <3>1, <3>2
        <2>3. Fits(StanceAfter(e), H[d])
            <3>1. Fits(StanceAfter(e), F[d])
                BY <1>17, <2>1 DEF PendingFits, e
            <3> QED
                BY <2>2, <3>1, FitsTwice
        <2>4. /\ \A k \in DOMAIN q : q[k].sequence_id < e.sequence_id
              /\ \A k, l \in DOMAIN q : k < l => q[k].sequence_id < q[l].sequence_id
              /\ Stamps(d) = {q[k].sequence_id : k \in DOMAIN q} \cup {e.sequence_id}
            BY <2>1 DEF OrderInv, Ordered, Stamps, e
        <2>5. CASE c.queue = p /\ c.dropped = old.dropped
            <3>1. ASSUME NEW k \in 0 .. Len(Queue(d))
                  PROVE  Fits(Following(F, d, k), Following(H, d, k)')
                <4>1. CASE k < Len(q)
                    <5>1. k + 1 \in DOMAIN q /\ k < Len(p)
                        BY <1>2, <1>7, <2>1, <3>1, <4>1
                    <5>2. Following(F, d, k) = StanceBefore(q[k + 1])
                        BY <2>1, <4>1 DEF Following
                    <5>3. Following(H, d, k)' = StanceBefore(p[k + 1])
                        BY <2>1, <2>5, <5>1 DEF Following
                    <5> QED
                        BY <1>7, <5>1, <5>2, <5>3 DEF Fits
                <4>2. CASE k = Len(q)
                    <5>1. k < Len(p) /\ ~(k < Len(q))
                        BY <1>2, <1>7, <4>2
                    <5>2. Following(F, d, k) = StanceBefore(e)
                        BY <2>1, <5>1 DEF Following, e
                    <5>3. Following(H, d, k)' = StanceBefore(p[k + 1])
                        BY <2>1, <2>5, <5>1 DEF Following
                    <5> QED
                        BY <1>7, <4>2, <5>2, <5>3 DEF Fits
                <4> QED
                    BY <1>2, <2>1, <3>1, <4>1, <4>2
            <3>2. ASSUME NEW k \in DOMAIN p
                  PROVE  \/ k \in DOMAIN q /\ p[k] = q[k]
                         \/ Fits(StanceAfter(p[k]), Following(H, d, k)')
                <4>1. CASE k \in DOMAIN q
                    BY <1>7, <4>1
                <4>2. CASE k = Len(q) + 1
                    <5>1. p[k] = e /\ ~(k < Len(p))
                        BY <1>2, <1>7, <4>2
                    <5>2. Following(H, d, k)' = H[d]
                        BY <2>1, <2>5, <5>1 DEF Following
                    <5> QED
                        BY <2>3, <5>1, <5>2
                <4>3. k \in DOMAIN q \/ k = Len(q) + 1
                    BY <1>2, <1>7, <3>2
                <4> QED
                    BY <4>1, <4>2, <4>3
            <3>3. p # <<>>
                BY <1>2, <1>7, EmptySeq
            <3>4. Ordered(d)'
                <4>1. \A k, l \in DOMAIN p : k < l => p[k].sequence_id < p[l].sequence_id
                    <5> SUFFICES ASSUME NEW k \in DOMAIN p, NEW l \in DOMAIN p, k < l
                                 PROVE  p[k].sequence_id < p[l].sequence_id
                        OBVIOUS
                    <5>1. k \in DOMAIN q
                        BY <1>2, <1>7
                    <5>2. CASE l \in DOMAIN q
                        BY <1>7, <2>4, <5>1, <5>2
                    <5>3. CASE l = Len(q) + 1
                        BY <1>7, <2>4, <5>1, <5>3
                    <5> QED
                        BY <1>2, <1>7, <5>2, <5>3
                <4> QED
                    BY <2>1, <2>5, <4>1 DEF Ordered
            <3>5. Stamps(d)' \subseteq Stamps(d)
                <4>1. Stamps(d)' = {p[k].sequence_id : k \in DOMAIN p}
                    BY <2>1, <2>5 DEF Stamps
                <4>2. \A k \in DOMAIN p : k \in DOMAIN q \/ p[k] = e
                    BY <1>2, <1>7
                <4> QED
                    BY <1>7, <2>4, <4>1, <4>2
            <3> QED
                BY <2>1, <2>5, <3>1, <3>2, <3>3, <3>4, <3>5 DEF StreamOn
        <2>6. CASE c.queue = q /\ c.dropped # 0
            <3>1. Ordered(d)' /\ Stamps(d)' \subseteq Stamps(d)
                BY <2>1, <2>4, <2>6 DEF Ordered, Stamps
            <3> QED
                BY <2>1, <2>6, <3>1 DEF StreamOn
        <2> QED
            BY <1>8, <2>5, <2>6
    <1>20. global_sequence' >= global_sequence /\ Len(contexts') >= Len(contexts)
        BY <1>3, <1>10 DEF Parts, CountersInv
    <1>21. DOMAIN contexts' \ DOMAIN contexts = {}
        BY <1>10
    <1>22. /\ CallInv' /\ OrderInv' /\ TableInv' /\ CandidateInv' /\ LastStances(H)'
        BY <1>13, <1>14, <1>16, <1>18, <1>19, <1>20, <1>21, AppStepDead
    <1> QED
        BY <1>22 DEF DeadInv

LEMMA EmitDead ==
    ASSUME Parts, Parts', StreamInv, CallInv, OrderInv, TableInv, CandidateInv,
           NEW F, LastStances(F), NEW t \in Thread, NEW type, NEW m, NEW pc,
           Emitting(t, type, m, pc), NEW result, Emit(t, type, m, result, pc)
    PROVE  DeadInv'
    <1>1. CASE EmitRefused(t, m, pc)
        BY <1>1, RefusedDead
    <1>2. CASE EmitRegistered(t, type, m, result, pc)
        BY <1>2, RegisteredDead
    <1>3. ASSUME NEW key, EmitFirst(t, type, m, result, pc, key) PROVE DeadInv'
        BY <1>3, FirstDead
    <1>4. CASE EmitUnregistered(t, type, m, pc)
        BY <1>4, UnregisteredDead
    <1> QED
        BY <1>1, <1>2, <1>3, <1>4 DEF Emit

LEMMA ThreadExitDead ==
    ASSUME Parts, Parts', StreamInv, CallInv, OrderInv, TableInv, CandidateInv,
           NEW F, LastStances(F), NEW t \in Thread, ThreadExit(t)
    PROVE  DeadInv'
    <1>1. Emitting(t, "THREAD_EXIT", None, "push_exit")
        BY DEF ThreadExit, Emitting, Stamping, Matching, MutexEvent, LifecycleEvent,
               mutexVars, PushPc
    <1>2. CASE EmitRegistered(t, "THREAD_EXIT", None, "ok", "push_exit")
        BY <1>1, <1>2, RegisteredDead
    <1>3. CASE EmitRefused(t, None, "push_exit")
        BY <1>1, <1>3, RefusedDead
    <1>4. CASE /\ app' = [app EXCEPT ![t] = Resume(@, "push_exit")]
               /\ IF accept_events THEN Witness(t, "THREAD_EXIT", None)
                                   ELSE UNCHANGED ghostVars
               /\ UNCHANGED transportVars
        <2>1. app[t] \in AppThread /\ app \in [Thread -> AppThread]
            BY AppFields DEF Parts, AppInv
        <2>2. times' = times
            BY <1>4 DEF Witness, ghostVars
        <2>3. UNCHANGED <<lock, contexts, global_sequence, monitorVars>>
            BY <1>4 DEF ThreadExit, mutexVars, transportVars
        <2>4. /\ app'[t] = Resume(app[t], "push_exit")
              /\ \A u \in Thread \ {t} : app'[u] = app[u] /\ times'[u] = times[u]
            BY <1>4, <2>1, <2>2
        <2>5. app'[t].pc = "run" /\ app'[t].tls_context = NoContext
            BY <2>1, <2>4, ResumedAt
        <2>6. /\ app[t].pc \notin PushPc /\ app[t].pc # "lock" /\ app[t].pc \notin WaitPc
              /\ app[t].tls_context # RegistrationFailed
            BY DEF ThreadExit, PushPc, WaitPc, NoContext, RegistrationFailed
        <2> QED
            BY <2>3, <2>4, <2>5, <2>6, SilentDead
    <1> QED
        BY <1>2, <1>3, <1>4 DEF ThreadExit

\* Every step of an application thread keeps the invariant.
LEMMA ThreadDead ==
    ASSUME Parts, Parts', StreamInv, CallInv, OrderInv, TableInv, CandidateInv,
           NEW F, LastStances(F), NEW t \in Thread, Call(t) \/ InCall(t)
    PROVE  DeadInv'
    <1>1. app[t].pc \in MutexPc => app[t].mutex \in Mutex
        BY AppFields DEF Parts
    <1>2. ASSUME NEW m \in Mutex, LockRequest(t, m) PROVE DeadInv'
        <2>1. Emitting(t, "LOCK_REQUEST", m, "push_request")
            BY <1>2 DEF LockRequest, NewCall, Emitting, Stamping, Matching, MutexEvent, PushPc
        <2>2. Emit(t, "LOCK_REQUEST", m, "ok", "push_request")
            BY <1>2 DEF LockRequest
        <2> QED
            BY <2>1, <2>2, EmitDead
    <1>3. CASE LockAcquired(t)
        <2>1. Emitting(t, "LOCK_ACQUIRED", app[t].mutex, "push")
            BY <1>1, <1>3 DEF LockAcquired, Emitting, Stamping, Matching, MutexPc, mutexVars,
                                PushPc, MutexEvent
        <2>2. Emit(t, "LOCK_ACQUIRED", app[t].mutex, "ok", "push")
            BY <1>3 DEF LockAcquired
        <2> QED
            BY <2>1, <2>2, EmitDead
    <1>4. CASE LockFailed(t)
        <2>1. Emitting(t, "LOCK_FAILED", app[t].mutex, "push")
            BY <1>1, <1>4 DEF LockFailed, Emitting, Stamping, Matching, MutexPc, mutexVars,
                                PushPc, MutexEvent
        <2>2. Emit(t, "LOCK_FAILED", app[t].mutex, "EDEADLK", "push")
            BY <1>4 DEF LockFailed
        <2> QED
            BY <2>1, <2>2, EmitDead
    <1>5. CASE Unlocked(t)
        <2>1. Emitting(t, "UNLOCKED", app[t].mutex, "push")
            BY <1>1, <1>5 DEF Unlocked, Emitting, Stamping, Matching, MutexPc, mutexVars,
                                PushPc, MutexEvent
        <2>2. Emit(t, "UNLOCKED", app[t].mutex, "ok", "push")
            BY <1>5 DEF Unlocked
        <2> QED
            BY <2>1, <2>2, EmitDead
    <1>6. CASE UnlockFailed(t)
        <2>1. Emitting(t, "UNLOCK_FAILED", app[t].mutex, "push")
            BY <1>1, <1>6 DEF UnlockFailed, Emitting, Stamping, Matching, MutexPc, mutexVars,
                                PushPc, MutexEvent
        <2>2. Emit(t, "UNLOCK_FAILED", app[t].mutex, "EPERM", "push")
            BY <1>6 DEF UnlockFailed
        <2> QED
            BY <2>1, <2>2, EmitDead
    <1>7. CASE RealLock(t)
        BY <1>7, RealLockDead
    <1>8. ASSUME NEW m \in Mutex, RealUnlock(t, m) PROVE DeadInv'
        BY <1>8, RealUnlockDead
    <1>9. CASE Push(t)
        BY <1>9, PushDead
    <1>10. CASE ThreadExit(t)
        BY <1>10, ThreadExitDead
    <1> QED
        BY <1>2, <1>3, <1>4, <1>5, <1>6, <1>7, <1>8, <1>9, <1>10 DEF Call, InCall

-----------------------------------------------------------------------------
(***************************************************************************)
(* A cycle of the graph is real if its events have all been processed.     *)
(***************************************************************************)

LEMMA FirstContext ==
    ASSUME Parts, NEW c \in DOMAIN contexts
    PROVE  \E d \in DOMAIN contexts : First(d) /\ Owner(d) = Owner(c)
    <1> DEFINE T == {d \in DOMAIN contexts : Owner(d) = Owner(c)}
    <1>1. T \subseteq Nat /\ T # {}
        BY ContextFields DEF Parts
    <1>2. PICK d \in T : \A e \in T : d <= e
        <2> HIDE DEF T
        <2> QED
            BY <1>1, Least
    <1>3. ASSUME NEW e \in DOMAIN contexts, e < d PROVE Owner(e) # Owner(d)
        <2>1. e \in Nat /\ d \in Nat
            BY <1>1, ContextFields DEF Parts
        <2> QED
            BY <1>2, <1>3, <2>1
    <1> QED
        BY <1>2, <1>3 DEF First

LEMMA CycleReal ==
    ASSUME Parts, CallInv, TableInv, NEW F, LastStances(F),
           NEW C \in SUBSET Thread, WaitInGraph(verifier, C),
           \A t \in C : Complete(t),
           \A c \in DOMAIN contexts : First(c) /\ Owner(c) \in C => Queue(c) = <<>>
    PROVE  ReallyDeadlocked(C)
    <1> DEFINE v == verifier
               S == {c \in DOMAIN contexts : First(c) /\ Owner(c) \in C}
               y(c) == Following(F, c, 0)
    <1>1. ASSUME NEW t \in C
          PROVE  /\ ~Tainted(v, t)
                 /\ Waiting(v, t) \in Mutex /\ Waiting(v, t) # None
                 /\ ~Lost(v, Waiting(v, t))
                 /\ v.mutex_states[Waiting(v, t)].owner \in C \ {t}
        <2>1. WaitsFor(v, t) \in C \ {t} /\ WaitsFor(v, t) # None
            BY VerifierAssumption DEF WaitInGraph
        <2>2. v.thread_states[t].waiting_mutex \in Mutex \cup {None}
            BY ThreadFields DEF Parts, Consistent
        <2> QED
            BY <2>1, <2>2 DEF WaitsFor, Trusted, Tainted, Waiting, Lost, KnownMutexes
    <1>2. ASSUME NEW t \in C
          PROVE  \E c \in S : Owner(c) = t
        <2>1. v.thread_states[t].slot # 0
            <3>1. WaitsFor(v, t) # None
                BY VerifierAssumption DEF WaitInGraph
            <3> QED
                BY <3>1 DEF WaitsFor, Trusted
        <2>2. PICK c \in DOMAIN contexts : Owner(c) = t
            BY <2>1 DEF TableInv
        <2>3. PICK d \in DOMAIN contexts : First(d) /\ Owner(d) = t
            BY <2>2, FirstContext
        <2> QED
            BY <2>3
    <1>3. ASSUME NEW c \in S
          PROVE  /\ y(c) \in Stances(F, c)
                 /\ y(c).waits = Waiting(v, Owner(c)) /\ y(c).waits # None
                 /\ Owns(v, Owner(c), y(c))
        <2>1. contexts[c].dropped = 0
            BY DEF Complete, Owner
        <2>2. y(c) = IF Pending(c) THEN StanceBefore(app[Owner(c)].event) ELSE F[c]
            BY DEF Following
        <2>3. Waits(v, Owner(c), y(c)) /\ Owns(v, Owner(c), y(c))
            BY <1>1, <2>1 DEF LastStances, RecordInv
        <2> QED
            BY <1>1, <2>2, <2>3 DEF Stances, Waits, Waiting
    <1>4. ASSUME NEW c \in S
          PROVE  \E d \in S : Owner(d) # Owner(c) /\ MayWait(F, c, d)
        <2> DEFINE m == Waiting(v, Owner(c))
        <2>1. m \in Mutex /\ v.mutex_states[m].owner \in C \ {Owner(c)}
            BY <1>1
        <2>2. PICK d \in S : Owner(d) = v.mutex_states[m].owner
            BY <1>2, <2>1
        <2>3. m \in y(d).held
            BY <1>3, <2>1, <2>2 DEF Owns
        <2> QED
            BY <1>3, <2>1, <2>2, <2>3 DEF MayWait
    <1>5. Stuck({Owner(c) : c \in S})
        BY <1>4 DEF LastStances, StuckInv
    <1>6. {Owner(c) : c \in S} = C
        BY <1>2
    <1> SUFFICES ASSUME NEW t \in C PROVE \E u \in C \ {t} : ReallyWaitsFor(t, u)
        BY DEF ReallyDeadlocked
    <1>7. PICK u \in C \ {t} : Asks(t, u)
        BY <1>5, <1>6 DEF Stuck
    <1>8. PICK c \in S : Owner(c) = t
        BY <1>2
    <1>9. app[t].pc # "push_request"
        <2> SUFFICES ASSUME app[t].pc = "push_request" PROVE FALSE
            OBVIOUS
        <2>1. app[t].pc \in PushPc /\ Truthful(t)
            BY DEF PushPc, CallInv
        <2>2. CASE Live(c)
            <3>1. Pending(c)
                BY <1>8, <2>1, <2>2 DEF Pending
            <3>2. y(c) = StanceBefore(app[t].event)
                BY <1>8, <3>1 DEF Following
            <3>3. app[t].event.event_type = "LOCK_REQUEST"
                BY <2>1 DEF Truthful
            <3> QED
                BY <1>3, <3>2, <3>3 DEF StanceBefore
        <2>3. CASE ~Live(c)
            <3>1. y(c) = F[c]
                BY <2>3 DEF Following, Pending
            <3>2. F[c].waits = None
                BY <1>8, <2>1, <2>3 DEF LastStances, EndInv
            <3> QED
                BY <1>3, <3>1, <3>2
        <2> QED
            BY <2>2, <2>3
    <1>10. app[t].pc = "lock" /\ lock[app[t].mutex].owner = u
        BY <1>7, <1>9 DEF Asks
    <1>11. u # None /\ u # t
        BY VerifierAssumption
    <1> QED
        BY <1>10, <1>11 DEF ReallyWaitsFor, RealLockResult

\* monitor_verifier_check_deadlocks changes no table, takes only a cycle of the graph as
\* candidate, and reports only the candidate of an earlier pass.
LEMMA CheckedCycle ==
    ASSUME NEW v \in VerifierState
    PROVE  LET w == CheckDeadlocks(v) IN
           /\ w.mutex_states = v.mutex_states
           /\ w.candidate_cycle \in {{}, FindAnyCycle(v)}
           /\ w.deadlock_cycle_violations > v.deadlock_cycle_violations
                => w.reported_cycle = v.candidate_cycle
    <1> DEFINE cycle == FindAnyCycle(v)
               n == IF v.confirmations < Confirmations THEN v.confirmations + 1
                                                       ELSE v.confirmations
               r == [v EXCEPT !.confirmations = n, !.reported_cycle = cycle]
               i == r.deadlock_cycle_violations + 1
               w == CheckDeadlocks(v)
    <1>1. \/ w = [v EXCEPT !.candidate_cycle = {}, !.confirmations = 0, !.reported_cycle = {}]
          \/ w = [v EXCEPT !.candidate_cycle = cycle, !.confirmations = 1]
          \/ v.candidate_cycle = cycle /\ w = [v EXCEPT !.confirmations = n]
          \/ v.candidate_cycle = cycle /\ w = [r EXCEPT !.deadlock_cycle_violations = i]
        BY DEF CheckDeadlocks, ReportDeadlockCycle
    <1>2. v.deadlock_cycle_violations \in Nat
        BY DEF VerifierState
    <1>3. ~(v.deadlock_cycle_violations > v.deadlock_cycle_violations)
        BY <1>2
    <1> HIDE DEF cycle, n, i, w
    <1>4. ASSUME v.candidate_cycle = cycle, w = [r EXCEPT !.deadlock_cycle_violations = i]
          PROVE  /\ w.mutex_states = v.mutex_states /\ w.candidate_cycle = cycle
                 /\ w.reported_cycle = v.candidate_cycle
        BY <1>4 DEF VerifierState
    <1>5. ASSUME NEW x, NEW y, NEW z,
                 w = [v EXCEPT !.candidate_cycle = x, !.confirmations = y, !.reported_cycle = z]
          PROVE  /\ w.mutex_states = v.mutex_states /\ w.candidate_cycle = x
                 /\ w.deadlock_cycle_violations = v.deadlock_cycle_violations
        BY <1>5 DEF VerifierState
    <1>6. ASSUME NEW x, NEW y, w = [v EXCEPT !.candidate_cycle = x, !.confirmations = y]
          PROVE  /\ w.mutex_states = v.mutex_states /\ w.candidate_cycle = x
                 /\ w.deadlock_cycle_violations = v.deadlock_cycle_violations
        BY <1>6 DEF VerifierState
    <1>7. ASSUME v.candidate_cycle = cycle, w = [v EXCEPT !.confirmations = n]
          PROVE  /\ w.mutex_states = v.mutex_states /\ w.candidate_cycle = cycle
                 /\ w.deadlock_cycle_violations = v.deadlock_cycle_violations
        BY <1>7 DEF VerifierState
    <1>8. w.mutex_states = v.mutex_states /\ w.candidate_cycle \in {{}, cycle}
        BY <1>1, <1>4, <1>5, <1>6, <1>7
    <1>9. w.deadlock_cycle_violations > v.deadlock_cycle_violations
            => w.reported_cycle = v.candidate_cycle
        BY <1>1, <1>3, <1>4, <1>5, <1>6, <1>7
    <1> QED
        BY <1>8, <1>9 DEF w, cycle

-----------------------------------------------------------------------------
(***************************************************************************)
(* Steps of the consumer and of stop that take no event.                   *)
(***************************************************************************)

\* With the same tables, what was recorded stays.
LEMMA TablesSame ==
    ASSUME NEW v, NEW w, w.thread_states = v.thread_states, w.mutex_states = v.mutex_states
    PROVE  /\ \A C : WaitInGraph(w, C) <=> WaitInGraph(v, C)
           /\ \A t : Tainted(w, t) <=> Tainted(v, t)
           /\ \A t, y : Waits(w, t, y) <=> Waits(v, t, y)
           /\ \A t, y : Owns(w, t, y) <=> Owns(v, t, y)
    <1>1. \A t : WaitsFor(w, t) = WaitsFor(v, t)
        BY DEF WaitsFor, Trusted
    <1>2. \A m : Lost(w, m) <=> Lost(v, m)
        BY DEF Lost, KnownMutexes
    <1> QED
        BY <1>1, <1>2 DEF WaitInGraph, Tainted, Waits, Owns

Aside == DrainEmpty \/ PassEnd \/ StopAccept \/ StopStep \/ Tick \/ UNCHANGED vars

LEMMA AsideFrame ==
    ASSUME Parts, Aside
    PROVE  /\ UNCHANGED <<lock, app, contexts, global_sequence, times>>
           /\ accept_events' => accept_events
           /\ verifier'.thread_states = verifier.thread_states
           /\ verifier'.mutex_states = verifier.mutex_states
    <1>1. UNCHANGED <<lock, app, contexts, global_sequence, times>>
        BY DEF Aside, DrainEmpty, PassEnd, StopAccept, StopStep, StopConsumer, Summary, Tick,
               ghostVars, mutexVars, transportVars, vars
    <1>2. accept_events' => accept_events
        <2>1. UNCHANGED vars => (accept_events' <=> accept_events)
            BY DEF vars, accept_events
        <2> QED
            BY <2>1, StopsAccepting DEF Aside
    <1>3. verifier' = verifier \/ verifier' = CheckDeadlocks(verifier)
        BY DEF Aside, DrainEmpty, PassEnd, StopAccept, StopStep, StopConsumer, Summary, Tick, vars
    <1> QED
        BY <1>1, <1>2, <1>3, CheckedKeeps, CheckedCycle DEF Parts, Consistent

LEMMA AsideStances ==
    ASSUME Parts, CallInv, OrderInv, TableInv, NEW F, LastStances(F), Aside
    PROVE  CallInv' /\ OrderInv' /\ TableInv' /\ LastStances(F)'
    <1>1. /\ UNCHANGED <<lock, app, contexts, global_sequence, times>>
          /\ accept_events' => accept_events
          /\ verifier'.thread_states = verifier.thread_states
          /\ verifier'.mutex_states = verifier.mutex_states
        BY AsideFrame
    <1>2. \A u : StampedStance(u)' = StampedStance(u) /\ RealDepth(u)' = RealDepth(u)
        BY <1>1 DEF StampedStance, StampedView, RealDepth
    <1>3. \A c : /\ Owner(c)' = Owner(c) /\ Queue(c)' = Queue(c)
                 /\ Live(c)' <=> Live(c)
                 /\ Pending(c)' <=> Pending(c)
                 /\ First(c)' <=> First(c)
        BY <1>1 DEF Owner, Queue, Live, Pending, First
    <1>4. \A c : EndStance(c)' = EndStance(c) /\ Stamps(c)' = Stamps(c)
        <2> TAKE c
        <2>1. StampedStance(Owner(c))' = StampedStance(Owner(c))
            BY <1>2, <1>3
        <2> QED
            BY <1>1, <1>3, <2>1 DEF EndStance, Stamps
    <1>5. \A c, k : Following(F, c, k)' = Following(F, c, k)
        BY <1>1, <1>3 DEF Following
    <1>6. \A c : Stances(F, c)' = Stances(F, c)
        BY <1>1, <1>3 DEF Stances
    <1>7. CallInv'
        BY <1>1, <1>2 DEF CallInv, Truthful
    <1>8. OrderInv'
        BY <1>1, <1>3, <1>4 DEF OrderInv, Ordered
    <1>9. TableInv'
        BY <1>1, <1>3 DEF TableInv
    <1>10. EndInv(F)'
        BY <1>1, <1>3, <1>4 DEF LastStances, EndInv
    <1>11. PendingFits(F)' /\ QueueFits(F)'
        BY <1>1, <1>3, <1>5 DEF LastStances, PendingFits, QueueFits
    <1>12. RecordInv(F)'
        <2> SUFFICES ASSUME NEW c \in DOMAIN contexts, First(c), contexts[c].dropped = 0,
                            ~Tainted(verifier', Owner(c))
                     PROVE  /\ Waits(verifier', Owner(c), Following(F, c, 0))
                            /\ Owns(verifier', Owner(c), Following(F, c, 0))
                            /\ Newer(verifier, c)'
            BY <1>1, <1>3, <1>5 DEF RecordInv, Waits, Owns, Tainted, Lost, KnownMutexes
        <2>1. /\ Waits(verifier, Owner(c), Following(F, c, 0))
              /\ Owns(verifier, Owner(c), Following(F, c, 0))
              /\ Newer(verifier, c)
            BY <1>1, TablesSame DEF LastStances, RecordInv
        <2>2. Newer(verifier, c)'
            BY <1>1, <1>3, <1>4, <2>1 DEF Newer
        <2> QED
            BY <1>1, <2>1, <2>2, TablesSame
    <1>13. StuckInv(F)'
        <2> SUFFICES ASSUME NEW S \in SUBSET DOMAIN contexts',
                            \A c \in S : \E d \in S : Owner(d)' # Owner(c)' /\ MayWait(F, c, d)'
                     PROVE  Stuck({Owner(c) : c \in S})'
            BY DEF StuckInv
        <2>1. \A c, d : MayWait(F, c, d)' <=> MayWait(F, c, d)
            BY <1>6 DEF MayWait
        <2>2. \A c \in S : \E d \in S : Owner(d) # Owner(c) /\ MayWait(F, c, d)
            BY <1>3, <2>1
        <2>3. Stuck({Owner(c) : c \in S})
            BY <1>1, <2>2 DEF LastStances, StuckInv
        <2>4. {Owner(c)' : c \in S} = {Owner(c) : c \in S}
            BY <1>3
        <2>5. \A t, u : Asks(t, u)' <=> Asks(t, u)
            BY <1>1 DEF Asks
        <2> QED
            BY <2>3, <2>4, <2>5 DEF Stuck
    <1> QED
        BY <1>7, <1>8, <1>9, <1>10, <1>11, <1>12, <1>13 DEF LastStances

\* What is reported has been a candidate before, and all queues have been found empty
\* since.
LEMMA AsideCandidate ==
    ASSUME Parts, Parts', DeadInv, Aside
    PROVE  /\ CandidateInv'
           /\ NewDeadlockReport /\ (\A t \in verifier'.reported_cycle : Complete(t))
                => ReallyDeadlocked(verifier'.reported_cycle)
    <1>1. /\ UNCHANGED <<lock, app, contexts, global_sequence, times>>
          /\ verifier'.thread_states = verifier.thread_states
          /\ verifier'.mutex_states = verifier.mutex_states
        BY AsideFrame
    <1>2. verifier \in VerifierState /\ verifier' \in VerifierState
        BY DEF Parts, Consistent
    <1>3. PICK C : C = verifier'.candidate_cycle
        OBVIOUS
    <1>4. C \in SUBSET Thread
        BY <1>2, <1>3, Fields
    <1>5. /\ \A t : Complete(t)' <=> Complete(t)
          /\ ReallyDeadlocked(C)' <=> ReallyDeadlocked(C)
          /\ \A c : First(c)' = First(c) /\ Owner(c)' = Owner(c) /\ Queue(c)' = Queue(c)
        BY <1>1 DEF Complete, ReallyDeadlocked, ReallyWaitsFor, RealLockResult, First, Owner,
                    Queue
    <1>6. consumer.i \in Nat /\ consumer.count \in Nat /\ DOMAIN contexts \subseteq Nat
        BY ContextFields DEF Parts, ConsumerInv
    <1>7. CASE verifier' = verifier /\ (DrainEmpty \/ consumer' = consumer)
        <2>1. ~NewDeadlockReport
            BY <1>2, <1>7 DEF NewDeadlockReport, VerifierState
        <2>2. WaitInGraph(verifier', C)
            BY <1>3, <1>7 DEF DeadInv, CandidateInv
        <2>3. ASSUME EmptyAhead(C)' PROVE EmptyAhead(C)
            <3> SUFFICES ASSUME NEW c \in DOMAIN contexts, consumer.i <= c,
                                c <= consumer.count, First(c), Owner(c) \in C
                         PROVE  Queue(c) = <<>>
                BY DEF EmptyAhead
            <3>1. CASE consumer' = consumer
                BY <1>1, <1>5, <2>3, <3>1 DEF EmptyAhead
            <3>2. CASE DrainEmpty
                <4> DEFINE n == consumer.i + 1
                <4>1. consumer' = [consumer EXCEPT !.i = n, !.batch = 0]
                      /\ contexts[consumer.i].queue = <<>>
                    BY <3>2 DEF DrainEmpty, NextConsumer, ScannedQueue
                <4> HIDE DEF n
                <4>2. consumer \in [i : Nat \ {0}, count : 0 .. Len(contexts), batch : Nat,
                                    consumed_any : BOOLEAN, done : BOOLEAN]
                    BY DEF Parts, ConsumerInv
                <4>3. consumer'.i = n /\ consumer'.count = consumer.count
                    BY <4>1, <4>2
                <4>4. c = consumer.i \/ n <= c
                    BY <1>6 DEF n
                <4>5. CASE c = consumer.i
                    BY <4>1, <4>5 DEF Queue
                <4>6. CASE n <= c
                    BY <1>1, <1>5, <2>3, <4>3, <4>6 DEF EmptyAhead
                <4> QED
                    BY <4>4, <4>5, <4>6
            <3> QED
                BY <1>7, <3>1, <3>2
        <2>4. ASSUME \A t \in C : Complete(t), EmptyAhead(C)'
              PROVE  ReallyDeadlocked(C)
            BY <1>3, <1>7, <2>3, <2>4 DEF DeadInv, CandidateInv
        <2>5. CandidateInv'
            BY <1>3, <1>5, <2>2, <2>4 DEF CandidateInv, EmptyAhead, WaitInGraph, WaitsFor, Trusted
        <2> QED
            BY <2>1, <2>5
    <1>8. CASE PassEnd
        <2>1. /\ ~consumer.done /\ ~Scanning /\ consumer' = NextConsumer
              /\ verifier' = IF consumer.consumed_any THEN verifier ELSE CheckDeadlocks(verifier)
            BY <1>8 DEF PassEnd
        <2>2. consumer'.i = 1 /\ consumer'.count = Len(contexts)
            BY <2>1 DEF NextConsumer
        <2>3. WaitInGraph(verifier, C)
            <3>1. CASE verifier' = verifier
                BY <1>3, <3>1 DEF DeadInv, CandidateInv
            <3>2. CASE verifier' = CheckDeadlocks(verifier)
                <4>1. C \in {{}, FindAnyCycle(verifier)}
                    BY <1>2, <1>3, <3>2, CheckedCycle
                <4> QED
                    BY <1>2, <4>1, AnyCycleInGraph DEF WaitInGraph
            <3> QED
                BY <2>1, <3>1, <3>2
        <2>4. ASSUME EmptyAhead(C)', NEW c \in DOMAIN contexts, First(c), Owner(c) \in C
              PROVE  Queue(c) = <<>>
            <3>1. 1 <= c /\ c <= Len(contexts)
                BY LenProperties DEF Parts, ContextsInv
            <3> QED
                BY <1>1, <1>5, <2>2, <2>4, <3>1 DEF EmptyAhead
        <2>5. ASSUME \A t \in C : Complete(t), EmptyAhead(C)'
              PROVE  ReallyDeadlocked(C)
            <3>1. \A c \in DOMAIN contexts : First(c) /\ Owner(c) \in C => Queue(c) = <<>>
                BY <2>4, <2>5
            <3>2. PICK F : LastStances(F)
                BY DEF DeadInv
            <3> QED
                BY <1>4, <2>3, <2>5, <3>1, <3>2, CycleReal DEF DeadInv
        <2>6. CandidateInv'
            <3>1. WaitInGraph(verifier', C)
                BY <1>1, <2>3, TablesSame
            <3> QED
                BY <1>3, <1>5, <2>5, <3>1
                DEF CandidateInv, EmptyAhead, WaitInGraph, WaitsFor, Trusted
        <2>7. ASSUME NewDeadlockReport, \A t \in verifier'.reported_cycle : Complete(t)
              PROVE  ReallyDeadlocked(verifier'.reported_cycle)
            <3>1. verifier.deadlock_cycle_violations \in Nat
                BY <1>2 DEF VerifierState
            <3>2. verifier' = CheckDeadlocks(verifier)
                BY <2>1, <2>7, <3>1 DEF NewDeadlockReport
            <3>3. verifier'.reported_cycle = verifier.candidate_cycle
                BY <1>2, <2>7, <3>2, CheckedCycle DEF NewDeadlockReport
            <3>4. EmptyAhead(verifier.candidate_cycle)
                BY <1>6, <2>1 DEF Scanning, EmptyAhead
            <3> QED
                BY <2>7, <3>3, <3>4 DEF DeadInv, CandidateInv
        <2> QED
            BY <2>6, <2>7
    <1> QED
        BY <1>7, <1>8 DEF Aside, DrainEmpty, StopAccept, StopStep, StopConsumer, Summary, Tick, vars

LEMMA AsideDead ==
    ASSUME Parts, Parts', DeadInv, Aside
    PROVE  DeadInv'
    <1>1. PICK F : LastStances(F)
        BY DEF DeadInv
    <1>2. CallInv' /\ OrderInv' /\ TableInv' /\ LastStances(F)'
        BY <1>1, AsideStances DEF DeadInv
    <1>3. CandidateInv'
        BY AsideCandidate
    <1> QED
        BY <1>2, <1>3 DEF DeadInv

-----------------------------------------------------------------------------
(***************************************************************************)
(* The consumer takes an event.                                            *)
(***************************************************************************)

\* What is recorded of a thread follows its stance from before the event to after it.
LEMMA RecordOn ==
    ASSUME NEW v, Consistent(v), NEW w, NEW e \in MonitorEvent, Plausible(e),
           HandleStep(v, w, e), ~Tainted(v, e.thread_id),
           Bounded(v.thread_states[e.thread_id], ViewBefore(e)),
           Waits(v, e.thread_id, StanceBefore(e)), Owns(v, e.thread_id, StanceBefore(e)),
           \A m \in Mutex : v.mutex_states[m].owner = e.thread_id
              => v.mutex_states[m].last_state_sequence < e.sequence_id
    PROVE  Waits(w, e.thread_id, StanceAfter(e)) /\ Owns(w, e.thread_id, StanceAfter(e))
    <1> DEFINE t == e.thread_id
               x == StanceBefore(e)
               y == StanceAfter(e)
    <1>1. /\ t \in Thread /\ t # None /\ e.sequence_id \in Nat
          /\ \A m \in Mutex : e.really_held[m] \in Nat
        BY EventFields, VerifierAssumption
    <1>2. TableStep(v, w, e)
        BY DEF HandleStep
    <1>3. Waits(w, t, y)
        <2>1. CASE e.event_type = "LOCK_REQUEST"
            BY <2>1 DEF HandleStep, Waits, Waiting, StanceAfter
        <2>2. CASE e.event_type # "LOCK_REQUEST" /\ Waiting(w, t) # None
            <3>1. Waiting(w, t) = Waiting(v, t)
                BY <2>2 DEF HandleStep
            <3>2. Waiting(w, t) = x.waits \/ Lost(v, Waiting(w, t))
                BY <2>2, <3>1 DEF Waits, Waiting
            <3>3. CASE Waiting(w, t) = x.waits
                BY <2>2, <3>3 DEF StanceBefore, HandleStep, Waits, Waiting
            <3>4. CASE Lost(v, Waiting(w, t))
                BY <1>2, <3>4, LostStays DEF Waits, Waiting
            <3> QED
                BY <3>2, <3>3, <3>4
        <2>3. CASE Waiting(w, t) = None
            BY <2>3 DEF Waits, Waiting
        <2> QED
            BY <2>1, <2>2, <2>3
    <1>4. ASSUME NEW m \in Mutex, w.mutex_states[m].owner = t
          PROVE  e.really_held[m] > 0
        <2>1. v.mutex_states[m].owner = t => ViewBefore(e).held[m] > 0
            BY DEF Owns, StanceBefore
        <2>2. CASE e.event_type = "UNLOCKED" /\ m = e.object
            <3>1. \/ v.thread_states[t].depth[m] > 1
                  \/ /\ v.mutex_states[m].owner = t
                     /\ ~(e.sequence_id >= v.mutex_states[m].last_state_sequence)
                BY <1>4, <2>2 DEF HandleStep
            <3>2. v.mutex_states[m].last_state_sequence \in Nat
                BY MutexFields DEF Consistent
            <3>3. v.thread_states[t].depth[m] > 1
                BY <1>1, <3>1, <3>2
            <3>4. v.thread_states[t].depth[m] \in Nat
                BY <1>1, ThreadFields DEF Consistent
            <3>5. v.thread_states[t].depth[m] <= ViewBefore(e).held[m]
                BY DEF Bounded
            <3> QED
                BY <1>1, <2>2, <3>3, <3>4, <3>5, Views
        <2>3. CASE e.event_type = "LOCK_ACQUIRED" /\ m = e.object
            BY <2>3 DEF Plausible
        <2>4. CASE ~(e.event_type \in {"LOCK_ACQUIRED", "UNLOCKED"} /\ m = e.object)
            <3>1. v.mutex_states[m].owner = t
                BY <1>1, <1>2, <1>4, <2>4 DEF TableStep, HandleStep
            <3> QED
                BY <2>1, <2>4, <3>1, Views
        <2> QED
            BY <2>2, <2>3, <2>4
    <1> QED
        BY <1>3, <1>4 DEF Owns, StanceAfter

\* What the step leaves alone, and how it moves the queue on.
LEMMA DrainFrame ==
    ASSUME Parts, StreamInv, Drain, NEW F, NEW i, i = consumer.i
    PROVE  LET e == Head(ScannedQueue) IN
           /\ i \in DOMAIN contexts /\ e \in MonitorEvent /\ Plausible(e)
           /\ e = Queue(i)[1] /\ 1 \in DOMAIN Queue(i) /\ e.thread_id = Owner(i)
           /\ verifier' = ProcessEvent(verifier, e)
           /\ UNCHANGED <<lock, app, main, global_sequence>>
           /\ accept_events' <=> accept_events
           /\ DOMAIN contexts' = DOMAIN contexts
           /\ \A k \in DOMAIN Queue(i)' :
                 k + 1 \in DOMAIN Queue(i) /\ Queue(i)'[k] = Queue(i)[k + 1]
           /\ \A k \in Nat : Following(F, i, k)' = Following(F, i, k + 1)
           /\ Following(F, i, 0) = StanceBefore(e)
           /\ \A d \in DOMAIN contexts :
                 /\ Owner(d) \in Thread /\ Owner(d)' = Owner(d)
                 /\ contexts'[d].dropped = contexts[d].dropped
                 /\ First(d)' <=> First(d)
                 /\ Live(d)' <=> Live(d)
                 /\ Pending(d)' <=> Pending(d)
                 /\ EndStance(d)' = EndStance(d)
                 /\ Stances(F, d)' = Stances(F, d)
                 /\ Stamps(d)' \subseteq Stamps(d)
                 /\ d # i => /\ Queue(d)' = Queue(d)
                             /\ \A k : Following(F, d, k)' = Following(F, d, k)
    <1> DEFINE q == contexts[i].queue
               r == Tail(q)
               e == Head(q)
    <1>1. /\ i \in DOMAIN contexts
          /\ q \in Seq(MonitorEvent) /\ Len(q) \in Nat /\ Len(q) > 0 /\ DOMAIN q = 1 .. Len(q)
          /\ e = q[1] /\ e \in MonitorEvent
          /\ Len(r) = Len(q) - 1 /\ DOMAIN r = 1 .. Len(r) /\ r \in Seq(MonitorEvent)
          /\ \A k \in DOMAIN r : r[k] = q[k + 1]
        BY DrainedQueue
    <1>2. /\ DOMAIN contexts' = DOMAIN contexts /\ contexts'[i].queue = r
          /\ \A d \in DOMAIN contexts :
                /\ d # i => contexts'[d] = contexts[d]
                /\ contexts'[d].thread_id = contexts[d].thread_id
                /\ contexts'[d].dropped = contexts[d].dropped
        BY DrainedQueue
    <1> HIDE DEF r, e
    <1>3. /\ e = Head(ScannedQueue) /\ verifier' = ProcessEvent(verifier, e)
          /\ UNCHANGED <<lock, app, times, main, global_sequence>>
        BY DEF Drain, ScannedQueue, mutexVars, ghostVars, e
    <1>4. 1 \in DOMAIN q /\ e.thread_id = Owner(i) /\ Plausible(e)
        <2>1. 1 \in DOMAIN q
            BY <1>1
        <2> QED
            BY <1>1, <2>1 DEF StreamInv, QueueInv, Queue
    <1>5. \A d \in DOMAIN contexts : Owner(d) \in Thread /\ Owner(d)' = Owner(d)
                                     /\ contexts'[d].thread_id = Owner(d)
        BY <1>2, ContextFields DEF Parts, Owner
    <1>6. accept_events' <=> accept_events
        BY <1>3 DEF accept_events
    <1>7. \A u : StampedStance(u)' = StampedStance(u)
        BY <1>3 DEF StampedStance, StampedView, RealDepth
    <1>8. ASSUME NEW d \in DOMAIN contexts
          PROVE  /\ First(d)' <=> First(d)
                 /\ Live(d)' <=> Live(d)
                 /\ Pending(d)' <=> Pending(d)
                 /\ EndStance(d)' = EndStance(d)
                 /\ Stances(F, d)' = Stances(F, d)
                 /\ app'[Owner(d)'] = app[Owner(d)]
        <2>1. First(d)' <=> First(d)
            BY <1>2, <1>5 DEF First
        <2>2. (Live(d)' <=> Live(d)) /\ (Pending(d)' <=> Pending(d))
              /\ app'[Owner(d)'] = app[Owner(d)]
            BY <1>3, <1>5 DEF Live, Pending
        <2>3. StampedStance(Owner(d))' = StampedStance(Owner(d))
            BY <1>5, <1>7
        <2> QED
            BY <2>1, <2>2, <2>3 DEF EndStance, Stances
    <1>9. Queue(i) = q /\ Queue(i)' = r
        BY <1>2 DEF Queue
    <1>10. \A k \in DOMAIN r : k + 1 \in DOMAIN q
        BY <1>1
    <1>11. ASSUME NEW k \in Nat PROVE Following(F, i, k)' = Following(F, i, k + 1)
        <2>1. k < Len(r) <=> k + 1 < Len(q)
            BY <1>1
        <2>2. ASSUME k < Len(r) PROVE r[k + 1] = q[(k + 1) + 1]
            <3>1. k + 1 \in DOMAIN r
                BY <1>1, <2>2
            <3> QED
                BY <1>1, <3>1
        <2> QED
            BY <1>1, <1>8, <1>9, <2>1, <2>2 DEF Following
    <1>12. Following(F, i, 0) = StanceBefore(e)
        BY <1>1, <1>9 DEF Following
    <1>13. ASSUME NEW d \in DOMAIN contexts, d # i
           PROVE  /\ Queue(d)' = Queue(d)
                  /\ \A k : Following(F, d, k)' = Following(F, d, k)
        <2>1. Queue(d)' = Queue(d)
            BY <1>2, <1>13 DEF Queue
        <2> QED
            BY <1>8, <2>1 DEF Following
    <1>14. ASSUME NEW d \in DOMAIN contexts PROVE Stamps(d)' \subseteq Stamps(d)
        <2>1. CASE d = i
            <3>1. \A k \in DOMAIN r : k + 1 \in DOMAIN q /\ r[k] = q[k + 1]
                BY <1>1, <1>10
            <3>2. {r[k].sequence_id : k \in DOMAIN r} \subseteq {q[k].sequence_id : k \in DOMAIN q}
                BY <3>1
            <3> QED
                BY <1>8, <1>9, <2>1, <3>2 DEF Stamps
        <2>2. CASE d # i
            BY <1>8, <1>13, <2>2 DEF Stamps
        <2> QED
            BY <2>1, <2>2
    <1> QED
        BY <1>1, <1>2, <1>3, <1>4, <1>5, <1>6, <1>8, <1>9, <1>10, <1>11, <1>12, <1>13, <1>14
        DEF e

\* The effect on the verifier's tables.
LEMMA DrainTables ==
    ASSUME Parts, StreamInv, TableInv, Drain, NEW i, i = consumer.i
    PROVE  LET e == Head(ScannedQueue)
               t == Owner(i)
               v == verifier
               w == verifier' IN
           /\ TableStep(v, w, e) /\ Others(v, w, t)
           /\ w.deadlock_cycle_violations = v.deadlock_cycle_violations
           /\ \A u \in Thread : Tainted(v, u) => Tainted(w, u)
           /\ Overflowed(v, t) => /\ w.thread_states = v.thread_states
                                  /\ w.mutex_states = v.mutex_states
                                  /\ w.candidate_cycle = v.candidate_cycle
           /\ ~Overflowed(v, t) => /\ w.candidate_cycle = {}
                                   /\ w.thread_states[t].slot # 0
           /\ ~Overflowed(v, t) /\ ~Tainted(w, t) =>
                 /\ First(i) /\ HandleStep(v, w, e) /\ ~Tainted(v, t)
                 /\ Bounded(v.thread_states[t], ViewBefore(e))
    <1> DEFINE e == Head(ScannedQueue)
               t == Owner(i)
               v == verifier
               w == ProcessEvent(v, e)
    <1>1. /\ e \in MonitorEvent /\ Plausible(e) /\ e.thread_id = t /\ verifier' = w
          /\ t \in Thread /\ Consistent(v)
        BY DrainFrame DEF Parts
    <1>2. \A q \in Mutex : ~v.mutex_states[q].used => v.mutex_states[q].owner = None
        BY DEF TableInv
    <1> HIDE DEF e, t
    <1>3. /\ Others(v, w, t)
          /\ Overflowed(v, t) => w.thread_states = v.thread_states
          /\ ~Overflowed(v, t) =>
                /\ w.thread_states[t].slot # 0
                /\ ~Tainted(w, t) => e.thread_sequence = Expected(v, t)
        BY <1>1, ProcessEffect DEF Tainted, Expected
    <1>4. /\ TableStep(v, w, e)
          /\ w.deadlock_cycle_violations = v.deadlock_cycle_violations
          /\ Overflowed(v, t) => /\ w.mutex_states = v.mutex_states
                                 /\ w.candidate_cycle = v.candidate_cycle
          /\ ~Overflowed(v, t) => w.candidate_cycle = {}
          /\ /\ ~Overflowed(v, t) /\ ~Tainted(v, t)
             /\ e.thread_sequence = Expected(v, t)
             => HandleStep(v, w, e)
        BY <1>1, <1>2, ProcessTable
    <1>5. \A u \in Thread : Tainted(v, u) => Tainted(w, u)
        BY <1>1, SeenStays
    <1>6. ASSUME ~Overflowed(v, t), ~Tainted(w, t)
          PROVE  First(i) /\ ~Tainted(v, t) /\ e.thread_sequence = Expected(v, t)
        BY <1>1, <1>3, <1>5, <1>6, AgainGap DEF e, t
    <1>7. ASSUME ~Overflowed(v, t), ~Tainted(w, t)
          PROVE  Bounded(v.thread_states[t], ViewBefore(e))
        BY <1>6, <1>7, DrainedBound DEF e, t
    <1> HIDE DEF w
    <1> QED
        BY <1>1, <1>3, <1>4, <1>5, <1>6, <1>7 DEF e, t

LEMMA DrainOrder ==
    ASSUME Parts, StreamInv, OrderInv, Drain, NEW i, i = consumer.i
    PROVE  /\ OrderInv'
           /\ \A j \in Stamps(i)' : Head(ScannedQueue).sequence_id < j
           /\ Head(ScannedQueue).sequence_id \in Stamps(i)
    <1> DEFINE e == Head(ScannedQueue)
    <1>1. /\ i \in DOMAIN contexts
          /\ e = Queue(i)[1] /\ 1 \in DOMAIN Queue(i)
          /\ UNCHANGED <<app, global_sequence>>
          /\ DOMAIN contexts' = DOMAIN contexts
          /\ \A k \in DOMAIN Queue(i)' :
                k + 1 \in DOMAIN Queue(i) /\ Queue(i)'[k] = Queue(i)[k + 1]
          /\ \A d \in DOMAIN contexts :
                /\ Owner(d)' = Owner(d)
                /\ Pending(d)' <=> Pending(d)
                /\ Stamps(d)' \subseteq Stamps(d)
                /\ d # i => Queue(d)' = Queue(d)
        BY DrainFrame
    <1> HIDE DEF e
    <1>2. /\ DOMAIN Queue(i) = 1 .. Len(Queue(i)) /\ Len(Queue(i)) \in Nat
          /\ DOMAIN Queue(i)' \subseteq Nat \ {0}
        <2>1. Queue(i) \in Seq(MonitorEvent) /\ contexts' \in Seq(ThreadContext)
            BY <1>1, ContextFields, DrainKeeps DEF Parts, Queue, ContextsInv
        <2>2. contexts'[i] \in ThreadContext
            BY <1>1, <2>1, ElementOfSeq
        <2>3. Queue(i)' \in Seq(MonitorEvent)
            BY <2>2 DEF Queue, ThreadContext
        <2>4. DOMAIN Queue(i)' = 1 .. Len(Queue(i)')
            BY <2>3, LenProperties
        <2> QED
            BY <2>1, <2>3, <2>4, LenProperties
    <1>3. /\ \A j, k \in DOMAIN Queue(i) :
                j < k => Queue(i)[j].sequence_id < Queue(i)[k].sequence_id
          /\ Pending(i) => \A k \in DOMAIN Queue(i) :
                Queue(i)[k].sequence_id < app[Owner(i)].event.sequence_id
        BY <1>1 DEF OrderInv, Ordered
    <1>4. Ordered(i)'
        <2>1. ASSUME NEW j \in DOMAIN Queue(i)', NEW k \in DOMAIN Queue(i)', j < k
              PROVE  Queue(i)'[j].sequence_id < Queue(i)'[k].sequence_id
            <3>1. j + 1 < k + 1 /\ j + 1 \in DOMAIN Queue(i) /\ k + 1 \in DOMAIN Queue(i)
                BY <1>1, <1>2, <2>1
            <3> QED
                BY <1>1, <1>3, <3>1
        <2>2. ASSUME Pending(i)', NEW k \in DOMAIN Queue(i)'
              PROVE  Queue(i)'[k].sequence_id < app'[Owner(i)'].event.sequence_id
            BY <1>1, <1>3, <2>2
        <2> QED
            BY <2>1, <2>2 DEF Ordered
    <1>5. OrderInv'
        <2> SUFFICES ASSUME NEW d \in DOMAIN contexts
                     PROVE  /\ Ordered(d)'
                            /\ \A j \in Stamps(d)' : j \in Nat /\ j < global_sequence
            BY <1>1 DEF OrderInv
        <2>1. Ordered(d) /\ \A j \in Stamps(d) : j \in Nat /\ j < global_sequence
            BY DEF OrderInv
        <2>2. d # i => Ordered(d)'
            BY <1>1, <2>1 DEF Ordered
        <2> QED
            BY <1>1, <1>4, <2>1, <2>2
    <1>6. \A j \in Stamps(i)' : e.sequence_id < j
        <2>1. ASSUME NEW k \in DOMAIN Queue(i)'
              PROVE  e.sequence_id < Queue(i)'[k].sequence_id
            <3>1. 1 < k + 1 /\ k + 1 \in DOMAIN Queue(i)
                BY <1>1, <1>2
            <3> QED
                BY <1>1, <1>3, <3>1
        <2>2. ASSUME Pending(i)'
              PROVE  e.sequence_id < app'[Owner(i)'].event.sequence_id
            BY <1>1, <1>3, <2>2
        <2> QED
            BY <2>1, <2>2 DEF Stamps
    <1>7. e.sequence_id \in Stamps(i)
        BY <1>1 DEF Stamps
    <1> QED
        BY <1>5, <1>6, <1>7 DEF e

\* What is recorded fits the rest of each stream.
LEMMA DrainRecord ==
    ASSUME Parts, StreamInv, OrderInv, TableInv, NEW F, QueueFits(F), RecordInv(F), Drain
    PROVE  RecordInv(F)'
    <1> DEFINE v == verifier
               e == Head(ScannedQueue)
    <1>1. PICK i : i = consumer.i
        OBVIOUS
    <1>2. PICK w : w = verifier'
        OBVIOUS
    <1>3. PICK t : t = Owner(i)
        OBVIOUS
    <1>4. /\ i \in DOMAIN contexts /\ e \in MonitorEvent /\ Plausible(e)
          /\ e = Queue(i)[1] /\ 1 \in DOMAIN Queue(i) /\ e.thread_id = t
          /\ global_sequence' = global_sequence /\ DOMAIN contexts' = DOMAIN contexts
          /\ Following(F, i, 0)' = Following(F, i, 0 + 1)
          /\ Following(F, i, 0) = StanceBefore(e)
        BY <1>1, <1>3, DrainFrame
    <1>5. \A d \in DOMAIN contexts :
                 /\ Owner(d) \in Thread /\ Owner(d)' = Owner(d)
                 /\ contexts'[d].dropped = contexts[d].dropped
                 /\ First(d)' <=> First(d)
                 /\ Stamps(d)' \subseteq Stamps(d)
                 /\ d # i => \A k : Following(F, d, k)' = Following(F, d, k)
        BY <1>1, DrainFrame
    <1>6. /\ TableStep(v, w, e) /\ Others(v, w, t)
          /\ \A u \in Thread : Tainted(v, u) => Tainted(w, u)
          /\ Overflowed(v, t) => /\ w.thread_states = v.thread_states
                                 /\ w.mutex_states = v.mutex_states
          /\ ~Overflowed(v, t) /\ ~Tainted(w, t) =>
                /\ First(i) /\ HandleStep(v, w, e) /\ ~Tainted(v, t)
                /\ Bounded(v.thread_states[t], ViewBefore(e))
        BY <1>1, <1>2, <1>3, DrainTables
    <1>7. /\ \A j \in Stamps(i)' : e.sequence_id < j
          /\ e.sequence_id \in Stamps(i)
          /\ \A j \in Stamps(i) : j \in Nat /\ j < global_sequence
        BY <1>1, <1>4, DrainOrder DEF OrderInv
    <1>8. Consistent(v)
        BY DEF Parts
    <1> HIDE DEF e
    <1> SUFFICES ASSUME NEW d \in DOMAIN contexts, First(d), contexts[d].dropped = 0,
                        ~Tainted(w, Owner(d))
                 PROVE  /\ Waits(w, Owner(d), Following(F, d, 0)')
                        /\ Owns(w, Owner(d), Following(F, d, 0)')
                        /\ \A m \in Mutex : w.mutex_states[m].owner = Owner(d) =>
                              /\ w.mutex_states[m].last_state_sequence < global_sequence
                              /\ \A j \in Stamps(d)' :
                                    w.mutex_states[m].last_state_sequence < j
        BY <1>2, <1>4, <1>5 DEF RecordInv, Waits, Owns, Newer, Tainted, Lost, KnownMutexes
    <1>9. CASE Owner(d) # t
        <2> DEFINE u == Owner(d)
        <2>1. d # i /\ u \in Thread /\ u # None /\ ~Tainted(v, u)
            BY <1>3, <1>5, <1>6, <1>9, VerifierAssumption
        <2>2. /\ Waits(v, u, Following(F, d, 0)) /\ Owns(v, u, Following(F, d, 0))
              /\ Newer(v, d)
            BY <2>1 DEF RecordInv
        <2>3. Following(F, d, 0)' = Following(F, d, 0)
            BY <1>5, <2>1
        <2>4. w.thread_states[u] = v.thread_states[u]
            BY <1>6, <1>9, <2>1 DEF Others
        <2>5. \A m \in Mutex : w.mutex_states[m].owner = u =>
                 /\ v.mutex_states[m].owner = u
                 /\ w.mutex_states[m].last_state_sequence
                      = v.mutex_states[m].last_state_sequence
            BY <1>4, <1>6, <1>9, <2>1 DEF TableStep
        <2>6. Waits(w, u, Following(F, d, 0))
            BY <1>6, <2>2, <2>4, LostStays DEF Waits
        <2>7. Owns(w, u, Following(F, d, 0))
            BY <2>2, <2>5 DEF Owns
        <2> QED
            BY <1>5, <2>2, <2>3, <2>5, <2>6, <2>7 DEF Newer
    <1>10. CASE Owner(d) = t /\ Overflowed(v, t)
        <2>1. /\ Waiting(v, t) = None
              /\ \A m \in Mutex : v.mutex_states[m].owner # t
            BY <1>5, <1>10 DEF TableInv, Overflowed, Waiting
        <2> QED
            BY <1>6, <1>10, <2>1 DEF Waits, Owns, Waiting
    <1>11. CASE Owner(d) = t /\ ~Overflowed(v, t)
        <2>1. /\ First(i) /\ HandleStep(v, w, e) /\ ~Tainted(v, t)
              /\ Bounded(v.thread_states[t], ViewBefore(e))
            BY <1>6, <1>11
        <2>2. d = i
            <3>1. d \in Nat /\ i \in Nat
                BY <1>4, ContextFields DEF Parts
            <3>2. d < i \/ d = i \/ i < d
                BY <3>1
            <3> QED
                BY <1>3, <1>4, <1>11, <2>1, <3>2 DEF First
        <2>3. /\ Waits(v, t, StanceBefore(e)) /\ Owns(v, t, StanceBefore(e))
              /\ Newer(v, i)
            BY <1>3, <1>4, <2>1, <2>2 DEF RecordInv
        <2>4. \A m \in Mutex : v.mutex_states[m].owner = t
                 => v.mutex_states[m].last_state_sequence < e.sequence_id
            BY <1>3, <1>7, <2>3 DEF Newer
        <2>5. Waits(w, t, StanceAfter(e)) /\ Owns(w, t, StanceAfter(e))
            BY <1>4, <1>8, <2>1, <2>3, <2>4, RecordOn
        <2>6. Fits(StanceAfter(e), Following(F, i, 0 + 1))
            BY <1>4, <2>2 DEF QueueFits
        <2>7. Waits(w, t, Following(F, i, 0 + 1)) /\ Owns(w, t, Following(F, i, 0 + 1))
            BY <2>5, <2>6 DEF Waits, Owns, Fits
        <2>8. ASSUME NEW m \in Mutex, w.mutex_states[m].owner = t
              PROVE  /\ w.mutex_states[m].last_state_sequence < global_sequence
                     /\ \A j \in Stamps(i)' : w.mutex_states[m].last_state_sequence < j
            <3>1. \/ /\ v.mutex_states[m].owner = t
                     /\ w.mutex_states[m].last_state_sequence
                          = v.mutex_states[m].last_state_sequence
                  \/ w.mutex_states[m].last_state_sequence = e.sequence_id
                <4>1. t # None
                    BY <1>5, <1>11, VerifierAssumption
                <4> QED
                    BY <1>6, <2>8, <4>1 DEF TableStep
            <3>2. CASE /\ v.mutex_states[m].owner = t
                       /\ w.mutex_states[m].last_state_sequence
                            = v.mutex_states[m].last_state_sequence
                BY <1>3, <1>4, <1>5, <2>3, <3>2 DEF Newer
            <3>3. CASE w.mutex_states[m].last_state_sequence = e.sequence_id
                BY <1>7, <3>3
            <3> QED
                BY <3>1, <3>2, <3>3
        <2> QED
            BY <1>4, <1>11, <2>2, <2>7, <2>8
    <1> QED
        BY <1>9, <1>10, <1>11

LEMMA DrainStances ==
    ASSUME Parts, StreamInv, CallInv, OrderInv, TableInv, NEW F, LastStances(F), Drain
    PROVE  CallInv' /\ OrderInv' /\ TableInv' /\ LastStances(F)'
    <1>1. PICK i : i = consumer.i
        OBVIOUS
    <1>2. PICK w : w = verifier'
        OBVIOUS
    <1>3. /\ i \in DOMAIN contexts
          /\ UNCHANGED <<lock, app, main, global_sequence>>
          /\ accept_events' <=> accept_events
          /\ DOMAIN contexts' = DOMAIN contexts
          /\ \A k \in DOMAIN Queue(i)' :
                k + 1 \in DOMAIN Queue(i) /\ Queue(i)'[k] = Queue(i)[k + 1]
          /\ \A k \in Nat : Following(F, i, k)' = Following(F, i, k + 1)
        BY <1>1, DrainFrame
    <1>4. \A d \in DOMAIN contexts :
                 /\ Owner(d) \in Thread /\ Owner(d)' = Owner(d)
                 /\ contexts'[d].dropped = contexts[d].dropped
                 /\ Live(d)' <=> Live(d)
                 /\ Pending(d)' <=> Pending(d)
                 /\ EndStance(d)' = EndStance(d)
                 /\ Stances(F, d)' = Stances(F, d)
                 /\ d # i => /\ Queue(d)' = Queue(d)
                             /\ \A k : Following(F, d, k)' = Following(F, d, k)
        BY <1>1, DrainFrame
    <1>5. LET e == Head(ScannedQueue)
              t == Owner(i)
              v == verifier IN
          /\ e.thread_id = t
          /\ TableStep(v, w, e) /\ Others(v, w, t)
          /\ Overflowed(v, t) => /\ w.thread_states = v.thread_states
                                 /\ w.mutex_states = v.mutex_states
          /\ ~Overflowed(v, t) => w.thread_states[t].slot # 0
        BY <1>1, <1>2, DrainTables, DrainFrame
    <1>6. CallInv'
        BY <1>3 DEF CallInv, Truthful, RealDepth
    <1>7. OrderInv'
        BY <1>1, DrainOrder
    <1>8. TableInv'
        <2> DEFINE e == Head(ScannedQueue)
                   t == Owner(i)
                   v == verifier
        <2>1. /\ e.thread_id = t /\ TableStep(v, w, e) /\ Others(v, w, t)
              /\ Overflowed(v, t) => /\ w.thread_states = v.thread_states
                                     /\ w.mutex_states = v.mutex_states
              /\ ~Overflowed(v, t) => w.thread_states[t].slot # 0
            BY <1>5
        <2>2. t \in Thread
            BY <1>3, <1>4
        <2>3. ASSUME NEW u \in Thread
              PROVE  /\ w.thread_states[u].slot = 0 =>
                           /\ w.thread_states[u].waiting_mutex = None
                           /\ \A m \in Mutex : w.mutex_states[m].owner # u
                     /\ w.thread_states[u].slot # 0 => \E c \in DOMAIN contexts : Owner(c) = u
            <3>1. CASE Overflowed(v, t)
                BY <2>1, <3>1 DEF TableInv
            <3>2. CASE u = t /\ ~Overflowed(v, t)
                BY <1>3, <2>1, <3>2
            <3>3. CASE u # t
                <4>1. w.thread_states[u] = v.thread_states[u]
                    BY <2>1, <3>3 DEF Others
                <4>2. \A m \in Mutex : w.mutex_states[m].owner = u
                         => v.mutex_states[m].owner = u
                    <5>1. u # None
                        BY VerifierAssumption
                    <5> QED
                        BY <2>1, <3>3, <5>1 DEF TableStep
                <4> QED
                    BY <4>1, <4>2 DEF TableInv
            <3> QED
                BY <3>1, <3>2, <3>3
        <2>4. ASSUME NEW m \in Mutex, ~w.mutex_states[m].used
              PROVE  w.mutex_states[m].owner = None
            <3>1. ~v.mutex_states[m].used /\ w.mutex_states[m].owner = v.mutex_states[m].owner
                BY <2>1, <2>4 DEF TableStep, KnownMutexes
            <3> QED
                BY <3>1 DEF TableInv
        <2> QED
            BY <1>2, <1>3, <1>4, <2>3, <2>4 DEF TableInv
    <1>9. EndInv(F)'
        BY <1>3, <1>4 DEF LastStances, EndInv
    <1>10. PendingFits(F)'
        BY <1>3, <1>4 DEF LastStances, PendingFits
    <1>11. QueueFits(F)'
        <2> SUFFICES ASSUME NEW d \in DOMAIN contexts, contexts[d].dropped = 0,
                            NEW k \in DOMAIN Queue(d)'
                     PROVE  Fits(StanceAfter(Queue(d)'[k]), Following(F, d, k)')
            BY <1>3, <1>4 DEF QueueFits
        <2>1. \A j \in DOMAIN Queue(d) : Fits(StanceAfter(Queue(d)[j]), Following(F, d, j))
            BY DEF LastStances, QueueFits
        <2>2. CASE d = i
            <3>1. k \in Nat
                <4>1. contexts' \in Seq(ThreadContext)
                    BY DrainKeeps DEF Parts, ContextsInv
                <4>2. contexts'[d] \in ThreadContext
                    BY <1>3, <4>1, ElementOfSeq
                <4>3. Queue(d)' \in Seq(MonitorEvent)
                    BY <4>2 DEF Queue, ThreadContext
                <4>4. DOMAIN Queue(d)' = 1 .. Len(Queue(d)')
                    BY <4>3, LenProperties
                <4> QED
                    BY <4>4
            <3> QED
                BY <1>3, <2>1, <2>2, <3>1
        <2>3. CASE d # i
            BY <1>4, <2>1, <2>3
        <2> QED
            BY <2>2, <2>3
    <1>12. RecordInv(F)'
        BY DrainRecord DEF LastStances
    <1>13. StuckInv(F)'
        <2> SUFFICES ASSUME NEW S \in SUBSET DOMAIN contexts',
                            \A c \in S : \E d \in S : Owner(d)' # Owner(c)' /\ MayWait(F, c, d)'
                     PROVE  Stuck({Owner(c) : c \in S})'
            BY DEF StuckInv
        <2>1. \A c, d \in DOMAIN contexts : MayWait(F, c, d)' <=> MayWait(F, c, d)
            BY <1>4 DEF MayWait
        <2>2. \A c \in S : \E d \in S : Owner(d) # Owner(c) /\ MayWait(F, c, d)
            BY <1>3, <1>4, <2>1
        <2>3. Stuck({Owner(c) : c \in S})
            BY <1>3, <2>2 DEF LastStances, StuckInv
        <2>4. {Owner(c)' : c \in S} = {Owner(c) : c \in S}
            BY <1>3, <1>4
        <2>5. \A t, u : Asks(t, u)' <=> Asks(t, u)
            BY <1>3 DEF Asks
        <2> QED
            BY <2>3, <2>4, <2>5 DEF Stuck
    <1> QED
        BY <1>6, <1>7, <1>8, <1>9, <1>10, <1>11, <1>12, <1>13 DEF LastStances

\* An event takes the candidate away, unless the table has no room for its thread, which
\* then is in no cycle.
LEMMA DrainCandidate ==
    ASSUME Parts, StreamInv, TableInv, CandidateInv, Drain
    PROVE  CandidateInv'
    <1>1. PICK i : i = consumer.i
        OBVIOUS
    <1>2. PICK w : w = verifier'
        OBVIOUS
    <1>3. PICK C : C = w.candidate_cycle
        OBVIOUS
    <1>4. /\ i \in DOMAIN contexts /\ Owner(i) \in Thread
          /\ UNCHANGED <<lock, app>>
          /\ DOMAIN contexts' = DOMAIN contexts
          /\ \A d \in DOMAIN contexts :
                 /\ Owner(d)' = Owner(d) /\ (First(d)' <=> First(d))
                 /\ contexts'[d].dropped = contexts[d].dropped
                 /\ d # i => Queue(d)' = Queue(d)
        BY <1>1, DrainFrame
    <1>5. /\ Overflowed(verifier, Owner(i)) =>
                /\ w.thread_states = verifier.thread_states
                /\ w.mutex_states = verifier.mutex_states
                /\ w.candidate_cycle = verifier.candidate_cycle
          /\ ~Overflowed(verifier, Owner(i)) => w.candidate_cycle = {}
        BY <1>1, <1>2, DrainTables
    <1> SUFFICES /\ WaitInGraph(w, C)
                 /\ (\A t \in C : Complete(t)') /\ EmptyAhead(C)' => ReallyDeadlocked(C)'
        BY <1>2, <1>3 DEF CandidateInv, WaitInGraph, WaitsFor, Trusted, EmptyAhead
    <1>6. CASE C = {}
        BY <1>6 DEF WaitInGraph, ReallyDeadlocked
    <1>7. CASE C # {}
        <2>1. /\ Overflowed(verifier, Owner(i)) /\ C = verifier.candidate_cycle
              /\ w.thread_states = verifier.thread_states
              /\ w.mutex_states = verifier.mutex_states
            BY <1>3, <1>5, <1>7
        <2>2. WaitInGraph(verifier, C)
            BY <2>1 DEF CandidateInv
        <2>3. Owner(i) \notin C
            <3>1. WaitsFor(verifier, Owner(i)) = None
                BY <2>1 DEF Overflowed, WaitsFor, Trusted
            <3>2. C \in SUBSET Thread
                BY <2>1, Fields DEF Parts, Consistent
            <3> QED
                BY <2>2, <3>1, <3>2, VerifierAssumption DEF WaitInGraph
        <2>4. ASSUME NEW t \in C, Complete(t)' PROVE Complete(t)
            BY <1>4, <2>4 DEF Complete, Owner
        <2>5. ASSUME EmptyAhead(C)' PROVE EmptyAhead(C)
            <3> DEFINE n == consumer.i + 1
                       b == consumer.batch + 1
            <3>1. consumer \in [i : Nat \ {0}, count : 0 .. Len(contexts), batch : Nat,
                                consumed_any : BOOLEAN, done : BOOLEAN]
                BY DEF Parts, ConsumerInv
            <3>2. \/ consumer' = [consumer EXCEPT !.consumed_any = TRUE, !.batch = b]
                  \/ consumer' = [consumer EXCEPT !.consumed_any = TRUE, !.batch = 0, !.i = n]
                BY DEF NextConsumer, Drain
            <3> HIDE DEF n, b
            <3>3. consumer'.i \in {consumer.i, n} /\ consumer'.count = consumer.count
                BY <3>1, <3>2
            <3> SUFFICES ASSUME NEW c \in DOMAIN contexts, consumer.i <= c,
                                c <= consumer.count, First(c), Owner(c) \in C
                         PROVE  Queue(c) = <<>>
                BY DEF EmptyAhead
            <3>4. c # i /\ c \in Nat
                BY <2>3, ContextFields DEF Parts
            <3>5. consumer'.i <= c
                BY <1>1, <3>1, <3>3, <3>4 DEF n
            <3>6. Queue(c)' = <<>>
                BY <1>4, <2>5, <3>3, <3>5 DEF EmptyAhead
            <3> QED
                BY <1>4, <3>4, <3>6
        <2>6. ReallyDeadlocked(C)' <=> ReallyDeadlocked(C)
            BY <1>4 DEF ReallyDeadlocked, ReallyWaitsFor, RealLockResult
        <2> QED
            BY <2>1, <2>2, <2>4, <2>5, <2>6, TablesSame DEF CandidateInv
    <1> QED
        BY <1>6, <1>7

LEMMA DrainDead ==
    ASSUME Parts, StreamInv, DeadInv, Drain
    PROVE  DeadInv'
    <1>1. PICK F : LastStances(F)
        BY DEF DeadInv
    <1>2. CallInv' /\ OrderInv' /\ TableInv' /\ LastStances(F)'
        BY <1>1, DrainStances DEF DeadInv
    <1>3. CandidateInv'
        BY DrainCandidate DEF DeadInv
    <1> QED
        BY <1>2, <1>3 DEF DeadInv

-----------------------------------------------------------------------------
(***************************************************************************)
(* The theorems.                                                           *)
(***************************************************************************)

LEMMA InitDead == Init => DeadInv
    <1> SUFFICES ASSUME Init PROVE DeadInv
        OBVIOUS
    <1>1. DOMAIN contexts = {} /\ consumer.i = 1
        BY DEF Init
    <1>2. \A t \in Thread : app[t].pc = "run"
        BY DEF Init
    <1>3. CallInv
        BY <1>2 DEF CallInv, Truthful, PushPc, WaitPc
    <1>4. OrderInv
        BY <1>1 DEF OrderInv
    <1>5. TableInv
        BY VerifierAssumption DEF Init, InitVerifier, TableInv
    <1>6. CandidateInv
        <2>1. verifier.candidate_cycle = {}
            BY DEF Init, InitVerifier
        <2> QED
            BY <2>1 DEF CandidateInv, WaitInGraph, ReallyDeadlocked
    <1>7. \A F : LastStances(F)
        BY <1>1 DEF LastStances, EndInv, PendingFits, QueueFits, RecordInv, StuckInv, Stuck
    <1> QED
        BY <1>3, <1>4, <1>5, <1>6, <1>7 DEF DeadInv

\* A report names threads that are really deadlocked.
ReportTrue ==
    /\ NewDeadlockReport
    /\ \A t \in verifier'.reported_cycle : Complete(t)
    => ReallyDeadlocked(verifier'.reported_cycle)

LEMMA DeadStep ==
    ASSUME Parts, StreamInv, DeadInv, [Next \/ Tick]_vars
    PROVE  DeadInv' /\ ReportTrue
    <1>1. Parts'
        BY StepKeeps
    <1>2. verifier.deadlock_cycle_violations \in Nat
        BY DEF Parts, Consistent, VerifierState
    <1>3. ASSUME NEW t \in Thread, Call(t) \/ InCall(t)
          PROVE  DeadInv' /\ ReportTrue
        <2>1. PICK F : LastStances(F)
            BY DEF DeadInv
        <2>2. DeadInv'
            BY <1>1, <1>3, <2>1, ThreadDead DEF DeadInv
        <2>3. ~NewDeadlockReport
            BY <1>2, <1>3, AppReportsNothing DEF NewDeadlockReport
        <2> QED
            BY <2>2, <2>3 DEF ReportTrue
    <1>4. CASE Drain
        <2>1. PICK i : i = consumer.i
            OBVIOUS
        <2>2. verifier'.deadlock_cycle_violations = verifier.deadlock_cycle_violations
            BY <1>4, <2>1, DrainTables DEF DeadInv
        <2>3. ~NewDeadlockReport
            BY <1>2, <2>2 DEF NewDeadlockReport
        <2> QED
            BY <1>4, <2>3, DrainDead DEF ReportTrue
    <1>5. CASE Aside
        BY <1>1, <1>5, AsideDead, AsideCandidate DEF ReportTrue
    <1> QED
        BY <1>3, <1>4, <1>5 DEF Next, ConsumerStep, Aside

\* As long as no event of its threads is taken, the candidate cycle of threads that lost
\* nothing is a real deadlock once the rest of their queues is found empty.
THEOREM DeadInvariance == TimedSpec => [](IndInv /\ StreamInv /\ DeadInv)
    <1>1. Init => Parts /\ StreamInv /\ DeadInv
        BY InitParts, InitStreams, InitDead
    <1>2. Parts /\ StreamInv /\ DeadInv /\ [Next \/ Tick]_vars
            => (Parts /\ StreamInv /\ DeadInv)'
        BY StepKeeps, StreamStep, DeadStep
    <1> QED
        BY <1>1, <1>2, Split, PTL DEF TimedSpec

\* monitor_verifier_check_deadlocks: a DEADLOCK_CYCLE report about threads none of which
\* lost an event names threads that really block each other at that moment, for any number
\* of threads, mutexes and contexts, for queues and tables of any size, and in whatever
\* order the queues are drained while the application goes on.
THEOREM DeadlockReports == TimedSpec => NoFalseDeadlock
    <1>1. Parts /\ StreamInv /\ DeadInv /\ [Next \/ Tick]_vars => ReportTrue
        BY DeadStep
    <1>2. IndInv /\ StreamInv /\ DeadInv /\ [Next \/ Tick]_vars => [ReportTrue]_vars
        BY <1>1, Split
    <1>3. TimedSpec => [][ReportTrue]_vars
        BY <1>2, DeadInvariance, PTL DEF TimedSpec
    <1> QED
        BY <1>3 DEF NoFalseDeadlock, ReportTrue
=============================================================================
