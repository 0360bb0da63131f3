------------------------------ MODULE Verifier ------------------------------
(***************************************************************************)
(* src/src/monitor_verifier.c.  Only the consumer thread calls it, so a    *)
(* call is one step: each operation maps the verifier's tables and         *)
(* counters, the record v, to their next value.                            *)
(*                                                                         *)
(* thread_states and mutex_states are functions of the thread id and of    *)
(* the address; a slot of 0 and used = FALSE say that the table has no     *)
(* entry yet.  Entries are never removed.  Left out: waiting_sequence,     *)
(* which is written and never read, and sequence_initialized, because a    *)
(* fresh entry expects sequence 0.  The confirmation counter saturates at  *)
(* Confirmations instead of UINT32_MAX: larger values act alike.           *)
(***************************************************************************)
EXTENDS Integers, FiniteSets

CONSTANTS Thread,             \* thread ids that may occur
          Mutex,              \* mutex addresses that may occur
          None,               \* 0 as a thread id or an address
          VerifierThreads,    \* VERIFIER_MAX_THREADS
          VerifierMutexes,    \* VERIFIER_MAX_MUTEXES
          VerifierHeld,       \* VERIFIER_MAX_HELD_MUTEXES
          Confirmations,      \* DEADLOCK_CONFIRMATIONS_REQUIRED
          DEFAULT_MAX_HOLD_NS,
          MONITOR_MAX_HOLD_NS \* the environment variable; None if it is unset, empty
                              \* or not a decimal number that fits

ASSUME VerifierAssumption ==
    /\ None \notin Thread /\ None \notin Mutex
    /\ IsFiniteSet(Thread) /\ IsFiniteSet(Mutex)
    /\ VerifierThreads \in Nat \ {0}
    /\ VerifierMutexes \in Nat \ {0}
    /\ VerifierHeld \in Nat \ {0}
    /\ Confirmations \in Nat \ {0, 1}
    /\ DEFAULT_MAX_HOLD_NS \in Nat
    /\ MONITOR_MAX_HOLD_NS = None \/ MONITOR_MAX_HOLD_NS \in Nat

\* max_hold_ns as load_configuration sets it; 0 turns the check off.
MaxHold == IF MONITOR_MAX_HOLD_NS = None THEN DEFAULT_MAX_HOLD_NS
                                         ELSE MONITOR_MAX_HOLD_NS

\* monitor_verifier_init
InitVerifier ==
    [thread_states |->
        [t \in Thread |->
            [slot |-> 0, exited |-> FALSE, trace_tainted |-> FALSE,
             next_expected_sequence |-> 0,
             waiting_mutex |-> None, depth |-> [m \in Mutex |-> 0],
             since |-> [m \in Mutex |-> 0]]],
     mutex_states |->
        [m \in Mutex |-> [used |-> FALSE, owner_known |-> FALSE,
                          owner |-> None, last_state_sequence |-> 0]],
     processed_events |-> 0, last_processed_sequence |-> 0,
     waiting_thread_count |-> 0,
     candidate_cycle |-> {}, confirmations |-> 0, reported_cycle |-> {},
     deadlock_cycle_violations |-> 0, non_owner_unlock_violations |-> 0,
     self_deadlock_candidates |-> 0, lock_held_at_exit_violations |-> 0,
     hold_time_violations |-> 0, state_overflow_events |-> 0,
     detected_stream_gaps |-> 0, tainted_thread_streams |-> 0]

\* The reports: each counts a violation and prints it.
ReportSelfDeadlockCandidate(v) == [v EXCEPT !.self_deadlock_candidates = @ + 1]
ReportNonOwnerUnlock(v) == [v EXCEPT !.non_owner_unlock_violations = @ + 1]
ReportHoldTimeViolation(v) == [v EXCEPT !.hold_time_violations = @ + 1]
ReportLockHeldAtThreadExit(v) == [v EXCEPT !.lock_held_at_exit_violations = @ + 1]
ReportDeadlockCycle(v) == [v EXCEPT !.deadlock_cycle_violations = @ + 1]

KnownThreads(v) == {t \in Thread : v.thread_states[t].slot # 0}
KnownMutexes(v) == {m \in Mutex : v.mutex_states[m].used}

\* find_thread(id, true): the entry is made in the first free slot, if any.
FindOrCreateThread(v, t) ==
    IF t \in KnownThreads(v) THEN v
    ELSE IF Cardinality(KnownThreads(v)) < VerifierThreads
    THEN [v EXCEPT !.thread_states[t].slot = Cardinality(KnownThreads(v)) + 1]
    ELSE [v EXCEPT !.state_overflow_events = @ + 1]

\* find_mutex(address, true)
FindOrCreateMutex(v, m) ==
    IF m \in KnownMutexes(v) THEN v
    ELSE IF Cardinality(KnownMutexes(v)) < VerifierMutexes
    THEN [v EXCEPT !.mutex_states[m].used = TRUE]
    ELSE [v EXCEPT !.state_overflow_events = @ + 1]
-----------------------------------------------------------------------------
(***************************************************************************)
(* Waiting state and held mutexes of one thread.                           *)
(***************************************************************************)

\* set_thread_waiting
SetThreadWaiting(v, t, m) ==
    [v EXCEPT !.thread_states[t].waiting_mutex = m,
              !.waiting_thread_count =
                 IF v.thread_states[t].waiting_mutex = None THEN @ + 1 ELSE @]

\* clear_thread_waiting forgets to keep the count in step.
ClearThreadWaitingUncounted(v, t, m) ==
    IF m = None \/ v.thread_states[t].waiting_mutex # m THEN v
    ELSE [v EXCEPT !.thread_states[t].waiting_mutex = None]

\* clear_thread_waiting
ClearThreadWaiting(v, t, m) ==
    IF m = None \/ v.thread_states[t].waiting_mutex # m THEN v
    ELSE [v EXCEPT !.thread_states[t].waiting_mutex = None,
                   !.waiting_thread_count = IF @ = 0 THEN 0 ELSE @ - 1]

HeldMutexes(v, t) == {m \in Mutex : v.thread_states[t].depth[m] > 0}

\* add_held_mutex
AddHeldMutex(v, e) ==
    LET t == e.thread_id  m == e.object IN
    IF v.thread_states[t].trace_tainted THEN v
    ELSE IF m \in HeldMutexes(v, t)
    THEN [v EXCEPT !.thread_states[t].depth[m] = @ + 1]
    ELSE IF Cardinality(HeldMutexes(v, t)) >= VerifierHeld
    THEN [v EXCEPT !.state_overflow_events = @ + 1]
    ELSE [v EXCEPT !.thread_states[t] =
            [@ EXCEPT !.depth[m] = 1, !.since[m] = e.timestamp]]

\* What release_held_mutex returns: the unlock gives the mutex up.
FullyReleased(v, e) ==
    \/ v.thread_states[e.thread_id].trace_tainted
    \/ v.thread_states[e.thread_id].depth[e.object] <= 1

\* The hold-time check of release_held_mutex.
HeldTooLong(v, e) ==
    LET since == v.thread_states[e.thread_id].since[e.object]
        held == IF e.timestamp >= since THEN e.timestamp - since ELSE 0
    IN  MaxHold # 0 /\ held > MaxHold

\* The last unlock leaves the entry in the held table.
ReleaseHeldMutexKept(v, e) ==
    IF v.thread_states[e.thread_id].depth[e.object] > 1
    THEN [v EXCEPT !.thread_states[e.thread_id].depth[e.object] = @ - 1]
    ELSE v

\* release_held_mutex
ReleaseHeldMutex(v, e) ==
    LET t == e.thread_id  m == e.object IN
    IF v.thread_states[t].trace_tainted \/ m \notin HeldMutexes(v, t) THEN v
    ELSE IF v.thread_states[t].depth[m] > 1
    THEN [v EXCEPT !.thread_states[t].depth[m] = @ - 1]
    ELSE [(IF HeldTooLong(v, e) THEN ReportHoldTimeViolation(v) ELSE v)
            EXCEPT !.thread_states[t] = [@ EXCEPT !.depth[m] = 0, !.since[m] = 0]]
-----------------------------------------------------------------------------
(***************************************************************************)
(* Stream gaps.                                                            *)
(***************************************************************************)

\* invalidate_mutexes_owned_by_thread
InvalidateMutexes(v, t, barrier) ==
    LET state(m) == v.mutex_states[m]
        owned(m) == state(m).used /\ state(m).owner_known /\ state(m).owner = t
        invalid(m) == [state(m) EXCEPT
                         !.owner_known = FALSE, !.owner = None,
                         !.last_state_sequence = IF barrier > @ THEN barrier ELSE @]
    IN  [v EXCEPT !.mutex_states =
            [m \in Mutex |-> IF owned(m) THEN invalid(m) ELSE state(m)]]

\* The stream is only flagged; what was derived from it is kept.
MarkTaintedKeepsState(v, t, barrier) ==
    IF v.thread_states[t].trace_tainted THEN v
    ELSE [v EXCEPT !.tainted_thread_streams = @ + 1]

\* mark_thread_stream_tainted
MarkThreadStreamTainted(v, t, barrier) ==
    IF v.thread_states[t].trace_tainted THEN v
    ELSE LET w == ClearThreadWaiting(v, t, v.thread_states[t].waiting_mutex)
         IN  InvalidateMutexes(
               [w EXCEPT !.tainted_thread_streams = @ + 1,
                         !.thread_states[t] = [@ EXCEPT !.trace_tainted = TRUE,
                                                 !.depth = [m \in Mutex |-> 0],
                                                 !.since = [m \in Mutex |-> 0]]],
               t, barrier)

\* observe_thread_sequence, on an entry of the table.
ObserveThreadSequence(v, e) ==
    LET t == e.thread_id
        gap == e.thread_sequence # v.thread_states[t].next_expected_sequence
        w == IF gap
             THEN MarkThreadStreamTainted(
                    [v EXCEPT !.detected_stream_gaps = @ + 1], t, e.sequence_id)
             ELSE v
    IN  [w EXCEPT !.thread_states[t].next_expected_sequence = e.thread_sequence + 1]
-----------------------------------------------------------------------------
(***************************************************************************)
(* Event handlers.                                                         *)
(***************************************************************************)

HandleThreadStart(v, e) == [v EXCEPT !.thread_states[e.thread_id].exited = FALSE]

HandleThreadExit(v, e) ==
    LET t == e.thread_id
        held == ~v.thread_states[t].trace_tainted /\ HeldMutexes(v, t) # {}
        w == IF held THEN ReportLockHeldAtThreadExit(v) ELSE v
    IN  [ClearThreadWaiting(w, t, v.thread_states[t].waiting_mutex)
            EXCEPT !.thread_states[t].exited = TRUE]

HandleLockRequest(v, e) ==
    LET t == e.thread_id
        w == FindOrCreateMutex(v, e.object)
        self == ~v.thread_states[t].trace_tainted /\ e.object \in HeldMutexes(v, t)
    IN  SetThreadWaiting(IF self THEN ReportSelfDeadlockCandidate(w) ELSE w,
                         t, e.object)

\* The newest ownership-changing event of a mutex decides who owns it.
SetOwnerLastSeen(v, e, owner) ==
    [v EXCEPT !.mutex_states[e.object] =
        [@ EXCEPT !.owner_known = TRUE, !.owner = owner,
                  !.last_state_sequence = e.sequence_id]]

SetOwner(v, e, owner) ==
    IF e.sequence_id >= v.mutex_states[e.object].last_state_sequence
    THEN [v EXCEPT !.mutex_states[e.object] =
            [@ EXCEPT !.owner_known = TRUE, !.owner = owner,
                      !.last_state_sequence = e.sequence_id]]
    ELSE v

\* handle_lock_acquired leaves the thread marked as waiting.
HandleLockAcquiredWaits(v, e) ==
    LET w == FindOrCreateMutex(v, e.object) IN
    IF e.object \notin KnownMutexes(w) THEN w
    ELSE SetOwner(AddHeldMutex(w, e), e, e.thread_id)

\* When the mutex table is full the handler returns before it clears the wait.
HandleLockAcquired(v, e) ==
    LET w == FindOrCreateMutex(v, e.object) IN
    IF e.object \notin KnownMutexes(w) THEN w
    ELSE SetOwner(
           AddHeldMutex(ClearThreadWaiting(w, e.thread_id, e.object), e),
           e, e.thread_id)

HandleLockFailed(v, e) == ClearThreadWaiting(v, e.thread_id, e.object)

HandleUnlocked(v, e) ==
    LET w == ReleaseHeldMutex(FindOrCreateMutex(v, e.object), e)
        owner == IF FullyReleased(v, e) THEN None ELSE e.thread_id
    IN  IF e.object \in KnownMutexes(w) THEN SetOwner(w, e, owner) ELSE w

HandleUnlockFailed(v, e) ==
    IF e.result = "EPERM" THEN ReportNonOwnerUnlock(v) ELSE v

Handle(v, e) ==
    CASE e.event_type = "THREAD_START"  -> HandleThreadStart(v, e)
      [] e.event_type = "THREAD_EXIT"   -> HandleThreadExit(v, e)
      [] e.event_type = "LOCK_REQUEST"  -> HandleLockRequest(v, e)
      [] e.event_type = "LOCK_ACQUIRED" -> HandleLockAcquired(v, e)
      [] e.event_type = "LOCK_FAILED"   -> HandleLockFailed(v, e)
      [] e.event_type = "UNLOCKED"      -> HandleUnlocked(v, e)
      [] e.event_type = "UNLOCK_FAILED" -> HandleUnlockFailed(v, e)

\* An event makes the verifier forget the reported cycle along with the candidate.
ProcessEventForgets(v, e) ==
    LET counted == [v EXCEPT !.processed_events = @ + 1,
                             !.last_processed_sequence =
                                IF e.sequence_id > @ THEN e.sequence_id ELSE @]
        w == FindOrCreateThread(counted, e.thread_id)
        observed == [ObserveThreadSequence(w, e)
                        EXCEPT !.candidate_cycle = {}, !.confirmations = 0,
                               !.reported_cycle = {}]
    IN  IF e.thread_id \in KnownThreads(w) THEN Handle(observed, e) ELSE w

\* monitor_verifier_process_event.  An event of a thread the table has no room
\* for is only counted.
ProcessEvent(v, e) ==
    LET counted == [v EXCEPT !.processed_events = @ + 1,
                             !.last_processed_sequence =
                                IF e.sequence_id > @ THEN e.sequence_id ELSE @]
        w == FindOrCreateThread(counted, e.thread_id)
        observed == [ObserveThreadSequence(w, e)
                        EXCEPT !.candidate_cycle = {}, !.confirmations = 0]
    IN  IF e.thread_id \in KnownThreads(w) THEN Handle(observed, e) ELSE w
-----------------------------------------------------------------------------
(***************************************************************************)
(* Deadlock check.                                                         *)
(***************************************************************************)

\* An edge of the wait-for graph that find_cycle_from follows: t waits for a
\* mutex with a known owner, and both streams are complete and not exited.
Trusted(v, t) == /\ v.thread_states[t].slot # 0
                 /\ ~v.thread_states[t].trace_tainted
                 /\ ~v.thread_states[t].exited

WaitsFor(v, t) ==
    LET m == v.thread_states[t].waiting_mutex IN
    IF /\ Trusted(v, t)
       /\ m # None
       /\ v.mutex_states[m].used /\ v.mutex_states[m].owner_known
       /\ v.mutex_states[m].owner # None
       /\ Trusted(v, v.mutex_states[m].owner)
    THEN v.mutex_states[m].owner ELSE None

\* The threads find_cycle_from passes through, start first.
WaitPath(v, start) ==
    LET next == [t \in Thread \cup {None} |-> IF t = None THEN None ELSE WaitsFor(v, t)]
        path[k \in 0 .. VerifierThreads] ==
            IF k = 0 THEN start ELSE next[path[k - 1]]
    IN  path

\* A path that runs into a cycle is taken for one.
FindCycleFromAnywhere(v, start) ==
    LET path == WaitPath(v, start)
    IN  IF path[VerifierThreads] = None \/ path[1] = start THEN {}
        ELSE {path[k] : k \in 0 .. VerifierThreads}

\* find_cycle_from: the set of threads on a cycle of two or more through start
\* (the cycle mask), or {}.
FindCycleFrom(v, start) ==
    LET path == WaitPath(v, start)
        closes == {k \in 1 .. VerifierThreads : path[k] = start}
    IN  IF 1 \in closes \/ closes = {} THEN {}
        ELSE {path[k] : k \in 0 .. VerifierThreads} \ {None}

\* find_any_cycle: the first thread in table order that lies on a cycle decides.
FindAnyCycle(v) ==
    LET onCycle == {t \in KnownThreads(v) : FindCycleFrom(v, t) # {}}
        first == {t \in onCycle : \A u \in onCycle : v.thread_states[t].slot
                                                       <= v.thread_states[u].slot}
    IN  UNION {FindCycleFrom(v, t) : t \in first}

\* The cycle reported last is not remembered.
CheckDeadlocksRepeats(v) ==
    LET cycle == FindAnyCycle(v) IN
    IF v.waiting_thread_count < 2 \/ cycle = {}
    THEN [v EXCEPT !.candidate_cycle = {}, !.confirmations = 0]
    ELSE IF v.candidate_cycle # cycle
    THEN [v EXCEPT !.candidate_cycle = cycle, !.confirmations = 1]
    ELSE ReportDeadlockCycle(
           [v EXCEPT !.candidate_cycle = {}, !.reported_cycle = cycle])

\* A reported cycle keeps the check from looking at any other one.
CheckDeadlocksFirstOnly(v) ==
    LET cycle == FindAnyCycle(v) IN
    IF v.waiting_thread_count < 2 \/ cycle = {}
    THEN [v EXCEPT !.candidate_cycle = {}, !.confirmations = 0,
                   !.reported_cycle = {}]
    ELSE IF v.candidate_cycle # cycle
    THEN [v EXCEPT !.candidate_cycle = cycle, !.confirmations = 1]
    ELSE IF v.reported_cycle # {} THEN v
    ELSE ReportDeadlockCycle([v EXCEPT !.reported_cycle = cycle])

\* monitor_verifier_check_deadlocks
CheckDeadlocks(v) ==
    LET cycle == FindAnyCycle(v)
        n == IF v.confirmations < Confirmations THEN v.confirmations + 1
                                                ELSE v.confirmations
    IN  IF v.waiting_thread_count < 2 \/ cycle = {}
        THEN [v EXCEPT !.candidate_cycle = {}, !.confirmations = 0,
                       !.reported_cycle = {}]
        ELSE IF v.candidate_cycle # cycle
        THEN [v EXCEPT !.candidate_cycle = cycle, !.confirmations = 1]
        ELSE IF n < Confirmations \/ v.reported_cycle = cycle
        THEN [v EXCEPT !.confirmations = n]
        ELSE ReportDeadlockCycle(
               [v EXCEPT !.confirmations = n, !.reported_cycle = cycle])
-----------------------------------------------------------------------------
\* monitor_verifier_print_summary
Interpretation(v, trace_complete) ==
    IF /\ trace_complete
       /\ v.state_overflow_events = 0
       /\ v.tainted_thread_streams = 0
    THEN "AUTHORITATIVE" ELSE "INCOMPLETE TRACE"
-----------------------------------------------------------------------------
(***************************************************************************)
(* Types of the tables and of the events that are processed.               *)
(***************************************************************************)

ThreadState ==
    [slot : 0 .. VerifierThreads, exited : BOOLEAN, trace_tainted : BOOLEAN,
     next_expected_sequence : Nat, waiting_mutex : Mutex \cup {None},
     depth : [Mutex -> Nat], since : [Mutex -> Nat]]

MutexState ==
    [used : BOOLEAN, owner_known : BOOLEAN, owner : Thread \cup {None},
     last_state_sequence : Nat]

VerifierState ==
    [thread_states : [Thread -> ThreadState], mutex_states : [Mutex -> MutexState],
     processed_events : Nat, last_processed_sequence : Nat,
     waiting_thread_count : Nat,
     candidate_cycle : SUBSET Thread, confirmations : 0 .. Confirmations,
     reported_cycle : SUBSET Thread,
     deadlock_cycle_violations : Nat, non_owner_unlock_violations : Nat,
     self_deadlock_candidates : Nat, lock_held_at_exit_violations : Nat,
     hold_time_violations : Nat, state_overflow_events : Nat,
     detected_stream_gaps : Nat, tainted_thread_streams : Nat]

LifecycleEvent == {"THREAD_START", "THREAD_EXIT"}
MutexEvent == {"LOCK_REQUEST", "LOCK_ACQUIRED", "LOCK_FAILED", "UNLOCKED",
               "UNLOCK_FAILED"}

\* What monitor_verifier_process_event reads of an event.
WellFormed(e) ==
    /\ e.thread_id \in Thread
    /\ e.event_type \in LifecycleEvent \cup MutexEvent
    /\ e.event_type \in MutexEvent => e.object \in Mutex
    /\ e.sequence_id \in Nat /\ e.thread_sequence \in Nat /\ e.timestamp \in Nat

WaitingThreads(v) == {t \in Thread : v.thread_states[t].waiting_mutex # None}

\* The counter that set_thread_waiting and clear_thread_waiting keep is exact.
WaitingCounted(v) == v.waiting_thread_count = Cardinality(WaitingThreads(v))
=============================================================================
