---------------------------- MODULE WaitForGraph ----------------------------
(***************************************************************************)
(* The deadlock check of src/src/monitor_verifier.c on wait-for graphs of  *)
(* any shape.  Every thread t may own a mutex Own[t], wait for a mutex,    *)
(* or have exited; the tables are those that monitor_verifier_process_event*)
(* makes of the corresponding events.  Then the consumer checks the graph  *)
(* in its idle passes, while events with a gap before them taint threads.  *)
(***************************************************************************)
EXTENDS Verifier, Sequences, SequencesExt

CONSTANTS Own,       \* Thread -> the mutex that it may own
          Threads,   \* the threads in the order in which they are registered
          MaxGaps    \* bound: threads that lose an event

ASSUME OwnAssumption ==
    /\ Own \in [Thread -> Mutex]
    /\ \A t, u \in Thread : Own[t] = Own[u] => t = u
    /\ Range(Threads) = Thread /\ Len(Threads) = Cardinality(Thread)
    /\ MaxGaps \in Nat

VARIABLES situation,   \* thread -> what it did before
          gapped,      \* threads that have lost an event since
          idle,        \* idle passes since the last event, up to Confirmations
          verifier     \* the verifier's state

vars == <<situation, gapped, idle, verifier>>

Situation ==
    {s \in [owns : BOOLEAN, waits : {Own[t] : t \in Thread} \cup {None},
            exited : BOOLEAN] : s.exited => s.waits = None}

\* Events of a thread, without their numbers.
Event(t, type, m) == [event_type |-> type, thread_id |-> t, object |-> m,
                      result |-> "ok", timestamp |-> 0]

Events(t, s) ==
    <<Event(t, "THREAD_START", None)>>
    \o (IF s.owns THEN <<Event(t, "LOCK_REQUEST", Own[t]),
                         Event(t, "LOCK_ACQUIRED", Own[t])>> ELSE <<>>)
    \o (IF s.waits # None THEN <<Event(t, "LOCK_REQUEST", s.waits)>> ELSE <<>>)
    \o (IF s.exited THEN <<Event(t, "THREAD_EXIT", None)>> ELSE <<>>)

\* The stream of a thread is processed as a whole.  sequence_id is the same
\* throughout: only one thread changes the owner of a mutex.
AfterStream(v, t, s) ==
    LET events == Events(t, s)
        numbered == [i \in DOMAIN events |->
                       events[i] @@ [sequence_id |-> 0, thread_sequence |-> i - 1]]
    IN  FoldLeft(ProcessEvent, v, numbered)

Init ==
    /\ situation \in [Thread -> Situation]
    /\ gapped = {}
    /\ idle = 0
    /\ verifier = FoldLeft(LAMBDA v, t : AfterStream(v, t, situation[t]),
                           InitVerifier, Threads)

\* An idle pass of the consumer.
Check ==
    /\ idle' = IF idle < Confirmations THEN idle + 1 ELSE idle
    /\ verifier' = CheckDeadlocks(verifier)
    /\ UNCHANGED <<situation, gapped>>

\* An event of a thread that has lost the one before.
Gap(t) ==
    /\ t \notin gapped
    /\ Cardinality(gapped) < MaxGaps
    /\ gapped' = gapped \cup {t}
    /\ idle' = 0
    /\ verifier' = ProcessEvent(verifier,
         Event(t, "UNLOCK_FAILED", Own[t])
           @@ [sequence_id |-> 1, thread_sequence |-> Len(Events(t, situation[t])) + 1])
    /\ UNCHANGED situation

Next == Check \/ \E t \in Thread : Gap(t)

Spec == Init /\ [][Next]_vars
-----------------------------------------------------------------------------
(***************************************************************************)
(* Properties.                                                             *)
(***************************************************************************)

\* Each of these threads waits for another one of them, as the threads know it.
Deadlocked(threads) ==
    \A t \in threads : \E u \in threads \ {t} :
        situation[t].waits = Own[u] /\ situation[u].owns

\* The cycles of the wait-for graph among the threads that have neither exited nor
\* lost an event: a thread waits for one other at most, so the smallest sets of
\* threads that wait for each other are its cycles.
Cycles(lost) ==
    LET trusted == {t \in Thread : ~situation[t].exited} \ lost
        closed == {c \in SUBSET trusted : c # {} /\ Deadlocked(c)}
    IN  {c \in closed : \A d \in closed : d \subseteq c => d = c}

\* The one with the thread registered first.
FirstCycle(lost) ==
    LET first == SelectInSeq(Threads, LAMBDA t : t \in UNION Cycles(lost))
    IN  IF first = 0 THEN {} ELSE CHOOSE c \in Cycles(lost) : Threads[first] \in c

\* find_cycle_from and find_any_cycle: in wait-for graphs of every shape, chains
\* that lead into a cycle, self-loops, disjoint cycles, exited and tainted threads
\* included, the search returns the cycle of the first thread that lies on one,
\* whole and nothing else, and nothing when there is none.
FindsTheCycle == FindAnyCycle(verifier) = FirstCycle(gapped)

\* monitor_verifier_check_deadlocks reports a cycle no more than once, also when
\* another one is found, confirmed and dissolved in between.  (No thread starts to
\* wait here, so a cycle comes after another one only when the other is dissolved.)
EachCycleOnce == verifier.deadlock_cycle_violations <= Cardinality(Cycles({}))

\* find_any_cycle stops at the first cycle, but a second one is not lost: two idle
\* passes after the last event the first cycle has been reported, however often
\* events reset the candidate, and so has the next one once a gap has dissolved the
\* first; without a cycle the last report is forgotten.
FirstCycleReported ==
    idle = Confirmations => verifier.reported_cycle = FirstCycle(gapped)
=============================================================================
