------------------------------ MODULE Targets ------------------------------
(***************************************************************************)
(* The programs under src/targets run under the monitor.  Their workers    *)
(* are fixed sequences of lock, unlock, barrier and sleep; main creates    *)
(* the workers, joins them and returns, which stops the monitor.  A worker *)
(* leaves early if a lock call fails where the program expects success,    *)
(* which a fresh mutex never does.  Printing, checking of counters and     *)
(* timing are left out, and so is the creation of threads: a worker that   *)
(* has not been created yet is one that has not run yet.                   *)
(***************************************************************************)
EXTENDS Monitor

CONSTANTS Target,       \* the programs to run
          Worker1, Worker2, Worker3,
          MutexA, MutexB, CheckedMutex,
          Iterations,   \* bound: lock/unlock rounds of a worker of correct
          BenchmarkIterations \* bound: --iterations of benchmark_mutex

ASSUME TargetAssumption ==
    /\ Thread = {Worker1, Worker2, Worker3} /\ Cardinality(Thread) = 3
    /\ {MutexA, MutexB, CheckedMutex} \subseteq Mutex
    /\ MutexA # MutexB
    /\ Kind[MutexA] = "normal" /\ Kind[MutexB] = "normal"
    /\ Kind[CheckedMutex] = "errorcheck"
    /\ Iterations \in Nat /\ BenchmarkIterations \in Nat
    /\ MaxHold \in Nat \ {0} /\ MaxTime > MaxHold

VARIABLES target,   \* the program that runs
          at        \* worker -> its next step

targetVars == <<target, at>>
allVars == <<vars, target, at>>

Lock(m) == [op |-> "lock", mutex |-> m]
Unlock(m) == [op |-> "unlock", mutex |-> m]
BarrierWait == [op |-> "barrier", mutex |-> None]
Sleep == [op |-> "sleep", mutex |-> None]

Rounds(m, n) == [i \in 1 .. 2 * n |-> IF i % 2 = 1 THEN Lock(m) ELSE Unlock(m)]

\* A program of three workers, of two, or of one: the others do not exist.
ThreeWorkers(p1, p2, p3) == (Worker1 :> p1) @@ (Worker2 :> p2) @@ (Worker3 :> p3)
Workers(p1, p2) == ThreeWorkers(p1, p2, <<>>)
OneWorker(p) == Workers(p, <<>>)

correct == Workers(Rounds(MutexA, Iterations), Rounds(MutexA, Iterations))

circular_deadlock ==
    Workers(<<Lock(MutexA), BarrierWait, Lock(MutexB), Unlock(MutexB), Unlock(MutexA)>>,
            <<Lock(MutexB), BarrierWait, Lock(MutexA), Unlock(MutexA), Unlock(MutexB)>>)

non_owner_unlock ==
    Workers(<<Lock(CheckedMutex), BarrierWait, BarrierWait, Unlock(CheckedMutex)>>,
            <<BarrierWait, Unlock(CheckedMutex), BarrierWait>>)

self_deadlock ==
    OneWorker(<<Lock(CheckedMutex), Lock(CheckedMutex), Unlock(CheckedMutex)>>)

held_at_exit == OneWorker(<<Lock(MutexA)>>)

hold_time == OneWorker(<<Lock(MutexA), Sleep, Unlock(MutexA)>>)

\* With --threads 1; with two workers it is correct behind a barrier.  Main also waits at
\* the barrier, but only after it has created all workers.
benchmark_mutex == OneWorker(<<BarrierWait>> \o Rounds(MutexA, BenchmarkIterations))

(***************************************************************************)
(* Two programs that are not in the repository put the deadlock of         *)
(* circular_deadlock among other events.                                   *)
(***************************************************************************)

\* One of the two has used MutexA before and given it up: its UNLOCKED may be stamped
\* after the LOCK_ACQUIRED of the other, and with seven events it may overflow its queue.
handover ==
    Workers(<<Lock(MutexA), BarrierWait, Lock(MutexB)>>,
            <<Lock(MutexA), Unlock(MutexA), Lock(MutexB), BarrierWait, Lock(MutexA)>>)

\* A third worker comes to wait for MutexA, before or after the deadlock is reported.
bystander ==
    ThreeWorkers(<<Lock(MutexA), BarrierWait, Lock(MutexB)>>,
                 <<Lock(MutexB), BarrierWait, Lock(MutexA)>>,
                 <<BarrierWait, Lock(MutexA)>>)

Program ==
    CASE target = "correct" -> correct
      [] target = "circular_deadlock" -> circular_deadlock
      [] target = "non_owner_unlock" -> non_owner_unlock
      [] target = "self_deadlock" -> self_deadlock
      [] target = "held_at_exit" -> held_at_exit
      [] target = "hold_time" -> hold_time
      [] target = "benchmark_mutex" -> benchmark_mutex
      [] target = "handover" -> handover
      [] target = "bystander" -> bystander

TargetInit == Init /\ target \in Target /\ at = [t \in Thread |-> 1]
-----------------------------------------------------------------------------
Advance(t) == at' = [at EXCEPT ![t] = @ + 1] /\ UNCHANGED target

\* The worker is about to do this.
Doing(t, op) == /\ app[t].pc = "run"
                /\ at[t] <= Len(Program[t])
                /\ Program[t][at[t]].op = op

LockStep(t) ==
    /\ Doing(t, "lock")
    /\ LockRequest(t, Program[t][at[t]].mutex)
    /\ Advance(t)

UnlockStep(t) ==
    /\ Doing(t, "unlock")
    /\ RealUnlock(t, Program[t][at[t]].mutex)
    /\ Advance(t)

\* nanosleep returns when the delay is over.
Awake(t) ==
    /\ Doing(t, "sleep")
    /\ now = MaxTime
    /\ Advance(t)
    /\ UNCHANGED vars

\* The worker returns, and its TLS destructors run.
ReturnStep(t) ==
    /\ at[t] = Len(Program[t]) + 1
    /\ ThreadExit(t)
    /\ Advance(t)

WorkerStep(t) ==
    \/ LockStep(t) \/ UnlockStep(t) \/ Awake(t) \/ ReturnStep(t)
    \/ InCall(t) /\ UNCHANGED targetVars

\* The worker is one of the program, and the barrier counts it.
Exists(t) == Program[t] # <<>>

\* pthread_barrier_wait: everyone has arrived, and goes on.
BarrierOpens ==
    /\ \A t \in Thread : Exists(t) => Doing(t, "barrier")
    /\ at' = [t \in Thread |-> IF Exists(t) THEN at[t] + 1 ELSE at[t]]
    /\ UNCHANGED <<vars, target>>

\* pthread_join succeeds.
Joinable(t) == /\ app[t].pc = "run"
               /\ ~Exists(t) \/ at[t] = Len(Program[t]) + 2

\* main returns; the library destructor calls monitor_runtime_stop.
MainStep ==
    /\ \/ (\A t \in Thread : Joinable(t)) /\ StopAccept
       \/ StopStep
    /\ UNCHANGED targetVars

\* Time passes while a worker sleeps; everything else is fast.
TimePasses == (\E t \in Thread : Doing(t, "sleep")) /\ Tick /\ UNCHANGED targetVars

MonitorStep == ConsumerStep /\ UNCHANGED targetVars

ProgramStep == (\E t \in Thread : WorkerStep(t)) \/ BarrierOpens \/ MainStep \/ TimePasses

TargetNext == ProgramStep \/ MonitorStep

\* The scheduler runs the consumer, and the program as long as one of its threads
\* can go on.  That treats the threads fairly too: each has finitely many steps.
TargetSpec == /\ TargetInit /\ [][TargetNext]_allVars
              /\ WF_allVars(ProgramStep) /\ ConsumerFairness
-----------------------------------------------------------------------------
(***************************************************************************)
(* Properties.                                                             *)
(***************************************************************************)

OfRepository == target \notin {"handover", "bystander"}

\* What README.md says of each target: one report, or none.
Expected ==
    [deadlock |-> IF target = "circular_deadlock" THEN 1 ELSE 0,
     non_owner |-> IF target = "non_owner_unlock" THEN 1 ELSE 0,
     self_deadlock |-> IF target = "self_deadlock" THEN 1 ELSE 0,
     held_at_exit |-> IF target = "held_at_exit" THEN 1 ELSE 0,
     hold_time |-> IF target = "hold_time" THEN 1 ELSE 0]

Reported ==
    [deadlock |-> verifier.deadlock_cycle_violations,
     non_owner |-> verifier.non_owner_unlock_violations,
     self_deadlock |-> verifier.self_deadlock_candidates,
     held_at_exit |-> verifier.lock_held_at_exit_violations,
     hold_time |-> verifier.hold_time_violations]

\* README, "False Violations Under Load": with queues that overflow, in every
\* schedule, a target gets no report but the expected one, and that at most once.
NoUnexpectedReport ==
    OfRepository => \A k \in DOMAIN Expected : Reported[k] <= Expected[k]

\* README, "Targets": under an AUTHORITATIVE summary a target has got exactly the
\* expected report.
AuthoritativeOutcome ==
    OfRepository /\ main.interpretation = "AUTHORITATIVE" => Reported = Expected

\* Monitoring ends neither in a hang nor in silence: the summary of a target that
\* terminates is printed, and the circular deadlock, which does not, is reported.
TargetConcludes ==
    OfRepository =>
        <>(IF target = "circular_deadlock" THEN Reported = Expected
                                           ELSE main.pc = "stopped")

\* Sets of threads that block each other, none of which is one of fewer threads.
Deadlocks ==
    LET closed == {c \in SUBSET Thread : c # {} /\ ReallyDeadlocked(c)}
    IN  {c \in closed : \A d \in closed : d \subseteq c => d = c}

\* monitor_verifier_check_deadlocks: without losses there are never more DEADLOCK_CYCLE
\* reports than deadlocks, although an event that is processed after the report, of
\* a thread that still runs, resets the candidate, which is then confirmed again.
\* (reported_cycle_mask keeps the last cycle only: with five threads, when the
\* record of a second cycle is undone by a late UNLOCKED, the first one is reported
\* again.)
ReportedOnce ==
    NothingDropped => verifier.deadlock_cycle_violations <= Cardinality(Deadlocks)

\* By the order of the stamps the mutex that t waits for belongs to its real owner: no
\* late UNLOCKED has taken it away from the owner, and none is still to be stamped.
OnRecord(t) ==
    LET m == app[t].mutex IN
    /\ newest[m] = lock[m].owner
    /\ \A u \in Thread : app[u].pc = "unlocked" => app[u].mutex # m

\* A deadlock is eventually reported if no event was lost and the order of the stamps
\* says who owns its mutexes: older events that are drained later do not undo the
\* owner, and every event resets the candidate, but only delays its confirmation.
\* Without OnRecord this is false: pthread_mutex_unlock stamps UNLOCKED late.
DeadlockReported ==
    (NothingDropped /\ \E threads \in Deadlocks : \A t \in threads : OnRecord(t))
      ~> verifier.reported_cycle \in Deadlocks
=============================================================================
