# A TLA+ verification of runtime-monitor

runtime-monitor is a preloaded library that watches the mutex calls of an
unmodified program. This directory holds TLA+ modules that model it, TLC
configurations that check them, and TLAPS proofs. `PROJECT.json` lists the runs,
the source lines each definition stands for, the hazards of the code and the
findings.

## 1. The system

| Component | State | Operations | Talks to |
|---|---|---|---|
| Interceptor (`src/src/interceptor.c`) | resolved real functions, a per-thread bypass flag | `pthread_mutex_lock`: LOCK_REQUEST, real call, LOCK_ACQUIRED or LOCK_FAILED. `pthread_mutex_unlock`: real call, UNLOCKED or UNLOCK_FAILED. Constructor and destructor start and stop the runtime | calls `monitor_runtime_emit` |
| Transport runtime (`src/src/monitor_runtime.c`) | 16 thread contexts (queue, `generated`, `dropped`, `consumed`, `next_thread_sequence`), `next_thread_slot`, `global_sequence`, failure counters, `accept_events`, `consumer_running`, TLS | `start`, `emit` (register on first use, THREAD_START, stamp, push or drop), TLS exit destructor (THREAD_EXIT), consumer loop, `stop` with the COMPLETE/DEGRADED verdict | application threads produce into one ring each; the consumer pops and calls the verifier |
| Ring buffer (`src/src/ring_buffer.c`) | `head`, `tail`, `slots` | `try_push`, `try_pop` | one producer, one consumer, lock-free |
| Verifier (`src/src/monitor_verifier.c`) | tables of threads (expected sequence, taint, wait, held mutexes) and of mutexes (owner, newest sequence), candidate and reported cycle, counters | `process_event` with one handler per event type, `check_deadlocks`, `print_summary` | called by the consumer thread only |
| Targets and benchmark (`src/targets`) | mutexes, barriers | small programs that make one mistake each, or none, and a load generator | run under the monitor |
| Unit test, evaluation scripts, analysis | | offline tooling | |

What is hard here:

* *Concurrency.* Producers never synchronise with the consumer except through two
  atomics per ring; slots are claimed by compare-and-swap; stop races with
  emissions in progress and with the consumer's scan.
* *Order.* The real mutex operation and the stamp of its event are separate steps,
  and queues are drained one after the other, so the verifier sees events of
  different threads out of order.
* *Loss.* A full queue drops the new event. The verifier learns of it only from a
  gap in the thread's sequence numbers.
* *Liveness.* An emit must never wait, stop must return, a deadlock whose
  mutexes have their owners on record must be reported although every event resets the
  candidate.
* *Bounds.* Counters wrap; thread, mutex and held-mutex tables are of fixed size.

What makes each part correct: the ring is a FIFO without slot races; the transport
has one producer per ring, accounts for every event, and never says COMPLETE
wrongly; the verifier's reports are about things that happened, made once, and made;
a summary that calls itself AUTHORITATIVE has the right numbers; and each target gets
the report it was written for and no other.

## 2. Modules

| Module | Models | Grain |
|---|---|---|
| `BoundedFifo` | what a queue promises: push at the end unless full, pop at the front | one step per operation |
| `RingBuffer` | `ring_buffer.c` | one step per atomic access; the slot copy is begun and finished in separate steps |
| `RingBufferProofs` | theorems about `RingBuffer` | |
| `LossyStreams` | what the transport promises for each context: numbered events, accepted into a bounded queue or lost, delivered in order | accept, lose, deliver |
| `Transport` | `monitor_runtime.c`, constructor and destructor of `interceptor.c` | one step per access to shared state |
| `TransportProofs`, `TransportVerdict` | theorems about `Transport` | |
| `Verifier` | `monitor_verifier.c` | operators on the record of its tables; one per function |
| `VerifierProofs` | what the operators of `Verifier` preserve, as lemmas | |
| `WaitForGraph` | the deadlock check on tables of any shape | one step per idle pass or event |
| `Monitor` | application, interceptor, contexts, consumer, verifier and shutdown together | real call, stamp, push, pop-and-process, end of pass |
| `MonitorProofs`, `StreamProofs`, `DeadlockProofs`, `OwnershipProofs` | theorems about `Monitor` | |
| `Targets` | the programs of `src/targets` running under `Monitor` | one step per call of the program |
| `MCRingBuffer`, `MCTransport`, `MCMonitor`, `MCWaitForGraph`, `MCTargets` | constants and symmetry sets of the runs | |

`Targets` extends `Monitor`, which extends `Verifier`; so does `WaitForGraph`.
`RingBuffer` instantiates `BoundedFifo`, and `Transport` instantiates `LossyStreams`.
`Transport` and `Monitor` use a queue as the bounded FIFO that `RingBuffer` is proved to
be, and refuse a push only when it is really full; that a producer may also refuse one
because it sees an outdated tail is in `RingBuffer` alone. Such a refusal is a drop that is
counted and leaves a gap like any other.

### RingBuffer

`head` and `tail` are the newest values of the two atomics. A side that does not own
a counter loads any value between the one it saw last (`ptail`, `chead`) and the
newest: that is what acquire loads may return under C11 coherence, and release
stores make everything before the value visible. While the 48-byte copy into a slot
is under way the slot holds `Torn`; a pop that returned it would break the
refinement. Counters are taken modulo `CounterMod` (2^64 in the code).

### Transport

`thread[t].pc` is the place in the emit call: `claim` and its retry
(`claim_thread_slot`), `activate` and `setspecific` (`register_current_thread`),
`stamp`, `push`, `drop` (`emit_event_to_context`). `thread[t].what` says whether
THREAD_START, the application's event or THREAD_EXIT is under way. The consumer's
locals are in `consumer`; the locals of stop and of the summary are in `main`.
`delivered` and `atStop` are history variables that only properties read. A thread
may go on to emit after its exit destructor (from another TLS destructor) and is then
registered again, as in the code. Shared variables are read and written
sequentially consistently: the memory-order questions are settled in `RingBuffer`.
Everything before the constructor's `accept_events = true` is one step, since no
other thread reads that state before.

`StreamsSpec` says that each context implements a stream of `LossyStreams`: the events
delivered are those accepted, in order, and the numbers missing among them are exactly
those of the events refused by a full queue. The mapping counts an event as accepted when
it is pushed, and as lost from the moment the push is refused, before the drop counter
shows it.

### Verifier and WaitForGraph

`Verifier` is sequential code run by one thread, so each C function is an operator
from the old record to the new one. `thread_states[t].slot` is the table position
(0: no entry), `depth[m] > 0` says that the held table has an entry for `m`; the order
inside that table matters only for printing. `waiting_sequence` is never read and
is left out. The cycle masks are sets of threads. `MaxHold` is the threshold that
`load_configuration` takes from the environment.

`WaitForGraph` starts from every table that four threads can bring about which may each
own a mutex, wait for any of four and have exited; the tables are built by processing
the events of these threads. The cycles are also defined independently of the code, as
the smallest sets of threads that wait for each other.

### Monitor

The application threads make any legal calls. `lock` is the real state of the mutexes
(pthread is external: normal, error-checking and recursive kinds). `contexts` is the
sequence of the contexts handed out. A thread that has ended may come back, as a thread
that emits from a later TLS destructor or as a new one with the same id; it then gets a
new context and its numbers restart at 0. `pthread_setspecific` may fail. Shutdown is the
two flags, the join and the summary with its `interpretation`.

`newest`, `times`, `truth` and two fields of each event record what really happened;
only properties use them. Registration is a part of the first emit: a context that is
not active yet is skipped by the consumer, as one that does not exist, and
THREAD_START is always pushed into an empty queue. Its stamp is the one right before the
event of the call; in the code stamps of other threads may lie in between, which matters
only where a thread registers again and the stamp is the barrier of its gap. The test of `accept_events` and the
stamp are one step here, and so are the two summaries; `Transport` has them apart and
shows that late producers do not lead to a wrong COMPLETE. The end of a pass checks the
graph if the pass consumed nothing, and loads the number of slots for the next one.

### Targets

A program gives each worker a sequence of lock, unlock, barrier and sleep steps;
`main` joins the workers and returns, which runs the library destructor. The clock moves
only while a worker sleeps: the critical sections of `correct` and `benchmark_mutex`
are taken to be shorter than the threshold. `benchmark_mutex` runs with one worker and
three rounds, whose events overflow the queue; with two workers it is `correct` behind a
barrier. Two programs are not in the repository. In `handover` a worker uses
a mutex and gives it up before the other one takes it and both deadlock: the late UNLOCKED
of F3 may precede the deadlock, and seven events may overflow the queue of four. In
`bystander` a third worker comes to wait for a mutex of the deadlock, so that its events
reset the candidate cycle before or after the report.

## 3. Runs

| Run | Question | Bounds | Result |
|---|---|---|---|
| `ring` | slot races, FIFO refinement | capacity 4, counters wrap at 8, two events: every relative position of the four counters on both sides of the wrap | holds |
| `transport` | one producer per slot, accounting, COMPLETE verdict about slots and about calls, refinement of `LossyStreams` | two threads, two slots, queue of one, batch of two, three emits: full queues, contended claims, a third registration that is refused, exit and registration anew, late producers during the summary | holds |
| `transport_progress` | stop returns, emit returns | two threads, one slot, queue of one, four emits | holds |
| `transport_drain` | "drains all remaining queues" | two emits | violated (F1) |
| `monitor_lossless` | false deadlock reports, waiting count, ownership | two threads, two normal mutexes, two held entries each, five calls, no loss, batch of two | holds |
| `monitor_streams` | reports from one stream, and an AUTHORITATIVE summary about them | one thread, a recursive and an error-checking mutex, queue of two, one held and one mutex entry, two slots, three lock and unlock calls with thread exits between them, failing `pthread_setspecific`, stop at any moment | holds |
| `cycles` | the search for cycles, and two of them at once | four threads and mutexes, all graphs, one gap, any number of idle passes | holds |
| `targets` | every program under the monitor; deadlocks on record reported, and once | two workers, in `bystander` three; queue of four, one round per worker of `correct`, three of `benchmark_mutex`, threshold 1, sleep of 2 | holds |
| `monitor_owner` | ownership is reconstructed | as `monitor_lossless` | violated (F3) |
| `monitor_loss` | no false deadlock after a loss | two threads, five calls, queue of four | violated (F2) |
| `monitor_authority` | an AUTHORITATIVE summary knows of a deadlock | two threads, four lock calls, stop at any moment, no loss | violated (F4) |
| `monitor_hold` | hold times are real | one thread, a lock and an unlock call, two clock ticks | violated (F5) |

Why the bounds are enough for the cases named: a deadlock of two threads needs four
lock calls, a false one five; a queue of one makes every second event of a burst
a drop; a stale candidate needs two passes, which are not bounded; two disjoint cycles
need four threads; in `targets` a worker has up to eleven events (seven where there are
more workers) for a queue of four. Longer histories are not covered by these runs, and hold times only by `targets` and
`monitor_hold` (`TimedSpec`): the clock stands still in the other runs, so that the
hold-time parts of `StreamReportsReal` and `AuthoritativeExact` are tested by `targets`
alone, and `monitor_lossless` tests only the self-deadlock part of `StreamReportsReal`.
Deadlock
checking is off where the application may finish, exit or really deadlock
(`Transport`, `Monitor`, `Targets`); `RingBuffer` and `WaitForGraph` never stop and are
checked for it.

Fairness. `StopReturns` assumes `StopFairness`: the consumer thread and the thread that
runs `monitor_runtime_stop` are scheduled; application threads need not be. Both are
ordinary threads that spin or join, never wait for a lock of the application.
`EmitReturns` assumes `EmitFairness`: only the emitting thread is scheduled. `TargetSpec`
has `ConsumerFairness`, the consumer goes on until it is done, and weak fairness of the
program as a whole, which has finitely many steps in all and so cannot leave out one of
its threads for ever. Weak fairness is what any preemptive scheduler gives.

What `targets` does not promise: that the expected report is made in every run. A queue
that overflows, or F1, can cost a program that terminates its report; the summary is then
INCOMPLETE TRACE (`AuthoritativeOutcome`).

Nor is every deadlock reported. `DeadlockReported` is about those at which no event has been
lost and the newest stamps name the real owners (`OnRecord`); TLC finds `handover` as a
counterexample when either condition is left out. Without `OnRecord` the late
UNLOCKED of F3 takes the owner out of the verifier's tables, no further event of the
blocked threads brings it back, and the cycle is never found, in a trace without loss. The
no-loss condition is about all threads, because the gap of a third thread also bars older
events of the mutexes it is recorded to own (`invalidate_mutexes_owned_by_thread`).

## 4. Findings

* **F1** (`transport_drain`). The consumer reads `consumer_running` after its scan. An
  event pushed behind the scan and before stop is left in the queue, against
  `monitor_runtime.h`. The totals then differ, so the verdict is DEGRADED:
  `CompleteVerdictSound` holds all the same.
* **F2** (`monitor_loss`). A loss at the end of a stream leaves no gap, so the thread is
  not tainted; its stale wait can close a cycle and a DEADLOCK_CYCLE is reported that
  does not exist. The summary at exit still says that events were dropped, and
  the limitations in the repository's README concede that terminal losses leave no gap.
* **F3** (`monitor_owner`). The stamp of UNLOCKED comes after the real unlock. The next
  owner's LOCK_ACQUIRED may be stamped in between, and last-writer-wins by
  sequence number then records a free mutex. No event is lost, and the trace is COMPLETE.
  A deadlock that the mutex takes part in afterwards is not found (`DeadlockReported` in
  section 3).
* **F4** (`monitor_authority`). Two idle passes confirm a cycle, but after stop the
  consumer leaves at the end of the first. A program that exits while some of its threads
  have just deadlocked gets an AUTHORITATIVE summary with no deadlock in it. What the
  summary counts from single streams is exact all the same (`AuthoritativeExact`).
* **F5** (`monitor_hold`). The end of a hold is the timestamp of UNLOCKED, taken after
  the real unlock; a thread preempted in between is reported although it held the mutex
  no longer than allowed. Measured by the timestamps, hold reports are right even under
  loss (`StreamReportsReal`).

## 5. Proofs

All theorems hold for every value of the constants that satisfies the named assumptions
of the module that declares them; these say no more than that sizes are positive, that
`None` is neither a thread nor a mutex, and that there are finitely many of both.

### Ring buffer

`RingBufferProofs` proves, for every capacity and every counter range that is a
proper multiple of it (`CapacityAssumption`; 2^64 and 2048 are an instance) and any
set of events:

* `TypeCorrect`: `Spec => []TypeOK`;
* `RaceFree`: `Spec => []NoSlotRace`;
* `Refinement`: `Spec => FifoSpec`, the ring implements `BoundedFifo`;
* `Invariance`: `Spec => []IndInv`, on which the others rest.

`NoSlotRace` is not inductive: it does not say why the outdated copies are safe.
`IndInv` adds that along the wrapping counter line `ptail`, `tail`, `chead`, `head`
come in this order and within `Capacity` of each other (`CountersInOrder`), stated as
sums of distances so that it survives the wrap, and what each side has copied
(`CopiesInPlace`). The lemmas go from arithmetic on remainders (`DivMod`,
`ModUnique`, `ModDistinct`), to distances (`DistanceLinear`, `Walk`,
`DistanceAdd`), to the fact that distinct counters less than `Capacity` apart name
distinct slots (`SlotDistinct`, `OwnedSlotsDiffer`). `StepInv` has one case per
action. For the refinement, `Published` is the sequence of published slots: writes
fall outside it (`WritesOutsidePublished`), publishing appends the copied event,
releasing removes the first.

### Transport

For any set of threads, number of slots, capacity, batch and number of emits
(`SizeAssumption`), `TransportProofs` proves `Invariance` (`Spec => []IndInv`),
`TypeCorrect`, `OneProducer` (`[]SingleProducer`), `EveryEventAccounted`
(`[]Accounting`) and `StreamsRefinement` (`Spec => StreamsSpec`).

`SingleProducer` is not inductive because nothing in it says that the slot a thread is
about to be given is free. `ThreadsInPlace` adds that every slot in use is below
`next_thread_slot` and who has one, and `SlotsInPlace` that a slot above it, or one that
is claimed and not yet filled in, is untouched: filling it in overwrites nothing, and
`Accounting` starts from zero there. `SequencesInPlace` ties the number a producer has in
hand to the counters of its context. The lemmas say, action by action, what a step does
to each context, and the invariant's parts are then shown one after the other.

For `StreamsRefinement`: under `IndInv` a push that succeeds is an `Accept` of the stream,
a refused one a `Lose`, a pop a `Deliver`, and every other step leaves all streams as they
are.

`TransportVerdict` proves `CompleteIsSound`, `Spec => []CompleteVerdictSound`. The totals
are no snapshot: producers go on while the summary adds up slot after slot. The argument
(`VerdictInv`, proved on top of `IndInv`) is that a slot's `generated` is read before its
`consumed`; the consumer has ended by then, and no slot has consumed more than it has
generated. So the sum of what was generated is at least the sum of what was consumed
(`TotalsOver`), equality of the sums means equality in each slot, and a slot in
which both are equal has delivered everything that was finished at stop (`StopBehind`).
`NumbersInOrder` bounds the number of the p-th delivered event by p - 1 plus the drops
counted, so a slot without drops was delivered without a gap. In the step from
`generated` to `consumed` the share `g` of the slot under way is an existential witness.

It also proves `NoCallMissed`, `Spec => []CompleteMissesNoCall`: calls are counted per
thread and delivered events per slot, and a thread may have used several slots or none.
`CallsInv` (on top of `IndInv` and `VerdictInv`) has two accounts. `CallsAccounted`: the
calls that have returned are no more than the unregistered events, the drops and the
application's events in the streams together; it needs that `ThreadsInPlace` says what a
thread is doing at each point of a call (`ReturnOfThread`). `StopAccounted`: the same holds
of the calls returned at the stop with the counters of that moment, which nothing records
(they are existential witnesses) but which every later total includes. When the summary
says COMPLETE they were all zero, and the events of that time are among the delivered ones.
Both sides are cardinalities of sets of pairs (`Pairs`), so a step adds one element to
one set (`PairsAdd`, `PairsOneMore`) and no induction over a sum is needed.

### Verifier and Monitor

`VerifierProofs` has one lemma per function of `monitor_verifier.c` in the model: each
keeps the tables typed and the waiting count exact (`Consistent`). `Processed` and
`Checked` put them together for the two entry points. `AnyCycleWaits` shows that a cycle
found by `find_any_cycle` has two threads that are counted as waiting; paths are followed
by induction over their length, in the form of a least counterexample (`Least`,
`Iterated`, `PathFollows`, `PathEnds`).

`MonitorProofs` shows that `IndInv` of `Monitor` is inductive for any number of threads,
mutexes and contexts, with or without a clock (`TimedInvariance`, `Invariance`): events
in the queues are well formed, a thread pushes into a context that exists, and the real
mutexes have a recursion count exactly while they are owned. From it:

* `TypeCorrect`: `TimedSpec => []TypeOK`;
* `WaitingCountExact`: `TimedSpec => []EarlyReturnHidesNothing`, for the application that
  may do anything legal, under losses, gaps, exits, registration anew and full tables.

`Spec` is `TimedSpec` without clock ticks, so both hold of it as well.

`StreamProofs` proves `StreamReports`: `TimedSpec => StreamReportsReal`. No report that the
verifier draws from one stream is false, whatever is dropped, for any number of threads,
mutexes and contexts and any sizes of queues and tables. The property is about one event
and two verifier states, but why it holds is spread over the interceptor, the queues and
the verifier, so the invariant (`StreamInv`) follows a stream along that way:

* A *view* says how often a thread holds each mutex and when it acquired it. Every event
  has a view before it and one after it (`ViewBefore`, `ViewAfter`), computed from the
  history fields `really_held` and `times` that the model stamps into events and the
  verifier never reads. `StampedView` is the view of a thread by the events it has
  stamped: between a real call and its stamp the mutex does not count yet.
* `QueueInv` and `PendingInv`: consecutive events of a context agree on the view between
  them, up to the event being pushed and on to what the thread does next. An event that
  is dropped breaks no such chain, because the next one then has a number that does not
  follow (`PushStreams`).
* `BoundInv`: what the verifier recorded for a thread it does not distrust is bounded by
  the view before the event it expects next. It is a bound and not an equality, because
  the held table may be full and a thread may hold mutexes from before it registered.
  `ProcessEffect` shows for every handler that the bound moves from the view before an
  event to the view after it, and that reports made on the way are real.
* `AgainInv` and `SeenInv`: the bound is kept against the first context of a thread only.
  A thread that registers again restarts at number 0 in a new context; the consumer has
  then always taken an event of the first context, because it visits contexts in slot
  order and every context starts with THREAD_START. So the second THREAD_START is a gap,
  and the thread is distrusted from there on.

TLC checked `StreamInv` on small instances of the spec before it was proved.

`DeadlockProofs` proves `DeadlockReports`: `TimedSpec => NoFalseDeadlock`. A DEADLOCK_CYCLE
report about threads none of which lost an event names threads that really block each
other at that moment, for any number of threads, mutexes and contexts, whatever the
threads outside the cycle lost. The verifier puts its wait-for graph together from queues
that it reads one after the other while the application runs, so the invariant (`DeadInv`,
on top of `IndInv` and `StreamInv`) must say in which sense a graph of old facts is true:

* A *stance* says which mutex a thread waits for and which ones it holds. Each stamped
  event has one before it and one after it (`StanceBefore`, `StanceAfter`). A function `F`,
  bound by an existential quantifier in `DeadInv`, gives the stance in which the stream of
  each context ends: the one its thread has by now, or had when `monitor_runtime_stop`
  closed the stream (`EndInv`). `PendingFits` and `QueueFits` chain the events to it.
* `RecordInv`: what the verifier recorded of a thread, the mutex it waits for and those it
  owns, fits the stance ahead of the next event of the thread, and the events it has still
  to take are newer than the one that made the thread an owner (`Newer`), so that none of
  them is passed over as outdated. This needs that events
  of a context are queued in the order of their stamps (`OrderInv`), and that what is not in
  the verifier's tables has no state (`TableInv`).
* `StuckInv`: threads whose last stances wait for each other block each other in their
  real lock calls. They can neither take nor release a mutex, so this is stable, also
  through LOCK_REQUEST being stamped before the real call begins (`CallInv`).
* `CandidateInv`: the consumer never sees the queues of a cycle empty at one moment, it
  finds them empty one by one. But an event of a thread it knows resets the candidate
  cycle, so while the candidate stands, a queue that is found empty has been empty all
  along. If those still ahead in the pass (`EmptyAhead`) are empty too, the cycle is real.

Each of the first three parts is used by another one, and the last is the step from the
recorded graph to the real one. `DeadStep` puts the preservation of all of them together.

`OwnershipProofs` proves `OwnershipIndependent`,
`TimedSpec => []OwnershipOrderIndependent`. The comment in `handle_lock_acquired` claims
that the state of a mutex does not depend on the order in which the queues are drained.
That needs more than the comparison of sequence numbers next to it: `release_held_mutex` decides from the
verifier's own recursion count whether an unlock gives the mutex up, and an unlock that
is taken for a recursive one never reaches the comparison. The invariant (`OwnershipInv`, on
top of `IndInv` and `StreamInv`) therefore has two halves. The *flow* of a context is its
queue and the event about to be pushed, all that the verifier has not taken yet.

* `FlowInv`: the recursion count recorded for a thread equals, mutex by mutex, the count in
  the view before the next event of its flow, and the flow ends in what the thread has done
  by now. This is the equality of which `BoundInv` has only one direction. It holds only
  while nothing was missed: a dropped event, a thread without a context or a full table
  breaks it, and each of them shows in the summary, so `NothingMissed` is the condition
  of the property. `StrangerInv` says that a thread without a context holds nothing, and
  `TrustInv` that no stream is distrusted.
* `OwnerInv`: for each mutex there is a newest stamp. Either the event with that stamp is
  still on the way and names the owner that the property compares with, or it has been
  taken and is the recorded one; every other event on the way that changes the owner is
  older (`StampInv` bounds all stamps by `global_sequence`). So an event that the verifier
  takes is the newest and is obeyed, or an older one that changes nothing which lasts.

`StampedOwner` carries the second half through a stamp and `DrainOwnership` through the
consumer; `OwnershipStep` puts all actions together. TLC checked `OwnershipInv` on small
instances before it was proved.

### Only model-checked

* Liveness (`StopReturns`, `EmitReturns`, `DeadlockReported`, `TargetConcludes`): beyond
  the prover.
* `ReportedOnce`: it is true of the two or three threads of the run, not of every number.
  `reported_cycle_mask` remembers the last cycle only. With five threads: A1 and A2
  deadlock and are reported; B1 and B2, registered before them, deadlock and are
  reported, which forgets A; then the fifth thread stamps, late, the UNLOCKED of a mutex
  that B1 has taken since, the verifier drops B1 as its owner (the disagreement that
  `monitor_owner` shows) and the cycle B with it; the next two idle passes find A again
  and report it a second time. Nothing in the repository promises the contrary.
* `AuthoritativeExact`: it compares the counters of the verifier with a count of mistakes
  over all streams and asks that the totals of the transport agree, so it adds sums over
  the slots to what `OwnershipInv` says of each thread.
* `WaitForGraph`: its initial states are folds over event sequences, again induction over
  data. `Targets`: finite programs, which TLC covers.

## 6. Not modelled

* Debug output of the interceptor with its counter, formatting of reports and the
  printed statistics: text only.
* The bypass for the monitor's own thread: it emits nothing and holds no application
  mutex.
* The 32-bit wrap of `thread_sequence`: only a loss of exactly 2^32 events would hide
  behind it.
* `main` of the benchmark beyond starting and joining the workers: argument parsing and
  time measurement.
* The unit test of the ring (its cases are behaviours of `RingBuffer`), the evaluation
  scripts (they start one process after the other and parse text), the analysis (floating
  point statistics) and the build.
* `pthread_mutex_trylock`, `timedlock` and condition variables are not intercepted by
  the code, so the modelled application does not use them.

## 7. Plan

Done: the ring buffer with refinement and proofs; the transport with startup, shutdown,
the refinement of `LossyStreams` and the proofs of all its safety properties; the
verifier with its summary and what its functions preserve; the composition with
registration anew, table overflow and shutdown, and the proofs of its types, of the
exactness of the waiting count, of the truth of the reports from single streams and of
deadlock reports, and of the ownership record; cycles of four threads; the targets.

What would come next:

1. `AuthoritativeExact` for all constants: `FlowInv` is the exact account of each thread
   that it needs; what is left is the sum over the slots.
2. A form of `ReportedOnce` for any number of threads: no report is repeated while the
   cycles reported before stay in the verifier's tables.
3. That the programs of `Targets` are among the applications of `Monitor`, so that the
   theorems of `Monitor` hold for them.
