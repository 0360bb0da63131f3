CONSTANTS
    Worker1 = w1
    Worker2 = w2
    Worker3 = w3
    MutexA = a
    MutexB = b
    CheckedMutex = e
    Thread = {w1, w2, w3}
    Mutex = {a, b, e}
    None = None
    VerifierThreads = 3
    VerifierMutexes = 3
    VerifierHeld = 2
    Confirmations = 2
    DEFAULT_MAX_HOLD_NS = 1
    MONITOR_MAX_HOLD_NS = None
    Kind <- KindOfEach
    Operation = {"lock", "unlock", "exit", "stop"}
    KeyMayFail = FALSE
    MaxThreads = 3
    Capacity = 4
    DrainBatch = 1
    MaxCalls = 20
    MaxTime = 2
    Target = {"correct", "circular_deadlock", "non_owner_unlock", "self_deadlock", "held_at_exit", "hold_time", "benchmark_mutex", "handover", "bystander"}
    Iterations = 1
    BenchmarkIterations = 3
SPECIFICATION TargetSpec
INVARIANTS ReportedOnce NoUnexpectedReport AuthoritativeOutcome AuthoritativeExact
PROPERTIES StreamReportsReal DeadlockReported TargetConcludes
CHECK_DEADLOCK FALSE
