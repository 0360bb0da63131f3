CONSTANTS
    a = a
    b = b
    Thread = {t1}
    Mutex = {a, b}
    None = None
    VerifierThreads = 1
    VerifierMutexes = 1
    VerifierHeld = 1
    Confirmations = 2
    DEFAULT_MAX_HOLD_NS = 1
    MONITOR_MAX_HOLD_NS = 1
    Kind <- RecursiveAndErrorcheck
    Operation = {"lock", "unlock", "exit", "stop"}
    KeyMayFail = TRUE
    MaxThreads = 2
    Capacity = 2
    DrainBatch = 1
    MaxCalls = 3
    MaxTime = 0
SPECIFICATION Spec
INVARIANTS EarlyReturnHidesNothing AuthoritativeExact
PROPERTY StreamReportsReal
CHECK_DEADLOCK FALSE
