CONSTANTS
    a = a
    b = b
    Thread = {t1, t2}
    Mutex = {a, b}
    None = None
    VerifierThreads = 2
    VerifierMutexes = 2
    VerifierHeld = 2
    Confirmations = 2
    DEFAULT_MAX_HOLD_NS = 1
    MONITOR_MAX_HOLD_NS = 0
    Kind <- AllNormal
    Operation = {"lock", "stop"}
    KeyMayFail = FALSE
    MaxThreads = 2
    Capacity = 12
    DrainBatch = 1
    MaxCalls = 4
    MaxTime = 0
SPECIFICATION Spec
SYMMETRY Symmetry
INVARIANT AuthoritativeOnDeadlock
CHECK_DEADLOCK FALSE
