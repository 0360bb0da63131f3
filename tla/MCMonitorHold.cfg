CONSTANTS
    a = a
    b = b
    Thread = {t1}
    Mutex = {a, b}
    None = None
    VerifierThreads = 1
    VerifierMutexes = 2
    VerifierHeld = 2
    Confirmations = 2
    DEFAULT_MAX_HOLD_NS = 1
    MONITOR_MAX_HOLD_NS = 1
    Kind <- AllNormal
    Operation = {"lock", "unlock"}
    KeyMayFail = FALSE
    MaxThreads = 1
    Capacity = 12
    DrainBatch = 1
    MaxCalls = 2
    MaxTime = 2
SPECIFICATION TimedSpec
PROPERTY HoldTimeReal
CHECK_DEADLOCK FALSE
