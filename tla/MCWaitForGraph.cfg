CONSTANTS
    t1 = t1
    t2 = t2
    t3 = t3
    t4 = t4
    a = a
    b = b
    c = c
    d = d
    Thread = {t1, t2, t3, t4}
    Mutex = {a, b, c, d}
    None = None
    VerifierThreads = 4
    VerifierMutexes = 4
    VerifierHeld = 1
    Confirmations = 2
    DEFAULT_MAX_HOLD_NS = 1
    MONITOR_MAX_HOLD_NS = 0
    Own <- OwnOfEach
    Threads <- Registration
    MaxGaps = 1
SPECIFICATION Spec
INVARIANTS FindsTheCycle EachCycleOnce FirstCycleReported
