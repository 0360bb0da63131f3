CONSTANTS
    Thread = {t1, t2}
    MaxThreads = 1
    Capacity = 1
    DrainBatch = 1
    MaxEmits = 4
SPECIFICATION Spec
PROPERTIES StopReturns EmitReturns
CHECK_DEADLOCK FALSE
