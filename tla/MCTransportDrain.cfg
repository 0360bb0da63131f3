CONSTANTS
    Thread = {t1, t2}
    MaxThreads = 2
    Capacity = 2
    DrainBatch = 2
    MaxEmits = 2
SPECIFICATION Spec
INVARIANT DrainsBeforeTerminating
CHECK_DEADLOCK FALSE
