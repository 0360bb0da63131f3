CONSTANTS
    Thread = {t1, t2}
    MaxThreads = 2
    Capacity = 1
    DrainBatch = 2
    MaxEmits = 3
SPECIFICATION Spec
SYMMETRY Threads
INVARIANTS TypeOK SingleProducer Accounting CompleteVerdictSound CompleteMissesNoCall
PROPERTY StreamsSpec
CHECK_DEADLOCK FALSE
