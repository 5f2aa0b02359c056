\* A record expression in the filter: something else than records is printed.
SPECIFICATION Spec
CONSTANTS
    Workers = {w1, w2}
    Emitter = emitter
    None = None
    Runs <- NestedRuns
    MaxJobs = 2
    QueueSize = 0
    MaxSpurious = 1
    MaxInt = 3
INVARIANTS
    OneRecordPerLine
