\* --count-only with -n 1.
SPECIFICATION Spec
CONSTANTS
    Workers = {w1, w2}
    Emitter = emitter
    None = None
    Runs <- CountRuns
    MaxJobs = 2
    QueueSize = 0
    MaxSpurious = 1
    MaxInt = 3
INVARIANTS
    CountRespectsLimit
