\* Two workers, every input, a queue that is full with one task.
SPECIFICATION FairSpec
CONSTANTS
    Workers = {w1, w2}
    Emitter = emitter
    None = None
    Runs <- AllRuns
    MaxJobs = 2
    QueueSize = 0
    MaxSpurious = 1
    MaxInt = 3
INVARIANTS
    TypeOK
    LimitRespected
    WholeRecords
    InOrder
    DecoderFits
    LeaversClose
    Drained
    FailureReported
    CountExact
PROPERTIES
    StreamSpec
    Termination
