SPECIFICATION FairSpec
CONSTANTS
    Workers = {w1, w2}
    Jobs = {1}
    Cases = {c1, c2}
    MaxRetries = 2
    BatchSize = 2
    TimelyHeartbeats = FALSE
    HandRequeue = FALSE
    MaxFaults = 1
    NoJob = NoJob
    NoMetrics = {none}
CHECK_DEADLOCK FALSE
INVARIANTS
    FailuresBounded
    SucceededHasResult
PROPERTIES
    FinishedJobStaysFinished
    SubmittedJobEnds
