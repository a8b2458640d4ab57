SPECIFICATION Spec
CONSTANTS
    Workers = {w1, w2}
    Jobs = {1, 2}
    Cases = {c1, c2}
    MaxRetries = 2
    BatchSize = 1
    TimelyHeartbeats = TRUE
    HandRequeue = TRUE
    MaxFaults = 2
    NoJob = NoJob
    NoMetrics = {none}
SYMMETRY Symmetry
CHECK_DEADLOCK FALSE
INVARIANTS
    TypeOK
    OneExecutor
    NoRework
    SucceededRunComplete
    OrphansOnlyByConfig
    MetricsCoverResults
PROPERTIES
    KeepsPromise
