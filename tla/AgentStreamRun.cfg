\* Three iterations; hooks, budget, timeouts, invalid output, recoveries, panics, failing saves, a shutdown.
CONSTANTS
    Tool = {t1, s1}
    Serial = {s1}
    MaxIterations = 3
    MaxRetries = 2
    MaxFaults = 1
    FaultKinds = {"error", "invalid", "recover", "panic", "save", "shutdown"}
SPECIFICATION FairSpec
CHECK_DEADLOCK FALSE
INVARIANTS
    CallsAnswered
    SerialAlone
    ToolEventsNest
PROPERTIES
    CompleteIsDurable
    StreamEnds
