\* Every operation overlapping, late aborts, detached saves, for liveness.
CONSTANTS
    None = None
    Task = {t1}
    Client = {c1}
    Runner = {r1}
    MaxBackground = 1
    MaxInFlight = 2
    Ops = {"background", "foreground", "cancel", "query", "list"}
    DetachedSaves = TRUE
    PromptAbort = FALSE
    FaultKinds = {"load", "save", "panic", "crash"}
    MaxFaults = 2
SPECIFICATION FairSpec
CHECK_DEADLOCK FALSE
INVARIANTS
    ErrorExplainsFailure
PROPERTIES
    EveryTaskSettles
    PendingIsRetried
