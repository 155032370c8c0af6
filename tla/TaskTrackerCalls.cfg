\* One call at a time, every fault.
CONSTANTS
    None = None
    Task = {t1, t2}
    Client = {c1}
    Runner = {r1, r2}
    MaxBackground = 1
    MaxInFlight = 1
    Ops = {"background", "cancel", "query"}
    DetachedSaves = FALSE
    PromptAbort = TRUE
    FaultKinds = {"load", "save", "panic", "drop", "crash"}
    MaxFaults = 2
SPECIFICATION Spec
SYMMETRY Symmetry
CHECK_DEADLOCK FALSE
INVARIANTS
    SlotLimit
PROPERTIES
    TerminalIsFinal
    NoFalseOrphan
    CompletingIsKept
    LifecycleSpec
