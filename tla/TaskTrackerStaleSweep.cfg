\* A poll overlaps the report of the agent.
CONSTANTS
    None = None
    Task = {t1, t2}
    Client = {c1}
    Runner = {r1, r2}
    MaxBackground = 1
    MaxInFlight = 2
    Ops = {"background", "query"}
    DetachedSaves = FALSE
    PromptAbort = TRUE
    FaultKinds = {}
    MaxFaults = 0
SPECIFICATION Spec
SYMMETRY Symmetry
CHECK_DEADLOCK FALSE
PROPERTIES
    TerminalIsFinal
