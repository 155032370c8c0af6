\* One caller; crashes, failing writes, a queue item and a todo list.
CONSTANTS
    Event = {e1, e2}
    AuxKind = {"todo"}
    Item = {i1}
    Compact = {}
    QItem = {q1}
    Dir = {home}
    DefaultDir = home
    None = None
    Caller = {c1}
    Cwd = {}
    FailAgain = FALSE
    MaxClock = 3
    MaxCrashes = 1
SPECIFICATION Spec
SYMMETRY Symmetry
CHECK_DEADLOCK FALSE
INVARIANTS
    TypeOK
    AckedKept
    ParentsKept
    IndexMirrorsFile
    GivenOnce
