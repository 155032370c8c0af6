\* Two callers of one session, on either backend: two messages and two ends,
\* or two queue items; one retry, and one fault (a lost reply, a dropped call,
\* a lease that runs out, expiry).
CONSTANTS
    None = None
    Caller = {c1, c2}
    Msg = {m1, m2}
    Item = {i1, i2}
    Ends = {"Completed", "Failed"}
    Spent = {{m1, m2, "Completed", "Failed"}, {i1, i2}}
    MaxRetries = 1
    MaxFaults = 1
SPECIFICATION Spec
SYMMETRY Symmetry
CHECK_DEADLOCK FALSE
INVARIANTS
    MutationsKept
    LeaseHolds
    HistoryKept
    HandedOnce
PROPERTY EndKept
