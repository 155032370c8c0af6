\* Two runs, of one agent or of two, and a budget replaced while they go on.
CONSTANTS
    None = None
    Agent = {a1, a2}
    Run = {r1, r2}
    Budget = {b1, b2}
    Limit = 2
    TenantLimit = 2
    TenantPolicy = "Stop"
    MaxCost = 2
    MaxDrift = 1
    MaxInner = 1
SPECIFICATION Spec
SYMMETRY Symmetry
INVARIANTS
    SessionBound
    TenantBound
