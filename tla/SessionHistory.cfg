\* One fork, overlapping calls, messages whose time lies before their turn.
CONSTANTS
    None = None
    Main = main
    Fork = {side}
    WalkLimit = 4
    MaxNode = 5
    MaxEvent = 5
    MaxCalls = 1
    MaxRounds = 2
    MaxLag = 1
    ForkEmpty = FALSE
SPECIFICATION Spec
CHECK_DEADLOCK FALSE
INVARIANTS
    Valid
    ReplayAgrees
    PairsVisible
PROPERTIES
    DrainShrinks
