\* Three execute calls and one stream, everything that can go wrong, a queue and a merge that overflow.
CONSTANTS
    Caller = {c1, c2, c3, s1}
    Streams = {s1}
    Impatient = {c3}
    MaxQueue = 2
    MaxMerge = 1
    Blocks = TRUE
    Cancels = TRUE
SPECIFICATION FairSpec
CHECK_DEADLOCK FALSE
INVARIANTS
    OneTurn
    InputsKept
PROPERTIES
    WaitEnds
