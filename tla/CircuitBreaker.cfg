\* A client and two compaction chains, any of which may be dropped.
CONSTANTS
    Caller = {c1, k1, k2}
    Chain = {k1, k2}
    FailureThreshold = 2
    SuccessThreshold = 2
    Abandon = TRUE
SPECIFICATION FairSpec
INVARIANTS
    SlotsBounded
    ThresholdsKept
PROPERTIES
    ProbingFollowsOpen
    RecoversWhenHealthy
