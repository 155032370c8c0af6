\* Two calls of any kind on one server, dropped at any await, registrations racing.
CONSTANTS
    None = None
    Name = {n1}
    Proc = {p1, p2}
    Client = {k1, k2, k3, k4}
    Ops = {"track", "remove", "list", "refresh", "invalidate", "tool", "close_all"}
    Droppable = {"remove", "list", "refresh", "invalidate", "tool", "close_all"}
SPECIFICATION FairSpec
INVARIANTS
    ServerStaysInUse
    CacheFollowsServers
    RegisteredIsHealthy
PROPERTY CallsEnd
