SPECIFICATION FairSpec
CONSTANTS
    Node <- MCNode
    Link <- MCLink
    Ends <- MCEnds
    Service = {"svc0"}
    Source <- MCSource
    Home <- MCHome
    NodeFaults = {"edge0", "edge1"}
    LinkFaults = {"gw_edge0", "gw_edge1"}
    MemCapacity <- MCMemCapacity
    Baseline = 1
    MaxFootprint = 2
    MaxArrivals = 2
    QueueCap = 1
    ReplicaCap = 2
    RateLimits = {0, 1}
    Unlimited = Unlimited
    MigrationDowntime = 2
    RestartDowntime = 2
    Deltas <- MCDeltas
INVARIANTS
    RequestsConserved
    DownWhilePending
    RouteLeadsToHost
PROPERTIES
    LandsOnWorkingNode
    EffectsComplete
