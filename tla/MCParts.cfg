SPECIFICATION PartsFairSpec
CONSTANTS
    p1 = p1
    p2 = p2
    v1 = v1
    v2 = v2
    v3 = v3
    k1 = k1
    k2 = k2
    job1 = job1
    job2 = job2
    job3 = job3
    Null = Null
    Orphan = Orphan
    Nothing = Nothing
    Processes = {p1, p2}
    Bounds <- EachMishap
    MaxCampaigns = 2
    minWorkers = 1
    maxWorkers = 3
    scaleUpThreshold = 2
    scaleDownThreshold = 1
    Depths = {0, 2, 5, 20}
    Checks = {k1, k2}
    Fleet <- ThreeWorkers
    maxConcurrency <- Capacities
    JobTypes <- TwoTypes
    Capable <- CapableOf
    Matching <- MatchingTo
    Statuses = {"ONLINE", "DRAINING"}
    Items <- FourItems
    MaxHeap = 6
    Jobs = {job1, job2, job3}
    RequireStatus = {"COMPLETED"}
    MaxDependencies = 2
    MaxDrops = 1
    MaxAsked = 2
CHECK_DEADLOCK FALSE
INVARIANTS
    PartsTypeOK
    SquattersAreKnown
    PoolBounds
    TurnsAreFair
    SelectionIsBest
    GraphCyclesAreFound
    SortRespectsDependencies
    UnblockedInOrder
PROPERTIES
    SomeoneLeads
    StaleLeadersStepDown
    NodesAreCurrent
    ImplementsPriorityBag
