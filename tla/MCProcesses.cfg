SPECIFICATION SidesFairSpec
CONSTANTS
    p1 = p1
    p2 = p2
    n1 = n1
    t1 = t1
    c1 = c1
    m1 = m1
    m2 = m2
    Null = Null
    Orphan = Orphan
    NoSchedule = NoSchedule
    Processes = {p1, p2}
    Schedules = {c1}
    Ticks = {t1}
    MaxOccurrences = 1
    WorkerIds = {n1}
    MaxHeartbeats = 2
    Monitors = {m1, m2}
    Alerting = {m1}
    Bounds <- EachMishap
CHECK_DEADLOCK FALSE
INVARIANTS
    ClusterTypeOK
    LeadersRenew
    CronFollowsLeader
    TriggersAreCounted
    ReportsArePaidFor
    ShutdownHolds
    LostAlertsAreReal
PROPERTIES
    LostLockIsNoticed
    GoneIsNoticed
    LossesAreReported
    FalseLossesHeal
    OutageIsAlerted
    AlertIsResolved
