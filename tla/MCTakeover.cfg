SPECIFICATION ClusterFairSpec
CONSTANTS
    p1 = p1
    p2 = p2
    t1 = t1
    t2 = t2
    c1 = c1
    Null = Null
    Orphan = Orphan
    NoSchedule = NoSchedule
    Processes = {p1, p2}
    Schedules = {c1}
    Ticks = {t1}
    Bounds <- OneCrash
    MaxOccurrences = 0
CHECK_DEADLOCK FALSE
PROPERTIES
    FollowersTakeOver
