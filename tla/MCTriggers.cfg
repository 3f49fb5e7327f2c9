SPECIFICATION ClusterSpec
CONSTANTS
    p1 = p1
    p2 = p2
    t1 = t1
    t2 = t2
    c1 = c1
    Null = Null
    Orphan = Orphan
    NoSchedule = NoSchedule
    Processes = {p1}
    Schedules = {c1}
    Ticks = {t1, t2}
    Bounds <- NoMishap
    MaxOccurrences = 1
CHECK_DEADLOCK FALSE
INVARIANTS
    TriggeredOnce
