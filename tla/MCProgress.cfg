SPECIFICATION FairSpec
CONSTANTS
    j1 = j1
    j2 = j2
    w1 = w1
    w2 = w2
    s1 = s1
    s2 = s2
    r1 = r1
    r2 = r2
    Null = Null
    Undefined = Undefined
    Jobs = {j1}
    Workers = {w1, w2}
    Schedulers = {s1}
    ReplayIds = {}
    MaxRetries <- OneRetry
    Priority <- SamePriority
    Limits <- ProgressLimits
    Attempts = 2
    MaxStalledCount = 1
    BatchSize = 1
    JobType <- Pipeline
    Deferrable = {j1}
    Requests = {"cancel"}
    Slow = {j1}
PROPERTIES
    RunningSettles
    DeliveryCompletes
    SubmittedIsExecuted
    CancelHolds
