SPECIFICATION Spec
CONSTANTS
    j1 = j1
    j2 = j2
    w1 = w1
    w2 = w2
    s1 = s1
    s2 = s2
    r1 = r1
    r2 = r2
    Null = Null
    Undefined = Undefined
    Jobs = {j1, j2}
    Workers = {w1, w2}
    Schedulers = {s1, s2}
    ReplayIds = {r1, r2}
    MaxRetries <- OneRetry
    Priority <- HighFirst
    Limits <- JobLimits
    Attempts = 2
    MaxStalledCount = 1
    BatchSize = 1
    JobType <- ReportFirst
    Deferrable = {j2}
    Requests = {"cancel", "retry", "replay"}
    Slow = {j1}
SYMMETRY Symmetry
CONSTRAINT Scenarios
INVARIANTS
    TypeOK
    SingleDelivery
    QueuedHasEntry
    FailedOnlyWhenExhausted
    RetriesAreLogged
    OpenLogsAreExplained
    ExecutionsArePaid
PROPERTIES
    ImplementsRetryBudget
