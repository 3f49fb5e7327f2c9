SPECIFICATION ClaimsSpec
CONSTANTS
    job1 = job1
    job2 = job2
    job3 = job3
    Jobs = {job1, job2, job3}
    RequireStatus = {"COMPLETED"}
    MaxDependencies = 2
    MaxDrops = 0
    MaxAsked = 2
INVARIANT
    AllDependenciesMet
