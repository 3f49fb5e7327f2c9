----------------------------- MODULE JobRepository -----------------------------
(***************************************************************************)
(* The PostgreSQL tables `jobs` and `execution_logs`, and the statements   *)
(* JobRepository.ts and ExecutionRepository.ts run on them.  One statement *)
(* is one atomic operator; what a process does between two statements is   *)
(* left to the modules that call them.                                     *)
(*                                                                         *)
(* A row keeps the columns the control flow reads: the status, the retry   *)
(* count and three timestamps reduced to what queries compare them with.   *)
(***************************************************************************)
EXTENDS Integers, FiniteSets, Environment

CONSTANTS
    MaxRetries,  \* jobs.max_retries, per job
    Priority,    \* 1 (CRITICAL) .. 5 (BACKGROUND), per job
    Undefined    \* JavaScript's undefined in an UpdateJobDto

JobStatus == {"PENDING", "QUEUED", "RUNNING", "COMPLETED", "FAILED",
              "RETRYING", "CANCELLED", "TIMED_OUT", "SKIPPED"}

StartedAt == {"null", "recent", "stale"}  \* against stalledJobThresholdMs

ASSUME JobsAssumption ==
    /\ MaxRetries \in [Jobs -> Nat]
    /\ Priority \in [Jobs -> 1..5]
    /\ Undefined \notin Nat
    /\ Undefined \notin JobStatus \cup StartedAt \cup {"set"}

VARIABLES
    jobs,  \* the table `jobs`; status ABSENT: not inserted yet
    logs   \* per job, rows of `execution_logs` inserted, and closed as ...

Row == [status      : JobStatus \cup {"ABSENT"},
        retryCount  : Nat,
        startedAt   : StartedAt,
        completedAt : {"null", "set"},
        scheduledAt : {"due", "future"}]

LogRows == {"CREATED", "COMPLETED", "FAILED", "TIMED_OUT"}

RepositoryTypeOK ==
    /\ jobs \in [Jobs -> Row]
    /\ logs \in [Jobs -> [LogRows -> Nat]]

RepositoryInit ==
    /\ jobs = [j \in Jobs |->
                 [status |-> "ABSENT", retryCount |-> 0, startedAt |-> "null",
                  completedAt |-> "null", scheduledAt |-> "due"]]
    /\ logs = [j \in Jobs |-> [k \in LogRows |-> 0]]

--------------------------------------------------------------------------------
(* The dto of an update that sets nothing; a caller overrides fields.      *)
Dto == [status |-> Undefined, retryCount |-> Undefined,
        startedAt |-> Undefined, completedAt |-> Undefined]

(* toRow leaves a column out of the UPDATE when the dto's value is         *)
(* undefined, so undefined keeps the column and cannot clear it.           *)
toRow(value, column) == IF value = Undefined THEN column ELSE value

(* A mutant of updated: the dates of the dto are written as they are.      *)
updatedVerbatim(row, dto) ==
    [row EXCEPT !.status = toRow(dto.status, row.status),
                !.retryCount = toRow(dto.retryCount, row.retryCount),
                !.startedAt = dto.startedAt,
                !.completedAt = dto.completedAt]

updated(row, dto) ==
    [status      |-> toRow(dto.status, row.status),
     retryCount  |-> toRow(dto.retryCount, row.retryCount),
     startedAt   |-> toRow(dto.startedAt, row.startedAt),
     completedAt |-> toRow(dto.completedAt, row.completedAt),
     scheduledAt |-> row.scheduledAt]

update(j, dto) == jobs' = [jobs EXCEPT ![j] = updated(@, dto)]

create(j, at) ==
    jobs' = [jobs EXCEPT ![j] = [@ EXCEPT !.status = "PENDING", !.scheduledAt = at]]

(* What claimPendingJobs selects from: due and not yet claimed.            *)
Claimable == {j \in Jobs : /\ jobs[j].status = "PENDING"
                           /\ jobs[j].scheduledAt = "due"}

(* The sets ORDER BY priority ... LIMIT may return: as many as the limit   *)
(* allows, none left behind for a lower priority.                          *)
Batches(limit) ==
    {K \in SUBSET Claimable :
        /\ Cardinality(K) <= limit
        /\ K # Claimable => Cardinality(K) = limit
        /\ \A k \in K, j \in Claimable \ K : Priority[k] <= Priority[j]}

(* A mutant of claimPendingJobs: the caller slices what RETURNING gave it  *)
(* to the limit, which no longer bounds what the UPDATE wrote.             *)
claimAllPendingJobs(K) ==
    jobs' = [j \in Jobs |-> IF K # {} /\ j \in Claimable
                            THEN [jobs[j] EXCEPT !.status = "QUEUED"] ELSE jobs[j]]

(* The UPDATE ... RETURNING of claimPendingJobs: K turns QUEUED.           *)
claimPendingJobs(K) ==
    jobs' = [j \in Jobs |-> IF j \in K THEN [jobs[j] EXCEPT !.status = "QUEUED"]
                                       ELSE jobs[j]]

findStalledJobs == {j \in Jobs : /\ jobs[j].status = "RUNNING"
                                 /\ jobs[j].startedAt = "stale"}

(* ExecutionRepository: insert a RUNNING row; close a row with a status.   *)
createLog(j)           == logs' = [logs EXCEPT ![j]["CREATED"] = @ + 1]
completeLog(j, status) == logs' = [logs EXCEPT ![j][status] = @ + 1]

--------------------------------------------------------------------------------
(* Time passes: a scheduled_at is reached; a started_at falls behind the   *)
(* stalled threshold.                                                      *)
ScheduledTimeArrives(j) ==
    /\ jobs[j].scheduledAt = "future"
    /\ jobs' = [jobs EXCEPT ![j].scheduledAt = "due"]
    /\ UNCHANGED logs

StartedAtAges(j) ==
    /\ jobs[j].status = "RUNNING"
    /\ jobs[j].startedAt = "recent"
    /\ jobs' = [jobs EXCEPT ![j].startedAt = "stale"]
    /\ UNCHANGED logs
================================================================================
