------------------------------ MODULE JobScheduler ------------------------------
(***************************************************************************)
(* The poll loop of JobScheduler.ts: scheduleReadyJobs and                 *)
(* recoverStalledJobs, which run concurrently in one poll.                 *)
(*                                                                         *)
(* Schedulers are poll loops that believe they lead.  There may be several:*)
(* the leader lock can be lost, or bypassed when Redis is down.            *)
(***************************************************************************)
EXTENDS JobRepository, JobQueue

CONSTANTS Schedulers, BatchSize

ASSUME SchedulerAssumption == BatchSize \in Nat \ {0}

VARIABLE sched  \* what the halves of each poll have still to write

(* A row that findStalledJobs returned: a snapshot.                        *)
Snapshot == [job : Jobs, retryCount : Nat]

SchedulerTypeOK ==
    sched \in [Schedulers -> [claimed : SUBSET Jobs, stalled : SUBSET Snapshot]]

Polled == [claimed |-> {}, stalled |-> {}]

SchedulerInit == sched = [s \in Schedulers |-> Polled]

--------------------------------------------------------------------------------
(* scheduleReadyJobs claims a batch ...                                    *)
ClaimBatch(s) ==
    /\ sched[s].claimed = {}
    /\ \E K \in Batches(BatchSize) :
         /\ claimPendingJobs(K)
         /\ sched' = [sched EXCEPT ![s].claimed = K]
    /\ UNCHANGED <<logs, bull, dlq, budget>>

(* ... and adds every claimed job to the queue, in any order.              *)
Enqueue(s, j) ==
    /\ j \in sched[s].claimed
    /\ add(j, j)
    /\ sched' = [sched EXCEPT ![s].claimed = @ \ {j}]
    /\ UNCHANGED <<jobs, logs, dlq, budget>>

(* A mutant of EnqueueFails: the catch block only logs.                    *)
EnqueueFailsSilently(s, j) ==
    /\ j \in sched[s].claimed
    /\ Spend("fault")
    /\ sched' = [sched EXCEPT ![s].claimed = @ \ {j}]
    /\ UNCHANGED <<jobs, logs, bull, dlq>>

(* The add throws: the catch block puts the job back to PENDING.           *)
EnqueueFails(s, j) ==
    /\ j \in sched[s].claimed
    /\ Spend("fault")
    /\ update(j, [Dto EXCEPT !.status = "PENDING"])
    /\ sched' = [sched EXCEPT ![s].claimed = @ \ {j}]
    /\ UNCHANGED <<logs, bull, dlq>>

(* The add throws and so does the revert; allSettled swallows it.          *)
EnqueueAndRevertFail(s, j) ==
    /\ j \in sched[s].claimed
    /\ Spend("outage")
    /\ sched' = [sched EXCEPT ![s].claimed = @ \ {j}]
    /\ UNCHANGED <<jobs, logs, bull, dlq>>

(* recoverStalledJobs reads the stalled rows ...                           *)
FindStalled(s) ==
    /\ sched[s].stalled = {}
    /\ sched' = [sched EXCEPT
                   ![s].stalled = {[job |-> j, retryCount |-> jobs[j].retryCount] :
                                      j \in findStalledJobs}]
    /\ UNCHANGED <<jobs, logs, bull, dlq, budget>>

(* Mutants of RecoveryDto: a recovery that uses up a retry; one that has   *)
(* no branch for an exhausted job.                                         *)
RecoveryDtoCounting(r) ==
    IF r.retryCount < MaxRetries[r.job]
    THEN [Dto EXCEPT !.status = "PENDING", !.retryCount = r.retryCount + 1]
    ELSE [Dto EXCEPT !.status = "FAILED", !.completedAt = "set"]

RecoveryDtoRequeueing(r) ==
    IF r.retryCount < MaxRetries[r.job] THEN [Dto EXCEPT !.status = "PENDING"] ELSE Dto

(* What recoverStalledJobs writes for a row it read.                       *)
RecoveryDto(r) ==
    IF r.retryCount < MaxRetries[r.job]
    THEN [Dto EXCEPT !.status = "PENDING", !.startedAt = Undefined]
    ELSE [Dto EXCEPT !.status = "FAILED", !.completedAt = "set"]

(* ... and writes them one after the other, whatever they are by then.     *)
Recover(s, r) ==
    /\ r \in sched[s].stalled
    /\ update(r.job, RecoveryDto(r))
    /\ sched' = [sched EXCEPT ![s].stalled = @ \ {r}]
    /\ UNCHANGED <<logs, bull, dlq, budget>>

(* A statement of recoverStalledJobs throws: poll() logs it, and the rest  *)
(* of the loop is lost.                                                    *)
RecoverFails(s) ==
    /\ sched[s].stalled # {}
    /\ Spend("fault")
    /\ sched' = [sched EXCEPT ![s].stalled = {}]
    /\ UNCHANGED <<jobs, logs, bull, dlq>>

(* The process dies, and a new one starts with its first poll.             *)
SchedulerCrash(s) ==
    /\ sched[s] # Polled
    /\ Spend("schedulerCrash")
    /\ sched' = [sched EXCEPT ![s] = Polled]
    /\ UNCHANGED <<jobs, logs, bull, dlq>>

--------------------------------------------------------------------------------
(* The halves of a poll.  poll() waits for both before the next poll; but  *)
(* its Promise.all gives up as soon as one half throws while the other     *)
(* goes on, so neither half may count on the other.  The model never makes *)
(* one wait for the other.                                                 *)
scheduleReadyJobs(s)  == ClaimBatch(s) \/ \E j \in Jobs : Enqueue(s, j)
recoverStalledJobs(s) == FindStalled(s) \/ \E r \in sched[s].stalled : Recover(s, r)

SchedulerFails(s) ==
    \/ \E j \in Jobs : EnqueueFails(s, j) \/ EnqueueAndRevertFail(s, j)
    \/ RecoverFails(s)
    \/ SchedulerCrash(s)
================================================================================
