----------------------------- MODULE Orchestration -----------------------------
(***************************************************************************)
(* Schedulers, workers, the API and BullMQ working on the same jobs.  Each *)
(* component's action says what it does to the shared tables and queues;   *)
(* here it is conjoined with what it leaves to the other components.       *)
(***************************************************************************)
EXTENDS JobScheduler, WorkerNode, JobService

CONSTANT Slow  \* jobs that may run longer than stalledJobThresholdMs

ASSUME SlowAssumption == Slow \subseteq Jobs

vars == <<jobs, logs, bull, dlq, budget, sched, worker, cancelling, retrying,
          replays>>

TypeOK ==
    /\ EnvironmentTypeOK
    /\ RepositoryTypeOK
    /\ QueueTypeOK
    /\ SchedulerTypeOK
    /\ WorkerTypeOK
    /\ ServiceTypeOK

Init ==
    /\ EnvironmentInit
    /\ RepositoryInit
    /\ QueueInit
    /\ SchedulerInit
    /\ WorkerInit
    /\ ServiceInit

--------------------------------------------------------------------------------
Processing(j) == {w \in Workers : Busy(w) /\ worker[w].job = j}

ScheduleStep(s) == scheduleReadyJobs(s) /\ UNCHANGED <<worker, api>>
RecoverStep(s)  == recoverStalledJobs(s) /\ UNCHANGED <<worker, api>>
WorkerStep(w)   == WorkerRuns(w) /\ UNCHANGED <<sched, api>>

(* stalledJobThresholdMs pass after started_at while the job is RUNNING:   *)
(* because it is slow, or because nobody works on it any more.             *)
JobAges(j) ==
    /\ j \in Slow \/ Processing(j) = {}
    /\ StartedAtAges(j)
    /\ UNCHANGED <<bull, dlq, budget, sched, worker, api>>

JobFallsDue(j) ==
    /\ ScheduledTimeArrives(j)
    /\ UNCHANGED <<bull, dlq, budget, sched, worker, api>>

StallStep(id) == StalledCheck(id) /\ UNCHANGED <<jobs, logs, sched, worker, api>>

Disturbance ==
    \/ \E s \in Schedulers : SchedulerFails(s) /\ UNCHANGED <<worker, api>>
    \/ \E w \in Workers : WorkerFails(w) /\ UNCHANGED <<sched, api>>
    \/ \E id \in BullIds : /\ LockLost(id) \/ Expire(id)
                           /\ UNCHANGED <<jobs, logs, sched, worker, api>>

Next ==
    \/ \E s \in Schedulers : ScheduleStep(s) \/ RecoverStep(s)
    \/ \E w \in Workers : WorkerStep(w)
    \/ ServiceRuns /\ UNCHANGED <<sched, worker>>
    \/ \E j \in Jobs : JobAges(j) \/ JobFallsDue(j)
    \/ \E id \in BullIds : StallStep(id)
    \/ Disturbance

(* The poll timer, the BullMQ worker loop, its stalled check and the clock *)
(* keep going; clients and disturbances owe nothing.  A job's execution    *)
(* ends because JobExecutor races it against its timeout.                  *)
Fairness ==
    /\ \A s \in Schedulers : WF_vars(ScheduleStep(s)) /\ WF_vars(RecoverStep(s))
    /\ \A w \in Workers : WF_vars(WorkerStep(w))
    /\ \A j \in Jobs : WF_vars(JobAges(j)) /\ WF_vars(JobFallsDue(j))
    /\ \A id \in BullIds : WF_vars(StallStep(id))

Spec == Init /\ [][Next]_vars

FairSpec == Spec /\ Fairness

--------------------------------------------------------------------------------
(* Safety.                                                                 *)

(* Two slots work on the same job at the same time only when one of them   *)
(* lost its lock or works on a replayed dead letter: `job_<id>` and the    *)
(* BullMQ lock keep scheduler races, recoveries and retries from doubling  *)
(* an execution.                                                           *)
SingleDelivery ==
    \A j \in Jobs : \A v, w \in Processing(j) :
        \/ v = w
        \/ \E u \in {v, w} : \/ worker[u].bull \in ReplayIds
                             \/ bull[worker[u].bull].lock # u

(* A job is FAILED, by a worker or by the stalled job recovery, only after *)
(* all its retries are used (handleFailure, recoverStalledJobs).           *)
FailedOnlyWhenExhausted ==
    \A j \in Jobs : jobs[j].status = "FAILED" => jobs[j].retryCount = MaxRetries[j]

(* retry_count never runs ahead of the execution logs: every retry that    *)
(* was used up belongs to an execution whose log row was closed as failed  *)
(* or timed out.                                                           *)
RetriesAreLogged ==
    \A j \in Jobs : jobs[j].retryCount <= logs[j]["FAILED"] + logs[j]["TIMED_OUT"]

(* How often an entry may have been delivered again: the disturbances so   *)
(* far, and the replays of the job.                                        *)
Spent(k) == Limits[k] - budget[k]

Replayed(j) ==
    Cardinality({r \in ReplayIds : /\ replays[r].job = j
                                   /\ replays[r].pc \in {"remove", "done"}})

(* A job is executed at most once per submission, crash, failed statement, *)
(* lost lock, expired entry and replay: polls by several schedulers,       *)
(* recoveries of slow jobs, cancels and retries add no execution, because  *)
(* a `job_<id>` that is still known to BullMQ is not added twice.          *)
ExecutionsArePaid ==
    \A j \in Jobs :
        logs[j]["CREATED"] <= 1 + Replayed(j) + Spent("workerCrash")
                                + Spent("fault") + Spent("lockLoss")
                                + Spent("expiry")

(* The slots that work on j and whose execution log row is not closed yet. *)
Logging(j) ==
    {w \in Processing(j) : \/ worker[w].pc \in {"run", "exec", "failure"}
                           \/ worker[w].pc = "save" /\ "log" \in worker[w].todo}

(* A log row of a job stays RUNNING only while the slot that inserted it   *)
(* works on the job, or because that slot crashed or a statement of it     *)
(* threw: lost locks, recoveries, cancels and replays leave no row open,   *)
(* and nobody closes the row of another execution.                         *)
OpenLogsAreExplained ==
    \A j \in Jobs :
        LET open == logs[j]["CREATED"] - logs[j]["COMPLETED"]
                        - logs[j]["FAILED"] - logs[j]["TIMED_OUT"]
            live == Cardinality(Logging(j))
        IN  /\ live <= open
            /\ open <= live + Spent("workerCrash") + Spent("fault")

(* While no scheduler crashes, no revert fails and nothing expires, a      *)
(* QUEUED job is one a scheduler is about to add, or one BullMQ has an     *)
(* entry for.                                                              *)
QueuedHasEntry ==
    \A j \in Jobs :
        jobs[j].status = "QUEUED" =>
            \/ bull[j].state # "none"
            \/ \E s \in Schedulers : j \in sched[s].claimed
            \/ \E k \in {"schedulerCrash", "outage", "expiry"} : Spent(k) > 0

(* The orchestration implements the retry budget.                          *)
Budget == INSTANCE RetryBudget WITH
              used   <- [j \in Jobs |-> jobs[j].retryCount],
              failed <- {j \in Jobs : jobs[j].status = "FAILED"}

ImplementsRetryBudget == Budget!Spec

--------------------------------------------------------------------------------
(* Liveness.                                                               *)

(* No job stays RUNNING: its worker finishes it, or the stalled job        *)
(* recovery does after a crash.                                            *)
RunningSettles ==
    \A j \in Jobs : jobs[j].status = "RUNNING" ~> jobs[j].status # "RUNNING"

(* Every entry the main queue accepts is processed to its end.             *)
DeliveryCompletes ==
    \A id \in BullIds :
        bull[id].state \in {"waiting", "active"}
            ~> bull[id].state \notin {"waiting", "active"}

(* A submitted job is executed, unless it is cancelled or BullMQ gives its *)
(* entry up.                                                               *)
SubmittedIsExecuted ==
    \A j \in Jobs :
        jobs[j].status = "PENDING"
            ~> \/ logs[j]["CREATED"] > 0
               \/ jobs[j].status = "CANCELLED"
               \/ bull[j].state = "failed"

(* Nobody is about to write the row of j on what it read earlier: no slot  *)
(* is past its check for a cancelled job, no poll half or request is under *)
(* way with it.                                                            *)
Quiet(j) ==
    /\ \A w \in Processing(j) : worker[w].pc \in {"start", "ack"}
    /\ \A s \in Schedulers : /\ j \notin sched[s].claimed
                             /\ \A r \in sched[s].stalled : r.job # j
    /\ j \notin cancelling \cup retrying

(* A cancel that meets nobody at work on the job is final, although its    *)
(* entry is still in the queue: whichever slot takes it skips it.  (Where  *)
(* nobody asks for a retry.)                                               *)
CancelHolds ==
    \A j \in Jobs :
        [](jobs[j].status = "CANCELLED" /\ Quiet(j)
             => [](jobs[j].status = "CANCELLED"))
================================================================================
