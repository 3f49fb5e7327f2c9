------------------------------- MODULE WorkerNode -------------------------------
(***************************************************************************)
(* WorkerNode.ts: what one processing slot of a BullMQ worker does with an *)
(* entry it fetched.  A step of processJob or handleFailure is one         *)
(* statement on the database or a queue.  A read whose only effect is on   *)
(* the slot's own next statement is merged with that statement when the    *)
(* statement touches nothing another process reads (the slot's own         *)
(* execution log row).                                                     *)
(***************************************************************************)
EXTENDS JobRepository, JobQueue, JobExecutor

CONSTANT JobType  \* jobs.type, per job

ASSUME JobTypeAssumption == JobType \in [Jobs -> JobTypes]

VARIABLE worker

pcs == {"idle", "start", "run", "exec", "save", "notify",
        "failure", "settle", "dlq", "ack"}

Slot == [pc         : pcs,
         bull       : BullIds \cup {Null},   \* the entry it processes
         job        : Jobs \cup {Null},      \* the entry's data.jobId
         todo       : SUBSET {"job", "log"}, \* writes in flight on success
         errorCode  : Outcomes \cup {Null},
         retryCount : Nat]                   \* as handleFailure read it

WorkerTypeOK == worker \in [Workers -> Slot]

Idle == [pc |-> "idle", bull |-> Null, job |-> Null, todo |-> {},
         errorCode |-> Null, retryCount |-> 0]

WorkerInit == worker = [w \in Workers |-> Idle]

Busy(w) == worker[w].pc # "idle"

goto(w, pc) == worker' = [worker EXCEPT ![w] = [@ EXCEPT !.pc = pc]]

--------------------------------------------------------------------------------
(* BullMQ hands the slot a waiting entry.  The model lets it be any one:   *)
(* BullMQ's order by priority is not relied on.                            *)
Take(w, id) ==
    /\ ~ Busy(w)
    /\ moveToActive(w, id)
    /\ worker' = [worker EXCEPT ![w] = [Idle EXCEPT !.pc = "start", !.bull = id,
                                                    !.job = bull[id].job]]
    /\ UNCHANGED <<jobs, logs, dlq, budget>>

SkipCancelled(w) ==
    /\ worker[w].pc = "start"
    /\ jobs[worker[w].job].status = "CANCELLED"
    /\ goto(w, "ack")
    /\ UNCHANGED <<jobs, logs, bull, dlq, budget>>

(* A mutant of StartProcessing: it does not look at the status.            *)
StartProcessingUnchecked(w) ==
    /\ worker[w].pc = "start"
    /\ createLog(worker[w].job)
    /\ goto(w, "run")
    /\ UNCHANGED <<jobs, bull, dlq, budget>>

(* findById, and the insertion of the slot's execution log row.            *)
StartProcessing(w) ==
    /\ worker[w].pc = "start"
    /\ jobs[worker[w].job].status # "CANCELLED"
    /\ createLog(worker[w].job)
    /\ goto(w, "run")
    /\ UNCHANGED <<jobs, bull, dlq, budget>>

MarkRunning(w) ==
    /\ worker[w].pc = "run"
    /\ update(worker[w].job, [Dto EXCEPT !.status = "RUNNING",
                                         !.startedAt = "recent"])
    /\ goto(w, "exec")
    /\ UNCHANGED <<logs, bull, dlq, budget>>

(* A mutant of Execute: a handler that gives no answer is awaited for ever.*)
ExecuteHanging(w) ==
    /\ worker[w].pc = "exec"
    /\ worker[w].errorCode = Null
    /\ \E o \in execute(JobType[worker[w].job]) :
         worker' = [worker EXCEPT
                      ![w] = IF o = "OK"
                             THEN [@ EXCEPT !.pc = "save", !.todo = {"job", "log"}]
                             ELSE [@ EXCEPT !.errorCode = o]]
    /\ UNCHANGED <<jobs, logs, bull, dlq, budget>>

(* jobExecutor.execute resolves, always, with a success or an error code.  *)
Execute(w) ==
    /\ worker[w].pc = "exec"
    /\ \E o \in execute(JobType[worker[w].job]) :
         worker' = [worker EXCEPT
                      ![w] = IF o = "OK"
                             THEN [@ EXCEPT !.pc = "save", !.todo = {"job", "log"}]
                             ELSE [@ EXCEPT !.pc = "failure", !.errorCode = o]]
    /\ UNCHANGED <<jobs, logs, bull, dlq, budget>>

(* One of the two concurrent writes of the success path lands.             *)
saved(w, write) ==
    worker' = [worker EXCEPT ![w] =
                 [@ EXCEPT !.todo = worker[w].todo \ {write},
                           !.pc = IF worker[w].todo = {write}
                                  THEN "notify" ELSE "save"]]

SaveJob(w) ==
    /\ worker[w].pc = "save"
    /\ "job" \in worker[w].todo
    /\ update(worker[w].job, [Dto EXCEPT !.status = "COMPLETED",
                                         !.completedAt = "set"])
    /\ saved(w, "job")
    /\ UNCHANGED <<logs, bull, dlq, budget>>

SaveLog(w) ==
    /\ worker[w].pc = "save"
    /\ "log" \in worker[w].todo
    /\ completeLog(worker[w].job, "COMPLETED")
    /\ saved(w, "log")
    /\ UNCHANGED <<jobs, bull, dlq, budget>>

(* onJobCompleted reads the job for the metrics.                           *)
Notify(w) ==
    /\ worker[w].pc = "notify"
    /\ goto(w, "ack")
    /\ UNCHANGED <<jobs, logs, bull, dlq, budget>>

(* handleFailure: findById, and the slot's log row is closed.              *)
finalStatus(w) ==
    IF worker[w].errorCode = "JOB_TIMEOUT" THEN "TIMED_OUT" ELSE "FAILED"

(* A mutant of LoadFailure: the row is closed unless it was a timeout.     *)
LoadFailureUnlogged(w) ==
    /\ worker[w].pc = "failure"
    /\ IF finalStatus(w) # "TIMED_OUT"
       THEN completeLog(worker[w].job, finalStatus(w)) ELSE UNCHANGED logs
    /\ worker' = [worker EXCEPT ![w] =
                    [@ EXCEPT !.pc = "settle",
                              !.retryCount = jobs[worker[w].job].retryCount]]
    /\ UNCHANGED <<jobs, bull, dlq, budget>>

LoadFailure(w) ==
    /\ worker[w].pc = "failure"
    /\ completeLog(worker[w].job, finalStatus(w))
    /\ worker' = [worker EXCEPT ![w] =
                    [@ EXCEPT !.pc = "settle",
                              !.retryCount = jobs[worker[w].job].retryCount]]
    /\ UNCHANGED <<jobs, bull, dlq, budget>>

newRetryCount(w) == worker[w].retryCount + 1

(* Mutants of RetriesRemain: one retry too few; one too many.              *)
RetriesRemainStrict(w) == newRetryCount(w) < MaxRetries[worker[w].job]
RetriesRemainLax(w)    == worker[w].retryCount <= MaxRetries[worker[w].job]

RetriesRemain(w) == newRetryCount(w) <= MaxRetries[worker[w].job]

SettleRetrying(w) ==
    /\ worker[w].pc = "settle"
    /\ RetriesRemain(w)
    /\ update(worker[w].job, [Dto EXCEPT !.status = "RETRYING",
                                         !.retryCount = newRetryCount(w),
                                         !.startedAt = Undefined])
    /\ goto(w, "ack")
    /\ UNCHANGED <<logs, bull, dlq, budget>>

SettleFailed(w) ==
    /\ worker[w].pc = "settle"
    /\ ~ RetriesRemain(w)
    /\ update(worker[w].job, [Dto EXCEPT !.status = "FAILED",
                                         !.completedAt = "set"])
    /\ goto(w, "dlq")
    /\ UNCHANGED <<logs, bull, dlq, budget>>

DeadLetter(w) ==
    /\ worker[w].pc = "dlq"
    /\ dlqAdd(worker[w].job)
    /\ goto(w, "ack")
    /\ UNCHANGED <<jobs, logs, bull, budget>>

(* processJob returned, in every case but an exception: BullMQ completes   *)
(* the entry.                                                              *)
Ack(w) ==
    /\ worker[w].pc = "ack"
    /\ moveToCompleted(w, worker[w].bull)
    /\ worker' = [worker EXCEPT ![w] = Idle]
    /\ UNCHANGED <<jobs, logs, dlq, budget>>

(* A statement throws, and processJob with it.                             *)
Throw(w) ==
    /\ worker[w].pc \in pcs \ {"idle", "exec", "ack"}
    /\ Spend("fault")
    /\ moveToFailed(w, worker[w].bull)
    /\ worker' = [worker EXCEPT ![w] = Idle]
    /\ UNCHANGED <<jobs, logs, dlq>>

(* The process dies, or shutdown closes the BullMQ worker by force; a new  *)
(* process starts with an empty slot.                                      *)
Crash(w) ==
    /\ Busy(w)
    /\ Spend("workerCrash")
    /\ releaseLock(w, worker[w].bull)
    /\ worker' = [worker EXCEPT ![w] = Idle]
    /\ UNCHANGED <<jobs, logs, dlq>>

--------------------------------------------------------------------------------
WorkerRuns(w) ==
    \/ \E id \in BullIds : Take(w, id)
    \/ SkipCancelled(w)
    \/ StartProcessing(w)
    \/ MarkRunning(w)
    \/ Execute(w)
    \/ SaveJob(w)
    \/ SaveLog(w)
    \/ Notify(w)
    \/ LoadFailure(w)
    \/ SettleRetrying(w)
    \/ SettleFailed(w)
    \/ DeadLetter(w)
    \/ Ack(w)

WorkerFails(w) == Throw(w) \/ Crash(w)
================================================================================
